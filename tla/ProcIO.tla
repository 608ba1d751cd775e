------------------------------- MODULE ProcIO -------------------------------
(***************************************************************************)
(* The stdio stream of local/procio.c over a file of /proc/sys.            *)
(*                                                                         *)
(* A reader gets the file through proc_read, which reads into the cookie's *)
(* buffer until a read returns nothing and starts over with a larger       *)
(* buffer when one was filled.  A writer hands its text over in the pieces *)
(* that stdio chooses; proc_write keeps them until one holds a newline,    *)
(* writes the whole buffer, and splits it at the delimiter when the kernel *)
(* refuses that.  Each read and each write of the kernel's file is a step. *)
(* Text is a sequence of characters: CHAR, DELIM and NL.                   *)
(***************************************************************************)
EXTENDS Integers, Sequences, SequencesExt, FiniteSets

CONSTANTS BUFSIZ,     \* the cookie's first buffer and its growth
          LINELEN,    \* the longest line that a split produces
          MaxText,    \* bound: length of a file or of a value
          Counts      \* the sizes stdio asks proc_read for

ASSUME PioAssumption == /\ {BUFSIZ, LINELEN, MaxText} \subseteq Nat \ {0}
                        /\ Counts \subseteq Nat \ {0}

VARIABLES pmode,      \* "closed", "r", "w", in a call "fill" or "split", or "done"
          pfile,      \* the kernel's side of the file
          cookie,     \* struct pcookie
          pcall,      \* the call under way: its count, and the buffer written so far
          pcaller     \* what the user of the stream did and was told

pvars == <<pmode, pfile, cookie, pcall, pcaller>>

CHAR == "c"
DELIM == ","
NL == "n"

Texts == UNION {[1..n -> {CHAR, DELIM}] : n \in 0..MaxText}

\* The characters of s at the places from + 1 .. from + n.
Slice(s, from, n) == SubSeq(s, from + 1, from + n)

\* memrchr: the last place of c among the first n of s, 0 for none.
LastOf(s, c, n) ==
  LET at == {i \in 1..n : i <= Len(s) /\ s[i] = c}
  IN IF at = {} THEN 0 ELSE CHOOSE i \in at : \A j \in at : j <= i
------------------------------------------------------------------------------
(* The kernel: read gives some of what follows the position, all that fits *)
(* unless it is cut.  A write of more than limit characters is refused     *)
(* with EINVAL; any other is taken whole and continues the value, the      *)
(* newline of the one before read as DELIM.                                *)

\* cut is history: since the file was last read from its start, some read gave
\* less than it could have.
ProcFile(text, limit) ==
  [text |-> text, pos |-> 0, cut |-> FALSE, limit |-> limit, value |-> <<>>, lines |-> {}]

Takes(piece) ==
  [pfile EXCEPT !.value = (IF @ = <<>> THEN <<>> ELSE Append(Front(@), DELIM)) \o piece,
                !.lines = @ \cup {piece}]

PInit == /\ pmode = "closed"
         /\ \E t \in Texts, l \in {LINELEN, LINELEN + 1, 2 * MaxText} : pfile = ProcFile(t, l)
         /\ cookie = [buf |-> <<>>, count |-> 0, length |-> 0, offset |-> 0, final |-> FALSE]
         /\ pcall = [count |-> 0, at |-> 0]
         /\ pcaller = [text |-> <<>>, got |-> <<>>, res |-> 0]

\* A writer's text is a value and the newline that WriteSetting prints after it.
fprocopen(mode) ==
  /\ pmode = "closed"
  /\ pmode' = mode
  /\ cookie' = [buf |-> <<>>, count |-> BUFSIZ, length |-> 0, offset |-> 0, final |-> FALSE]
  /\ IF mode = "w"
     THEN /\ pcaller' = [pcaller EXCEPT !.text = Append(pfile.text, NL)]
          /\ pfile' = [pfile EXCEPT !.text = <<>>]
     ELSE UNCHANGED <<pfile, pcaller>>
  /\ UNCHANGED pcall

------------------------------------------------------------------------------
Least(a, b) == IF a < b THEN a ELSE b

\* proc_read up to its loop.
proc_read(count) ==
  /\ pmode = "r"
  /\ pcaller.res # -1
  /\ pmode' = "fill"
  /\ cookie' = [cookie EXCEPT !.count = IF @ < count THEN count ELSE @]
  /\ pcall' = [count |-> count, at |-> 0]
  /\ UNCHANGED <<pfile, pcaller>>

\* What a read can give, and what one may give: nothing at the end only.
Readable == Least(cookie.count, Len(pfile.text) - pfile.pos)
ReadSizes == IF Readable = 0 THEN {0} ELSE 1..Readable

\* A round of the loop: a buffer that was filled is likely too small, so the
\* file is read again from its start into a larger one.  What a read gives goes
\* to the start of the buffer, whatever is there.
fill ==
  /\ pmode = "fill"
  /\ ~cookie.final
  /\ \E n \in ReadSizes :
       LET full == n = cookie.count
       IN /\ cookie' = IF n = 0 THEN [cookie EXCEPT !.final = TRUE]
                       ELSE [cookie EXCEPT !.buf = Slice(pfile.text, pfile.pos, n), !.length = n,
                                           !.count = IF full THEN @ + BUFSIZ ELSE @]
          /\ pfile' = [pfile EXCEPT !.pos = IF full THEN 0 ELSE @ + n,
                                    !.cut = ~full /\ (@ \/ n < Readable)]
  /\ UNCHANGED <<pmode, pcall, pcaller>>

\* The read fails.
fill_fails ==
  /\ pmode = "fill"
  /\ ~cookie.final
  /\ pmode' = "r"
  /\ pcaller' = [pcaller EXCEPT !.res = -1]
  /\ UNCHANGED <<pfile, cookie, pcall>>

\* The rest of proc_read: the next characters of the buffer, EOF for none.
filled ==
  /\ pmode = "fill"
  /\ cookie.final
  /\ pmode' = "r"
  /\ LET n == Least(cookie.length - cookie.offset, pcall.count)
     IN /\ cookie' = [cookie EXCEPT !.offset = @ + n]
        /\ pcaller' = [pcaller EXCEPT !.got = @ \o Slice(cookie.buf, cookie.offset, n),
                                      !.res = IF n = 0 THEN -1 ELSE n]
  /\ UNCHANGED <<pfile, pcall>>

------------------------------------------------------------------------------
\* stdio hands over the next n characters of the writer's text.
proc_write(n) ==
  /\ pmode = "w"
  /\ pcaller.res >= 0
  /\ Len(cookie.buf) + n <= Len(pcaller.text)
  /\ LET given == Slice(pcaller.text, Len(cookie.buf), n)
         buf == cookie.buf \o given
         final == NL \in ToSet(given)
         whole == Len(buf) <= pfile.limit
     IN /\ cookie' = [cookie EXCEPT !.buf = buf, !.offset = Len(buf), !.final = final,
                                    !.count = IF @ < Len(buf) THEN @ + n ELSE @]
        /\ pfile' = IF final /\ whole THEN Takes(buf) ELSE pfile
        /\ IF final /\ ~whole THEN pmode' = "split" /\ UNCHANGED pcaller
           ELSE pmode' = "w" /\ pcaller' = [pcaller EXCEPT !.res = n]
  /\ pcall' = [count |-> n, at |-> 0]

\* Where the next piece of the split ends, 0 when there is no such place.
CutAt(rest, reach) ==
  IF cookie.offset > LINELEN THEN LastOf(rest, DELIM, reach) ELSE LastOf(rest, NL, cookie.offset)

\* A split that looks one character too far.
CutLong(rest) == CutAt(rest, LINELEN + 1)

Cut(rest) == CutAt(rest, LINELEN)

\* A round of the split: a newline goes where the piece ends, and the piece is
\* written; the call ends with the last one, or when a piece cannot be made or
\* is refused.
split ==
  /\ pmode = "split"
  /\ LET at == pcall.at
         cut == Cut(SubSeq(cookie.buf, at + 1, Len(cookie.buf)))
         piece == Append(Slice(cookie.buf, at, cut - 1), NL)
         ok == cut # 0 /\ Len(piece) <= pfile.limit
         last == ok /\ cut >= cookie.offset
     IN /\ pfile' = IF ok THEN Takes(piece) ELSE pfile
        /\ cookie' = [cookie EXCEPT
             !.buf = IF cut = 0 THEN @ ELSE [@ EXCEPT ![at + cut] = NL],
             !.offset = IF ok /\ ~last THEN @ - cut ELSE @]
        /\ pcall' = [pcall EXCEPT !.at = IF ok /\ ~last THEN at + cut ELSE at]
        /\ pmode' = IF ok /\ ~last THEN "split" ELSE "w"
        /\ pcaller' = [pcaller EXCEPT !.res = IF last THEN pcall.count ELSE IF ok THEN @ ELSE -1]

proc_close ==
  /\ pmode \in {"r", "w"}
  /\ \/ pcaller.res = -1
     \/ pmode = "w" /\ Len(cookie.buf) = Len(pcaller.text)
  /\ pmode' = "done"
  /\ UNCHANGED <<pfile, cookie, pcall, pcaller>>

PNext == \/ \E mode \in {"r", "w"} : fprocopen(mode)
         \/ \E n \in Counts : proc_read(n) \/ proc_write(n)
         \/ fill \/ fill_fails \/ filled \/ split
         \/ proc_close

PSpec == PInit /\ [][PNext]_pvars
------------------------------------------------------------------------------
PTypeOK ==
  /\ pmode \in {"closed", "r", "w", "fill", "split", "done"}
  /\ cookie \in [buf : Seq({CHAR, DELIM, NL}), count : Nat, length : Nat, offset : Nat,
                 final : BOOLEAN]
  /\ pcall \in [count : Counts \cup {0}, at : Nat]
  /\ pcaller.res \in Nat \cup {-1}

\* What the calls store is inside the buffer: the file with the zero after it,
\* the writer's text, and the newline that ends a piece (the reallocs of
\* proc_read and proc_write).
BufferHolds ==
  /\ pmode # "closed" => Len(cookie.buf) <= cookie.count
  /\ (cookie.final /\ pcaller.text = <<>>) => cookie.length < cookie.count
  /\ pmode = "split" => pcall.at + cookie.offset = Len(cookie.buf)

\* A reader who was told that the file ends has got the last characters of it,
\* in order, whatever the sizes it asked for and however often the buffer was
\* too small; it has got all of them just when no read of the last attempt was
\* cut, and something of a file that is not empty (the loop of proc_read).
ReadWhole ==
  (pmode = "done" /\ cookie.final /\ pcaller.text = <<>>) =>
     \E k \in 0 .. Len(pfile.text) :
       /\ pcaller.got = Slice(pfile.text, k, Len(pfile.text) - k)
       /\ k > 0 <=> pfile.cut
       /\ k > 0 => k < Len(pfile.text)

\* A writer who was told of no error wrote its whole value: the pieces that
\* the kernel took, joined by the delimiter, are the text, whatever the sizes
\* stdio handed it over in (the accumulation and the split of proc_write).
WroteWhole ==
  (pmode = "done" /\ pcaller.text # <<>> /\ pcaller.res # -1) => pfile.value = pcaller.text

\* A value that the kernel refuses as a whole reaches it in lines of at most
\* LINELEN characters, each ending in the only newline it holds.
PiecesFit ==
  \A piece \in pfile.lines :
     /\ Len(pcaller.text) > pfile.limit => Len(piece) <= LINELEN
     /\ \A j \in 1 .. Len(piece) : piece[j] = NL <=> j = Len(piece)

\* A stream reads the file whole unless a read is cut, and then its end, and
\* writes its buffer whole, in order, in pieces that fit and without leaving the
\* buffer (proc_read, proc_write).
StreamWhole == PTypeOK /\ BufferHolds /\ ReadWhole /\ PiecesFit /\ WroteWhole
=============================================================================
