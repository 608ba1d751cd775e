------------------------------ MODULE PsLayout ------------------------------
(***************************************************************************)
(* How ps lays out a line, from check_header_width and show_one_proc of      *)
(* output.c: a heading line and then one row, column by column.  A column    *)
(* that is too wide pushes the next ones to the right until padding makes up  *)
(* for it.  Only the lengths of the texts are kept.                           *)
(***************************************************************************)
EXTENDS Integers, Sequences

CONSTANTS screen_cols,   \* width of the terminal
          OutbufSize,    \* OUTBUF_SIZE: room for one text; lines get no wider than half of it
          SPACE_AMOUNT,  \* blanks kept in front of the buffer
          Texts,         \* the lengths of headings, and of texts nothing cuts
          Columns,       \* the columns there are: [width, just, pr]
          MaxColumns     \* bound: columns of a line

(* Widths are positive (the user's too), and filler between columns, which    *)
(* has no function to print it, is what has no side.                          *)
Sides == {"LEFT", "RIGHT", "UNLIMITED", "WCHAN", "SIGNAL", "AIX"}

ASSUME LayoutAssumption ==
  /\ screen_cols \in Nat \ {0} /\ OutbufSize \in Nat \ {0} /\ SPACE_AMOUNT \in Nat \ {0}
  /\ Texts \subseteq 0..(OutbufSize - 1)
  /\ Columns \subseteq {c \in [width : Nat \ {0}, just : Sides, pr : BOOLEAN] : c.pr <=> c.just # "AIX"}
  /\ MaxColumns \in Nat

VARIABLES cols,      \* format_list, of Columns
          delimited, \* --delimiter is given
          line,      \* "heading", "row" or "end"
          at,        \* columns written of this line
          pos,       \* [correct, actual, dospace]
          written    \* [heading, row]: where each column begins and ends

layoutVars == <<cols, delimited, line, at, pos, written>>

Origin == [correct |-> 0, actual |-> 0, dospace |-> 0]

(* What column i adds to the width of a line: itself, and a blank between it  *)
(* and the one before when neither is filler.                                 *)
BlankBefore(cs, i) == IF i > 1 /\ cs[i].just # "AIX" /\ cs[i - 1].just # "AIX" THEN 1 ELSE 0
Needs(cs, i) == BlankBefore(cs, i) + IF cs[i].just = "UNLIMITED" /\ i = Len(cs) THEN 3 ELSE cs[i].width

(* The totals of a sequence of numbers as they grow. *)
Running(f) == LET sum[i \in 0..Len(f)] == IF i = 0 THEN 0 ELSE sum[i - 1] + f[i] IN sum

Widths(cs) == Running([i \in 1..Len(cs) |-> Needs(cs, i)])
Sigs(cs) == Running([i \in 1..Len(cs) |-> IF cs[i].just = "SIGNAL" THEN 1 ELSE 0])
Total(cs) == Widths(cs)[Len(cs)]

(* The columns in use: the smallest multiple of the screen's that is enough,  *)
(* or that reaches half the buffer.                                           *)
Enough(cs, n) == screen_cols * n >= Total(cs) \/ screen_cols * n >= OutbufSize \div 2
Multiple(cs) == CHOOSE n \in 1..(Total(cs) + 1) : Enough(cs, n) /\ \A m \in 1..(n - 1) : ~Enough(cs, m)

active_cols(cs) == screen_cols * Multiple(cs)

wide_signals(cs) == Total(cs) + 7 * Sigs(cs)[Len(cs)] <= active_cols(cs)

LayoutInit ==
  /\ cols \in UNION {[1..n -> Columns] : n \in 1..MaxColumns}
  /\ delimited \in BOOLEAN
  /\ line = "heading"
  /\ at = 0
  /\ pos = Origin
  /\ written = [heading |-> <<>>, row |-> <<>>]

(* What is left of the line for the last column.                              *)
RoomLeft == active_cols(cols) - IF pos.correct - pos.actual < 1 THEN pos.actual + pos.dospace ELSE pos.correct

(* Room for the text of a column, which is cut to it when its width is        *)
(* unlimited: its own width, or what is left of the line for the last.  It is *)
(* unsigned: less than nothing left is as much as there can be.               *)
MaxRightward(i) ==
  IF i < Len(cols) THEN cols[i].width
  ELSE IF RoomLeft < 0 \/ RoomLeft >= OutbufSize THEN OutbufSize - 1 ELSE RoomLeft

(* The texts a column can have: filler is its own width, headings are not cut. *)
Amounts(i) ==
  CASE ~cols[i].pr -> {cols[i].width}
    [] cols[i].pr /\ line = "row" /\ cols[i].just = "UNLIMITED" ->
         {IF t < MaxRightward(i) THEN t ELSE MaxRightward(i) : t \in Texts}
    [] OTHER -> Texts

(* Of a text that would begin right at the end of the line one character is   *)
(* printed; the test is unsigned too, and beyond the end nothing is cut.      *)
Lost(i) ==
  /\ cols[i].just \in {"UNLIMITED", "WCHAN"}
  /\ (IF i < Len(cols) THEN active_cols(cols) - pos.actual ELSE RoomLeft) = 0

TextShown(i, amount) == IF Lost(i) /\ amount > 1 THEN 1 ELSE amount

(* The field a text is set in, and how far the line moves on for it.          *)
Field(cs, i) == IF cs[i].just = "SIGNAL" THEN IF wide_signals(cs) THEN 16 ELSE 9 ELSE cs[i].width
Advance(cs, i) == cs[i].width + IF cs[i].just = "SIGNAL" /\ wide_signals(cs) THEN 7 ELSE 0

LeftPad(i, amount) ==
  IF cols[i].just \in {"RIGHT", "SIGNAL"} /\ Field(cols, i) > amount THEN Field(cols, i) - amount ELSE 0

Space_RunTogether(i, amount) ==
  LET need == pos.correct - pos.actual + LeftPad(i, amount)
      space == IF delimited THEN pos.dospace ELSE IF need < 1 THEN 0 ELSE need
  IN  IF space > SPACE_AMOUNT THEN SPACE_AMOUNT ELSE space

Space(i, amount) ==
  LET need == pos.correct - pos.actual + LeftPad(i, amount)
      space == IF need < 1 \/ delimited THEN pos.dospace ELSE need
  IN  IF space > SPACE_AMOUNT THEN SPACE_AMOUNT ELSE space

(* The next column is kept apart from this one: neither is filler. *)
Spaced(i) == IF i < Len(cols) /\ cols[i].pr /\ cols[i + 1].pr THEN 1 ELSE 0

ShowColumn ==
  /\ line # "end" /\ at < Len(cols)
  /\ LET i == at + 1
     IN  \E amount \in Amounts(i) :
           LET start == pos.actual + Space(i, amount)
           IN  /\ written' = [written EXCEPT ![line] =
                                Append(@, [start |-> start, end |-> start + TextShown(i, amount)])]
               /\ pos' = [actual |-> start + amount,
                          correct |-> pos.correct + Advance(cols, i) + Spaced(i),
                          dospace |-> Spaced(i)]
  /\ at' = at + 1
  /\ UNCHANGED <<cols, delimited, line>>

NextLine ==
  /\ line # "end" /\ at = Len(cols)
  /\ line' = IF line = "heading" THEN "row" ELSE "end"
  /\ at' = 0
  /\ pos' = Origin
  /\ UNCHANGED <<cols, delimited, written>>

LayoutNext == ShowColumn \/ NextLine

LayoutSpec == LayoutInit /\ [][LayoutNext]_layoutVars

-----------------------------------------------------------------------------
(* A text of a line fits when it is no longer than its field, and its field   *)
(* no wider than the room the line gives it.                                  *)
Fits(cs, w, i) == w[i].end - w[i].start <= Field(cs, i) /\ Field(cs, i) <= Advance(cs, i)

(* All columns fit the columns in use (they always do below half the buffer), *)
(* and padding never needs more blanks than there are.                        *)
Roomy(cs) == Total(cs) <= active_cols(cs)
Padded(cs) == \A i \in 1..Len(cs) :
                Field(cs, i) + (IF i > 1 THEN Advance(cs, i - 1) + 1 ELSE 0) <= SPACE_AMOUNT

(* A column stands under its heading as soon as the texts before it fit, in   *)
(* the heading and in the row: at the left edge, or at the right edge for     *)
(* columns that are set to the right.                                         *)
Aligned ==
  line = "end" /\ ~delimited /\ Roomy(cols) /\ Padded(cols) =>
    \A i \in 1..Len(cols) :
      (\A j \in 1..i : Fits(cols, written.heading, j) /\ Fits(cols, written.row, j)) =>
        IF cols[i].just \in {"RIGHT", "SIGNAL"} THEN written.row[i].end = written.heading[i].end
        ELSE written.row[i].start = written.heading[i].start

(* Two columns never run together: at least one space or delimiter is between *)
(* them, unless text of the user separates them, and no text is written over. *)
ColumnsApart ==
  \A l \in {"heading", "row"} : \A i \in 1..(Len(written[l]) - 1) :
    written[l][i + 1].start >= written[l][i].end + IF cols[i].pr /\ cols[i + 1].pr THEN 1 ELSE 0

(* A row whose last column is unlimited never exceeds the columns in use, as  *)
(* long as the columns before it end within them; nor does a heading whose    *)
(* texts fit, if the last is within the three columns kept for it.            *)
LineFits ==
  \A l \in {"heading", "row"} :
    LET n == Len(cols) w == written[l]
    IN  /\ Len(w) = n /\ n > 1 /\ cols[n].just = "UNLIMITED" /\ Roomy(cols) /\ w[n - 1].end < active_cols(cols)
        /\ \/ l = "row"
           \/ ~delimited /\ Padded(cols) /\ (\A j \in 1..n : Fits(cols, w, j)) /\ w[n].end - w[n].start <= 3
        => w[n].end <= active_cols(cols)

(* A line keeps to its columns, keeps them apart and fits the screen          *)
(* (show_one_proc, check_header_width).                                       *)
LinesLaidOut == Aligned /\ ColumnsApart /\ LineFits

=============================================================================
