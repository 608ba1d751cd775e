----------------------------- MODULE ScreenProofs ------------------------------
(****************************************************************************)
(* Proofs about what programs put on the screen: Watch, for every output,   *)
(* duration, interval, size of the terminal and set of options, and for     *)
(* keys and SIGWINCH at any time; and PsLayout, for every format, width of  *)
(* the screen and length of texts.                                          *)
(*                                                                          *)
(* Watch's invariant has one part per thing that main's loop keeps: what     *)
(* age and gap are at each place (PaceInv); that the screen has the         *)
(* characters of the last output, highlighted where they have changed,      *)
(* until the size changes, and first_screen the mark of such a change       *)
(* (ScreenInv); that cycle_count is one ahead of the equal runs there were  *)
(* (CountInv); that names of screenshots grow (ShotInv); which colours may  *)
(* be asked for and are on the screen, and that a run begins with none      *)
(* (ColorInv).  Of the layout of an output, a fold, the first parts use     *)
(* only that it fills the rows (LayoutIs); ColorInv follows it step by step,*)
(* by an induction over the output (LayoutKeeps).                           *)
(*                                                                          *)
(* PsLayout's invariant (LInv) says where the line is between two columns   *)
(* (Coming): correct is the place that the totals of check_header_width     *)
(* give to the next column, and actual the end of the last one.             *)
(****************************************************************************)
EXTENDS Watch, PsLayout, WellFoundedInduction, TLAPS

\* A set of numbers with a largest one.
Bounded(S) == S \subseteq Int /\ \E m \in S : \A n \in S : n <= m

\* Tokens as they come from the command: the numbers of a colour sequence are
\* a sequence.
Tokens(Tok, Num) == \A t \in Tok : t.n \in Seq(Num)

\* What is assumed of the constants: commands print tokens and take time, the
\* interval is a time, -q has been made at least 1, and the rows of a terminal
\* are numbers.
Sane ==
  /\ \E Tok, Num : Tokens(Tok, Num) /\ Outputs \subseteq Seq(Tok)
  /\ Interval \in Nat /\ Durations \subseteq Nat /\ Bounded(Durations)
  /\ max_cycles \in Nat \ {0}
  /\ Bounded(Rows) /\ \A c \in Calls : c.rows \in Rows

\* The largest number of a set.
LEMMA MaxIs ==
  ASSUME NEW S, Bounded(S)
  PROVE  Max(S) \in S /\ Max(S) \in Int /\ \A n \in S : n <= Max(S)
<1>1. PICK m \in S : \A n \in S : n <= m
  BY DEF Bounded
<1> QED
  BY <1>1 DEF Bounded, Max

\* The smaller of two numbers.
LEMMA MinIs ==
  ASSUME NEW a \in Int, NEW b \in Int
  PROVE  Min({a, b}) = IF a <= b THEN a ELSE b
<1>1. \E x \in {a, b} : \A y \in {a, b} : x <= y
  OBVIOUS
<1> QED
  BY <1>1 DEF Min

--------------------------------------------------------------------------------
(* Time.                                                                    *)

Precise == "PRECISE" \in opts

ShownFields == {"chars", "equal", "resized", "dur", "fresh", "plain", "marks", "same"}

\* The time from the beginning of a run to the moment that age counts from.
Ahead == IF Precise THEN 0 ELSE shown.dur

\* How old a run is, from its end to the next run.
PaceInv ==
  /\ DOMAIN shown = ShownFields /\ shown.dur \in Nat /\ shown.dur <= Max(Durations)
  /\ age \in Nat /\ gap \in Nat /\ asleep \in 0 .. Interval
  /\ age <= Interval + Max(Durations)
  /\ pc = "run" /\ Precise => age = 0
  /\ pc = "after" => gap = shown.dur /\ age = IF Precise THEN shown.dur ELSE 0
  /\ pc \in {"head", "select"} =>
       /\ gap = age + Ahead
       /\ age <= Interval \/ (Precise /\ age = shown.dur)
       /\ Precise => age >= shown.dur
  /\ pc = "select" => asleep = IF ~dontsleep /\ age < Interval THEN Interval - age ELSE 0
  /\ Paced

\* Top leaves what was shown, but for the size.
LEMMA TopShown ==
  ASSUME DOMAIN shown = ShownFields, Top
  PROVE  /\ DOMAIN shown' = ShownFields
         /\ shown'.chars = shown.chars /\ shown'.equal = shown.equal /\ shown'.dur = shown.dur
         /\ shown'.fresh = shown.fresh /\ shown'.same = shown.same
         /\ shown'.plain = shown.plain /\ shown'.marks = shown.marks
         /\ shown'.resized = IF screen_size_changed THEN TRUE ELSE shown.resized
<1>1. CASE screen_size_changed
  <2>1. shown' = [shown EXCEPT !.resized = TRUE]
    BY <1>1 DEF Top
  <2> QED
    BY <1>1, <2>1 DEF ShownFields
<1>2. CASE ~screen_size_changed
  <2>1. shown' = shown
    BY <1>2 DEF Top
  <2> QED
    BY <1>2, <2>1
<1> QED
  BY <1>1, <1>2

\* What a run does: it shows a layout, takes a time and notes both.
RunFacts(text, l, d) ==
  /\ pc = "run" /\ pc' = "after"
  /\ UNCHANGED <<env, rows, size, first_screen, cycle_count, sleepv, shots, inputs, status>>
  /\ screen_changed' = (~first_screen /\ AllDiff /\ Differs(l.cells))
  /\ screen' = InWindow(l.cells)
  /\ ansi' = l.a
  /\ tick(d) /\ gap' = d
  /\ DOMAIN shown' = ShownFields
  /\ shown'.chars = Chars(l.cells)
  /\ shown'.equal = (Chars(l.cells) = shown.chars)
  /\ shown'.resized = FALSE
  /\ shown'.dur = d
  /\ shown'.fresh = shown.resized
  /\ shown'.plain = \A k \in DOMAIN text : text[k].c # "escape"
  /\ shown'.marks = IF shown.resized \/ "DIFF" \notin opts THEN {}
                    ELSE ChangedAt(Chars(l.cells)) \cup (IF "CUMUL" \in opts THEN shown.marks ELSE {})
  /\ shown'.same = IF shown.resized \/ "EQUEXIT" \notin opts THEN shown.same
                   ELSE IF Chars(l.cells) = shown.chars THEN Min({shown.same, max_cycles}) + 1 ELSE 0

\* run_command does that.
LEMMA RunIs ==
  ASSUME NEW text, run_command(text)
  PROVE  \E l \in Layout(text, ansi), d \in Durations : RunFacts(text, l, d)
<1>1. PICK l \in Layout(text, ansi), code \in Status, d \in Durations :
        /\ screen_changed' = (~first_screen /\ AllDiff /\ Differs(l.cells))
        /\ screen' = InWindow(l.cells)
        /\ ansi' = l.a
        /\ shown' \in Noted(text, Chars(l.cells), d)
        /\ tick(d) /\ gap' = d
  BY DEF run_command
<1> DEFINE chars == Chars(l.cells)
           none  == \A k \in DOMAIN text : text[k].c # "escape"
           marks == IF shown.resized \/ "DIFF" \notin opts THEN {}
                    ELSE ChangedAt(chars) \cup (IF "CUMUL" \in opts THEN shown.marks ELSE {})
           same(eq) == IF shown.resized \/ "EQUEXIT" \notin opts THEN shown.same
                       ELSE IF eq THEN Min({shown.same, max_cycles}) + 1 ELSE 0
<1>2. PICK eq : /\ eq = (chars = shown.chars)
                /\ shown' = [chars |-> chars, equal |-> eq, resized |-> FALSE, dur |-> d,
                             fresh |-> shown.resized, plain |-> none, marks |-> marks, same |-> same(eq)]
  BY <1>1 DEF Noted
<1>3. pc = "run" /\ pc' = "after"
      /\ UNCHANGED <<env, rows, size, first_screen, cycle_count, sleepv, shots, inputs, status>>
  BY DEF run_command
<1> HIDE DEF chars, none, marks, same
<1>4. /\ DOMAIN shown' = ShownFields /\ shown'.chars = chars /\ shown'.equal = (chars = shown.chars)
      /\ shown'.resized = FALSE /\ shown'.dur = d /\ shown'.fresh = shown.resized
      /\ shown'.plain = none /\ shown'.marks = marks /\ shown'.same = same(chars = shown.chars)
  BY <1>2 DEF ShownFields
<1>5. RunFacts(text, l, d)
  BY <1>1, <1>3, <1>4 DEF RunFacts, chars, none, marks, same
<1> QED
  BY <1>5

\* Steps that leave the times alone.
LEMMA PaceSame ==
  ASSUME PaceInv, UNCHANGED <<opts, age, gap, asleep, dontsleep>>, shown' = shown,
         pc' = pc \/ pc' \in {"errkey", "end"} \/ (pc = "select" /\ pc' = "head")
  PROVE  PaceInv'
BY DEF PaceInv, Paced, Ahead, Precise

\* What any key does: back to the head of the loop, or a screenshot.
KeyFacts(t) ==
  /\ pc = "select" /\ t \in 0 .. asleep /\ age' = age + t /\ gap' = gap + t
  /\ UNCHANGED <<env, rows, size, first_screen, screen_changed, cycle_count, ansi, screen, cmdexit,
                 asleep, shown>>
  /\ \/ pc' = "head" /\ UNCHANGED <<shots, status>>
     \/ screenshot

\* Keys do that.
LEMMA KeyIs ==
  ASSUME NEW k \in {"q", " ", "s"}, NEW t, Key(k, t)
  PROVE  KeyFacts(t)
<1>1. /\ pc = "select" /\ t \in 0 .. asleep /\ age' = age + t /\ gap' = gap + t
      /\ UNCHANGED <<env, rows, size, first_screen, screen_changed, cycle_count, ansi, screen, cmdexit,
                     asleep, shown>>
  BY DEF Key
<1>2. CASE k = "q"
  BY <1>1, <1>2 DEF Key, KeyFacts
<1>3. CASE k = " "
  BY <1>1, <1>3 DEF Key, KeyFacts
<1>4. CASE k = "s"
  <2>1. IF scrdumped THEN pc' = "head" /\ UNCHANGED <<dontsleep, scrdumped, leave, shots, status>>
        ELSE screenshot /\ scrdumped' = TRUE /\ UNCHANGED <<dontsleep, leave>>
    BY <1>4 DEF Key
  <2> QED
    BY <1>1, <2>1 DEF KeyFacts
<1> QED
  BY <1>2, <1>3, <1>4

\* Each step keeps the times.
LEMMA PaceKeeps ==
  ASSUME Sane, PaceInv, [Next]_vars
  PROVE  PaceInv'
<1> DEFINE D == Max(Durations)
<1>1. D \in Nat /\ (\A d \in Durations : d \in Nat /\ d <= D) /\ Interval \in Nat
  <2>1. D \in Durations /\ \A d \in Durations : d <= D
    BY MaxIs DEF Sane
  <2> QED
    BY <2>1 DEF Sane
<1> HIDE DEF D
<1>2. /\ DOMAIN shown = ShownFields /\ shown.dur \in Nat /\ shown.dur <= D
      /\ age \in Nat /\ gap \in Nat /\ asleep \in 0 .. Interval /\ age <= Interval + D
  BY DEF PaceInv, D
<1>3. CASE UNCHANGED vars
  BY <1>3, PaceSame DEF vars, env, sleepv
<1>4. CASE Top
  <2>1. /\ age' = (IF Precise THEN 0 ELSE age) /\ gap' = 0 /\ pc' \in {"run", "end"}
        /\ opts' = opts /\ asleep' = asleep
    BY <1>4 DEF Top, env, sleepv, Precise, End
  <2>2. DOMAIN shown' = ShownFields /\ shown'.dur = shown.dur
    BY <1>2, <1>4, TopShown
  <2> QED
    BY <1>1, <1>2, <2>1, <2>2 DEF PaceInv, Paced, Precise, D
<1>5. ASSUME NEW text \in Outputs, run_command(text)
      PROVE  PaceInv'
  <2>0. PICK l \in Layout(text, ansi), d \in Durations : RunFacts(text, l, d)
    BY <1>5, RunIs
  <2>1. /\ age' = (IF Precise THEN age + d ELSE 0) /\ gap' = d /\ pc' = "after" /\ pc = "run"
        /\ opts' = opts /\ asleep' = asleep
    BY <2>0 DEF RunFacts, tick, env, sleepv, Precise
  <2>2. DOMAIN shown' = ShownFields /\ shown'.dur = d
    BY <2>0 DEF RunFacts
  <2>3. Precise => age = 0
    BY <2>1 DEF PaceInv
  <2> QED
    BY <1>1, <1>2, <2>1, <2>2, <2>3 DEF PaceInv, Paced, Precise, D
<1>6. CASE After
  <2>1. /\ UNCHANGED <<opts, age, gap, asleep, shown>> /\ pc = "after" /\ pc' \in {"errkey", "end", "head"}
    BY <1>6 DEF After, env, End
  <2>2. gap = shown.dur /\ age = IF Precise THEN shown.dur ELSE 0
    BY <2>1 DEF PaceInv
  <2> QED
    BY <1>1, <1>2, <2>1, <2>2 DEF PaceInv, Paced, Ahead, Precise, D
<1>7. CASE ErrKey
  <2>1. UNCHANGED <<opts, age, gap, asleep, dontsleep, shown>> /\ pc' = "end"
    BY <1>7 DEF ErrKey, env, End, sleepv
  <2> QED
    BY <2>1, PaceSame
<1>8. CASE HowLong
  <2>1. /\ asleep' = (IF ~dontsleep' /\ age < Interval THEN Interval - age ELSE 0)
        /\ pc = "head" /\ pc' = "select" /\ UNCHANGED <<opts, age, gap, shown>>
    BY <1>8 DEF HowLong, env
  <2>2. /\ gap = age + Ahead
        /\ age <= Interval \/ (Precise /\ age = shown.dur)
        /\ Precise => age >= shown.dur
    BY <2>1 DEF PaceInv
  <2>3. Ahead' = Ahead /\ Precise' = Precise
    BY <2>1 DEF Ahead, Precise
  <2>4. asleep' \in 0 .. Interval
    BY <1>1, <1>2, <2>1
  <2> QED
    BY <1>1, <1>2, <2>1, <2>2, <2>3, <2>4 DEF PaceInv, Paced, D
<1>9. CASE Timeout
  <2>1. /\ age' = age + asleep /\ gap' = gap + asleep /\ pc = "select" /\ pc' \in {"end", "top"}
        /\ UNCHANGED <<opts, asleep, dontsleep, shown>>
    BY <1>9 DEF Timeout, End, env, sleepv
  <2>2. /\ gap = age + Ahead
        /\ age <= Interval \/ (Precise /\ age = shown.dur)
        /\ Precise => age >= shown.dur
        /\ asleep = IF ~dontsleep /\ age < Interval THEN Interval - age ELSE 0
    BY <2>1 DEF PaceInv
  <2>3. age' \in Nat /\ gap' \in Nat /\ age' <= Interval + D
    BY <1>1, <1>2, <2>1, <2>2
  <2>4. ~dontsleep => gap' = IF ~Precise THEN Interval + shown.dur
                             ELSE IF shown.dur > Interval THEN shown.dur ELSE Interval
    BY <1>1, <1>2, <2>1, <2>2 DEF Ahead
  <2>5. Paced'
    BY <2>1, <2>4 DEF Paced, Precise
  <2> QED
    BY <1>1, <1>2, <2>1, <2>3, <2>5 DEF PaceInv, D
<1>10. ASSUME NEW t, KeyFacts(t) PROVE PaceInv'
  <2>1. /\ t \in 0 .. asleep /\ age' = age + t /\ gap' = gap + t /\ pc = "select" /\ pc' \in {"head", "end"}
        /\ UNCHANGED <<opts, asleep, shown>>
    BY <1>10 DEF KeyFacts, screenshot, End, env
  <2>2. /\ gap = age + Ahead
        /\ age <= Interval \/ (Precise /\ age = shown.dur)
        /\ Precise => age >= shown.dur
        /\ asleep = IF ~dontsleep /\ age < Interval THEN Interval - age ELSE 0
    BY <2>1 DEF PaceInv
  <2>3. /\ age' \in Nat /\ gap' \in Nat /\ age' <= Interval + D
        /\ gap' = age' + Ahead
        /\ age' <= Interval \/ (Precise /\ age' = shown.dur)
        /\ Precise => age' >= shown.dur
    BY <1>1, <1>2, <2>1, <2>2 DEF Ahead
  <2>4. Ahead' = Ahead /\ Precise' = Precise
    BY <2>1 DEF Ahead, Precise
  <2> QED
    BY <1>1, <1>2, <2>1, <2>3, <2>4 DEF PaceInv, Paced, D
<1>11. ASSUME NEW r, winch_handler(r) PROVE PaceInv'
  <2>1. /\ UNCHANGED <<opts, age, gap, asleep, dontsleep, shown>>
        /\ pc' = pc \/ (pc = "select" /\ pc' = "head")
    BY <1>11 DEF winch_handler, env, sleepv
  <2> QED
    BY <2>1, PaceSame
<1> QED
  BY <1>3, <1>4, <1>5, <1>6, <1>7, <1>8, <1>9, <1>10, <1>11, KeyIs DEF Next, MainStep, Done

--------------------------------------------------------------------------------
(* The screen.                                                              *)

\* The positions of some rows.
Area(h) == (0 .. h - 1) \X (0 .. width - 1)

\* An output has one layout, and it fills the rows.
LEMMA LayoutIs ==
  ASSUME NEW text, NEW a
  PROVE  \E l : Layout(text, a) = {l} /\ DOMAIN l.cells = Area(height) /\ l.a = Final(text, a).a
<1> DEFINE end == Final(text, a)
           l   == [cells |-> [q \in (0 .. height - 1) \X (0 .. width - 1) |->
                                IF q \in DOMAIN end.cells THEN end.cells[q] ELSE Cleared(end.a)],
                   a |-> end.a]
<1>1. Layout(text, a) = {l}
  BY Zenon DEF Layout
<1>2. DOMAIN l.cells = Area(height)
  BY Zenon DEF Area
<1>3. l.a = Final(text, a).a
  BY Zenon
<1> HIDE DEF l, end
<1> QED
  BY <1>1, <1>2, <1>3

\* After a run and until the size changes, the screen has the characters of the
\* last output in the rows of the window, and with -d they stand out where they
\* have changed.
Shows ==
  /\ shown.chars = [q \in Area(height) |-> shown.chars[q]] /\ DOMAIN screen = Area(window)
  /\ \A q \in Area(height) : q[1] < window =>
       /\ screen[q][1] = shown.chars[q]
       /\ "DIFF" \in opts => (screen[q][3] <=> q \in shown.marks)

ScreenInv ==
  /\ DOMAIN shown = ShownFields
  /\ first_screen \in BOOLEAN /\ shown.resized \in BOOLEAN
  /\ pc \in {"top", "run", "head", "select"} => (first_screen <=> shown.resized)
  /\ pc = "after" => (first_screen <=> shown.fresh) /\ ~shown.resized
  /\ screen = NoScreen \/ DOMAIN screen = Area(window)
  /\ ~shown.resized => Shows
  /\ ChangeSeen

\* The rows there are, and what run_command fills of them.
SizeInv ==
  /\ rows \in Rows /\ main_height \in Rows
  /\ height \in Int /\ height <= Max(Rows) - 2

\* Only Top and the handler of SIGWINCH change sizes.
LEMMA SizeKeeps ==
  ASSUME Sane, SizeInv, [Next]_vars
  PROVE  SizeInv'
<1>1. Max(Rows) \in Int /\ \A r \in Rows : r \in Int /\ r <= Max(Rows)
  BY MaxIs DEF Sane, Bounded
<1>2. CASE Top
  <2>1. UNCHANGED <<rows, main_height>> /\ (height' = height \/ get_terminal_size)
    BY <1>2 DEF Top
  <2> QED
    BY <1>1, <2>1 DEF SizeInv, get_terminal_size
<1>3. ASSUME NEW r \in Rows, winch_handler(r) PROVE SizeInv'
  BY <1>1, <1>3 DEF winch_handler, SizeInv
<1>4. ASSUME NEW t, KeyFacts(t) PROVE SizeInv'
  BY <1>4 DEF KeyFacts, size, SizeInv
<1>5. ASSUME NEW text, run_command(text) PROVE SizeInv'
  BY <1>5 DEF run_command, size, SizeInv
<1>6. CASE UNCHANGED <<rows, size>>
  BY <1>6 DEF size, SizeInv
<1>7. After \/ ErrKey \/ HowLong \/ Timeout \/ UNCHANGED vars => UNCHANGED <<rows, size>>
  BY DEF After, ErrKey, HowLong, Timeout, vars
<1> QED
  BY <1>2, <1>3, <1>4, <1>5, <1>6, <1>7, KeyIs DEF Next, MainStep, Done

\* Positions of rows in the window are positions of the window.
LEMMA AreaIn ==
  ASSUME Sane, SizeInv, NEW q \in Area(height)
  PROVE  /\ q[1] < window => q \in Area(window)
         /\ height <= window => q[1] < window
<1>0. window \in Int
  BY DEF window, SizeInv, Sane, Bounded
<1>1. PICK y \in 0 .. height - 1, x \in 0 .. width - 1 : q = <<y, x>>
  BY DEF Area
<1>2. y \in Int /\ 0 <= y /\ y < height
  BY DEF SizeInv
<1>3. y < window => y \in 0 .. window - 1
  BY <1>0, <1>2
<1>4. height <= window => y < window
  BY <1>0, <1>2 DEF SizeInv
<1> QED
  BY <1>1, <1>3, <1>4 DEF Area

\* The window shows its own positions, and there the new characters.
LEMMA InWindowIs ==
  ASSUME NEW cells
  PROVE  /\ DOMAIN InWindow(cells) = Area(window)
         /\ \A q \in Area(window) : q \in DOMAIN cells =>
              InWindow(cells)[q] = <<cells[q][1], cells[q][2], Highlighted(cells, q)>>
BY DEF InWindow, Area

\* Characters differ on the screen if and only if they differ in the outputs.
LEMMA DiffersIs ==
  ASSUME Sane, SizeInv, Shows, height <= window, NEW cells, DOMAIN cells = Area(height)
  PROVE  Differs(cells) <=> Chars(cells) # shown.chars
<1>1. \A q \in Area(height) : q[1] < window /\ At(q)[1] = shown.chars[q]
  BY AreaIn DEF Shows, At
<1>2. \A q \in Area(height) : ~(q[1] >= window)
  <2> SUFFICES ASSUME NEW q \in Area(height) PROVE ~(q[1] >= window)
    OBVIOUS
  <2>1. window \in Int
    BY DEF window, SizeInv, Sane, Bounded
  <2>2. q[1] \in Int
    BY DEF Area
  <2> QED
    BY <1>1, <2>1, <2>2
<1>3. Differs(cells) <=> \E q \in Area(height) : cells[q][1] # shown.chars[q]
  BY <1>1, <1>2 DEF Differs
<1>4. Chars(cells) = [q \in Area(height) |-> cells[q][1]]
  BY DEF Chars
<1>5. Chars(cells) = shown.chars => \A q \in Area(height) : cells[q][1] = shown.chars[q]
  BY <1>4
<1>6. ASSUME \A q \in Area(height) : cells[q][1] = shown.chars[q] PROVE Chars(cells) = shown.chars
  BY <1>4, <1>6 DEF Shows
<1> QED
  BY <1>3, <1>5, <1>6

\* Steps that leave the screen and what was shown alone.
LEMMA ScreenSame ==
  ASSUME ScreenInv, UNCHANGED <<opts, height, main_height, screen, screen_changed, shown>>,
         first_screen' = first_screen,
         pc' = pc \/ pc' \in {"errkey", "end"} \/ (pc \in {"head", "select"} /\ pc' \in {"head", "select", "top"})
  PROVE  ScreenInv'
<1>1. window' = window /\ (Shows <=> Shows') /\ (AllDiff' <=> AllDiff)
  BY DEF window, Shows, AllDiff
<1> QED
  BY <1>1 DEF ScreenInv, ChangeSeen

\* What is highlighted after a run is what has changed since the one before.
LEMMA MarksAre ==
  ASSUME Sane, SizeInv, "DIFF" \in opts, first_screen <=> shown.resized, ~shown.resized => Shows,
         NEW cells, DOMAIN cells = Area(height), NEW q \in Area(height), q[1] < window
  PROVE  Highlighted(cells, q) <=>
           q \in IF shown.resized \/ "DIFF" \notin opts THEN {}
                 ELSE ChangedAt(Chars(cells)) \cup (IF "CUMUL" \in opts THEN shown.marks ELSE {})
<1>1. CASE shown.resized
  BY <1>1 DEF Highlighted
<1>2. CASE ~shown.resized
  <2>1. q \in Area(window)
    BY AreaIn
  <2>2. At(q)[1] = shown.chars[q] /\ (At(q)[3] <=> q \in shown.marks) /\ q \in DOMAIN shown.chars
    BY <1>2, <2>1 DEF Shows, At
  <2>3. q \in DOMAIN Chars(cells) /\ Chars(cells)[q] = cells[q][1]
    BY DEF Chars
  <2>4. q \in ChangedAt(Chars(cells)) <=> cells[q][1] # shown.chars[q]
    BY <2>2, <2>3 DEF ChangedAt
  <2> QED
    BY <1>2, <2>2, <2>4 DEF Highlighted
<1> QED
  BY <1>1, <1>2

\* A run.
LEMMA RunScreen ==
  ASSUME Sane, SizeInv, ScreenInv, NEW text, run_command(text)
  PROVE  ScreenInv'
<1>1. PICK l \in Layout(text, ansi), d \in Durations : RunFacts(text, l, d)
  BY RunIs
<1>2. DOMAIN l.cells = Area(height)
  BY LayoutIs
<1>3. /\ pc = "run" /\ pc' = "after" /\ UNCHANGED <<opts, height, main_height, first_screen>>
      /\ screen_changed' = (~first_screen /\ AllDiff /\ Differs(l.cells))
      /\ screen' = InWindow(l.cells)
      /\ DOMAIN shown' = ShownFields /\ shown'.chars = Chars(l.cells)
      /\ shown'.equal = (Chars(l.cells) = shown.chars)
      /\ shown'.resized = FALSE /\ shown'.fresh = shown.resized
  BY <1>1 DEF RunFacts, env, size
<1>4. (first_screen <=> shown.resized) /\ first_screen \in BOOLEAN /\ shown.resized \in BOOLEAN
  BY <1>3 DEF ScreenInv
<1>5. window' = window /\ (AllDiff' <=> AllDiff) /\ Area(height)' = Area(height) /\ Area(window)' = Area(window)
  BY <1>3 DEF window, AllDiff, Area
<1>6. Shows'
  <2>1. DOMAIN screen' = Area(window)
    BY <1>3, InWindowIs
  <2>2. shown'.chars = [q \in Area(height) |-> shown'.chars[q]]
    BY <1>2, <1>3 DEF Chars
  <2>3. ASSUME NEW q \in Area(height), q[1] < window
        PROVE  /\ screen'[q][1] = shown'.chars[q]
               /\ "DIFF" \in opts => (screen'[q][3] <=> q \in shown'.marks)
    <3>1. screen'[q] = <<l.cells[q][1], l.cells[q][2], Highlighted(l.cells, q)>>
      BY <1>2, <1>3, <2>3, InWindowIs, AreaIn
    <3>2. shown'.chars[q] = l.cells[q][1]
      BY <1>2, <1>3 DEF Chars
    <3>3. ~shown.resized => Shows
      BY DEF ScreenInv
    <3>4. shown'.marks = IF shown.resized \/ "DIFF" \notin opts THEN {}
                         ELSE ChangedAt(Chars(l.cells)) \cup (IF "CUMUL" \in opts THEN shown.marks ELSE {})
      BY <1>1 DEF RunFacts
    <3>5. "DIFF" \in opts => (Highlighted(l.cells, q) <=> q \in shown'.marks)
      BY <1>2, <1>4, <2>3, <3>3, <3>4, MarksAre
    <3> QED
      BY <3>1, <3>2, <3>5
  <2> QED
    BY <1>3, <1>5, <2>1, <2>2, <2>3 DEF Shows
<1>7. ChangeSeen'
  <2> SUFFICES ASSUME AllDiff, ~shown.resized, height <= window
               PROVE  screen_changed' <=> ~shown'.equal
    BY <1>3, <1>5 DEF ChangeSeen
  <2>1. Shows
    BY DEF ScreenInv
  <2>2. Differs(l.cells) <=> Chars(l.cells) # shown.chars
    BY <1>2, <2>1, DiffersIs
  <2>3. screen_changed' <=> Differs(l.cells)
    BY <1>3, <1>4
  <2> QED
    BY <1>3, <2>2, <2>3
<1>8. DOMAIN screen' = Area(window)'
  BY <1>3, <1>5, InWindowIs
<1>9. first_screen' \in BOOLEAN /\ shown'.resized \in BOOLEAN
  BY <1>3, <1>4
<1>10. (first_screen' <=> shown'.fresh) /\ ~shown'.resized
  BY <1>3, <1>4
<1> QED
  BY <1>3, <1>5, <1>6, <1>7, <1>8, <1>9, <1>10 DEF ScreenInv

\* Each step keeps the screen.
LEMMA ScreenKeeps ==
  ASSUME Sane, SizeInv, ScreenInv, [Next]_vars
  PROVE  ScreenInv'
<1>1. CASE Top
  <2>1. /\ pc = "top" /\ pc' \in {"run", "end"}
        /\ UNCHANGED <<opts, main_height, screen, screen_changed>>
    BY <1>1 DEF Top, End, env
  <2>2. /\ DOMAIN shown' = ShownFields /\ shown'.chars = shown.chars /\ shown'.marks = shown.marks
        /\ shown'.resized = (IF screen_size_changed THEN TRUE ELSE shown.resized)
    BY <1>1, TopShown DEF ScreenInv
  <2>3. first_screen' = IF screen_size_changed THEN TRUE ELSE first_screen
    BY <1>1 DEF Top
  <2>4. ~shown'.resized => Shows'
    <3> SUFFICES ASSUME ~shown'.resized PROVE Shows'
      OBVIOUS
    <3>1. ~screen_size_changed /\ ~shown.resized
      BY <2>2
    <3>2. height' = height
      BY <1>1, <3>1 DEF Top
    <3>3. window' = window /\ Shows
      BY <2>1, <3>1 DEF window, ScreenInv
    <3> QED
      BY <2>1, <2>2, <3>2, <3>3 DEF Shows, Area
  <2>5. (first_screen <=> shown.resized) /\ first_screen \in BOOLEAN /\ shown.resized \in BOOLEAN
    BY <2>1 DEF ScreenInv
  <2>6. first_screen' \in BOOLEAN /\ shown'.resized \in BOOLEAN /\ (first_screen' <=> shown'.resized)
    BY <2>2, <2>3, <2>5
  <2>7. screen' = NoScreen \/ DOMAIN screen' = Area(window)'
    BY <2>1 DEF ScreenInv, window, Area
  <2> QED
    BY <2>1, <2>2, <2>4, <2>6, <2>7 DEF ScreenInv, ChangeSeen
<1>2. ASSUME NEW text, run_command(text) PROVE ScreenInv'
  BY <1>2, RunScreen
<1>3. CASE After
  <2>1. /\ pc = "after" /\ UNCHANGED <<opts, height, main_height, screen, screen_changed, shown>>
        /\ \/ pc' \in {"errkey", "end"} /\ first_screen' = first_screen
           \/ pc' = "head" /\ first_screen' = FALSE
    BY <1>3 DEF After, End, env, size
  <2>2. CASE pc' \in {"errkey", "end"}
    BY <2>1, <2>2, ScreenSame
  <2>3. CASE pc' = "head"
    <3>1. window' = window /\ (Shows <=> Shows') /\ Area(window)' = Area(window)
      BY <2>1 DEF window, Shows, Area
    <3>2. first_screen' \in BOOLEAN /\ ~first_screen' /\ ~shown.resized
      BY <2>1, <2>3 DEF ScreenInv
    <3> QED
      BY <2>1, <2>3, <3>1, <3>2 DEF ScreenInv, ChangeSeen
  <2> QED
    BY <2>1, <2>2, <2>3
<1>4. CASE ErrKey \/ HowLong \/ Timeout
  <2>1. /\ UNCHANGED <<opts, height, main_height, screen, screen_changed, shown, first_screen>>
        /\ \/ pc' = "end"
           \/ pc = "head" /\ pc' = "select"
           \/ pc = "select" /\ pc' = "top"
    <3>1. CASE ErrKey
      BY <3>1 DEF ErrKey, End, env, size
    <3>2. CASE HowLong
      BY <3>2 DEF HowLong, env, size
    <3>3. CASE Timeout
      BY <3>3 DEF Timeout, End, env, size
    <3> QED
      BY <1>4, <3>1, <3>2, <3>3
  <2> QED
    BY <2>1, ScreenSame
<1>5. ASSUME NEW t, KeyFacts(t) PROVE ScreenInv'
  <2>1. /\ UNCHANGED <<opts, height, main_height, screen, screen_changed, shown, first_screen>>
        /\ pc = "select" /\ pc' \in {"head", "end"}
    BY <1>5 DEF KeyFacts, screenshot, End, env, size
  <2> QED
    BY <2>1, ScreenSame
<1>6. ASSUME NEW r, winch_handler(r) PROVE ScreenInv'
  <2>1. /\ UNCHANGED <<opts, height, main_height, screen, screen_changed, shown, first_screen>>
        /\ pc' = pc \/ (pc = "select" /\ pc' = "head")
    BY <1>6 DEF winch_handler, env
  <2> QED
    BY <2>1, ScreenSame
<1>7. CASE UNCHANGED vars
  <2>1. UNCHANGED <<opts, height, main_height, screen, screen_changed, shown, first_screen, pc>>
    BY <1>7 DEF vars, env, size
  <2> QED
    BY <2>1, ScreenSame
<1> QED
  BY <1>1, <1>2, <1>3, <1>4, <1>5, <1>6, <1>7, KeyIs DEF Next, MainStep, Done

--------------------------------------------------------------------------------
(* Counting, and screenshots.                                               *)

\* With -q: how many runs in succession were equal, and how many main has
\* counted.
CountInv ==
  /\ shown.same \in Nat /\ cycle_count \in Nat \ {0}
  /\ (status = "running") <=> (pc # "end")
  /\ "EQUEXIT" \in opts /\ main_height = Max(Rows) =>
       /\ pc \in {"top", "run", "head", "select"} =>
            shown.same = cycle_count - 1 /\ cycle_count <= max_cycles
       /\ pc = "after" =>
            /\ cycle_count <= max_cycles
            /\ shown.same = IF shown.fresh THEN cycle_count - 1
                            ELSE IF shown.equal THEN cycle_count ELSE 0
       /\ status = "equal" => shown.same = max_cycles

\* Files are named for seconds up to that of the last one, and for smaller
\* numbers in that second.
ShotInv ==
  /\ secs \in Nat /\ last \in Nat /\ last_nr \in Nat /\ last <= secs
  /\ \A f \in files : \E s \in Nat, n \in Int :
       f = <<s, n>> /\ s <= last /\ (s = last => n < last_nr)
  /\ status # "exists"

\* Steps that count nothing.
LEMMA CountSame ==
  ASSUME CountInv, UNCHANGED <<opts, main_height, cycle_count>>,
         shown'.same = shown.same, shown'.fresh = shown.fresh, shown'.equal = shown.equal,
         \/ pc' = pc /\ status' = status
         \/ pc' = "errkey" /\ pc = "after" /\ status' = status
         \/ pc' = "end" /\ status' # "equal" /\ status' # "running"
         \/ pc \in {"top", "head", "select"} /\ pc' \in {"top", "run", "head", "select"} /\ status' = status
  PROVE  CountInv'
<1>1. CASE pc' = pc /\ status' = status
  BY <1>1 DEF CountInv
<1>2. CASE pc' = "errkey" /\ pc = "after" /\ status' = status
  BY <1>2 DEF CountInv
<1>3. CASE pc' = "end" /\ status' # "equal" /\ status' # "running"
  BY <1>3 DEF CountInv
<1>4. CASE pc \in {"top", "head", "select"} /\ pc' \in {"top", "run", "head", "select"} /\ status' = status
  BY <1>4 DEF CountInv
<1> QED
  BY <1>1, <1>2, <1>3, <1>4

\* A run counts what was equal.
LEMMA RunCount ==
  ASSUME Sane, SizeInv, ScreenInv, CountInv, NEW text, run_command(text)
  PROVE  CountInv'
<1>0. PICK l \in Layout(text, ansi), d \in Durations : RunFacts(text, l, d)
  BY RunIs
<1>1. /\ pc = "run" /\ pc' = "after" /\ UNCHANGED <<opts, main_height, cycle_count, status>>
  BY <1>0 DEF RunFacts, env, size
<1>2. /\ shown'.equal = (Chars(l.cells) = shown.chars)
      /\ shown'.fresh = shown.resized
      /\ shown'.same = IF shown.resized \/ "EQUEXIT" \notin opts THEN shown.same
                       ELSE IF Chars(l.cells) = shown.chars
                            THEN Min({shown.same, max_cycles}) + 1 ELSE 0
  BY <1>0 DEF RunFacts
<1>3. shown.same \in Nat /\ cycle_count \in Nat \ {0} /\ status = "running" /\ max_cycles \in Nat
  BY <1>1 DEF CountInv, Sane
<1>4. Min({shown.same, max_cycles}) = IF shown.same <= max_cycles THEN shown.same ELSE max_cycles
  BY <1>3, MinIs
<1>5. "EQUEXIT" \in opts /\ main_height = Max(Rows) =>
        shown.same = cycle_count - 1 /\ cycle_count <= max_cycles
  BY <1>1 DEF CountInv
<1>6. shown'.same \in Nat
  BY <1>2, <1>3, <1>4
<1>7. "EQUEXIT" \in opts /\ main_height = Max(Rows) =>
        shown'.same = IF shown'.fresh THEN cycle_count - 1
                      ELSE IF shown'.equal THEN cycle_count ELSE 0
  <2> SUFFICES ASSUME "EQUEXIT" \in opts, main_height = Max(Rows)
               PROVE  shown'.same = IF shown'.fresh THEN cycle_count - 1
                                    ELSE IF shown'.equal THEN cycle_count ELSE 0
    OBVIOUS
  <2>1. Min({shown.same, max_cycles}) + 1 = cycle_count
    BY <1>3, <1>4, <1>5
  <2>2. CASE shown.resized
    BY <1>2, <1>5, <2>2
  <2>3. CASE ~shown.resized /\ Chars(l.cells) = shown.chars
    <3>1. shown'.same = cycle_count /\ ~shown'.fresh /\ shown'.equal
      BY <1>2, <2>1, <2>3
    <3> QED
      BY <3>1
  <2>4. CASE ~shown.resized /\ Chars(l.cells) # shown.chars
    <3>1. shown'.same = 0 /\ ~shown'.fresh /\ ~shown'.equal
      BY <1>2, <2>4
    <3> QED
      BY <3>1
  <2> QED
    BY <2>2, <2>3, <2>4
<1> QED
  BY <1>1, <1>3, <1>5, <1>6, <1>7 DEF CountInv

\* The decision after a run.
LEMMA AfterCount ==
  ASSUME Sane, SizeInv, ScreenInv, CountInv, After
  PROVE  CountInv'
<1> DEFINE Counts == "EQUEXIT" \in opts /\ main_height = Max(Rows)
<1>1. pc = "after" /\ UNCHANGED <<opts, main_height, shown, screen_changed>> /\ status = "running"
  BY DEF After, env, size, CountInv
<1>2. shown.same \in Nat /\ cycle_count \in Nat \ {0} /\ max_cycles \in Nat
  BY DEF CountInv, Sane
<1>3. (first_screen <=> shown.fresh)
  BY <1>1 DEF ScreenInv
<1>4. Counts =>
        /\ cycle_count <= max_cycles
        /\ shown.same = IF shown.fresh THEN cycle_count - 1
                        ELSE IF shown.equal THEN cycle_count ELSE 0
  BY <1>1 DEF CountInv
<1>5. Counts /\ ~shown.fresh => (screen_changed <=> ~shown.equal)
  <2>1. Max(Rows) \in Int
    BY MaxIs DEF Sane
  <2>2. Counts => height <= window
    BY <2>1 DEF SizeInv, window
  <2>3. Counts => AllDiff
    BY DEF AllDiff
  <2> QED
    BY <1>1, <2>2, <2>3 DEF ScreenInv, ChangeSeen
<1>6. \/ pc' = "errkey" /\ UNCHANGED <<status, cycle_count>>
      \/ pc' = "end" /\ status' = "changed" /\ UNCHANGED cycle_count
      \/ /\ pc' = "end" /\ status' = "equal" /\ UNCHANGED cycle_count
         /\ ~first_screen /\ ~screen_changed /\ cycle_count = max_cycles
      \/ /\ pc' = "head" /\ UNCHANGED status
         /\ cycle_count' = IF ~first_screen /\ "EQUEXIT" \in opts THEN Cycles ELSE cycle_count
         /\ ~(~first_screen /\ "EQUEXIT" \in opts /\ ~screen_changed /\ cycle_count = max_cycles)
  BY DEF After, End
<1> HIDE DEF Counts
<1>7. CASE pc' = "errkey" /\ UNCHANGED <<status, cycle_count>>
  BY <1>1, <1>7, CountSame
<1>8. CASE pc' = "end" /\ status' = "changed" /\ UNCHANGED cycle_count
  BY <1>1, <1>8, CountSame
<1>9. CASE /\ pc' = "end" /\ status' = "equal" /\ UNCHANGED cycle_count
           /\ ~first_screen /\ ~screen_changed /\ cycle_count = max_cycles
  <2>1. Counts => shown.same = max_cycles
    BY <1>3, <1>4, <1>5, <1>9
  <2> QED
    BY <1>1, <1>2, <1>9, <2>1 DEF CountInv, Counts
<1>10. CASE /\ pc' = "head" /\ UNCHANGED status
            /\ cycle_count' = IF ~first_screen /\ "EQUEXIT" \in opts THEN Cycles ELSE cycle_count
            /\ ~(~first_screen /\ "EQUEXIT" \in opts /\ ~screen_changed /\ cycle_count = max_cycles)
  <2>1. cycle_count' \in Nat \ {0}
    BY <1>2, <1>10 DEF Cycles
  <2>2. Counts => /\ shown.same = cycle_count' - 1 /\ cycle_count' <= max_cycles
    <3>1. max_cycles >= 1
      BY DEF Sane
    <3> QED
      BY <1>2, <1>3, <1>4, <1>5, <1>10, <3>1 DEF Cycles, Counts
  <2> QED
    BY <1>1, <1>2, <1>10, <2>1, <2>2 DEF CountInv, Counts
<1> QED
  BY <1>6, <1>7, <1>8, <1>9, <1>10

\* Each step keeps the count.
LEMMA CountKeeps ==
  ASSUME Sane, SizeInv, ScreenInv, CountInv, [Next]_vars
  PROVE  CountInv'
<1>1. CASE Top
  <2>1. pc = "top" /\ UNCHANGED <<opts, main_height, cycle_count>>
    BY <1>1 DEF Top, env
  <2>2. \/ pc' = "run" /\ status' = status
        \/ pc' = "end" /\ status' = "assert"
    BY <1>1 DEF Top, End
  <2>3. shown'.same = shown.same /\ shown'.fresh = shown.fresh /\ shown'.equal = shown.equal
    BY <1>1, TopShown DEF ScreenInv
  <2> QED
    BY <2>1, <2>2, <2>3, CountSame
<1>2. ASSUME NEW text, run_command(text) PROVE CountInv'
  BY <1>2, RunCount
<1>3. CASE After
  BY <1>3, AfterCount
<1>4. CASE ErrKey
  BY <1>4, CountSame DEF ErrKey, End, env, size
<1>5. CASE HowLong
  BY <1>5, CountSame DEF HowLong, env, size
<1>6. CASE Timeout
  <2>1. /\ pc = "select" /\ UNCHANGED <<opts, main_height, cycle_count, shown>>
        /\ \/ pc' = "end" /\ status' = "quit"
           \/ pc' = "top" /\ status' = status
    BY <1>6 DEF Timeout, End, env, size
  <2> QED
    BY <2>1, CountSame
<1>7. ASSUME NEW t, KeyFacts(t) PROVE CountInv'
  <2>1. /\ pc = "select" /\ UNCHANGED <<opts, main_height, cycle_count, shown>>
        /\ \/ pc' = "end" /\ status' \in {"exists", "assert", "canceled"}
           \/ pc' = "head" /\ status' = status
    BY <1>7 DEF KeyFacts, screenshot, End, env, size
  <2> QED
    BY <2>1, CountSame
<1>8. ASSUME NEW r, winch_handler(r) PROVE CountInv'
  <2>1. /\ UNCHANGED <<opts, main_height, cycle_count, shown, status>>
        /\ pc' = pc \/ (pc = "select" /\ pc' = "head")
    BY <1>8 DEF winch_handler, env
  <2> QED
    BY <2>1, CountSame
<1>9. CASE UNCHANGED vars
  BY <1>9, CountSame DEF vars, env, size
<1> QED
  BY <1>1, <1>2, <1>3, <1>4, <1>5, <1>6, <1>7, <1>8, <1>9, KeyIs DEF Next, MainStep, Done

\* A screenshot is a new file.
LEMMA ShotKeeps ==
  ASSUME Sane, ShotInv, [Next]_vars
  PROVE  ShotInv'
<1>0. ASSUME screenshot, secs' = last, last_nr >= UINT_FAST8_MAX PROVE ShotInv'
  <2>1. secs' \in secs .. MaxSecs /\ UNCHANGED <<last, last_nr, files>> /\ status' = "assert"
    BY <1>0 DEF screenshot, End
  <2> QED
    BY <2>1 DEF ShotInv
<1>1. ASSUME screenshot, ~(secs' = last /\ last_nr >= UINT_FAST8_MAX) PROVE ShotInv'
  <2>1. /\ secs' \in secs .. MaxSecs /\ last' = secs'
        /\ last_nr' = IF secs' = last THEN last_nr + 1 ELSE 0
    BY <1>1 DEF screenshot
  <2>2. secs' \in Nat /\ secs' >= secs /\ last' \in Nat /\ last_nr' \in Nat /\ last' <= secs' /\ last <= last'
    BY <2>1 DEF ShotInv
  <2>3. PICK n \in Int : shot_name = <<secs', n>> /\ n = IF secs' = last THEN last_nr ELSE -1
    <3>1. CASE secs' = last
      BY <3>1 DEF shot_name, ShotInv
    <3>2. CASE secs' # last
      BY <3>2 DEF shot_name
    <3> QED
      BY <3>1, <3>2
  <2>4. shot_name \notin files
    <3> SUFFICES ASSUME shot_name \in files PROVE FALSE
      OBVIOUS
    <3>1. PICK s \in Nat, m \in Int :
            shot_name = <<s, m>> /\ s <= last /\ (s = last => m < last_nr)
      BY DEF ShotInv
    <3>2. s = secs' /\ m = n
      BY <2>3, <3>1
    <3> QED
      BY <2>2, <2>3, <3>1, <3>2 DEF ShotInv
  <2>5. files' = files \cup {shot_name} /\ status' \in {status, "canceled"}
    BY <1>1, <2>4 DEF screenshot, End
  <2>6. ASSUME NEW f \in files'
        PROVE  \E s \in Nat, m \in Int : f = <<s, m>> /\ s <= last' /\ (s = last' => m < last_nr')
    <3>1. CASE f = shot_name
      <4>1. n < last_nr'
        BY <2>1, <2>3 DEF ShotInv
      <4> QED
        BY <2>1, <2>2, <2>3, <3>1, <4>1
    <3>2. CASE f \in files
      <4>1. PICK s \in Nat, m \in Int : f = <<s, m>> /\ s <= last /\ (s = last => m < last_nr)
        BY <3>2 DEF ShotInv
      <4>2. s <= last' /\ (s = last' => m < last_nr')
        BY <2>1, <2>2, <4>1 DEF ShotInv
      <4> QED
        BY <4>1, <4>2
    <3> QED
      BY <2>5, <3>1, <3>2
  <2> QED
    BY <2>2, <2>5, <2>6 DEF ShotInv
<1>2. CASE UNCHANGED shots /\ status' # "exists"
  BY <1>2 DEF shots, ShotInv
<1>3. ASSUME NEW t, KeyFacts(t) PROVE ShotInv'
  BY <1>0, <1>1, <1>2, <1>3 DEF KeyFacts, ShotInv
<1>4. ASSUME NEW text, run_command(text) PROVE ShotInv'
  BY <1>2, <1>4 DEF run_command, ShotInv
<1>5. ASSUME NEW r, winch_handler(r) PROVE ShotInv'
  BY <1>2, <1>5 DEF winch_handler, ShotInv
<1>6. CASE Top
  BY <1>2, <1>6 DEF Top, End, ShotInv
<1>7. CASE After
  BY <1>2, <1>7 DEF After, End, ShotInv
<1>8. CASE ErrKey
  BY <1>2, <1>8 DEF ErrKey, End, ShotInv
<1>9. CASE HowLong
  BY <1>2, <1>9 DEF HowLong, ShotInv
<1>10. CASE Timeout
  BY <1>2, <1>10 DEF Timeout, End, ShotInv
<1>11. CASE UNCHANGED vars
  BY <1>2, <1>11 DEF vars, ShotInv
<1> QED
  BY <1>3, <1>4, <1>5, <1>6, <1>7, <1>8, <1>9, <1>10, <1>11, KeyIs DEF Next, MainStep, Done

Places == {"top", "run", "after", "errkey", "head", "select", "end"}

\* main is somewhere in its loop.
LEMMA PlaceKeeps ==
  ASSUME pc \in Places, [Next]_vars
  PROVE  pc' \in Places
<1>1. ASSUME NEW t, KeyFacts(t) PROVE pc' \in Places
  BY <1>1 DEF KeyFacts, screenshot, End, Places
<1>2. ASSUME NEW text, run_command(text) PROVE pc' \in Places
  BY <1>2 DEF run_command, Places
<1>3. ASSUME NEW r, winch_handler(r) PROVE pc' \in Places
  BY <1>3 DEF winch_handler, Places
<1>4. CASE Top
  BY <1>4 DEF Top, End, Places
<1>5. CASE After
  BY <1>5 DEF After, End, Places
<1>6. CASE ErrKey
  BY <1>6 DEF ErrKey, End, Places
<1>7. CASE HowLong
  BY <1>7 DEF HowLong, Places
<1>8. CASE Timeout
  BY <1>8 DEF Timeout, End, Places
<1>9. CASE UNCHANGED vars
  BY <1>9 DEF vars
<1> QED
  BY <1>1, <1>2, <1>3, <1>4, <1>5, <1>6, <1>7, <1>8, <1>9, KeyIs DEF Next, MainStep, Done

--------------------------------------------------------------------------------
(* All of the invariant.                                                    *)

WInv == pc \in Places /\ SizeInv /\ PaceInv /\ ScreenInv /\ CountInv /\ ShotInv

\* WInv holds throughout.
LEMMA AlwaysWInv ==
  ASSUME Sane
  PROVE  Spec => []WInv
<1>1. Init => WInv
  <2> SUFFICES ASSUME Init PROVE WInv
    OBVIOUS
  <2>1. /\ pc = "top" /\ rows \in Rows /\ main_height = rows /\ height = rows - 2
        /\ first_screen = TRUE /\ cycle_count = 1 /\ age = 0 /\ gap = 0 /\ asleep = 0
        /\ secs = 1 /\ last = 0 /\ last_nr = 0 /\ files = {} /\ status = "running"
        /\ screen = NoScreen
    BY DEF Init, Sane
  <2>2. /\ DOMAIN shown = ShownFields /\ shown.chars = NoScreen /\ shown.resized = TRUE
        /\ shown.dur = 0 /\ shown.same = 0
    BY DEF Init, ShownFields
  <2>3. Max(Rows) \in Int /\ (\A r \in Rows : r \in Int /\ r <= Max(Rows)) /\ Max(Durations) \in Nat
    <3>1. Bounded(Rows) /\ Bounded(Durations) /\ Durations \subseteq Nat
      BY DEF Sane
    <3>2. Max(Durations) \in Durations
      BY <3>1, MaxIs
    <3> QED
      BY <3>1, <3>2, MaxIs DEF Bounded
  <2>4. SizeInv
    BY <2>1, <2>3 DEF SizeInv
  <2>5. PaceInv
    BY <2>1, <2>2, <2>3 DEF PaceInv, Paced, Sane
  <2>6. ScreenInv
    BY <2>1, <2>2 DEF ScreenInv, ChangeSeen
  <2>7. CountInv
    BY <2>1, <2>2 DEF CountInv, Sane
  <2>8. ShotInv
    BY <2>1 DEF ShotInv
  <2> QED
    BY <2>1, <2>4, <2>5, <2>6, <2>7, <2>8 DEF WInv, Places
<1>2. WInv /\ [Next]_vars => WInv'
  BY PlaceKeeps, SizeKeeps, PaceKeeps, ScreenKeeps, CountKeeps, ShotKeeps DEF WInv
<1> QED
  BY <1>1, <1>2, PTL DEF Spec

--------------------------------------------------------------------------------
(* Folds.  What a fold computes is an induction over the sequence, made here *)
(* with the least counterexample of a set of numbers.                       *)

\* A set of naturals that is not empty has a least one.
LEMMA LeastNat ==
  ASSUME NEW S \in SUBSET Nat, S # {}
  PROVE  \E m \in S : \A k \in S : m <= k
<1>1. PICK m \in S : \A k \in S : ~(<<k, m>> \in OpToRel(<, Nat))
  BY NatLessThanWellFounded, WFMin
<1>2. \A k \in S : ~(k < m)
  BY <1>1 DEF OpToRel
<1> QED
  BY <1>2

\* Induction over a set of naturals.
LEMMA NatSteps ==
  ASSUME NEW S, 0 \in S, \A n \in Nat : n \in S => n + 1 \in S
  PROVE  Nat \subseteq S
<1> SUFFICES ASSUME Nat \ S # {} PROVE FALSE
  OBVIOUS
<1>1. PICK m \in Nat \ S : \A k \in Nat \ S : m <= k
  BY LeastNat
<1>2. m - 1 \in Nat
  BY <1>1
<1> QED
  BY <1>1, <1>2

\* Some of the numbers up to k + 1 without the largest are some of those up to k.
LEMMA MaxOfSome ==
  ASSUME NEW k \in Nat, NEW s \in SUBSET (1 .. k + 1), s # {}
  PROVE  Max(s) \in s /\ (\A x \in s : x <= Max(s)) /\ s \ {Max(s)} \in SUBSET (1 .. k)
<1> DEFINE up == {(k + 1) - x : x \in s}
<1>0. \A x \in s : x \in Nat /\ x > 0 /\ x <= k + 1
  OBVIOUS
<1>1. up \in SUBSET Nat /\ up # {}
  <2>1. \A x \in s : (k + 1) - x \in Nat
    BY <1>0
  <2> QED
    BY <2>1
<1>2. PICK m \in up : \A y \in up : m <= y
  BY <1>1, LeastNat
<1>3. PICK x \in s : m = (k + 1) - x
  BY <1>2
<1>4. \A y \in s : (k + 1) - x <= (k + 1) - y
  BY <1>2, <1>3
<1>5. \A y \in s : x >= y
  BY <1>4
<1>6. Max(s) \in s /\ \A y \in s : Max(s) >= y
  BY <1>5 DEF Max
<1> DEFINE top == Max(s)
<1> HIDE DEF top
<1>7. top \in s /\ \A y \in s : top >= y
  BY <1>6 DEF top
<1>8. ASSUME NEW y \in s \ {top} PROVE y \in 1 .. k
  BY <1>0, <1>7
<1>9. \A x_1 \in s : x_1 <= top
  BY <1>0, <1>7
<1> QED
  BY <1>7, <1>8, <1>9 DEF top

\* The largest of the first k.
LEMMA MaxOfFirst ==
  ASSUME NEW k \in Nat, k > 0
  PROVE  Max(1 .. k) = k /\ (1 .. k) \ {k} = 1 .. (k - 1)
<1>1. k \in 1 .. k /\ \A y \in 1 .. k : k >= y
  OBVIOUS
<1>2. \A x \in 1 .. k : (\A y \in 1 .. k : x >= y) => x = k
  BY <1>1
<1>3. Max(1 .. k) = k
  BY <1>1, <1>2 DEF Max
<1> QED
  BY <1>3

\* The function that FoldLeft of set_ansi_attribute computes with.
Styling(it, base, seq, D) ==
  it = [s \in SUBSET D |->
          IF s = {} THEN base ELSE set_ansi_attribute(it[s \ {Max(s)}], seq[Max(s)])]

StylingAll(base, seq) == FoldLeft(set_ansi_attribute, base, seq)

\* There is such a function: one for the first k + 1 positions is made of one
\* for the first k.
LEMMA StylingExists ==
  ASSUME NEW base, NEW seq
  PROVE  \A n \in Nat : \E it : Styling(it, base, seq, 1 .. n)
<1> DEFINE S == {k \in Nat : \E it : Styling(it, base, seq, 1 .. k)}
<1>1. 0 \in S
  <2> DEFINE z == [s \in SUBSET (1 .. 0) |-> base]
  <2>1. \A s \in SUBSET (1 .. 0) : s = {}
    OBVIOUS
  <2>2. Styling(z, base, seq, 1 .. 0)
    BY <2>1 DEF Styling
  <2> QED
    BY <2>2
<1>2. ASSUME NEW k \in Nat, k \in S PROVE k + 1 \in S
  <2>1. PICK g : Styling(g, base, seq, 1 .. k)
    BY <1>2
  <2> DEFINE h == [s \in SUBSET (1 .. k + 1) |->
                     IF s = {} THEN base ELSE set_ansi_attribute(g[s \ {Max(s)}], seq[Max(s)])]
  <2>2. ASSUME NEW s \in SUBSET (1 .. k + 1), s # {}
        PROVE  h[s \ {Max(s)}] = g[s \ {Max(s)}]
    <3> DEFINE t == s \ {Max(s)}
    <3>1. t \in SUBSET (1 .. k)
      BY <2>2, MaxOfSome
    <3>2. t \in SUBSET (1 .. k + 1)
      BY <3>1
    <3> HIDE DEF t
    <3>3. h[t] = IF t = {} THEN base ELSE set_ansi_attribute(g[t \ {Max(t)}], seq[Max(t)])
      BY <3>2
    <3>4. g[t] = IF t = {} THEN base ELSE set_ansi_attribute(g[t \ {Max(t)}], seq[Max(t)])
      BY <2>1, <3>1 DEF Styling
    <3> QED
      BY <3>3, <3>4 DEF t
  <2>3. h = [s \in SUBSET (1 .. k + 1) |->
               IF s = {} THEN base ELSE set_ansi_attribute(h[s \ {Max(s)}], seq[Max(s)])]
    BY <2>2
  <2> HIDE DEF h
  <2>4. Styling(h, base, seq, 1 .. k + 1)
    BY <2>3 DEF Styling
  <2> QED
    BY <2>4
<1> QED
  BY <1>1, <1>2, NatSteps

\* A fold of set_ansi_attribute takes one step for each member of the sequence.
LEMMA StylingSteps ==
  ASSUME NEW base, NEW n \in Nat, NEW seq, DOMAIN seq = 1 .. n
  PROVE  \E f : /\ f[0] = base /\ f[n] = StylingAll(base, seq)
                /\ \A k \in 1 .. n : f[k] = set_ansi_attribute(f[k - 1], seq[k])
<1> DEFINE it == CHOOSE x : Styling(x, base, seq, 1 .. n)
           f == [k \in 0 .. n |-> it[1 .. k]]
<1>1. Styling(it, base, seq, 1 .. n)
  BY StylingExists
<1>2. StylingAll(base, seq) = it[1 .. n]
  BY DEF StylingAll, FoldLeft, MapThenFoldSet, Styling
<1> HIDE DEF it
<1>3. f[0] = base /\ f[n] = it[1 .. n]
  <2>1. 1 .. 0 = {} /\ {} \in SUBSET (1 .. n) /\ 0 \in 0 .. n /\ n \in 0 .. n
    OBVIOUS
  <2>2. it[{}] = base
    BY <1>1, <2>1 DEF Styling
  <2> QED
    BY <2>1, <2>2
<1>4. ASSUME NEW k \in 1 .. n PROVE f[k] = set_ansi_attribute(f[k - 1], seq[k])
  <2>1. 1 .. k \in SUBSET (1 .. n) /\ 1 .. k # {}
    <3>1. k \in 1 .. k
      OBVIOUS
    <3>2. \A j \in 1 .. k : j \in 1 .. n
      OBVIOUS
    <3> QED
      BY <3>1, <3>2
  <2>0. k \in 0 .. n /\ k - 1 \in 0 .. n
    OBVIOUS
  <2>2. Max(1 .. k) = k /\ (1 .. k) \ {k} = 1 .. (k - 1)
    BY MaxOfFirst
  <2>3. it[1 .. k] = set_ansi_attribute(it[(1 .. k) \ {Max(1 .. k)}], seq[Max(1 .. k)])
    BY <1>1, <2>1 DEF Styling
  <2>4. it[1 .. k] = set_ansi_attribute(it[1 .. (k - 1)], seq[k])
    BY <2>2, <2>3
  <2> QED
    BY <2>0, <2>4
<1> QED
  BY <1>2, <1>3, <1>4

\* The function that FoldLeft of Step computes with.
Writing(it, base, seq, D) ==
  it = [s \in SUBSET D |->
          IF s = {} THEN base ELSE Step(it[s \ {Max(s)}], seq[Max(s)])]

WritingAll(base, seq) == FoldLeft(Step, base, seq)

\* There is such a function: one for the first k + 1 positions is made of one
\* for the first k.
LEMMA WritingExists ==
  ASSUME NEW base, NEW seq
  PROVE  \A n \in Nat : \E it : Writing(it, base, seq, 1 .. n)
<1> DEFINE S == {k \in Nat : \E it : Writing(it, base, seq, 1 .. k)}
<1>1. 0 \in S
  <2> DEFINE z == [s \in SUBSET (1 .. 0) |-> base]
  <2>1. \A s \in SUBSET (1 .. 0) : s = {}
    OBVIOUS
  <2>2. Writing(z, base, seq, 1 .. 0)
    BY <2>1 DEF Writing
  <2> QED
    BY <2>2
<1>2. ASSUME NEW k \in Nat, k \in S PROVE k + 1 \in S
  <2>1. PICK g : Writing(g, base, seq, 1 .. k)
    BY <1>2
  <2> DEFINE h == [s \in SUBSET (1 .. k + 1) |->
                     IF s = {} THEN base ELSE Step(g[s \ {Max(s)}], seq[Max(s)])]
  <2>2. ASSUME NEW s \in SUBSET (1 .. k + 1), s # {}
        PROVE  h[s \ {Max(s)}] = g[s \ {Max(s)}]
    <3> DEFINE t == s \ {Max(s)}
    <3>1. t \in SUBSET (1 .. k)
      BY <2>2, MaxOfSome
    <3>2. t \in SUBSET (1 .. k + 1)
      BY <3>1
    <3> HIDE DEF t
    <3>3. h[t] = IF t = {} THEN base ELSE Step(g[t \ {Max(t)}], seq[Max(t)])
      BY <3>2
    <3>4. g[t] = IF t = {} THEN base ELSE Step(g[t \ {Max(t)}], seq[Max(t)])
      BY <2>1, <3>1 DEF Writing
    <3> QED
      BY <3>3, <3>4 DEF t
  <2>3. h = [s \in SUBSET (1 .. k + 1) |->
               IF s = {} THEN base ELSE Step(h[s \ {Max(s)}], seq[Max(s)])]
    BY <2>2
  <2> HIDE DEF h
  <2>4. Writing(h, base, seq, 1 .. k + 1)
    BY <2>3 DEF Writing
  <2> QED
    BY <2>4
<1> QED
  BY <1>1, <1>2, NatSteps

\* A fold of Step takes one step for each member of the sequence.
LEMMA WritingSteps ==
  ASSUME NEW base, NEW n \in Nat, NEW seq, DOMAIN seq = 1 .. n
  PROVE  \E f : /\ f[0] = base /\ f[n] = WritingAll(base, seq)
                /\ \A k \in 1 .. n : f[k] = Step(f[k - 1], seq[k])
<1> DEFINE it == CHOOSE x : Writing(x, base, seq, 1 .. n)
           f == [k \in 0 .. n |-> it[1 .. k]]
<1>1. Writing(it, base, seq, 1 .. n)
  BY WritingExists
<1>2. WritingAll(base, seq) = it[1 .. n]
  BY DEF WritingAll, FoldLeft, MapThenFoldSet, Writing
<1> HIDE DEF it
<1>3. f[0] = base /\ f[n] = it[1 .. n]
  <2>1. 1 .. 0 = {} /\ {} \in SUBSET (1 .. n) /\ 0 \in 0 .. n /\ n \in 0 .. n
    OBVIOUS
  <2>2. it[{}] = base
    BY <1>1, <2>1 DEF Writing
  <2> QED
    BY <2>1, <2>2
<1>4. ASSUME NEW k \in 1 .. n PROVE f[k] = Step(f[k - 1], seq[k])
  <2>1. 1 .. k \in SUBSET (1 .. n) /\ 1 .. k # {}
    <3>1. k \in 1 .. k
      OBVIOUS
    <3>2. \A j \in 1 .. k : j \in 1 .. n
      OBVIOUS
    <3> QED
      BY <3>1, <3>2
  <2>0. k \in 0 .. n /\ k - 1 \in 0 .. n
    OBVIOUS
  <2>2. Max(1 .. k) = k /\ (1 .. k) \ {k} = 1 .. (k - 1)
    BY MaxOfFirst
  <2>3. it[1 .. k] = Step(it[(1 .. k) \ {Max(1 .. k)}], seq[Max(1 .. k)])
    BY <1>1, <2>1 DEF Writing
  <2>4. it[1 .. k] = Step(it[1 .. (k - 1)], seq[k])
    BY <2>2, <2>3
  <2> QED
    BY <2>0, <2>4
<1> QED
  BY <1>2, <1>3, <1>4

--------------------------------------------------------------------------------
(* Colours.                                                                 *)

\* The colours that can be asked for: those that there are pairs for, and bright
\* white; styles, and what the output sets together with what is in force.
Colors == (0 .. nr_of_colors - 1) \cup (IF more_colors THEN {16} ELSE {})
Names  == {Style[n] : n \in DOMAIN Style}
Styles == [attributes : SUBSET Names, fg : Colors, bg : Colors]
Ansis  == [attributes : SUBSET Names, fg : Colors, bg : Colors, on : Styles]

\* The colours that sequences ask for.
LEMMA ColorsAre ==
  0 \in Colors /\ \A p : p[1] \in ForeNumbers \cup BackNumbers => Color(p) \in Colors
<1>1. 0 \in Colors /\ \A n \in 1 .. 8 : n \in Colors
  BY DEF Colors, nr_of_colors
<1>2. \A n \in 0 .. 7 : Bright(n) \in Colors
  BY DEF Colors, nr_of_colors, Bright
<1>3. ASSUME NEW n PROVE process_ansi_color_escape_sequence(n) \in Colors
  <2>1. CASE n \in 0 .. 7
    BY <1>1, <2>1 DEF process_ansi_color_escape_sequence
  <2>2. CASE n \in 8 .. 15
    BY <2>2 DEF process_ansi_color_escape_sequence, Colors, nr_of_colors
  <2>3. CASE n \notin 0 .. 7 /\ n \notin 8 .. 15
    BY <1>1, <2>3 DEF process_ansi_color_escape_sequence
  <2> QED
    BY <2>1, <2>2, <2>3
<1>4. ASSUME NEW p, p[1] \in ForeNumbers \cup BackNumbers PROVE Color(p) \in Colors
  <2>1. CASE p[1] \in {38, 48}
    <3>1. Color(p) = process_ansi_color_escape_sequence(p[2])
      BY <2>1 DEF Color
    <3> QED
      BY <1>3, <3>1
  <2>2. CASE p[1] \in {39, 49}
    <3>1. Color(p) = 0
      BY <2>2 DEF Color
    <3> QED
      BY <1>1, <3>1
  <2>3. CASE p[1] \in 30 .. 37 \cup 40 .. 47
    <3>1. Color(p) = (p[1] % 10) + 1
      BY <2>3 DEF Color
    <3>2. p[1] % 10 \in 0 .. 7
      BY <2>3
    <3> QED
      BY <1>1, <3>1, <3>2
  <2>4. CASE p[1] \in 90 .. 97 \cup 100 .. 107
    <3>1. Color(p) = Bright(p[1] % 10)
      BY <2>4 DEF Color
    <3>2. p[1] % 10 \in 0 .. 7
      BY <2>4
    <3> QED
      BY <1>2, <3>1, <3>2
  <2> QED
    BY <1>4, <2>1, <2>2, <2>3, <2>4 DEF ForeNumbers, BackNumbers
<1> QED
  BY <1>1, <1>4

\* Such colours are shown in the pair made for them, but for bright white: the
\* numbers of pairs are the rows of a table with nr_of_colors columns.
LEMMA PairsRight ==
  ASSUME NEW on \in Styles
  PROVE  PairRight(on)
<1> DEFINE f == on.fg
           b == on.bg
<1>1. f \in Colors /\ b \in Colors
  BY DEF Styles
<1>2. CASE more_colors
  <2>1. nr_of_colors = 16 /\ f \in 0 .. 16 /\ b \in 0 .. 16
    BY <1>1, <1>2 DEF Colors, nr_of_colors
  <2> DEFINE k == b * 16 + f
  <2>2. PairOf(on) = k + 1 /\ k \in Int /\ nr_of_colors * nr_of_colors = 256
    BY <2>1 DEF PairOf
  <2> HIDE DEF k
  <2>3. init_ansi_colors(PairOf(on)) = IF k + 1 <= 256 THEN <<k % 16, k \div 16>> ELSE <<>>
    <3>1. (k + 1) - 1 = k
      BY <2>2
    <3> QED
      BY <2>1, <2>2, <3>1 DEF init_ansi_colors
  <2> HIDE DEF f, b
  <2>4. CASE f < 16 /\ b < 16
    <3>1. k + 1 <= 256 /\ k % 16 = f /\ k \div 16 = b
      BY <2>1, <2>4 DEF k
    <3> QED
      BY <2>1, <2>3, <2>4, <3>1 DEF PairRight, f, b
  <2>5. CASE f = 16 /\ b + 1 < 16
    <3>1. k + 1 <= 256 /\ k % 16 = 0 /\ k \div 16 = b + 1
      BY <2>1, <2>5 DEF k
    <3> QED
      BY <1>2, <2>1, <2>3, <2>5, <3>1 DEF PairRight, f, b
  <2>6. CASE b = 16 \/ (f = 16 /\ b = 15)
    <3>1. ~(k + 1 <= 256) /\ ~(f < 16 /\ b < 16) /\ ~(b + 1 < 16)
      BY <2>1, <2>6 DEF k
    <3> QED
      BY <1>2, <2>1, <2>3, <3>1 DEF PairRight, f, b
  <2> QED
    BY <2>1, <2>4, <2>5, <2>6
<1>3. CASE ~more_colors
  <2>1. nr_of_colors = 9 /\ f \in 0 .. 8 /\ b \in 0 .. 8
    BY <1>1, <1>3 DEF Colors, nr_of_colors
  <2> DEFINE k == b * 9 + f
  <2>2. PairOf(on) = k + 1 /\ k \in Int /\ nr_of_colors * nr_of_colors = 81
    BY <2>1 DEF PairOf
  <2> HIDE DEF k
  <2>3. init_ansi_colors(PairOf(on)) = IF k + 1 <= 81 THEN <<k % 9, k \div 9>> ELSE <<>>
    <3>1. (k + 1) - 1 = k
      BY <2>2
    <3> QED
      BY <2>1, <2>2, <3>1 DEF init_ansi_colors
  <2> HIDE DEF f, b
  <2>4. k + 1 <= 81 /\ k % 9 = f /\ k \div 9 = b
    BY <2>1 DEF k
  <2> QED
    BY <2>1, <2>3, <2>4 DEF PairRight, f, b
<1> QED
  BY <1>2, <1>3

\* No colours, and none in force.
Fresh == [attributes |-> {}, fg |-> 0, bg |-> 0, on |-> Plain]

\* The operations on attributes and colours.
LEMMA Recolored ==
  ASSUME NEW a \in Ansis, NEW c \in Colors, NEW t \in SUBSET Names
  PROVE  /\ Foreground(a, c) \in Ansis /\ Background(a, c) \in Ansis /\ Styled(a, t) \in Ansis
         /\ reset_ansi(a) \in Ansis /\ wattr_set(a) \in Ansis
<1>1. 0 \in Colors
  BY ColorsAre
<1> QED
  BY <1>1 DEF Ansis, Styles, reset_ansi, wattr_set, Foreground, Background, Styled

\* There are none at first.
LEMMA FreshIs == Plain \in Styles /\ Fresh \in Ansis
<1>1. 0 \in Colors
  BY ColorsAre
<1> QED
  BY <1>1 DEF Ansis, Styles, Plain, Fresh

\* One number keeps colours among those that there are.
LEMMA NumberKeeps ==
  ASSUME NEW a \in Ansis, NEW p
  PROVE  set_ansi_attribute(a, p) \in Ansis
<1> DEFINE n == p[1]
           r == Asked(a, p)
<1>1. \/ r = reset_ansi(a) \/ r = a
      \/ n \in DOMAIN Style /\ r = Styled(a, a.attributes \cup {Style[n]})
      \/ r = Styled(a, a.attributes \ Undo[n])
      \/ n \in ForeNumbers /\ r = Foreground(a, Color(p))
      \/ n \in BackNumbers /\ r = Background(a, Color(p))
  BY SMT DEF Asked
<1>2. a.attributes \in SUBSET Names
  BY DEF Ansis
<1>3. a.attributes \ Undo[n] \in SUBSET Names
      /\ (n \in DOMAIN Style => a.attributes \cup {Style[n]} \in SUBSET Names)
  BY <1>2 DEF Names
<1>4. 0 \in Colors
  BY ColorsAre
<1>5. r \in Ansis
  BY <1>1, <1>2, <1>3, <1>4, ColorsAre, Recolored
<1>6. wattr_set(r) \in Ansis
  BY <1>2, <1>4, <1>5, Recolored
<1> QED
  BY <1>5, <1>6 DEF set_ansi_attribute

\* A sequence does.
LEMMA SequenceKeeps ==
  ASSUME NEW a \in Ansis, NEW Num, NEW seq \in Seq(Num)
  PROVE  process_ansi(a, seq) \in Ansis
<1> DEFINE bad == {k \in DOMAIN seq : ~Understood(seq[k])}
           n == IF bad = {} THEN Len(seq) ELSE CHOOSE k \in bad : \A j \in bad : k <= j
           s == SubSeq(seq, 1, n)
<1>1. n \in 0 .. Len(seq)
  <2>1. CASE bad # {}
    <3>1. bad \in SUBSET Nat
      OBVIOUS
    <3>2. \E k \in bad : \A j \in bad : k <= j
      BY <2>1, <3>1, LeastNat
    <3>3. n \in bad
      BY <2>1, <3>2
    <3> QED
      BY <3>3
  <2> QED
    BY <2>1
<1>2. \/ process_ansi(a, seq) = a
      \/ process_ansi(a, seq) = set_ansi_attribute(a, <<0, 0>>)
      \/ process_ansi(a, seq) = StylingAll(a, s)
  BY DEF process_ansi, StylingAll
<1>3. DOMAIN s = 1 .. n /\ n \in Nat
  BY <1>1
<1> HIDE DEF n, s
<1>4. PICK f : /\ f[0] = a /\ f[n] = StylingAll(a, s)
               /\ \A k \in 1 .. n : f[k] = set_ansi_attribute(f[k - 1], s[k])
  BY <1>3, StylingSteps
<1> DEFINE S == {k \in Nat : k <= n => f[k] \in Ansis}
<1>5. 0 \in S
  BY <1>4
<1>6. ASSUME NEW k \in Nat, k \in S PROVE k + 1 \in S
  <2> SUFFICES ASSUME k + 1 <= n PROVE f[k + 1] \in Ansis
    OBVIOUS
  <2>1. k + 1 \in 1 .. n /\ (k + 1) - 1 = k /\ k <= n
    BY <1>3
  <2>2. f[k + 1] = set_ansi_attribute(f[k], s[k + 1]) /\ f[k] \in Ansis
    BY <1>4, <1>6, <2>1
  <2> QED
    BY <2>2, NumberKeeps
<1>7. f[n] \in Ansis
  <2>1. Nat \subseteq S
    BY <1>5, <1>6, NatSteps
  <2>2. n \in S /\ n <= n
    BY <1>3, <2>1
  <2> QED
    BY <2>2
<1> QED
  BY <1>2, <1>4, <1>7, NumberKeeps

\* A set of what the output can set, with the styles in force there; it is closed
\* under the sequences of a text and under starting over.
StartsOver(A) == \A a \in A : set_ansi_attribute(reset_ansi(a), <<-1, 0>>) \in A
Obeys(A, tok) == tok.c = "escape" => \A a \in A : process_ansi(a, tok.n) \in A
Admits(A, S)  == Plain \in S /\ StartsOver(A) /\ \A a \in A : a.on \in S

\* A state of run_command's loop in which all that is displayed is in such a style.
InStyle(st, A, S) ==
  /\ st = [y |-> st.y, x |-> st.x, skip |-> st.skip, a |-> st.a, cells |-> st.cells]
  /\ st.a \in A
  /\ \A q \in DOMAIN st.cells : st.cells[q][2] \in S

\* More that is displayed, in such styles.
LEMMA MoreCells ==
  ASSUME NEW new, NEW old, NEW S, \A q \in DOMAIN new : new[q][2] \in S, \A q \in DOMAIN old : old[q][2] \in S
  PROVE  \A q \in DOMAIN Over(new, old) : Over(new, old)[q][2] \in S
BY DEF Over

\* Positions that are all displayed alike.
LEMMA EvenCells ==
  ASSUME NEW D, NEW c, NEW s, NEW S, s \in S
  PROVE  \A q \in DOMAIN [p \in D |-> <<c, s>>] : [p \in D |-> <<c, s>>][q][2] \in S
OBVIOUS

\* One character more.
LEMMA CellIn ==
  ASSUME NEW st, NEW A, NEW S, Admits(A, S), InStyle(st, A, S), NEW y, NEW x, NEW c
  PROVE  \A q \in DOMAIN Cell(st, y, x, c) : Cell(st, y, x, c)[q][2] \in S
<1> DEFINE new == [q \in {<<y, x>>} |-> <<c, st.a.on>>]
<1>1. st.a.on \in S
  BY DEF InStyle, Admits
<1>2. \A q \in DOMAIN new : new[q][2] \in S
  BY <1>1, EvenCells
<1>3. Cell(st, y, x, c) = Over(new, st.cells)
  BY DEF Cell
<1> HIDE DEF new
<1> QED
  BY <1>2, <1>3, MoreCells DEF InStyle

\* A row displayed further.
LEMMA Extended ==
  ASSUME NEW st, NEW A, NEW S, InStyle(st, A, S), NEW cells, \A q \in DOMAIN cells : cells[q][2] \in S, NEW x
  PROVE  \A r : r = [st EXCEPT !.cells = cells, !.x = x] => InStyle(r, A, S)
<1> SUFFICES ASSUME NEW r, r = [st EXCEPT !.cells = cells, !.x = x] PROVE InStyle(r, A, S)
  OBVIOUS
<1>1. st = [y |-> st.y, x |-> st.x, skip |-> st.skip, a |-> st.a, cells |-> st.cells] /\ st.a \in A
  BY DEF InStyle
<1>2. DOMAIN st = {"y", "x", "skip", "a", "cells"}
  BY <1>1
<1>3. r.cells = cells /\ r.a = st.a /\ r.x = x /\ r.y = st.y /\ r.skip = st.skip
  BY <1>2
<1>4. r = [y |-> st.y, x |-> x, skip |-> st.skip, a |-> st.a, cells |-> cells]
  BY <1>1
<1> QED
  BY <1>1, <1>3, <1>4 DEF InStyle

\* A character and a tab keep to the styles.
LEMMA CharKeeps ==
  ASSUME NEW st, NEW A, NEW S, Admits(A, S), InStyle(st, A, S)
  PROVE  (\A c : InStyle(display_char(st, c), A, S)) /\ InStyle(Tab(st), A, S)
<1>1. set_ansi_attribute(reset_ansi(st.a), <<-1, 0>>) \in A
  BY DEF Admits, StartsOver, InStyle
<1>2. ASSUME NEW c PROVE InStyle(display_char(st, c), A, S)
  <2> DEFINE a == set_ansi_attribute(reset_ansi(st.a), <<-1, 0>>)
  <2>1. CASE st.x < width
    <3> DEFINE cells == Cell(st, st.y, st.x, c)
    <3>1. \A q \in DOMAIN cells : cells[q][2] \in S
      BY CellIn
    <3>2. display_char(st, c) = [st EXCEPT !.cells = cells, !.x = @ + 1]
      BY <2>1 DEF display_char
    <3> HIDE DEF cells
    <3> QED
      BY <3>1, <3>2 DEF InStyle
  <2>2. CASE ~(st.x < width) /\ "NOWRAP" \in opts
    <3>1. display_char(st, c) = [st EXCEPT !.skip = TRUE, !.a = a]
      BY <2>2 DEF display_char
    <3> HIDE DEF a
    <3> QED
      BY <1>1, <3>1 DEF InStyle, a
  <2>3. CASE ~(st.x < width) /\ "NOWRAP" \notin opts /\ st.y + 1 < height
    <3> DEFINE cells == Cell(st, st.y + 1, 0, c)
    <3>1. \A q \in DOMAIN cells : cells[q][2] \in S
      BY CellIn
    <3>2. display_char(st, c) = [st EXCEPT !.cells = cells, !.y = @ + 1, !.x = 1]
      BY <2>3 DEF display_char
    <3> HIDE DEF cells
    <3> QED
      BY <3>1, <3>2 DEF InStyle
  <2>4. CASE ~(st.x < width) /\ "NOWRAP" \notin opts /\ ~(st.y + 1 < height)
    <3>1. display_char(st, c) = [st EXCEPT !.y = @ + 1]
      BY <2>4 DEF display_char
    <3> QED
      BY <3>1 DEF InStyle
  <2> QED
    BY <2>1, <2>2, <2>3, <2>4
<1>3. InStyle(Tab(st), A, S)
  <2> DEFINE s == display_char(st, " ")
  <2>1. InStyle(s, A, S)
    BY <1>2
  <2> HIDE DEF s
  <2>2. \/ Tab(st) = s
        \/ \E D, x : Tab(st) = [s EXCEPT !.cells = Over([q \in D |-> <<" ", s.a.on>>], s.cells), !.x = x]
    BY DEF Tab, s
  <2>3. ASSUME NEW D, NEW x, Tab(st) = [s EXCEPT !.cells = Over([q \in D |-> <<" ", s.a.on>>], s.cells), !.x = x]
        PROVE  InStyle(Tab(st), A, S)
    <3> DEFINE new == [q \in D |-> <<" ", s.a.on>>]
               cells == Over(new, s.cells)
    <3>0. Tab(st) = [s EXCEPT !.cells = cells, !.x = x]
      BY <2>3
    <3>1. s.a.on \in S
      BY <2>1 DEF InStyle, Admits
    <3>2. \A q \in DOMAIN new : new[q][2] \in S
      BY <3>1, EvenCells
    <3> HIDE DEF new
    <3>3. \A q \in DOMAIN cells : cells[q][2] \in S
      BY <2>1, <3>2, MoreCells DEF InStyle
    <3> HIDE DEF cells
    <3>4. \A r : r = [s EXCEPT !.cells = cells, !.x = x] => InStyle(r, A, S)
      BY <2>1, <3>3, Extended
    <3> QED
      BY <3>0, <3>4, Zenon
  <2> QED
    BY <2>1, <2>2, <2>3
<1> QED
  BY <1>2, <1>3

\* What clears rows is in one of them.
LEMMA ClearedIn ==
  ASSUME NEW A, NEW S, Admits(A, S), NEW a \in A
  PROVE  \E c, s : s \in S /\ Cleared(a) = <<c, s>>
BY DEF Cleared, Admits

\* One step of the loop.
LEMMA TokenKeeps ==
  ASSUME NEW st, NEW A, NEW S, Admits(A, S), InStyle(st, A, S), NEW tok, Obeys(A, tok)
  PROVE  InStyle(Step(st, tok), A, S)
<1>1. Step(st, tok) = Token(st, tok)
  BY DEF Step
<1> DEFINE b == process_ansi(st.a, tok.n)
           cells == Over(my_clrtoeol(st), st.cells)
<1>2. tok.c = "escape" => b \in A
  BY DEF InStyle, Obeys
<1>3. \A q \in DOMAIN cells : cells[q][2] \in S
  <2>1. PICK c, s : s \in S /\ Cleared(st.a) = <<c, s>>
    BY ClearedIn DEF InStyle
  <2>2. PICK D : my_clrtoeol(st) = [q \in D |-> <<c, s>>]
    BY <2>1 DEF my_clrtoeol
  <2>3. \A q \in DOMAIN my_clrtoeol(st) : my_clrtoeol(st)[q][2] \in S
    BY <2>1, <2>2
  <2> QED
    BY <2>3, MoreCells DEF InStyle
<1> HIDE DEF b, cells
<1>4. \/ Token(st, tok) = st
      \/ Token(st, tok) = [st EXCEPT !.cells = cells, !.y = @ + 1, !.x = 0, !.skip = FALSE]
      \/ tok.c = "escape" /\ Token(st, tok) = [st EXCEPT !.a = b]
      \/ Token(st, tok) = Tab(st)
      \/ Token(st, tok) = display_char(st, tok.c)
  BY DEF Token, b, cells
<1>5. CASE Token(st, tok) = [st EXCEPT !.cells = cells, !.y = @ + 1, !.x = 0, !.skip = FALSE]
  BY <1>1, <1>3, <1>5 DEF InStyle
<1>6. CASE tok.c = "escape" /\ Token(st, tok) = [st EXCEPT !.a = b]
  BY <1>1, <1>2, <1>6 DEF InStyle
<1>7. InStyle(Tab(st), A, S) /\ InStyle(display_char(st, tok.c), A, S)
  BY CharKeeps
<1> QED
  BY <1>1, <1>4, <1>5, <1>6, <1>7

\* All of a text.
LEMMA TextKeeps ==
  ASSUME NEW st, NEW n \in Nat, NEW text, DOMAIN text = 1 .. n, NEW A, NEW S
  PROVE  Admits(A, S) /\ InStyle(st, A, S) /\ (\A k \in 1 .. n : Obeys(A, text[k]))
           => InStyle(WritingAll(st, text), A, S)
<1>4. PICK f : /\ f[0] = st /\ f[n] = WritingAll(st, text)
               /\ \A k \in 1 .. n : f[k] = Step(f[k - 1], text[k])
  BY WritingSteps
<1> SUFFICES ASSUME Admits(A, S), InStyle(st, A, S), \A k \in 1 .. n : Obeys(A, text[k])
             PROVE  InStyle(WritingAll(st, text), A, S)
  OBVIOUS
<1> DEFINE N == {k \in Nat : k <= n => InStyle(f[k], A, S)}
<1>5. 0 \in N
  BY <1>4
<1>6. ASSUME NEW k \in Nat, k \in N PROVE k + 1 \in N
  <2> SUFFICES ASSUME k + 1 <= n PROVE InStyle(f[k + 1], A, S)
    OBVIOUS
  <2>1. k + 1 \in 1 .. n /\ (k + 1) - 1 = k /\ k <= n
    OBVIOUS
  <2>2. f[k + 1] = Step(f[k], text[k + 1]) /\ InStyle(f[k], A, S) /\ Obeys(A, text[k + 1])
    BY <1>4, <1>6, <2>1
  <2> QED
    BY <2>2, TokenKeeps
<1>7. InStyle(f[n], A, S)
  <2>1. Nat \subseteq N
    BY <1>5, <1>6, NatSteps
  <2>2. n \in N /\ n <= n
    BY <2>1
  <2> QED
    BY <2>2
<1> QED
  BY <1>4, <1>7

\* All of an output, with what is cleared after it.
LEMMA LayoutKeeps ==
  ASSUME NEW Tok, NEW text \in Seq(Tok), NEW A, NEW S, Admits(A, S),
         \A k \in DOMAIN text : Obeys(A, text[k]), NEW a \in A, NEW l \in Layout(text, a)
  PROVE  l.a \in A /\ \A q \in DOMAIN l.cells : l.cells[q][2] \in S
<1> DEFINE end == Final(text, a)
<1>1. end = WritingAll(Start(a), text)
  BY DEF Final, WritingAll
<1>2. InStyle(Start(a), A, S)
  BY DEF Start, InStyle
<1>3. InStyle(end, A, S)
  <2>1. Len(text) \in Nat /\ DOMAIN text = 1 .. Len(text)
    OBVIOUS
  <2> QED
    BY <1>1, <1>2, <2>1, TextKeeps
<1>4. PICK c, s : s \in S /\ Cleared(end.a) = <<c, s>>
  BY <1>3, ClearedIn DEF InStyle
<1>5. l = [cells |-> [q \in (0 .. height - 1) \X (0 .. width - 1) |->
                        IF q \in DOMAIN end.cells THEN end.cells[q] ELSE Cleared(end.a)],
           a |-> end.a]
  BY Zenon DEF Layout
<1> HIDE DEF end
<1> QED
  BY <1>3, <1>4, <1>5 DEF InStyle

\* What the output has set, and what is on the screen: colours that can be asked
\* for, and none at the beginning of a run.
ColorInv ==
  /\ ansi \in Ansis
  /\ \A q \in DOMAIN screen : screen[q][2] \in Styles
  /\ pc = "run" => ansi = Fresh
  /\ "COLOR" \notin opts => ansi = Fresh
  /\ ColorsOwn

\* Starting over from no colours, or with colours not interpreted.
LEMMA FreshStays ==
  /\ reset_ansi(Fresh) = Fresh
  /\ set_ansi_attribute(Fresh, <<-1, 0>>) = Fresh
  /\ Admits({Fresh}, {Plain}) /\ Admits(Ansis, Styles)
<1>1. reset_ansi(Fresh) = Fresh /\ wattr_set(Fresh) = Fresh
  BY DEF reset_ansi, wattr_set, Fresh, Plain
<1>2. Asked(Fresh, <<-1, 0>>) = Fresh
  BY DEF Asked, Style, Undo, ForeNumbers, BackNumbers
<1>3. set_ansi_attribute(Fresh, <<-1, 0>>) = Fresh
  BY <1>1, <1>2 DEF set_ansi_attribute
<1>4. Admits({Fresh}, {Plain})
  BY <1>1, <1>3 DEF Admits, StartsOver, Fresh
<1>5. Admits(Ansis, Styles)
  <2>1. \A a \in Ansis : set_ansi_attribute(reset_ansi(a), <<-1, 0>>) \in Ansis
    BY NumberKeeps, Recolored, ColorsAre
  <2>2. \A a \in Ansis : a.on \in Styles
    BY DEF Ansis
  <2> QED
    BY <2>1, <2>2, FreshIs DEF Admits, StartsOver
<1> QED
  BY <1>1, <1>3, <1>4, <1>5

\* A new loop of main has no colours: they are reset and put in force.
LEMMA FreshAgain ==
  ASSUME ansi \in Ansis, "COLOR" \notin opts => ansi = Fresh
  PROVE  fresh_ansi = Fresh
<1>1. CASE "COLOR" \notin opts
  BY <1>1, FreshStays DEF fresh_ansi
<1>2. CASE "COLOR" \in opts
  <2> DEFINE r == reset_ansi(ansi)
  <2>1. r = [attributes |-> {}, fg |-> 0, bg |-> 0, on |-> ansi.on]
    BY DEF reset_ansi
  <2>2. wattr_set(r) = Fresh
    BY <2>1 DEF wattr_set, Fresh, Plain
  <2> HIDE DEF r
  <2>3. Asked(r, <<-1, 0>>) = r /\ Understood(<<-1, 0>>)
    BY DEF Asked, Style, Undo, ForeNumbers, BackNumbers, Understood
  <2>4. set_ansi_attribute(r, <<-1, 0>>) = Fresh
    BY <1>2, <2>2, <2>3 DEF set_ansi_attribute
  <2> QED
    BY <2>4 DEF fresh_ansi, r
<1> QED
  BY <1>1, <1>2

\* A run.
LEMMA RunColors ==
  ASSUME Sane, WInv, ColorInv, NEW text \in Outputs, run_command(text)
  PROVE  /\ ansi' \in Ansis
         /\ \A q \in DOMAIN screen' : screen'[q][2] \in Styles
         /\ "COLOR" \notin opts => ansi' = Fresh
         /\ ColorsOwn'
<1>1. PICK l \in Layout(text, ansi), d \in Durations : RunFacts(text, l, d)
  BY RunIs
<1>2. /\ pc = "run" /\ screen' = InWindow(l.cells) /\ ansi' = l.a
      /\ shown'.chars = Chars(l.cells) /\ UNCHANGED <<opts, main_height>>
      /\ shown'.plain = \A k \in DOMAIN text : text[k].c # "escape"
  BY <1>1 DEF RunFacts, env, size
<1>3. ansi = Fresh /\ Fresh \in Ansis
  BY <1>2, FreshIs DEF ColorInv
<1>4. DOMAIN l.cells = Area(height)
  BY LayoutIs
<1>5. PICK Tok, Num : Tokens(Tok, Num) /\ Outputs \subseteq Seq(Tok)
  BY DEF Sane
<1>6. text \in Seq(Tok) /\ \A k \in DOMAIN text : text[k] \in Tok
  BY <1>5
<1>7. l.a \in Ansis /\ \A q \in DOMAIN l.cells : l.cells[q][2] \in Styles
  <2>1. \A k \in DOMAIN text : Obeys(Ansis, text[k])
    BY <1>5, <1>6, SequenceKeeps DEF Obeys, Tokens
  <2> QED
    BY <1>3, <1>6, <2>1, LayoutKeeps, FreshStays
<1>8. ASSUME \A k \in DOMAIN text : Obeys({Fresh}, text[k])
      PROVE  l.a = Fresh /\ \A q \in DOMAIN l.cells : l.cells[q][2] = Plain
  <2>1. l.a \in {Fresh} /\ \A q \in DOMAIN l.cells : l.cells[q][2] \in {Plain}
    BY <1>3, <1>6, <1>8, LayoutKeeps, FreshStays
  <2> QED
    BY <2>1
<1>9. "COLOR" \notin opts => l.a = Fresh
  <2>1. "COLOR" \notin opts => \A k \in DOMAIN text : Obeys({Fresh}, text[k])
    BY DEF Obeys, process_ansi
  <2> QED
    BY <1>8, <2>1
<1>10. \A q \in DOMAIN screen' : screen'[q][2] \in Styles
  <2> SUFFICES ASSUME NEW q \in DOMAIN screen' PROVE screen'[q][2] \in Styles
    OBVIOUS
  <2>1. q \in Area(window)
    BY <1>2, InWindowIs
  <2>2. CASE q \in DOMAIN l.cells
    BY <1>2, <1>7, <2>1, <2>2, InWindowIs
  <2>3. CASE q \notin DOMAIN l.cells
    <3>1. screen'[q] = At(q)
      BY <1>2, <2>1, <2>3 DEF InWindow, Area
    <3>2. Blank[2] = Plain
      BY DEF Blank
    <3> QED
      BY <3>1, <3>2, FreshIs DEF At, ColorInv
  <2> QED
    BY <2>2, <2>3
<1>11. ColorsOwn'
  <2> SUFFICES ASSUME shown'.plain, NEW q \in DOMAIN shown'.chars, q[1] < window'
               PROVE  screen'[q][2] = Plain
    BY DEF ColorsOwn
  <2>1. \A k \in DOMAIN text : Obeys({Fresh}, text[k])
    BY <1>2 DEF Obeys
  <2>2. q \in Area(height) /\ q \in DOMAIN l.cells
    BY <1>2, <1>4 DEF Chars
  <2>3. window' = window
    BY <1>2 DEF window
  <2>4. q \in Area(window)
    BY <2>2, <2>3, AreaIn DEF WInv
  <2>5. screen'[q] = <<l.cells[q][1], l.cells[q][2], Highlighted(l.cells, q)>>
    BY <1>2, <2>2, <2>4, InWindowIs
  <2>6. l.cells[q][2] = Plain
    BY <1>8, <2>1, <2>2
  <2> QED
    BY <2>5, <2>6
<1> QED
  BY <1>2, <1>7, <1>9, <1>10, <1>11

\* Steps that leave the colours alone.
LEMMA ColorSame ==
  ASSUME ColorInv, UNCHANGED <<COLORS, opts, main_height, ansi, screen, shown>>, pc' \in {pc, "errkey", "head", "select", "top", "end"}
  PROVE  ColorInv'
<1>1. window' = window /\ Ansis' = Ansis /\ Styles' = Styles
  BY DEF window, Ansis, Styles, Colors, nr_of_colors, more_colors
<1> QED
  BY <1>1 DEF ColorInv, ColorsOwn

\* Only a run of the command changes them, and Top, which resets them.
LEMMA ColorKeeps ==
  ASSUME Sane, WInv, ColorInv, [Next]_vars
  PROVE  ColorInv'
<1>1. CASE Top
  <2>1. /\ UNCHANGED <<COLORS, opts, screen>> /\ ansi' = fresh_ansi /\ pc' \in {"run", "end"}
    BY <1>1 DEF Top, env, End
  <2>2. ansi' = Fresh
    BY <2>1, FreshAgain DEF ColorInv
  <2>3. Ansis' = Ansis /\ Styles' = Styles
    BY <2>1 DEF Ansis, Styles, Colors, nr_of_colors, more_colors
  <2> QED
    BY <2>1, <2>2, <2>3, FreshIs DEF ColorInv, ColorsOwn
<1>2. ASSUME NEW text \in Outputs, run_command(text) PROVE ColorInv'
  <2>1. UNCHANGED <<COLORS, opts>> /\ pc' = "after"
    BY <1>2 DEF run_command, env
  <2>2. Ansis' = Ansis /\ Styles' = Styles
    BY <2>1 DEF Ansis, Styles, Colors, nr_of_colors, more_colors
  <2> QED
    BY <1>2, <2>1, <2>2, RunColors DEF ColorInv
<1>3. ASSUME NEW t, KeyFacts(t) PROVE ColorInv'
  BY <1>3, ColorSame DEF KeyFacts, screenshot, End, env, size
<1>4. ASSUME NEW r, winch_handler(r) PROVE ColorInv'
  <2>1. UNCHANGED <<COLORS, opts, main_height, ansi, screen, shown>> /\ pc' \in {pc, "select", "head"}
    BY <1>4 DEF winch_handler, env
  <2> QED
    BY <2>1, ColorSame
<1>5. CASE After \/ ErrKey \/ HowLong \/ Timeout
  <2>1. UNCHANGED <<COLORS, opts, main_height, ansi, screen, shown>>
    BY <1>5 DEF After, ErrKey, HowLong, Timeout, env, size
  <2>2. pc' \in {"errkey", "head", "select", "top", "end"}
    BY <1>5 DEF After, ErrKey, HowLong, Timeout, End
  <2> QED
    BY <2>1, <2>2, ColorSame
<1>6. CASE UNCHANGED vars
  BY <1>6, ColorSame DEF vars, env, size
<1> QED
  BY <1>1, <1>2, <1>3, <1>4, <1>5, <1>6, KeyIs DEF Next, MainStep, Done

\* The colours are always such.
LEMMA AlwaysColored ==
  ASSUME Sane
  PROVE  Spec => []ColorInv
<1>1. Init => ColorInv
  <2> SUFFICES ASSUME Init PROVE ColorInv
    OBVIOUS
  <2>1. ansi = Fresh
    BY DEF Init, reset_ansi, Fresh
  <2>2. screen = NoScreen /\ pc = "top"
    BY DEF Init
  <2>3. DOMAIN screen = {}
    BY <2>2 DEF NoScreen
  <2> QED
    BY <2>1, <2>2, <2>3, FreshIs DEF ColorInv, ColorsOwn
<1>2. WInv /\ ColorInv /\ [Next]_vars => ColorInv'
  BY ColorKeeps
<1> QED
  BY <1>1, <1>2, AlwaysWInv, PTL DEF Spec

--------------------------------------------------------------------------------
(* The theorems.                                                            *)

\* A run begins the interval after the last one, from its beginning with -p and
\* from its end without, unless a key or a change of size was answered: the
\* arithmetic of last_tick, tick and the time given to select.
THEOREM PaceCorrect ==
  ASSUME Sane
  PROVE  Spec => []Paced
<1>1. WInv => Paced
  BY DEF WInv, PaceInv
<1> QED
  BY <1>1, AlwaysWInv, PTL

\* What run_command says of the screen is whether the output's characters differ
\* from those of the run before, however keys and signals come in between.
THEOREM ChangeCorrect ==
  ASSUME Sane
  PROVE  Spec => []ChangeSeen
<1>1. WInv => ChangeSeen
  BY DEF WInv, ScreenInv
<1> QED
  BY <1>1, AlwaysWInv, PTL

\* With -q the program leaves after that many equal runs in succession, for
\* every window that is as high as the terminal ever is.
THEOREM EqualCorrect ==
  ASSUME Sane
  PROVE  Spec => []EqualExit
<1>1. WInv => EqualExit
  <2> SUFFICES ASSUME WInv PROVE EqualExit
    OBVIOUS
  <2>1. CountInv /\ max_cycles \in Nat
    BY DEF WInv, Sane
  <2> QED
    BY <2>1 DEF CountInv, EqualExit
<1> QED
  BY <1>1, AlwaysWInv, PTL

\* The screen is that of the last run: in its window; without colours if the
\* output had none; each style in the pair of colours made for it, bright white
\* excepted as PairRight says; with -d standing out where it has changed; and no
\* screenshot meets the file of an earlier one (run_command, set_ansi_attribute,
\* display_char, screenshot).
THEOREM ScreenCorrect ==
  ASSUME Sane
  PROVE  Spec => []ScreenOwn
<1>1. WInv => TypeOK /\ HighlightRight /\ ShotsKept
  <2> SUFFICES ASSUME WInv PROVE TypeOK /\ HighlightRight /\ ShotsKept
    OBVIOUS
  <2>1. HighlightRight
    BY DEF WInv, ScreenInv, HighlightRight, Shows
  <2>2. ShotsKept
    BY DEF WInv, ShotInv, ShotsKept
  <2>3. DOMAIN NoScreen = {}
    BY DEF NoScreen
  <2>4. DOMAIN screen \subseteq (0 .. window - 1) \X (0 .. width - 1)
    BY <2>3 DEF WInv, ScreenInv, Area
  <2>5. /\ pc \in {"top", "run", "after", "errkey", "head", "select", "end"}
        /\ height \in Int /\ cycle_count \in Nat /\ asleep \in 0 .. Interval
        /\ age <= Interval + Max(Durations) /\ (status = "running") = (pc # "end")
    BY DEF WInv, SizeInv, CountInv, PaceInv, Places
  <2> QED
    BY <2>1, <2>2, <2>4, <2>5 DEF TypeOK
<1>2. ColorInv => ColorsOwn /\ ColorsFit
  BY PairsRight DEF ColorInv, ColorsFit
<1>3. TypeOK /\ ColorsOwn /\ ColorsFit /\ HighlightRight /\ ShotsKept => ScreenOwn
  BY DEF ScreenOwn
<1> QED
  BY <1>1, <1>2, <1>3, AlwaysWInv, AlwaysColored, PTL

--------------------------------------------------------------------------------
(* ps: a line laid out. *)

\* s holds the totals of the first n numbers of f.
Sums(s, f, n) == s = [k \in 0 .. n |-> IF k = 0 THEN 0 ELSE s[k - 1] + f[k]]

\* There are totals of any length.
LEMMA SumsExist ==
  ASSUME NEW f
  PROVE  \A n \in Nat : \E s : Sums(s, f, n)
<1> DEFINE S == {n \in Nat : \E s : Sums(s, f, n)}
<1>1. 0 \in S
  <2> DEFINE s == [k \in 0 .. 0 |-> 0]
  <2>1. Sums(s, f, 0)
    <3>1. \A k \in 0 .. 0 : k = 0
      OBVIOUS
    <3> QED
      BY <3>1 DEF Sums
  <2> QED
    BY <2>1
<1>2. ASSUME NEW n \in Nat, n \in S PROVE n + 1 \in S
  <2>1. PICK g : Sums(g, f, n)
    BY <1>2
  <2> DEFINE s == [k \in 0 .. n + 1 |-> IF k = 0 THEN 0 ELSE g[k - 1] + f[k]]
  <2>2. \A k \in 0 .. n : s[k] = g[k]
    <3>1. \A k \in 0 .. n : g[k] = IF k = 0 THEN 0 ELSE g[k - 1] + f[k]
      BY <2>1 DEF Sums
    <3>2. \A k \in 0 .. n : k \in 0 .. n + 1
      OBVIOUS
    <3> QED
      BY <3>1, <3>2
  <2>3. \A k \in 0 .. n + 1 : k # 0 => k - 1 \in 0 .. n
    OBVIOUS
  <2>4. s = [k \in 0 .. n + 1 |-> IF k = 0 THEN 0 ELSE s[k - 1] + f[k]]
    BY <2>2, <2>3
  <2> HIDE DEF s
  <2>5. Sums(s, f, n + 1)
    BY <2>4 DEF Sums
  <2> QED
    BY <2>5
<1> HIDE DEF S
<1>3. Nat \subseteq S
  BY <1>1, <1>2, NatSteps
<1> QED
  BY <1>3 DEF S

\* The totals of a sequence of numbers: each is the one before and the number
\* there, so they never fall.
LEMMA RunningIs ==
  ASSUME NEW n \in Nat, NEW f \in [1 .. n -> Nat]
  PROVE  /\ Running(f)[0] = 0
         /\ \A k \in 1 .. n : Running(f)[k] = Running(f)[k - 1] + f[k]
         /\ \A k \in 0 .. n : Running(f)[k] \in Nat /\ Running(f)[k] <= Running(f)[n]
<1>1. Len(f) = n
  OBVIOUS
<1> DEFINE s == CHOOSE x : x = [k \in 0 .. n |-> IF k = 0 THEN 0 ELSE x[k - 1] + f[k]]
<1>2. Running(f) = s
  BY <1>1, Zenon DEF Running
<1>3. PICK h : Sums(h, f, n)
  BY SumsExist
<1>4. s = [k \in 0 .. n |-> IF k = 0 THEN 0 ELSE s[k - 1] + f[k]]
  BY <1>3, Zenon DEF Sums
<1> HIDE DEF s
<1>5. s[0] = 0 /\ \A k \in 1 .. n : s[k] = s[k - 1] + f[k]
  <2>1. \A k \in 0 .. n : s[k] = IF k = 0 THEN 0 ELSE s[k - 1] + f[k]
    BY <1>4
  <2>2. 0 \in 0 .. n /\ \A k \in 1 .. n : k \in 0 .. n /\ k # 0
    OBVIOUS
  <2> QED
    BY <2>1, <2>2
<1> DEFINE N == {k \in Nat : k <= n => s[k] \in Nat}
           M == {k \in Nat : k <= n => s[n - k] <= s[n]}
<1>6. Nat \subseteq N
  <2>1. 0 \in N
    BY <1>5
  <2>2. ASSUME NEW k \in Nat, k \in N PROVE k + 1 \in N
    <3>1. CASE k + 1 <= n
      <4>1. k + 1 \in 1 .. n /\ (k + 1) - 1 = k
        BY <3>1
      <4>2. s[k + 1] = s[k] + f[k + 1]
        BY <1>5, <4>1
      <4>3. s[k] \in Nat /\ f[k + 1] \in Nat
        BY <2>2, <3>1, <4>1
      <4> QED
        BY <4>2, <4>3
    <3>2. CASE ~(k + 1 <= n)
      BY <3>2
    <3> QED
      BY <3>1, <3>2
  <2> HIDE DEF N
  <2> QED
    BY <2>1, <2>2, NatSteps
<1>7. \A k \in 0 .. n : s[k] \in Nat
  BY <1>6
<1>8. Nat \subseteq M
  <2>1. 0 \in M
    BY <1>7
  <2>2. ASSUME NEW k \in Nat, k \in M PROVE k + 1 \in M
    <3>1. CASE k + 1 <= n
      <4>1. n - k \in 1 .. n /\ (n - k) - 1 = n - (k + 1) /\ n - (k + 1) \in 0 .. n /\ n \in 0 .. n
        BY <3>1
      <4>2. s[n - k] = s[n - (k + 1)] + f[n - k]
        BY <1>5, <4>1
      <4>3. s[n - k] \in Nat /\ s[n - (k + 1)] \in Nat /\ f[n - k] \in Nat /\ s[n] \in Nat
        <5>1. n - k \in 0 .. n
          BY <4>1
        <5> QED
          BY <1>7, <4>1, <5>1
      <4>4. s[n - k] <= s[n]
        BY <2>2, <3>1
      <4>5. s[n - (k + 1)] <= s[n]
        BY <4>2, <4>3, <4>4
      <4> QED
        BY <4>5
    <3>2. CASE ~(k + 1 <= n)
      BY <3>2
    <3> QED
      BY <3>1, <3>2
  <2> HIDE DEF M
  <2> QED
    BY <2>1, <2>2, NatSteps
<1>9. ASSUME NEW k \in 0 .. n PROVE s[k] <= s[n]
  <2>1. n - k \in Nat /\ n - k <= n /\ n - (n - k) = k
    OBVIOUS
  <2>2. n - k \in M
    BY <1>8, <2>1
  <2> QED
    BY <2>1, <2>2
<1> QED
  BY <1>2, <1>5, <1>7, <1>9

\* A column has a width, and a function that prints it unless it is filler.
LEMMA ColumnIs ==
  ASSUME NEW c \in Columns
  PROVE  /\ c.width \in Nat \ {0} /\ c.just \in Sides /\ c.pr \in BOOLEAN
         /\ c.pr <=> c.just # "AIX"
<1>1. c \in {d \in [width : Nat \ {0}, just : Sides, pr : BOOLEAN] : d.pr <=> d.just # "AIX"}
  BY LayoutAssumption
<1> QED
  BY <1>1

\* What a column is wide of itself when the totals are made.
Base(cs, i) == IF cs[i].just = "UNLIMITED" /\ i = Len(cs) THEN 3 ELSE cs[i].width

\* The columns of a format: their widths, and the totals of widths and signals.
LEMMA WidthsAre ==
  ASSUME NEW cs \in Seq(Columns)
  PROVE  /\ Len(cs) \in Nat
         /\ \A k \in 1 .. Len(cs) :
              /\ cs[k] \in Columns /\ Base(cs, k) \in Nat \ {0} /\ BlankBefore(cs, k) \in {0, 1}
              /\ Widths(cs)[k] = Widths(cs)[k - 1] + BlankBefore(cs, k) + Base(cs, k)
              /\ Sigs(cs)[k] = Sigs(cs)[k - 1] + IF cs[k].just = "SIGNAL" THEN 1 ELSE 0
         /\ \A k \in 0 .. Len(cs) :
              /\ Widths(cs)[k] \in Nat /\ Widths(cs)[k] <= Total(cs)
              /\ Sigs(cs)[k] \in Nat /\ Sigs(cs)[k] <= Sigs(cs)[Len(cs)]
         /\ Widths(cs)[0] = 0 /\ Sigs(cs)[0] = 0 /\ Total(cs) \in Nat /\ Sigs(cs)[Len(cs)] \in Nat
<1> DEFINE n == Len(cs)
<1>1. n \in Nat /\ \A k \in 1 .. n : cs[k] \in Columns
  OBVIOUS
<1> DEFINE f == [k \in 1 .. n |-> Needs(cs, k)]
           g == [k \in 1 .. n |-> IF cs[k].just = "SIGNAL" THEN 1 ELSE 0]
<1>2. ASSUME NEW k \in 1 .. n
      PROVE  /\ Base(cs, k) \in Nat \ {0} /\ BlankBefore(cs, k) \in {0, 1}
             /\ Needs(cs, k) = BlankBefore(cs, k) + Base(cs, k) /\ Needs(cs, k) \in Nat
  <2>1. cs[k].width \in Nat \ {0}
    BY <1>1, ColumnIs
  <2>2. Base(cs, k) \in Nat \ {0}
    BY <2>1 DEF Base
  <2>3. BlankBefore(cs, k) \in {0, 1}
    BY DEF BlankBefore
  <2>4. Needs(cs, k) = BlankBefore(cs, k) + Base(cs, k)
    BY DEF Needs, Base
  <2> QED
    BY <2>2, <2>3, <2>4
<1>3. f \in [1 .. n -> Nat] /\ g \in [1 .. n -> Nat]
  BY <1>2
<1>4. Widths(cs) = Running(f) /\ Sigs(cs) = Running(g)
  BY DEF Widths, Sigs
<1>5. \A k \in 1 .. n : f[k] = Needs(cs, k) /\ g[k] = IF cs[k].just = "SIGNAL" THEN 1 ELSE 0
  OBVIOUS
<1> HIDE DEF f, g
<1>6. /\ Widths(cs)[0] = 0
      /\ \A k \in 1 .. n : Widths(cs)[k] = Widths(cs)[k - 1] + f[k]
      /\ \A k \in 0 .. n : Widths(cs)[k] \in Nat /\ Widths(cs)[k] <= Widths(cs)[n]
  BY <1>1, <1>3, <1>4, RunningIs
<1>7. /\ Sigs(cs)[0] = 0
      /\ \A k \in 1 .. n : Sigs(cs)[k] = Sigs(cs)[k - 1] + g[k]
      /\ \A k \in 0 .. n : Sigs(cs)[k] \in Nat /\ Sigs(cs)[k] <= Sigs(cs)[n]
  BY <1>1, <1>3, <1>4, RunningIs
<1>8. Total(cs) = Widths(cs)[n] /\ n \in 0 .. n /\ \A k \in 1 .. n : k - 1 \in 0 .. n
  BY <1>1 DEF Total
<1>9. ASSUME NEW k \in 1 .. n
      PROVE  Widths(cs)[k] = Widths(cs)[k - 1] + BlankBefore(cs, k) + Base(cs, k)
  <2>1. Widths(cs)[k] = Widths(cs)[k - 1] + (BlankBefore(cs, k) + Base(cs, k))
    BY <1>2, <1>5, <1>6
  <2>2. Widths(cs)[k - 1] \in Nat /\ BlankBefore(cs, k) \in {0, 1} /\ Base(cs, k) \in Nat
    BY <1>2, <1>6, <1>8
  <2> QED
    BY <2>1, <2>2
<1> QED
  BY <1>1, <1>2, <1>5, <1>6, <1>7, <1>8, <1>9

\* A product with a positive number is no smaller.
LEMMA TimesMore ==
  ASSUME NEW a \in Nat \ {0}, NEW b \in Nat
  PROVE  a * b \in Nat /\ a * b >= b
<1> DEFINE S == {k \in Nat : a * k >= k}
<1>1. 0 \in S
  OBVIOUS
<1>2. ASSUME NEW k \in Nat, k \in S PROVE k + 1 \in S
  <2>1. a * (k + 1) = a * k + a
    OBVIOUS
  <2>2. a * k \in Nat
    OBVIOUS
  <2> QED
    BY <1>2, <2>1, <2>2
<1>3. Nat \subseteq S
  <2> HIDE DEF S
  <2> QED
    BY <1>1, <1>2, NatSteps
<1>4. b \in S
  BY <1>3
<1> QED
  BY <1>4

\* check_header_width finds a multiple of the screen's columns, and one that is
\* wide enough as long as half the buffer is.
LEMMA ActiveIs ==
  ASSUME NEW cs \in Seq(Columns)
  PROVE  active_cols(cs) \in Nat /\ (Total(cs) <= OutbufSize \div 2 => Roomy(cs))
<1> DEFINE H == OutbufSize \div 2
           T == Total(cs)
           S == {k \in Nat \ {0} : Enough(cs, k)}
           Least(k) == Enough(cs, k) /\ \A m \in 1 .. (k - 1) : ~Enough(cs, m)
<1>1. T \in Nat /\ screen_cols \in Nat \ {0} /\ H \in Nat
  <2>1. OutbufSize \in Nat /\ screen_cols \in Nat \ {0}
    BY LayoutAssumption
  <2>2. T \in Nat
    BY WidthsAre
  <2>3. H \in Nat
    BY <2>1
  <2> HIDE DEF H
  <2> QED
    BY <2>1, <2>2, <2>3
<1> HIDE DEF H
<1>2. T + 1 \in S
  <2>1. screen_cols * (T + 1) >= T + 1
    BY <1>1, TimesMore
  <2>2. screen_cols * (T + 1) \in Nat
    BY <1>1, TimesMore
  <2>3. screen_cols * (T + 1) >= T
    BY <1>1, <2>1, <2>2
  <2>4. T = Total(cs)
    OBVIOUS
  <2> HIDE DEF T
  <2> QED
    BY <1>1, <2>3, <2>4 DEF Enough
<1> HIDE DEF T
<1>3. PICK m \in S : \A k \in S : m <= k
  BY <1>2, LeastNat
<1>4. m \in 1 .. (T + 1) /\ Least(m)
  BY <1>1, <1>2, <1>3
<1>5. Multiple(cs) \in 1 .. (T + 1) /\ Least(Multiple(cs))
  BY <1>4 DEF Multiple, T
<1>6. Multiple(cs) \in Nat /\ Enough(cs, Multiple(cs))
  BY <1>1, <1>5
<1> DEFINE a == screen_cols * Multiple(cs)
<1>7. a \in Nat
  BY <1>1, <1>6, TimesMore
<1>8. a >= T \/ a >= H
  BY <1>6 DEF Enough, T, H
<1>9. active_cols(cs) = a
  BY DEF active_cols
<1> HIDE DEF a
<1>10. T <= H => T <= a
  BY <1>1, <1>7, <1>8
<1> QED
  BY <1>7, <1>9, <1>10 DEF Roomy, T, H

\* Where column i should begin: correct, when show_one_proc comes to it.
Place(cs, i) ==
  Widths(cs)[i - 1] + BlankBefore(cs, i) + IF wide_signals(cs) THEN 7 * Sigs(cs)[i - 1] ELSE 0

\* The places of the columns follow one another, and all of them are within the
\* columns in use if the totals are.
LEMMA PlacesAre ==
  ASSUME NEW cs \in Seq(Columns), cs # <<>>
  PROVE  /\ Place(cs, 1) = 0 /\ BlankBefore(cs, 1) = 0
         /\ \A k \in 1 .. Len(cs) :
              /\ Place(cs, k) \in Nat /\ Advance(cs, k) \in Nat /\ Field(cs, k) \in Nat
              /\ Roomy(cs) => Place(cs, k) + Base(cs, k) <= active_cols(cs)
              /\ k < Len(cs) => Place(cs, k + 1) = Place(cs, k) + Advance(cs, k) + BlankBefore(cs, k + 1)
<1> DEFINE n == Len(cs)
           W(k) == Widths(cs)[k]
           G(k) == Sigs(cs)[k]
           b(k) == BlankBefore(cs, k)
<1>1. /\ n \in Nat /\ n >= 1 /\ W(0) = 0 /\ G(0) = 0 /\ Total(cs) \in Nat /\ G(n) \in Nat
      /\ \A k \in 1 .. n :
           /\ cs[k] \in Columns /\ Base(cs, k) \in Nat \ {0} /\ b(k) \in {0, 1}
           /\ W(k) = W(k - 1) + b(k) + Base(cs, k)
           /\ G(k) = G(k - 1) + IF cs[k].just = "SIGNAL" THEN 1 ELSE 0
      /\ \A k \in 0 .. n : W(k) \in Nat /\ W(k) <= Total(cs) /\ G(k) \in Nat /\ G(k) <= G(n)
  BY WidthsAre
<1>2. b(1) = 0
  BY DEF BlankBefore
<1>3. \A k : Place(cs, k) = W(k - 1) + b(k) + IF wide_signals(cs) THEN 7 * G(k - 1) ELSE 0
  BY DEF Place
<1>4. active_cols(cs) \in Nat
  BY ActiveIs
<1>5. wide_signals(cs) <=> Total(cs) + 7 * G(n) <= active_cols(cs)
  BY DEF wide_signals
<1>6. Roomy(cs) <=> Total(cs) <= active_cols(cs)
  BY DEF Roomy
<1> HIDE DEF n, W, G, b
<1>7. Place(cs, 1) = 0
  <2>1. 1 - 1 = 0
    OBVIOUS
  <2>2. Place(cs, 1) = W(0) + b(1) + IF wide_signals(cs) THEN 7 * G(0) ELSE 0
    BY <1>3, <2>1
  <2>3. Place(cs, 1) = 0 + 0 + IF wide_signals(cs) THEN 7 * 0 ELSE 0
    BY <1>1, <1>2, <2>2
  <2> QED
    BY <2>3
<1>8. ASSUME NEW k \in 1 .. n
      PROVE  /\ Place(cs, k) \in Nat /\ Advance(cs, k) \in Nat /\ Field(cs, k) \in Nat
             /\ Roomy(cs) => Place(cs, k) + Base(cs, k) <= active_cols(cs)
             /\ k < n => Place(cs, k + 1) = Place(cs, k) + Advance(cs, k) + b(k + 1)
  <2>1. k \in 0 .. n /\ k - 1 \in 0 .. n /\ (k + 1) - 1 = k
    BY <1>1
  <2>2. /\ W(k - 1) \in Nat /\ W(k) \in Nat /\ W(k) <= Total(cs) /\ b(k) \in {0, 1} /\ Base(cs, k) \in Nat
        /\ W(k) = W(k - 1) + b(k) + Base(cs, k)
        /\ G(k - 1) \in Nat /\ G(k - 1) <= G(n) /\ G(k) \in Nat
        /\ G(k) = G(k - 1) + IF cs[k].just = "SIGNAL" THEN 1 ELSE 0
    BY <1>1, <2>1
  <2>3. cs[k].width \in Nat
    BY <1>1, ColumnIs
  <2>4. Place(cs, k) \in Nat
    <3>1. Place(cs, k) = W(k - 1) + b(k) + IF wide_signals(cs) THEN 7 * G(k - 1) ELSE 0
      BY <1>3, Zenon
    <3> QED
      BY <2>2, <3>1
  <2>5. Advance(cs, k) = cs[k].width + (IF cs[k].just = "SIGNAL" /\ wide_signals(cs) THEN 7 ELSE 0)
    BY DEF Advance
  <2>6. Advance(cs, k) \in Nat
    BY <2>3, <2>5
  <2>7. Field(cs, k) \in Nat
    BY <2>3 DEF Field
  <2>8. Roomy(cs) => Place(cs, k) + Base(cs, k) <= active_cols(cs)
    <3>1. CASE wide_signals(cs)
      <4>1. Place(cs, k) = W(k - 1) + b(k) + 7 * G(k - 1)
        BY <1>3, <3>1
      <4> QED
        <5> DEFINE p == 7 * G(k - 1)
                   q == 7 * G(n)
        <5>1. p \in Nat /\ q \in Nat /\ p <= q
          <6>1. G(n) \in Nat /\ G(k - 1) \in Nat /\ G(k - 1) <= G(n)
            BY <1>1, <2>2
          <6> HIDE DEF G
          <6> QED
            BY <6>1
        <5>2. Total(cs) + q <= active_cols(cs) /\ Place(cs, k) = W(k - 1) + b(k) + p
          BY <1>5, <3>1, <4>1
        <5> HIDE DEF p, q
        <5>3. /\ W(k - 1) \in Nat /\ W(k) \in Nat /\ W(k) <= Total(cs) /\ b(k) \in {0, 1} /\ Base(cs, k) \in Nat
              /\ W(k) = W(k - 1) + b(k) + Base(cs, k) /\ Total(cs) \in Nat
          BY <1>1, <2>2
        <5> QED
          BY <1>4, <5>1, <5>2, <5>3
    <3>2. CASE ~wide_signals(cs)
      <4>1. Place(cs, k) = W(k - 1) + b(k)
        BY <1>3, <2>2, <3>2
      <4> QED
        BY <1>1, <1>4, <1>6, <2>2, <4>1
    <3> QED
      BY <3>1, <3>2
  <2>9. ASSUME k < n PROVE Place(cs, k + 1) = Place(cs, k) + Advance(cs, k) + b(k + 1)
    <3>1. Base(cs, k) = cs[k].width
      BY <1>1, <2>9 DEF Base, n
    <3>2. k + 1 \in 1 .. n
      BY <1>1, <2>9
    <3>3. b(k + 1) \in {0, 1}
      BY <1>1, <3>2
    <3>4. Place(cs, k + 1) = W(k) + b(k + 1) + IF wide_signals(cs) THEN 7 * G(k) ELSE 0
      BY <1>3, <2>1
    <3>5. Place(cs, k) = W(k - 1) + b(k) + IF wide_signals(cs) THEN 7 * G(k - 1) ELSE 0
      BY <1>3
    <3>6. CASE wide_signals(cs) /\ cs[k].just = "SIGNAL"
      <4>1. Place(cs, k + 1) = W(k) + b(k + 1) + 7 * G(k) /\ Place(cs, k) = W(k - 1) + b(k) + 7 * G(k - 1)
        BY <3>4, <3>5, <3>6
      <4>2. G(k) = G(k - 1) + 1 /\ Advance(cs, k) = Base(cs, k) + 7 * 1
        BY <2>2, <2>5, <3>1, <3>6
      <4>3. b(k) \in Nat /\ b(k + 1) \in Nat
        BY <2>2, <3>3
      <4> QED
        <5> DEFINE p == 7 * G(k - 1)
                   q == 7 * G(k)
        <5>1. p \in Nat /\ q = p + 7
          BY <2>2, <4>2
        <5>2. Place(cs, k + 1) = W(k) + b(k + 1) + q /\ Place(cs, k) = W(k - 1) + b(k) + p
          BY <4>1
        <5> HIDE DEF p, q
        <5>3. /\ W(k - 1) \in Nat /\ W(k) \in Nat /\ Base(cs, k) \in Nat
              /\ W(k) = W(k - 1) + b(k) + Base(cs, k) /\ Advance(cs, k) = Base(cs, k) + 7
          BY <2>2, <4>2
        <5>4. Place(cs, k + 1) = (W(k - 1) + b(k) + Base(cs, k)) + b(k + 1) + (p + 7)
          BY <5>1, <5>2, <5>3
        <5>5. Place(cs, k) + Advance(cs, k) + b(k + 1) = (W(k - 1) + b(k) + p) + (Base(cs, k) + 7) + b(k + 1)
          BY <5>2, <5>3
        <5>6. (W(k - 1) + b(k) + Base(cs, k)) + b(k + 1) + (p + 7)
              = (W(k - 1) + b(k) + p) + (Base(cs, k) + 7) + b(k + 1)
          <6> DEFINE u1 == W(k - 1)
                     u2 == b(k)
                     u3 == Base(cs, k)
                     u4 == b(k + 1)
          <6>2. u1 \in Nat /\ u2 \in Nat /\ u3 \in Nat /\ u4 \in Nat /\ p \in Nat
            BY <4>3, <5>1, <5>3
          <6> HIDE DEF u1, u2, u3, u4
          <6>3. (u1 + u2 + u3) + u4 + (p + 7) = (u1 + u2 + p) + (u3 + 7) + u4
            BY <6>2
          <6> QED
            BY <6>3, Zenon DEF u1, u2, u3, u4
        <5> QED
          BY <5>4, <5>5, <5>6
    <3>7. CASE wide_signals(cs) /\ cs[k].just # "SIGNAL"
      <4>1. Place(cs, k + 1) = W(k) + b(k + 1) + 7 * G(k) /\ Place(cs, k) = W(k - 1) + b(k) + 7 * G(k - 1)
        BY <3>4, <3>5, <3>7
      <4>2. G(k) = G(k - 1) + 0 /\ Advance(cs, k) = Base(cs, k) + 7 * 0
        BY <2>2, <2>3, <2>5, <3>1, <3>7
      <4>3. b(k) \in Nat /\ b(k + 1) \in Nat
        BY <2>2, <3>3
      <4> QED
        <5> DEFINE p == 7 * G(k - 1)
                   q == 7 * G(k)
        <5>1. p \in Nat /\ q = p
          BY <2>2, <4>2
        <5>2. Place(cs, k + 1) = W(k) + b(k + 1) + q /\ Place(cs, k) = W(k - 1) + b(k) + p
          BY <4>1
        <5> HIDE DEF p, q
        <5>3. /\ W(k - 1) \in Nat /\ W(k) \in Nat /\ Base(cs, k) \in Nat
              /\ W(k) = W(k - 1) + b(k) + Base(cs, k) /\ Advance(cs, k) = Base(cs, k)
          BY <2>2, <4>2
        <5> QED
          BY <4>3, <5>1, <5>2, <5>3
    <3>8. CASE ~wide_signals(cs)
      BY <2>2, <2>3, <2>5, <3>1, <3>3, <3>4, <3>5, <3>8
    <3> QED
      BY <3>6, <3>7, <3>8
  <2> QED
    BY <2>4, <2>6, <2>7, <2>8, <2>9
<1> QED
  BY <1>2, <1>7, <1>8 DEF b, n

\* Where a text begins and ends.
Spans == {x \in [start : Nat, end : Nat] : x.start <= x.end}

\* The state that show_one_proc works on.
LTypes ==
  /\ cols \in Seq(Columns) /\ cols # <<>> /\ delimited \in BOOLEAN
  /\ line \in {"heading", "row", "end"} /\ at \in 0 .. Len(cols)
  /\ pos \in [correct : Nat, actual : Nat, dospace : {0, 1}]
  /\ written \in [{"heading", "row"} -> Seq(Spans)]
  /\ Len(written["heading"]) = IF line = "heading" THEN at ELSE Len(cols)
  /\ Len(written["row"]) = IF line = "heading" THEN 0 ELSE IF line = "row" THEN at ELSE Len(cols)

\* Between two columns: correct is the place of the next, and actual the end of
\* the last, but for one that was lost beyond the line.
Coming ==
  /\ pos.correct = Place(cols, at + 1) /\ pos.dospace = BlankBefore(cols, at + 1)
  /\ at = 0 => pos.actual = 0
  /\ at > 0 => LET e == written[line][at].end
               IN  pos.actual >= e /\ (pos.actual = e \/ e >= active_cols(cols))

\* The columns of a line that are in their place as long as all texts fit.
InPlace(cs, w) ==
  \A k \in 1 .. Len(w) :
    (\A j \in 1 .. k : Fits(cs, w, j)) =>
      IF cs[k].just \in {"RIGHT", "SIGNAL"} THEN w[k].end = Place(cs, k) + Field(cs, k)
      ELSE w[k].start = Place(cs, k)

\* The columns of a line kept apart.
ApartIn(cs, w) ==
  \A k \in 1 .. (Len(w) - 1) : w[k + 1].start >= w[k].end + IF cs[k].pr /\ cs[k + 1].pr THEN 1 ELSE 0

\* A line within the columns in use.
Within(cs, w, l, d) ==
  /\ Len(w) = Len(cs) /\ Len(cs) > 1 /\ cs[Len(cs)].just = "UNLIMITED" /\ Roomy(cs)
  /\ w[Len(cs) - 1].end < active_cols(cs)
  /\ \/ l = "row"
     \/ ~d /\ Padded(cs) /\ (\A j \in 1 .. Len(cs) : Fits(cs, w, j)) /\ w[Len(cs)].end - w[Len(cs)].start <= 3
  => w[Len(cs)].end <= active_cols(cs)

\* A line as it should be: of Spans, its columns in their place, apart and within.
GoodLine(cs, w, l, d) ==
  /\ (~d /\ Roomy(cs) /\ Padded(cs) => InPlace(cs, w))
  /\ ApartIn(cs, w)
  /\ Within(cs, w, l, d)

LInv ==
  /\ LTypes
  /\ (line # "end" /\ at < Len(cols) => Coming)
  /\ \A l \in {"heading", "row"} : GoodLine(cols, written[l], l, delimited)

\* The blanks before a text: at least those between two columns, and all that
\* padding needs when there are enough.
LEMMA SpaceIs ==
  ASSUME LTypes, NEW k \in 1 .. Len(cols), NEW amount \in Nat
  PROVE  LET need == pos.correct - pos.actual + LeftPad(k, amount)
         IN  /\ LeftPad(k, amount) \in Nat /\ LeftPad(k, amount) <= Field(cols, k)
             /\ Space(k, amount) \in Nat /\ Space(k, amount) >= pos.dospace
             /\ Space(k, amount) = pos.dospace \/ (need >= 1 /\ Space(k, amount) <= need)
             /\ (need < 1 => Space(k, amount) = pos.dospace)
             /\ (~delimited /\ need >= 1 /\ need <= SPACE_AMOUNT => Space(k, amount) = need)
<1>1. Field(cols, k) \in Nat
  BY PlacesAre DEF LTypes
<1>2. LeftPad(k, amount) \in Nat /\ LeftPad(k, amount) <= Field(cols, k)
  BY <1>1 DEF LeftPad
<1>3. pos.correct \in Nat /\ pos.actual \in Nat /\ pos.dospace \in {0, 1} /\ delimited \in BOOLEAN
  BY DEF LTypes
<1>4. SPACE_AMOUNT \in Nat \ {0}
  BY LayoutAssumption
<1> DEFINE need == pos.correct - pos.actual + LeftPad(k, amount)
           space == IF need < 1 \/ delimited THEN pos.dospace ELSE need
<1>5. Space(k, amount) = IF space > SPACE_AMOUNT THEN SPACE_AMOUNT ELSE space
  BY DEF Space
<1>6. need \in Int
  BY <1>2, <1>3
<1> HIDE DEF need
<1>7. /\ Space(k, amount) \in Nat /\ Space(k, amount) >= pos.dospace
      /\ Space(k, amount) = pos.dospace \/ (need >= 1 /\ Space(k, amount) <= need)
      /\ (need < 1 => Space(k, amount) = pos.dospace)
      /\ (~delimited /\ need >= 1 /\ need <= SPACE_AMOUNT => Space(k, amount) = need)
  BY <1>3, <1>4, <1>5, <1>6
<1> QED
  BY <1>2, <1>7 DEF need

\* The lengths of texts are numbers, and no more of one is shown.
LEMMA TextIs ==
  ASSUME LTypes, NEW k \in 1 .. Len(cols), NEW amount \in Amounts(k)
  PROVE  /\ amount \in Nat /\ TextShown(k, amount) \in Nat /\ TextShown(k, amount) <= amount
         /\ TextShown(k, amount) = amount \/ Lost(k)
<1>1. cols[k].width \in Nat
  BY ColumnIs DEF LTypes
<1>2. Texts \subseteq Nat /\ OutbufSize \in Nat \ {0}
  BY LayoutAssumption
<1>3. amount \in Nat
  <2>1. amount \in {cols[k].width} \/ amount = MaxRightward(k) \/ amount \in Texts
    BY DEF Amounts
  <2>2. RoomLeft \in Int
    BY ActiveIs DEF LTypes, RoomLeft
  <2>3. MaxRightward(k) \in Nat
    BY <1>1, <1>2, <2>2 DEF MaxRightward
  <2> QED
    BY <1>1, <1>2, <2>1, <2>3
<1> QED
  BY <1>3 DEF TextShown

\* While all texts fit, the line has not gone beyond the place of the next column,
\* is not much behind it, and that place is within the columns in use.
LEMMA Regime ==
  ASSUME LTypes, line # "end", at < Len(cols), Coming,
         InPlace(cols, written[line]), Roomy(cols), \A j \in 1 .. at : Fits(cols, written[line], j)
  PROVE  /\ pos.actual + pos.dospace <= pos.correct
         /\ pos.correct - pos.actual <= IF at + 1 > 1 THEN Advance(cols, at) + 1 ELSE 0
         /\ pos.correct + Base(cols, at + 1) <= active_cols(cols)
<1> DEFINE n == Len(cols)
           i == at + 1
           w == written[line]
<1>1. /\ n \in Nat /\ at \in Nat /\ i \in 1 .. n /\ cols \in Seq(Columns) /\ cols # <<>>
      /\ pos.correct \in Nat /\ pos.actual \in Nat /\ pos.dospace \in {0, 1}
  BY DEF LTypes
<1>2. /\ Place(cols, i) \in Nat /\ Place(cols, i) + Base(cols, i) <= active_cols(cols)
      /\ Place(cols, 1) = 0 /\ BlankBefore(cols, 1) = 0
  BY <1>1, PlacesAre
<1>3. pos.correct = Place(cols, i) /\ pos.dospace = BlankBefore(cols, i)
  BY DEF Coming
<1>4. CASE at = 0
  <2>1. i = 1 /\ pos.actual = 0
    BY <1>4 DEF Coming
  <2> QED
    BY <1>2, <1>3, <2>1
<1>5. CASE at > 0
  <2>1. at \in 1 .. n /\ at < n
    BY <1>1, <1>5
  <2>2. /\ Place(cols, at) \in Nat /\ Advance(cols, at) \in Nat /\ Field(cols, at) \in Nat
        /\ Place(cols, i) = Place(cols, at) + Advance(cols, at) + BlankBefore(cols, i)
    BY <1>1, <2>1, PlacesAre
  <2>3. w \in Seq(Spans) /\ Len(w) = at
    BY DEF LTypes
  <2>4. w[at] \in Spans
    BY <1>1, <1>5, <2>3
  <2>5. w[at].start \in Nat /\ w[at].end \in Nat /\ w[at].start <= w[at].end
    BY <2>4 DEF Spans
  <2>6. w[at].end - w[at].start <= Field(cols, at) /\ Field(cols, at) <= Advance(cols, at)
    <3>1. at \in 1 .. at
      BY <1>1, <1>5
    <3>2. Fits(cols, w, at)
      BY <3>1
    <3> QED
      BY <3>2 DEF Fits
  <2>7. w[at].end = Place(cols, at) + Field(cols, at) \/ w[at].start = Place(cols, at)
    BY <1>1, <1>5, <2>3 DEF InPlace
  <2>8. Place(cols, at) <= w[at].end /\ w[at].end <= Place(cols, at) + Advance(cols, at)
    BY <2>2, <2>5, <2>6, <2>7
  <2>9. Base(cols, i) \in Nat \ {0} /\ active_cols(cols) \in Nat
    BY <1>1, WidthsAre, ActiveIs
  <2>10. pos.actual >= w[at].end /\ (pos.actual = w[at].end \/ w[at].end >= active_cols(cols))
    BY <1>5 DEF Coming
  <2>11. w[at].end < active_cols(cols)
    <3>1. BlankBefore(cols, i) \in {0, 1}
      BY <1>1, <1>3
    <3>2. Place(cols, at) + Advance(cols, at) <= Place(cols, i)
      BY <2>2, <3>1
    <3>3. Place(cols, i) < active_cols(cols)
      BY <1>2, <2>9
    <3> HIDE DEF i
    <3> QED
      BY <1>2, <2>2, <2>5, <2>8, <2>9, <3>2, <3>3
  <2>12. pos.actual = w[at].end
    BY <2>5, <2>9, <2>10, <2>11
  <2>13. pos.actual + pos.dospace <= pos.correct
    BY <1>1, <1>3, <2>2, <2>5, <2>8, <2>12
  <2>14. pos.correct - pos.actual <= Advance(cols, at) + 1
    BY <1>1, <1>3, <2>2, <2>5, <2>8, <2>12
  <2> QED
    BY <1>1, <1>2, <1>3, <1>5, <2>13, <2>14
<1> QED
  BY <1>1, <1>4, <1>5

\* A text that fits comes where its column is: at its right edge when it is padded
\* on the left, and at its left edge otherwise.
LEMMA Settles ==
  ASSUME LTypes, line # "end", at < Len(cols), Coming, ~delimited, Roomy(cols), Padded(cols),
         InPlace(cols, written[line]), \A j \in 1 .. at : Fits(cols, written[line], j),
         NEW amount \in Amounts(at + 1),
         TextShown(at + 1, amount) <= Field(cols, at + 1)
  PROVE  /\ TextShown(at + 1, amount) = amount
         /\ IF cols[at + 1].just \in {"RIGHT", "SIGNAL"}
            THEN pos.actual + Space(at + 1, amount) + amount = Place(cols, at + 1) + Field(cols, at + 1)
            ELSE pos.actual + Space(at + 1, amount) = Place(cols, at + 1)
<1> DEFINE i == at + 1
           f == Field(cols, i)
           pad == LeftPad(i, amount)
           need == pos.correct - pos.actual + pad
           gap1 == IF i > 1 THEN Advance(cols, at) + 1 ELSE 0
<1>1. /\ i \in 1 .. Len(cols) /\ cols \in Seq(Columns) /\ cols # <<>>
      /\ pos.correct \in Nat /\ pos.actual \in Nat /\ pos.dospace \in {0, 1}
  BY DEF LTypes
<1>2. /\ pos.actual + pos.dospace <= pos.correct /\ pos.correct - pos.actual <= gap1
      /\ pos.correct + Base(cols, i) <= active_cols(cols)
  BY Regime
<1>3. Base(cols, i) \in Nat \ {0} /\ active_cols(cols) \in Nat /\ f \in Nat /\ pos.correct = Place(cols, i)
  BY <1>1, WidthsAre, ActiveIs, PlacesAre DEF Coming
<1>4. ~Lost(i)
  <2>1. active_cols(cols) - pos.actual >= 1
    BY <1>1, <1>2, <1>3
  <2>2. RoomLeft >= 1
    BY <1>1, <1>2, <1>3 DEF RoomLeft
  <2>3. RoomLeft \in Int /\ active_cols(cols) - pos.actual \in Int
    BY <1>1, <1>3 DEF RoomLeft
  <2> HIDE DEF i
  <2> QED
    BY <2>1, <2>2, <2>3 DEF Lost
<1>5. amount \in Nat /\ TextShown(i, amount) = amount
  BY <1>1, <1>4, TextIs
<1>6. amount <= f
  BY <1>5
<1>7. /\ pad \in Nat /\ pad <= f
      /\ (need < 1 => Space(i, amount) = pos.dospace)
      /\ (~delimited /\ need >= 1 /\ need <= SPACE_AMOUNT => Space(i, amount) = need)
  BY <1>1, <1>5, SpaceIs
<1>8. f + gap1 <= SPACE_AMOUNT
  <2>1. f + (IF i > 1 THEN Advance(cols, i - 1) + 1 ELSE 0) <= SPACE_AMOUNT
    BY <1>1 DEF Padded
  <2>2. i - 1 = at
    BY DEF LTypes
  <2> QED
    BY <2>1, <2>2
<1>9. gap1 \in Nat /\ SPACE_AMOUNT \in Nat
  <2>1. at > 0 => at \in 1 .. Len(cols)
    BY DEF LTypes
  <2>2. at > 0 => Advance(cols, at) \in Nat
    BY <1>1, <2>1, PlacesAre
  <2> QED
    BY <2>2, LayoutAssumption DEF LTypes
<1>10. pad = IF cols[i].just \in {"RIGHT", "SIGNAL"} THEN f - amount ELSE 0
  BY <1>3, <1>5, <1>6 DEF LeftPad
<1> DEFINE sp == Space(i, amount)
           p == Place(cols, i)
<1> HIDE DEF f, pad, gap1, sp, i, p
<1>11. pos.actual + sp = p + pad
  <2>1. (need < 1 => sp = pos.dospace) /\ (need >= 1 /\ need <= SPACE_AMOUNT => sp = need)
    BY <1>7 DEF sp
  <2>2. need <= SPACE_AMOUNT
    BY <1>1, <1>2, <1>3, <1>7, <1>8, <1>9
  <2>3. p = pos.correct
    BY <1>3 DEF p
  <2>4. CASE need < 1
    <3>1. pad = 0 /\ pos.correct = pos.actual /\ pos.dospace = 0
      BY <1>1, <1>2, <1>7, <2>4
    <3> QED
      BY <1>1, <2>1, <2>3, <2>4, <3>1
  <2>5. CASE need >= 1
    <3>1. sp = need
      BY <2>1, <2>2, <2>5
    <3> QED
      BY <1>1, <1>7, <2>3, <3>1
  <2>6. need \in Int
    BY <1>1, <1>7
  <2> QED
    BY <2>4, <2>5, <2>6
<1>12. IF cols[i].just \in {"RIGHT", "SIGNAL"} THEN pos.actual + sp + amount = p + f ELSE pos.actual + sp = p
  <2>1. CASE cols[i].just \in {"RIGHT", "SIGNAL"}
    <3>1. pos.actual + sp = p + (f - amount)
      BY <1>10, <1>11, <2>1
    <3>2. p \in Nat
      BY <1>1, <1>3 DEF p
    <3> QED
      BY <1>3, <1>5, <2>1, <3>1, <3>2
  <2>2. CASE cols[i].just \notin {"RIGHT", "SIGNAL"}
    <3>1. p \in Nat /\ pad = 0
      BY <1>1, <1>3, <1>10, <2>2 DEF p
    <3> QED
      BY <1>11, <2>2, <3>1
  <2> QED
    BY <2>1, <2>2
<1> QED
  BY <1>5, <1>12 DEF sp, f, p, i

\* The line with one more text.
Longer(w, start, shown1) == Append(w, [start |-> start, end |-> start + shown1])

\* It has the texts it had, and the new one.
Grown(v, w, b, t) ==
  /\ v \in Seq(Spans) /\ Len(v) = Len(w) + 1 /\ v[Len(w) + 1].start = b /\ v[Len(w) + 1].end = b + t
  /\ \A k \in 1 .. Len(w) : v[k] = w[k] /\ w[k] \in Spans

LEMMA LongerIs ==
  ASSUME NEW w \in Seq(Spans), NEW b \in Nat, NEW t \in Nat
  PROVE  Grown(Longer(w, b, t), w, b, t)
<1> DEFINE x == [start |-> b, end |-> b + t]
           n == Len(w)
<1>1. x \in Spans /\ x.start = b /\ x.end = b + t
  BY DEF Spans
<1>2. Longer(w, b, t) = Append(w, x)
  BY DEF Longer
<1> HIDE DEF x
<1>3. /\ Append(w, x) \in Seq(Spans) /\ Len(Append(w, x)) = n + 1 /\ Append(w, x)[n + 1] = x
      /\ \A k \in 1 .. n : Append(w, x)[k] = w[k] /\ w[k] \in Spans
  BY <1>1
<1> QED
  BY <1>1, <1>2, <1>3 DEF Grown

\* A column more leaves a line as it should be.
LEMMA LineGrows ==
  ASSUME LInv, line # "end", at < Len(cols), NEW amount \in Amounts(at + 1)
  PROVE  GoodLine(cols, Longer(written[line], pos.actual + Space(at + 1, amount), TextShown(at + 1, amount)),
                  line, delimited)
<1> DEFINE i == at + 1
           n == Len(cols)
           w == written[line]
           b == pos.actual + Space(i, amount)
           t == TextShown(i, amount)
           v == Longer(w, b, t)
           A == active_cols(cols)
<1>1. /\ LTypes /\ Coming /\ at \in Nat /\ n \in Nat /\ i \in 1 .. n /\ cols \in Seq(Columns) /\ cols # <<>>
      /\ pos.correct \in Nat /\ pos.actual \in Nat /\ pos.dospace \in {0, 1}
      /\ w \in Seq(Spans) /\ Len(w) = at /\ line \in {"heading", "row"}
  BY DEF LInv, LTypes
<1>2. GoodLine(cols, w, line, delimited)
  BY <1>1 DEF LInv
<1>3. amount \in Nat /\ t \in Nat /\ t <= amount /\ (t = amount \/ Lost(i))
  BY <1>1, TextIs
<1>4. Space(i, amount) \in Nat /\ Space(i, amount) >= pos.dospace
  BY <1>1, <1>3, SpaceIs
<1>5. b \in Nat /\ b >= pos.actual + pos.dospace
  BY <1>1, <1>4
<1>6. /\ v \in Seq(Spans) /\ Len(v) = i /\ v[i].start = b /\ v[i].end = b + t
      /\ \A k \in 1 .. at : v[k] = w[k] /\ w[k] \in Spans
  <2>1. at \in Nat /\ w \in Seq(Spans) /\ Len(w) = at /\ b \in Nat /\ t \in Nat
    BY <1>1, <1>3, <1>5
  <2> HIDE DEF w, b, t
  <2>2. Grown(v, w, b, t)
    BY <2>1, LongerIs, Zenon
  <2> HIDE DEF v
  <2> QED
    BY <2>1, <2>2 DEF Grown
<1>7. ASSUME NEW k \in 1 .. at PROVE Fits(cols, v, k) <=> Fits(cols, w, k)
  BY <1>6 DEF Fits
<1>8. pos.correct = Place(cols, i) /\ pos.dospace = BlankBefore(cols, i)
  BY <1>1 DEF Coming
<1>9. at > 0 => pos.actual >= w[at].end /\ (pos.actual = w[at].end \/ w[at].end >= A)
  BY <1>1 DEF Coming
<1> HIDE DEF v
<1>10. ASSUME ~delimited, Roomy(cols), Padded(cols) PROVE InPlace(cols, v)
  <2>1. InPlace(cols, w)
    BY <1>2, <1>10 DEF GoodLine
  <2> SUFFICES ASSUME NEW k \in 1 .. i, \A j \in 1 .. k : Fits(cols, v, j)
               PROVE  IF cols[k].just \in {"RIGHT", "SIGNAL"} THEN v[k].end = Place(cols, k) + Field(cols, k)
                      ELSE v[k].start = Place(cols, k)
    BY <1>6 DEF InPlace
  <2>2. CASE k \in 1 .. at
    <3>1. \A j \in 1 .. k : j \in 1 .. at
      BY <1>1, <2>2
    <3>2. \A j \in 1 .. k : Fits(cols, w, j)
      BY <1>7, <3>1
    <3>3. IF cols[k].just \in {"RIGHT", "SIGNAL"} THEN w[k].end = Place(cols, k) + Field(cols, k)
          ELSE w[k].start = Place(cols, k)
      BY <1>1, <2>1, <2>2, <3>2 DEF InPlace
    <3> QED
      BY <1>6, <2>2, <3>3
  <2>3. CASE k = i
    <3>1. \A j \in 1 .. at : j \in 1 .. k
      BY <1>1, <2>3
    <3>2. \A j \in 1 .. at : Fits(cols, w, j)
      BY <1>7, <3>1
    <3>3. Fits(cols, v, i)
      BY <1>1, <2>3
    <3>4. t <= Field(cols, i)
      <4>1. (b + t) - b <= Field(cols, i)
        BY <1>6, <3>3 DEF Fits
      <4>2. (b + t) - b = t
        BY <1>3, <1>5
      <4> QED
        BY <4>1, <4>2
    <3>5. /\ t = amount
          /\ IF cols[i].just \in {"RIGHT", "SIGNAL"} THEN b + amount = Place(cols, i) + Field(cols, i)
             ELSE b = Place(cols, i)
      BY <1>1, <1>10, <2>1, <3>2, <3>4, Settles
    <3> QED
      BY <1>6, <2>3, <3>5
  <2> QED
    BY <1>1, <2>2, <2>3
<1>11. ApartIn(cols, v)
  <2> SUFFICES ASSUME NEW k \in 1 .. at
               PROVE  v[k + 1].start >= v[k].end + IF cols[k].pr /\ cols[k + 1].pr THEN 1 ELSE 0
    BY <1>1, <1>6 DEF ApartIn
  <2>1. CASE k < at
    <3>1. k + 1 \in 1 .. at /\ k \in 1 .. (at - 1)
      BY <1>1, <2>1
    <3>2. w[k + 1].start >= w[k].end + IF cols[k].pr /\ cols[k + 1].pr THEN 1 ELSE 0
      BY <1>1, <1>2, <3>1 DEF GoodLine, ApartIn
    <3> QED
      BY <1>6, <3>1, <3>2
  <2>2. CASE k = at
    <3>1. v[k + 1].start = b /\ v[k].end = w[at].end /\ w[at].end \in Nat
      BY <1>6, <2>2 DEF Spans
    <3>2. pos.dospace = IF cols[k].pr /\ cols[k + 1].pr THEN 1 ELSE 0
      <4>1. at \in 1 .. n /\ i > 1 /\ i - 1 = at
        BY <1>1, <2>2
      <4>2. (cols[at].pr <=> cols[at].just # "AIX") /\ (cols[i].pr <=> cols[i].just # "AIX")
        BY <1>1, <4>1, ColumnIs
      <4> QED
        BY <1>8, <2>2, <4>1, <4>2 DEF BlankBefore
    <3>3. b >= w[at].end + pos.dospace
      <4>1. pos.actual >= w[at].end
        BY <1>9, <2>2
      <4> HIDE DEF b
      <4> QED
        BY <1>1, <1>5, <3>1, <4>1
    <3> QED
      BY <3>1, <3>2, <3>3
  <2> QED
    BY <1>1, <2>1, <2>2
<1>12. Within(cols, v, line, delimited)
  <2> SUFFICES ASSUME i = n, n > 1, cols[n].just = "UNLIMITED", Roomy(cols), v[n - 1].end < A,
                      \/ line = "row"
                      \/ ~delimited /\ Padded(cols) /\ (\A j \in 1 .. n : Fits(cols, v, j)) /\ v[n].end - v[n].start <= 3
               PROVE  v[n].end <= A
    BY <1>6 DEF Within
  <2>1. n - 1 = at /\ at \in 1 .. at /\ at > 0 /\ Base(cols, n) = 3
    BY <1>1 DEF Base
  <2>2. w[at].end < A /\ w[at].end \in Nat /\ A \in Nat
    BY <1>1, <1>6, <2>1, ActiveIs DEF Spans
  <2>3. pos.actual = w[at].end
    BY <1>9, <2>1, <2>2
  <2>4. Place(cols, n) \in Nat /\ Place(cols, n) + 3 <= A
    BY <1>1, <2>1, PlacesAre
  <2>5. LeftPad(i, amount) = 0
    BY DEF LeftPad
  <2>6. CASE line = "row"
    <3>1. cols[i].pr
      BY <1>1, ColumnIs
    <3>2. PICK x \in Texts : amount = IF x < MaxRightward(i) THEN x ELSE MaxRightward(i)
      BY <2>6, <3>1 DEF Amounts
    <3>3. /\ MaxRightward(i) = IF RoomLeft < 0 \/ RoomLeft >= OutbufSize THEN OutbufSize - 1 ELSE RoomLeft
          /\ OutbufSize \in Nat /\ x \in Nat
      BY <1>1, LayoutAssumption DEF MaxRightward
    <3> DEFINE need == pos.correct - pos.actual + LeftPad(i, amount)
    <3>4. /\ Space(i, amount) = pos.dospace \/ (need >= 1 /\ Space(i, amount) <= need)
          /\ (need < 1 => Space(i, amount) = pos.dospace)
      BY <1>1, <1>3, SpaceIs
    <3>5. need = pos.correct - pos.actual
      BY <1>1, <2>5
    <3>6. CASE pos.correct - pos.actual < 1
      <4>1. RoomLeft = A - (pos.actual + pos.dospace) /\ Space(i, amount) = pos.dospace
        BY <3>4, <3>5, <3>6 DEF RoomLeft
      <4>2. RoomLeft >= 0 /\ RoomLeft \in Int
        BY <1>1, <2>2, <2>3, <4>1
      <4>3. amount <= RoomLeft
        BY <1>3, <3>2, <3>3, <4>2
      <4>4. b = pos.actual + pos.dospace
        BY <4>1
      <4> HIDE DEF b, t
      <4> QED
        BY <1>1, <1>3, <1>5, <1>6, <2>2, <4>1, <4>3, <4>4
    <3>7. CASE pos.correct - pos.actual >= 1
      <4>1. RoomLeft = A - pos.correct
        BY <1>1, <3>7 DEF RoomLeft
      <4>2. RoomLeft >= 0 /\ RoomLeft \in Int /\ pos.correct + RoomLeft = A
        BY <1>1, <1>8, <2>2, <2>4, <4>1
      <4>3. amount <= RoomLeft
        BY <1>3, <3>2, <3>3, <4>2
      <4>4. b <= pos.correct
        <5>1. Space(i, amount) <= pos.correct - pos.actual
          BY <1>1, <1>4, <3>4, <3>5, <3>7
        <5> QED
          BY <1>1, <1>4, <5>1
      <4> HIDE DEF b, t
      <4> QED
        BY <1>1, <1>3, <1>5, <1>6, <2>2, <4>2, <4>3, <4>4
    <3> QED
      BY <1>1, <3>6, <3>7
  <2>7. CASE ~delimited /\ Padded(cols) /\ (\A j \in 1 .. n : Fits(cols, v, j)) /\ v[n].end - v[n].start <= 3
    <3>1. InPlace(cols, v)
      BY <1>10, <2>7
    <3>2. v[n].start = Place(cols, n)
      BY <1>1, <1>6, <2>7, <3>1 DEF InPlace
    <3>3. v[n].start \in Nat /\ v[n].end \in Nat
      BY <1>3, <1>5, <1>6
    <3> QED
      BY <2>2, <2>4, <2>7, <3>2, <3>3
  <2> QED
    BY <2>6, <2>7
<1> QED
  BY <1>10, <1>11, <1>12 DEF GoodLine, v

\* Coming to the next column: its place follows from this one's, and the text just
\* written ends where the line is unless it was lost.
LEMMA ComesNext ==
  ASSUME LInv, line # "end", at + 1 < Len(cols), NEW amount \in Amounts(at + 1)
  PROVE  /\ pos.correct + Advance(cols, at + 1) + Spaced(at + 1) = Place(cols, at + 2)
         /\ Spaced(at + 1) = BlankBefore(cols, at + 2)
         /\ \/ TextShown(at + 1, amount) = amount
            \/ pos.actual >= active_cols(cols)
<1> DEFINE i == at + 1
<1>1. /\ LTypes /\ at \in Nat /\ Len(cols) \in Nat /\ i \in 1 .. Len(cols) /\ i + 1 \in 1 .. Len(cols)
      /\ cols \in Seq(Columns) /\ cols # <<>> /\ i + 1 = at + 2 /\ (i + 1) - 1 = i /\ i + 1 > 1 /\ i < Len(cols)
      /\ pos.actual \in Nat
  BY DEF LInv, LTypes
<1>2. pos.correct = Place(cols, i)
  BY <1>1 DEF LInv, Coming
<1>3. (cols[i].pr <=> cols[i].just # "AIX") /\ (cols[i + 1].pr <=> cols[i + 1].just # "AIX")
  BY <1>1, ColumnIs
<1>4. Spaced(i) = BlankBefore(cols, i + 1)
  <2> HIDE DEF i
  <2> QED
    BY <1>1, <1>3 DEF Spaced, BlankBefore
<1>5. Place(cols, i + 1) = Place(cols, i) + Advance(cols, i) + BlankBefore(cols, i + 1)
  BY <1>1, PlacesAre
<1>6. TextShown(i, amount) = amount \/ Lost(i)
  BY <1>1, TextIs
<1>7. Lost(i) => pos.actual >= active_cols(cols)
  <2>1. Lost(i) => active_cols(cols) - pos.actual < 1
    BY <1>1 DEF Lost
  <2>2. active_cols(cols) \in Nat
    BY <1>1, ActiveIs
  <2> QED
    BY <1>1, <2>1, <2>2
<1> QED
  BY <1>1, <1>2, <1>4, <1>5, <1>6, <1>7

\* The invariant as it starts, and with each step.
LEMMA LayoutStarts == LayoutInit => LInv
<1> SUFFICES ASSUME LayoutInit PROVE LInv
  OBVIOUS
<1>1. PICK n \in 1 .. MaxColumns : cols \in [1 .. n -> Columns]
  BY DEF LayoutInit
<1>2. MaxColumns \in Nat
  BY LayoutAssumption
<1>3. cols \in Seq(Columns) /\ Len(cols) = n /\ cols # <<>> /\ n \in Nat \ {0}
  BY <1>1, <1>2
<1>4. written = [heading |-> <<>>, row |-> <<>>] /\ pos = Origin /\ at = 0 /\ line = "heading" /\ delimited \in BOOLEAN
  BY DEF LayoutInit
<1>5. written["heading"] = <<>> /\ written["row"] = <<>> /\ written \in [{"heading", "row"} -> Seq(Spans)]
  <2> DEFINE Q == Seq(Spans)
             e == <<>>
  <2>1. e \in Q
    OBVIOUS
  <2>2. written = [heading |-> e, row |-> e]
    BY <1>4
  <2> HIDE DEF Q, e
  <2>3. written["heading"] = e /\ written["row"] = e /\ written \in [{"heading", "row"} -> Q]
    BY <2>1, <2>2
  <2> QED
    BY <2>3 DEF Q, e
<1>6. LTypes
  BY <1>3, <1>4, <1>5 DEF LTypes, Origin
<1>7. Coming
  <2>1. Place(cols, 1) = 0 /\ BlankBefore(cols, 1) = 0
    BY <1>3, PlacesAre
  <2> QED
    BY <1>4, <2>1 DEF Coming, Origin
<1>8. ASSUME NEW l PROVE GoodLine(cols, <<>>, l, delimited)
  BY <1>3 DEF GoodLine, InPlace, ApartIn, Within
<1> QED
  BY <1>5, <1>6, <1>7, <1>8 DEF LInv

\* The next line starts where the first did.
LEMMA NextLineKeeps == LInv /\ NextLine => LInv'
<1> SUFFICES ASSUME LInv, NextLine PROVE LInv'
  OBVIOUS
<1>1. /\ LTypes /\ cols \in Seq(Columns) /\ cols # <<>> /\ Len(cols) \in Nat
  BY DEF LInv, LTypes
<1>2. /\ line # "end" /\ at = Len(cols) /\ at' = 0 /\ pos' = Origin
      /\ cols' = cols /\ delimited' = delimited /\ written' = written
      /\ line' = IF line = "heading" THEN "row" ELSE "end"
  BY DEF NextLine
<1>3. LTypes'
  BY <1>1, <1>2 DEF LTypes, Origin
<1>4. Coming'
  <2>1. Place(cols, 1) = 0 /\ BlankBefore(cols, 1) = 0
    BY <1>1, PlacesAre
  <2>2. Place(cols', at' + 1) = 0 /\ BlankBefore(cols', at' + 1) = 0
    <3>1. at' + 1 = 1
      BY <1>2
    <3> QED
      BY <1>2, <2>1, <3>1
  <2> QED
    BY <1>2, <2>2 DEF Coming, Origin
<1>5. \A l \in {"heading", "row"} : GoodLine(cols', written'[l], l, delimited')
  BY <1>2 DEF LInv
<1> QED
  BY <1>3, <1>4, <1>5 DEF LInv

\* A column more.
LEMMA ShowColumnKeeps == LInv /\ ShowColumn => LInv'
<1> SUFFICES ASSUME LInv, ShowColumn PROVE LInv'
  OBVIOUS
<1> DEFINE i == at + 1
           w == written[line]
<1>1. /\ line # "end" /\ at < Len(cols) /\ at' = i /\ cols' = cols /\ delimited' = delimited /\ line' = line
  BY DEF ShowColumn
<1>2. PICK amount \in Amounts(i) :
        /\ written' = [written EXCEPT ![line] = Longer(w, pos.actual + Space(i, amount), TextShown(i, amount))]
        /\ pos' = [actual |-> (pos.actual + Space(i, amount)) + amount,
                   correct |-> pos.correct + Advance(cols, i) + Spaced(i),
                   dospace |-> Spaced(i)]
  BY DEF ShowColumn, Longer
<1> DEFINE b == pos.actual + Space(i, amount)
           t == TextShown(i, amount)
           v == Longer(w, b, t)
<1>3. /\ LTypes /\ at \in Nat /\ Len(cols) \in Nat /\ i \in 1 .. Len(cols) /\ cols \in Seq(Columns) /\ cols # <<>>
      /\ pos.correct \in Nat /\ pos.actual \in Nat
      /\ w \in Seq(Spans) /\ Len(w) = at /\ line \in {"heading", "row"}
      /\ written \in [{"heading", "row"} -> Seq(Spans)] /\ delimited \in BOOLEAN
  BY <1>1 DEF LInv, LTypes
<1>4. amount \in Nat /\ t \in Nat /\ t <= amount
  BY <1>3, TextIs
<1>5. Space(i, amount) \in Nat
  BY <1>3, <1>4, SpaceIs
<1>6. b \in Nat
  BY <1>3, <1>5
<1>7. v \in Seq(Spans) /\ Len(v) = at + 1 /\ v[at + 1].end = b + t
  <2>1. at \in Nat /\ w \in Seq(Spans) /\ Len(w) = at /\ b \in Nat /\ t \in Nat
    BY <1>3, <1>4, <1>6
  <2> HIDE DEF w, b, t
  <2>2. Grown(v, w, b, t)
    BY <2>1, LongerIs, Zenon
  <2> HIDE DEF v
  <2> QED
    BY <2>1, <2>2 DEF Grown
<1>8. GoodLine(cols, v, line, delimited)
  BY <1>1, LineGrows
<1>9. /\ written' = [written EXCEPT ![line] = v]
      /\ pos'.actual = b + amount /\ pos'.correct = pos.correct + Advance(cols, i) + Spaced(i) /\ pos'.dospace = Spaced(i)
  BY <1>2
<1>10. Spaced(i) \in {0, 1} /\ Advance(cols, i) \in Nat
  BY <1>3, PlacesAre DEF Spaced
<1>11. pos' \in [correct : Nat, actual : Nat, dospace : {0, 1}]
  <2>1. pos' = [actual |-> b + amount, correct |-> pos.correct + Advance(cols, i) + Spaced(i), dospace |-> Spaced(i)]
    BY <1>2
  <2>2. b + amount \in Nat /\ pos.correct + Advance(cols, i) + Spaced(i) \in Nat
    BY <1>3, <1>4, <1>6, <1>10
  <2> HIDE DEF b, i
  <2> QED
    BY <1>10, <2>1, <2>2
<1> HIDE DEF v
<1>12. /\ written' \in [{"heading", "row"} -> Seq(Spans)] /\ written'[line] = v
       /\ \A l \in {"heading", "row"} : l # line => written'[l] = written[l]
  BY <1>3, <1>7, <1>9
<1>13. LTypes'
  <2>1. Len(written'["heading"]) = IF line = "heading" THEN at + 1 ELSE Len(cols)
    BY <1>3, <1>7, <1>12 DEF LTypes
  <2>2. Len(written'["row"]) = IF line = "heading" THEN 0 ELSE IF line = "row" THEN at + 1 ELSE Len(cols)
    BY <1>3, <1>7, <1>12 DEF LTypes
  <2>3. at' \in 0 .. Len(cols')
    BY <1>1, <1>3
  <2> QED
    BY <1>1, <1>3, <1>11, <1>12, <2>1, <2>2, <2>3 DEF LTypes
<1>14. ASSUME at' < Len(cols') PROVE Coming'
  <2>1. at + 1 < Len(cols)
    BY <1>1, <1>14
  <2>2. /\ pos.correct + Advance(cols, i) + Spaced(i) = Place(cols, at + 2)
        /\ Spaced(i) = BlankBefore(cols, at + 2)
        /\ t = amount \/ pos.actual >= active_cols(cols)
    BY <1>1, <2>1, ComesNext
  <2>3. at' + 1 = at + 2 /\ at' > 0 /\ at' # 0
    BY <1>1, <1>3
  <2>4. pos'.correct = Place(cols', at' + 1) /\ pos'.dospace = BlankBefore(cols', at' + 1)
    BY <1>1, <1>9, <2>2, <2>3
  <2>5. written'[line'][at'].end = b + t
    BY <1>1, <1>7, <1>12
  <2>6. active_cols(cols) \in Nat
    BY <1>3, ActiveIs
  <2>7. b >= pos.actual
    BY <1>3, <1>5
  <2>8. b + amount >= b + t /\ (b + amount = b + t \/ b + t >= active_cols(cols'))
    <3>1. active_cols(cols') = active_cols(cols)
      BY <1>1
    <3> HIDE DEF b, t
    <3> QED
      BY <1>3, <1>4, <1>6, <2>2, <2>6, <2>7, <3>1
  <2> QED
    BY <1>9, <2>3, <2>4, <2>5, <2>8 DEF Coming
<1>15. \A l \in {"heading", "row"} : GoodLine(cols', written'[l], l, delimited')
  BY <1>1, <1>8, <1>12 DEF LInv
<1> QED
  BY <1>13, <1>14, <1>15 DEF LInv

\* The invariant says what is meant.
LEMMA LaidOut == LInv => LinesLaidOut
<1> SUFFICES ASSUME LInv PROVE LinesLaidOut
  OBVIOUS
<1>1. LTypes /\ \A l \in {"heading", "row"} : GoodLine(cols, written[l], l, delimited)
  BY DEF LInv
<1>2. Aligned
  <2> SUFFICES ASSUME line = "end", ~delimited, Roomy(cols), Padded(cols), NEW k \in 1 .. Len(cols),
                      \A j \in 1 .. k : Fits(cols, written.heading, j) /\ Fits(cols, written.row, j)
               PROVE  IF cols[k].just \in {"RIGHT", "SIGNAL"} THEN written.row[k].end = written.heading[k].end
                      ELSE written.row[k].start = written.heading[k].start
    BY DEF Aligned
  <2>1. InPlace(cols, written.heading) /\ InPlace(cols, written.row)
    BY <1>1 DEF GoodLine
  <2>2. Len(written.heading) = Len(cols) /\ Len(written.row) = Len(cols)
    BY <1>1 DEF LTypes
  <2>3. IF cols[k].just \in {"RIGHT", "SIGNAL"} THEN written.heading[k].end = Place(cols, k) + Field(cols, k)
        ELSE written.heading[k].start = Place(cols, k)
    BY <2>1, <2>2 DEF InPlace
  <2>4. IF cols[k].just \in {"RIGHT", "SIGNAL"} THEN written.row[k].end = Place(cols, k) + Field(cols, k)
        ELSE written.row[k].start = Place(cols, k)
    BY <2>1, <2>2 DEF InPlace
  <2> QED
    BY <2>3, <2>4
<1>3. ColumnsApart
  BY <1>1 DEF GoodLine, ApartIn, ColumnsApart
<1>4. LineFits
  BY <1>1 DEF GoodLine, Within, LineFits
<1> QED
  BY <1>2, <1>3, <1>4 DEF LinesLaidOut

\* For every format, every width of the screen, and texts of every length:
\* columns stand under their headings while the texts fit, never run together,
\* and the last one ends with the screen (show_one_proc, check_header_width).
THEOREM LayoutCorrect == LayoutSpec => []LinesLaidOut
<1>1. LInv /\ [LayoutNext]_layoutVars => LInv'
  <2> SUFFICES ASSUME LInv, [LayoutNext]_layoutVars PROVE LInv'
    OBVIOUS
  <2>1. CASE ShowColumn
    BY <2>1, ShowColumnKeeps
  <2>2. CASE NextLine
    BY <2>2, NextLineKeeps
  <2>3. CASE UNCHANGED layoutVars
    BY <2>3 DEF layoutVars, LInv, LTypes, Coming
  <2> QED
    BY <2>1, <2>2, <2>3 DEF LayoutNext
<1> QED
  BY <1>1, LayoutStarts, LaidOut, PTL DEF LayoutSpec
================================================================================
