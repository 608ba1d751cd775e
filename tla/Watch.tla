--------------------------------- MODULE Watch ---------------------------------
(****************************************************************************)
(* watch (src/watch.c, as it is built by default: a character is a byte).   *)
(* The loop of main: look at the terminal's size, run the command and put   *)
(* its output on the screen, decide about leaving, take keys and sleep.     *)
(* Signals come at any time.  The command's output is a sequence of         *)
(* printable characters, newlines, tabs and colour sequences.               *)
(*                                                                          *)
(* Time is counted from the last run.  main has a height of its own, the    *)
(* size of the terminal at the start, which it makes its window with and    *)
(* goes back to at every change of size; the height that run_command fills  *)
(* is another variable.  Left out: -f, which lets the window scroll and     *)
(* excludes -d, -g and -q; the header, beeps, the width of the terminal,    *)
(* which never changes here, failed system calls, and the signals that end  *)
(* the program at once.                                                     *)
(****************************************************************************)
EXTENDS Integers, Sequences, FiniteSetsExt, SequencesExt, TLC

CONSTANTS
  Outputs,      \* what the command may print: sequences of characters
  Durations,    \* how long it may take
  Rows,         \* heights that the terminal may have
  width,        \* its width
  TAB_WIDTH,    \* 8
  Calls,        \* how watch may be called: options, environment, terminal
  max_cycles,   \* the argument of -q
  Interval,     \* the argument of -n
  UINT_FAST8_MAX, \* 255
  MaxInputs, MaxSecs    \* bounds on changes of size and keys, and on the clock

VARIABLES
  opts, LINES,          \* options; whether LINES is set in the environment
  COLORS,               \* how many colours the terminal has
  rows,                 \* its height now
  pc,                   \* where main is
  height, height_fixed, \* the rows that run_command fills, as get_terminal_size has it
  main_height,          \* main's own height
  first_screen, screen_size_changed, screen_changed,
  cycle_count,
  ansi,                 \* attributes and colours as the output has set them, and those
                        \* in force in the window
  screen,               \* the characters in the window, their style, and if they stand out
  cmdexit,
  age, gap,             \* time since last_tick, and since the last run began
  dontsleep, scrdumped, leave,  \* of the sleeping loop
  asleep,               \* how long select is to wait
  secs, last, last_nr, files,   \* the clock; names of screenshots
  inputs,               \* how many changes of size and keys there were
  shown,                \* history: the characters of the last output, if it had colours,
                        \* was equal to the one before or the size has changed, how often
                        \* it was, and where it has changed
  status                \* how watch has ended

env    == <<opts, LINES, COLORS>>
size   == <<height, height_fixed, main_height, screen_size_changed>>
shots  == <<secs, last, last_nr, files>>
sleepv == <<dontsleep, scrdumped, leave, asleep>>
vars == <<env, rows, pc, size, first_screen, screen_changed, cycle_count, ansi, screen, cmdexit,
          age, gap, sleepv, shots, inputs, shown, status>>

AllDiff == opts \cap {"DIFF", "CHGEXIT", "EQUEXIT"} # {}

--------------------------------------------------------------------------------
(* Colours.                                                                 *)

more_colors  == COLORS >= 16
nr_of_colors == IF more_colors THEN 16 ELSE 9

\* The pair of colours that is asked for, and the colours that a pair has been
\* made for: each with each, 0 for the terminal's own.
PairOf(on) == on.bg * nr_of_colors + on.fg + 1
init_ansi_colors(k) ==
  IF k <= nr_of_colors * nr_of_colors
    THEN <<(k - 1) % nr_of_colors, (k - 1) \div nr_of_colors>>
    ELSE <<>>

Plain == [attributes |-> {}, fg |-> 0, bg |-> 0]

reset_ansi(a) == [attributes |-> {}, fg |-> 0, bg |-> 0, on |-> a.on]
wattr_set(a)  == [a EXCEPT !.on = [attributes |-> a.attributes, fg |-> a.fg, bg |-> a.bg]]

\* The colour of ";5;n", 0 when it is not understood.
process_ansi_color_escape_sequence(n) ==
  CASE n \in 0 .. 7  -> n + 1
    [] n \in 8 .. 15 -> IF more_colors THEN n + 1 ELSE n - 8 + 1
    [] OTHER         -> 0

Style == [n \in {1, 2, 3, 4, 5, 7} |->
  CASE n = 1 -> "BOLD" [] n = 2 -> "DIM" [] n = 3 -> "ITALIC" [] n = 4 -> "UNDERLINE"
    [] n = 5 -> "BLINK" [] n = 7 -> "REVERSE"]
Undo == [n \in {21, 22, 23, 24, 25, 27} |-> IF n = 21 THEN {"BOLD"}
                                            ELSE {Style[n - 20]} \cup IF n = 22 THEN {"BOLD"} ELSE {}]

\* A bright colour, or the plain one where there are no bright ones.
Bright(n) == IF more_colors THEN n + 9 ELSE n + 1

\* The numbers for a colour of each ground, and the colour; p is <<number,
\* colour after it>>, which counts for 38 and 48.
ForeNumbers == 30 .. 39 \cup 90 .. 97
BackNumbers == 40 .. 49 \cup 100 .. 107
Color(p) ==
  CASE p[1] \in {38, 48} -> process_ansi_color_escape_sequence(p[2])
    [] p[1] \in {39, 49} -> 0
    [] p[1] \in 30 .. 37 \cup 40 .. 47 -> (p[1] % 10) + 1
    [] p[1] \in 90 .. 97 \cup 100 .. 107 -> Bright(p[1] % 10)

Styled(a, set)   == [a EXCEPT !.attributes = set]
Foreground(a, c) == [a EXCEPT !.fg = c]
Background(a, c) == [a EXCEPT !.bg = c]

Understood(p) ==
  /\ p[1] \in {-1, 0} \cup DOMAIN Style \cup DOMAIN Undo \cup ForeNumbers \cup BackNumbers
  /\ p[1] \in {38, 48} => Color(p) # 0

\* What one number of a sequence makes of attributes and colours; -1 leaves them.
Asked(a, p) ==
  LET n == p[1]
  IN  CASE n = 0 -> reset_ansi(a)
        [] n \in DOMAIN Style -> Styled(a, a.attributes \cup {Style[n]})
        [] n \in DOMAIN Undo -> Styled(a, a.attributes \ Undo[n])
        [] n \in ForeNumbers -> Foreground(a, Color(p))
        [] n \in BackNumbers -> Background(a, Color(p))
        [] OTHER -> a

\* It is put in force when it is understood; a colour that is not has been
\* taken away all the same.
set_ansi_attribute(a, p) ==
  IF "COLOR" \notin opts THEN a
  ELSE IF Understood(p) THEN wattr_set(Asked(a, p)) ELSE Asked(a, p)

\* A sequence up to the first number that is not understood; an empty one is a 0.
process_ansi(a, seq) ==
  IF "COLOR" \notin opts THEN a
  ELSE IF seq = <<>> THEN set_ansi_attribute(a, <<0, 0>>)
  ELSE LET bad == {k \in DOMAIN seq : ~Understood(seq[k])}
           n   == IF bad = {} THEN Len(seq) ELSE CHOOSE k \in bad : \A j \in bad : k <= j
       IN  FoldLeft(set_ansi_attribute, a, SubSeq(seq, 1, n))

--------------------------------------------------------------------------------
(* The screen.  A position is <<row, column>>; what is not there is blank.  *)

Blank == <<" ", Plain, FALSE>>
NoScreen == <<>>

\* The state of run_command's loop: where the next character goes, the colours
\* it will have, and what is displayed so far, characters and styles.
Start(a) == [y |-> 0, x |-> 0, skip |-> FALSE, a |-> a, cells |-> <<>>]
Over(new, old) == [q \in DOMAIN new \cup DOMAIN old |-> IF q \in DOMAIN new THEN new[q] ELSE old[q]]
Cell(st, y, x, c) == Over([q \in {<<y, x>>} |-> <<c, st.a.on>>], st.cells)

\* A character goes where it fits: in this row, or in the next one, or nowhere
\* when rows are not to be wrapped; then colours start over.
display_char(st, c) ==
  IF st.x < width
    THEN [st EXCEPT !.cells = Cell(st, st.y, st.x, c), !.x = @ + 1]
  ELSE IF "NOWRAP" \in opts
    THEN [st EXCEPT !.skip = TRUE, !.a = set_ansi_attribute(reset_ansi(st.a), <<-1, 0>>)]
  ELSE IF st.y + 1 < height
    THEN [st EXCEPT !.cells = Cell(st, st.y + 1, 0, c), !.y = @ + 1, !.x = 1]
  ELSE [st EXCEPT !.y = @ + 1]

\* What clears a row, or all rows below: blanks in the style in force if changes
\* matter, else curses' own, which have none.
Cleared(a) == <<" ", IF AllDiff THEN a.on ELSE Plain>>

my_clrtoeol(st) == [q \in {st.y} \X (st.x .. width - 1) |-> Cleared(st.a)]

\* A tab is at least one blank, and ends at a tab stop or at the right edge.
Tab(st) ==
  LET s    == display_char(st, " ")
      next == ((s.x + TAB_WIDTH - 1) \div TAB_WIDTH) * TAB_WIDTH
      stop == IF next < width THEN next ELSE width
  IN  IF s.skip \/ s.y >= height THEN s
      ELSE [s EXCEPT !.cells = Over([q \in {s.y} \X (s.x .. stop - 1) |-> <<" ", s.a.on>>], s.cells),
                     !.x = stop]

Token(st, tok) ==
  CASE st.y >= height -> st
    [] tok.c = "newline" -> [st EXCEPT !.cells = Over(my_clrtoeol(st), st.cells), !.y = @ + 1, !.x = 0,
                                         !.skip = FALSE]
    [] tok.c # "newline" /\ st.skip -> st
    [] tok.c = "escape" /\ ~st.skip -> [st EXCEPT !.a = process_ansi(st.a, tok.n)]
    [] tok.c = "tab" /\ ~st.skip -> Tab(st)
    [] OTHER -> display_char(st, tok.c)

\* (Here and in Layout, a set with one member is worked out once.)
Step(was, tok) == CHOOSE next \in {Token(st, tok) : st \in {was}} : TRUE

\* The state after all of the output.
Final(text, a) == FoldLeft(Step, Start(a), text)

\* All of the output, and the rest of the rows cleared.
Layout(text, a) ==
  {[cells |-> [q \in (0 .. height - 1) \X (0 .. width - 1) |->
                 IF q \in DOMAIN end.cells THEN end.cells[q] ELSE Cleared(end.a)],
    a |-> end.a] : end \in {Final(text, a)}}

\* What the window shows of that: rows below it are lost.
window == main_height - IF "NOTITLE" \in opts THEN 0 ELSE 2

At(q) == IF q \in DOMAIN screen THEN screen[q] ELSE Blank

\* With -d a character stands out if it is another than before, and if changes
\* are permanent, if it stood out before.
Highlighted(cells, q) ==
  /\ "DIFF" \in opts /\ ~first_screen
  /\ cells[q][1] # At(q)[1] \/ ("CUMUL" \in opts /\ At(q)[3])

InWindow(cells) ==
  [q \in (0 .. window - 1) \X (0 .. width - 1) |->
     IF q \in DOMAIN cells THEN <<cells[q][1], cells[q][2], Highlighted(cells, q)>> ELSE At(q)]

\* The rest of a row cleared unseen.
Differs_printed(cells) ==
  \E q \in DOMAIN cells : q[1] >= window \/ cells[q][1] \notin {" ", At(q)[1]}

\* A character differs from what is there.  Outside of the window there is
\* nothing that a character could be equal to.
Differs(cells) == \E q \in DOMAIN cells : q[1] >= window \/ cells[q][1] # At(q)[1]

--------------------------------------------------------------------------------
(* The loop.                                                                *)

End(how) == pc' = "end" /\ status' = how

\* With LINES the size of the terminal is not asked for, but the two rows of
\* the header are taken away every time; some rows must be left.
get_terminal_size == height' = (IF height_fixed THEN height ELSE rows) - 2

\* The flag is left as it is.
look_again == UNCHANGED screen_size_changed

look == screen_size_changed' = FALSE

\* Colours go on.
fresh_ansi_kept == ansi

fresh_ansi == set_ansi_attribute(reset_ansi(ansi), <<-1, 0>>)

\* A new size is taken up and nothing on the screen is compared with what
\* comes next; colours start over.
Top ==
  /\ pc = "top"
  /\ IF screen_size_changed
       THEN /\ look
            /\ get_terminal_size
            /\ first_screen' = TRUE
            /\ shown' = [shown EXCEPT !.resized = TRUE]
       ELSE UNCHANGED <<height, screen_size_changed, first_screen, shown>>
  /\ ansi' = fresh_ansi
  /\ age' = IF "PRECISE" \in opts THEN 0 ELSE age
  /\ gap' = 0
  /\ IF height' > 0 THEN pc' = "run" /\ UNCHANGED status ELSE End("assert")
  /\ UNCHANGED <<env, rows, height_fixed, main_height, screen_changed, cycle_count, screen, cmdexit,
                 sleepv, shots, inputs>>

\* Timed from its beginning.
tick_early(d) == age' = IF "PRECISE" \in opts THEN age + d ELSE d

\* The time that counts: from the beginning of the run, or from its end.
tick(d) == age' = IF "PRECISE" \in opts THEN age + d ELSE 0

\* The characters of a layout, whatever their colours.
Chars(cells) == [q \in DOMAIN cells |-> cells[q][1]]

\* Where characters are others than those of the run before.
ChangedAt(chars) == {q \in DOMAIN chars : q \notin DOMAIN shown.chars \/ chars[q] # shown.chars[q]}

\* The history of a run that shows these characters.
Noted(text, chars, d) ==
  {[chars |-> chars, equal |-> eq, resized |-> FALSE, dur |-> d, fresh |-> shown.resized,
    plain |-> \A k \in DOMAIN text : text[k].c # "escape",
    marks |-> IF shown.resized \/ "DIFF" \notin opts THEN {}
              ELSE ChangedAt(chars) \cup (IF "CUMUL" \in opts THEN shown.marks ELSE {}),
    same |-> IF shown.resized \/ "EQUEXIT" \notin opts THEN shown.same
             ELSE IF eq THEN Min({shown.same, max_cycles}) + 1 ELSE 0] :
     eq \in {chars = shown.chars}}

\* The status of the command makes a difference with -e only.
Status == IF "ERREXIT" \in opts THEN {0, 1} ELSE {0}

run_command(text) ==
  /\ pc = "run"
  /\ \E l \in Layout(text, ansi), code \in Status, d \in Durations :
         /\ screen_changed' = (~first_screen /\ AllDiff /\ Differs(l.cells))
         /\ screen' = InWindow(l.cells)
         /\ ansi' = l.a
         /\ shown' \in Noted(text, Chars(l.cells), d)
         /\ cmdexit' = code
         /\ tick(d) /\ gap' = d
  /\ pc' = "after"
  /\ UNCHANGED <<env, rows, size, first_screen, cycle_count, sleepv, shots, inputs, status>>

\* Counted on when the output has changed.
Cycles_runs_on == cycle_count + 1

Cycles == IF screen_changed THEN 1 ELSE cycle_count + 1

\* Leave for an error, a change or no change; else sleep.
After ==
  /\ pc = "after"
  /\ IF cmdexit # 0 /\ "ERREXIT" \in opts
       THEN pc' = "errkey" /\ UNCHANGED <<status, cycle_count, first_screen, dontsleep, scrdumped, leave>>
     ELSE IF ~first_screen /\ "CHGEXIT" \in opts /\ screen_changed
       THEN End("changed") /\ UNCHANGED <<cycle_count, first_screen, dontsleep, scrdumped, leave>>
     ELSE IF ~first_screen /\ "EQUEXIT" \in opts /\ ~screen_changed /\ cycle_count = max_cycles
       THEN End("equal") /\ UNCHANGED <<cycle_count, first_screen, dontsleep, scrdumped, leave>>
     ELSE /\ cycle_count' = IF ~first_screen /\ "EQUEXIT" \in opts THEN Cycles ELSE cycle_count
          /\ first_screen' = FALSE
          /\ dontsleep' = FALSE /\ scrdumped' = FALSE /\ leave' = FALSE
          /\ pc' = "head" /\ UNCHANGED status
  /\ UNCHANGED <<env, rows, size, screen_changed, ansi, screen, cmdexit, age, gap, asleep, shots, inputs,
                 shown>>

\* Any key ends the program with the command's status.
ErrKey ==
  /\ pc = "errkey" /\ End("error")
  /\ UNCHANGED <<env, rows, size, first_screen, screen_changed, cycle_count, ansi, screen, cmdexit, age,
                 gap, sleepv, shots, inputs, shown>>

\* The head of the sleeping loop: how long to wait.
HowLong ==
  /\ pc = "head"
  /\ dontsleep' = (dontsleep \/ (screen_size_changed /\ "NORERUN" \notin opts))
  /\ asleep' = IF ~dontsleep' /\ age < Interval THEN Interval - age ELSE 0
  /\ pc' = "select"
  /\ UNCHANGED <<env, rows, size, first_screen, screen_changed, cycle_count, ansi, screen, cmdexit, age,
                 gap, scrdumped, leave, shots, inputs, shown, status>>

\* The time is over.
Timeout ==
  /\ pc = "select"
  /\ age' = age + asleep /\ gap' = gap + asleep
  /\ IF leave THEN End("quit") ELSE pc' = "top" /\ UNCHANGED status
  /\ UNCHANGED <<env, rows, size, first_screen, screen_changed, cycle_count, ansi, screen, cmdexit,
                 sleepv, shots, inputs, shown>>

shot_name == IF secs' = last THEN <<secs', last_nr>> ELSE <<secs', -1>>

\* A file that must not exist yet, named for the second, and for a number when
\* it is not the first of its second; there is a last number.  The screen must
\* have its size still when it has been written.
screenshot ==
  /\ secs' \in secs .. MaxSecs
  /\ \/ /\ secs' = last /\ last_nr >= UINT_FAST8_MAX
        /\ End("assert") /\ UNCHANGED <<last, last_nr, files>>
     \/ /\ ~(secs' = last /\ last_nr >= UINT_FAST8_MAX)
        /\ last' = secs'
        /\ last_nr' = IF secs' = last THEN last_nr + 1 ELSE 0
        /\ files' = files \cup {shot_name}
        /\ IF shot_name \in files THEN End("exists")
           ELSE IF screen_size_changed THEN End("canceled")
           ELSE pc' = "head" /\ UNCHANGED status

\* A key; some time may have passed.
Key(k, t) ==
  /\ pc = "select" /\ inputs < MaxInputs /\ inputs' = inputs + 1
  /\ t \in 0 .. asleep /\ age' = age + t /\ gap' = gap + t
  /\ CASE k = "q" -> /\ dontsleep' = TRUE /\ leave' = TRUE /\ pc' = "head"
                     /\ UNCHANGED <<scrdumped, shots, status>>
       [] k = " " -> /\ dontsleep' = TRUE /\ pc' = "head"
                     /\ UNCHANGED <<scrdumped, leave, shots, status>>
       [] k = "s" -> IF scrdumped
                       THEN pc' = "head" /\ UNCHANGED <<dontsleep, scrdumped, leave, shots, status>>
                       ELSE screenshot /\ scrdumped' = TRUE /\ UNCHANGED <<dontsleep, leave>>
  /\ UNCHANGED <<env, rows, size, first_screen, screen_changed, cycle_count, ansi, screen, cmdexit,
                 asleep, shown>>

\* SIGWINCH.  It interrupts select if it finds it waiting; just before that it
\* only sets the flag.
winch_handler(r) ==
  /\ pc # "end" /\ inputs < MaxInputs /\ r # rows
  /\ inputs' = inputs + 1
  /\ rows' = r
  /\ screen_size_changed' = TRUE
  /\ pc' \in IF pc = "select" THEN {"select", "head"} ELSE {pc}
  /\ UNCHANGED <<env, height, height_fixed, main_height, first_screen, screen_changed, cycle_count, ansi,
                 screen, cmdexit, age, gap, sleepv, shots, shown, status>>

Done == pc = "end" /\ UNCHANGED vars

Init ==
  /\ \E c \in Calls : opts = c.opts /\ LINES = c.LINES /\ COLORS = c.COLORS /\ rows = c.rows
  /\ main_height = rows
  /\ height = rows - 2 /\ height_fixed = LINES
  /\ pc = "top"
  /\ first_screen = TRUE /\ screen_size_changed = FALSE /\ screen_changed = FALSE
  /\ cycle_count = 1 /\ ansi = reset_ansi([on |-> Plain]) /\ screen = NoScreen /\ cmdexit = 0
  /\ age = 0 /\ gap = 0
  /\ dontsleep = FALSE /\ scrdumped = FALSE /\ leave = FALSE /\ asleep = 0
  /\ secs = 1 /\ last = 0 /\ last_nr = 0 /\ files = {}
  /\ inputs = 0
  /\ shown = [chars |-> NoScreen, equal |-> FALSE, resized |-> TRUE, dur |-> 0, fresh |-> TRUE,
               plain |-> TRUE, marks |-> {}, same |-> 0]
  /\ status = "running"

MainStep ==
  \/ Top \/ After \/ HowLong \/ Timeout
  \/ \E text \in Outputs : run_command(text)

Next ==
  \/ MainStep
  \/ ErrKey
  \/ \E k \in {"q", " ", "s"}, t \in 0 .. Interval : Key(k, t)
  \/ \E r \in Rows : winch_handler(r)
  \/ Done

\* The program goes on, and what it waits for ends: the command, and select
\* when its time is over.
Fairness == WF_vars(MainStep)

Spec == Init /\ [][Next]_vars /\ Fairness

--------------------------------------------------------------------------------
(* Properties.                                                              *)

TypeOK ==
  /\ pc \in {"top", "run", "after", "errkey", "head", "select", "end"}
  /\ height \in Int /\ cycle_count \in Nat
  /\ age <= Interval + Max(Durations) /\ asleep \in 0 .. Interval
  /\ DOMAIN screen \subseteq (0 .. window - 1) \X (0 .. width - 1)
  /\ (status = "running") = (pc # "end")

\* What is asked for at the end of a run is whether the rows show other
\* characters than after the run before, if both had the same size and the window
\* holds them ("screen_changed=true <==> the screen changed", run_command).
ChangeSeen ==
  pc = "after" /\ AllDiff /\ ~shown.fresh /\ height <= window =>
    (screen_changed <=> ~shown.equal)

\* With -q the program leaves after that many runs in succession without a
\* change, neither earlier nor later; runs after a change of size do not count.
EqualExit ==
  "EQUEXIT" \in opts /\ main_height = Max(Rows) =>
    /\ status = "equal" => shown.same = max_cycles
    /\ pc = "head" => shown.same < max_cycles

\* A run begins no sooner and no later than the interval after the last, from
\* beginning to beginning with -p and from end to beginning without, unless a
\* key or a change of size was answered; a command that takes longer is waited for.
Paced ==
  pc = "top" /\ ~dontsleep /\ shown.chars # NoScreen =>
    gap = IF "PRECISE" \notin opts THEN Interval + shown.dur
          ELSE IF shown.dur > Interval THEN shown.dur ELSE Interval

\* An output without colours of its own is shown in none, whatever the runs
\* before it have left on.
ColorsOwn ==
  pc = "after" /\ shown.plain =>
    \A q \in DOMAIN shown.chars : q[1] < window => screen[q][2] = Plain

\* The pair of colours that a style is shown in is the one made for the colours
\* asked for.  Bright white, for which none is made, is the exception: as a
\* foreground it shows the terminal's own on the next background, and on the last
\* background, or as a background, there is no such pair.
PairRight(on) ==
  LET nr   == nr_of_colors
      pair == init_ansi_colors(PairOf(on))
  IN  IF on.fg < nr /\ on.bg < nr THEN pair = <<on.fg, on.bg>>
      ELSE /\ more_colors /\ on.fg <= nr /\ on.bg <= nr
           /\ pair = IF on.bg + 1 < nr THEN <<0, on.bg + 1>> ELSE <<>>

\* Every character on the screen has its colours, in the sense of PairRight
\* (init_ansi_colors, set_ansi_attribute).
ColorsFit == \A q \in DOMAIN screen : PairRight(screen[q][2])

\* With -d the characters that stand out are those that have changed since the
\* run before; with permanent changes, since the size last changed.
HighlightRight ==
  pc = "after" /\ "DIFF" \in opts =>
    \A q \in DOMAIN shown.chars : q[1] < window => (screen[q][3] <=> q \in shown.marks)

\* Every screenshot gets a file of its own: taking one never finds the file
\* of an earlier one in its way.
ShotsKept == status # "exists"

\* A change of size is taken up in the end, also one that comes between the
\* test and select, where no signal interrupts the sleep.
ResizeSeen == screen_size_changed ~> (~screen_size_changed \/ pc \in {"end", "errkey"})

\* The key q ends the program.
QuitEnds == leave ~> pc = "end"

\* The screen is that of the last run: in its window, in its own colours, in the
\* pairs of colours made for them (bright white excepted as PairRight has it), with
\* the changes highlighted that -d asks for, and every screenshot has its own file.
ScreenOwn == TypeOK /\ ColorsOwn /\ ColorsFit /\ HighlightRight /\ ShotsKept

\* A change of size and the key q are answered in the end, whenever they come.
Answered == ResizeSeen /\ QuitEnds
================================================================================
