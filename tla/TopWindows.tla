----------------------------- MODULE TopWindows -----------------------------
(***************************************************************************)
(* The task windows of top (src/top/top.c): GROUPSMAX windows over one     *)
(* table of tasks, each with its own order, filters and first row          *)
(* (begtask).  The main loop alternates frame_make, which reads the tasks  *)
(* and draws the windows, and do_key, which changes the current window.    *)
(*                                                                         *)
(* Pids_reap->stacks is a table of result stacks the library reuses: frame *)
(* after frame the k-th task is stored in the k-th stack, and a window's   *)
(* ppt is an array of pointers to stacks, copied from the table and then   *)
(* sorted.  Both only grow, so past PIDSmaxt they hold what an earlier     *)
(* frame left there.  Positions are counted from 0, as in the code.        *)
(***************************************************************************)
EXTENDS Integers, Sequences, FiniteSets, FiniteSetsExt, SequencesExt

CONSTANTS
    GROUPSMAX,      \* number of windows
    Tables,         \* what one reap may find: sets of tasks
    Parent,         \* task -> parent task, or 0
    Tgid,           \* task -> leader of its thread group
    Began,          \* task -> start time; no two alike, a child may be older
    Tics,           \* task -> cpu tics used since the last frame; 0 when idle
    Mine,           \* the tasks of the user that 'u' is answered with
    Named,          \* the tasks that the criterion given to 'o' or 'L' matches
    Keys,           \* the keys that are struck
    MaxKeys,        \* bound: keystrokes
    Lines           \* the values of Max_lines that the screen sizes give

ASSUME TopAssumption ==
    /\ GROUPSMAX \in Nat \ {0} /\ Lines \subseteq Nat \ {0} /\ MaxKeys \in Nat
    /\ \A t \in UNION Tables : t \in Nat \ {0} /\ Tgid[t] \in Nat \ {0}

Window == 1..GROUPSMAX
Task == UNION Tables

VARIABLES
    win,            \* Winstk
    Curwin,
    altscr,         \* Rc.mode_altscr
    Thread_mode,
    Hide_pid,       \* parents whose children were collapsed (negative: expanded)
    stacks,         \* the task each result stack holds
    PIDSmaxt,       \* how many of them this frame filled
    tree,           \* eu_TREE_LVL and eu_TREE_HID of each stack, Tree_ppt, Tree_idx # 0
    rows,           \* window -> the stacks drawn this frame
    lines,          \* window -> lines it took, 0 when it was not drawn
    Max_lines,
    vized,          \* the window while drawing which window_hlp ran, or 0
    asked,          \* the task that the last prompt for a pid offered, or 0
    beg_sav,        \* begtask of window w_sav before its idle tasks were hidden
    w_sav,
    pc, keys

vars == <<win, Curwin, altscr, Thread_mode, Hide_pid, stacks, PIDSmaxt, tree,
          rows, lines, Max_lines, vized, asked, beg_sav, w_sav, pc, keys>>
frame == <<stacks, PIDSmaxt, tree, rows, lines, Max_lines, vized>>

-----------------------------------------------------------------------------
(* tasks_refresh: the library fills its stacks from the first one on and   *)
(* every window's array is started over, whatever lies beyond stays.       *)

Reaped(t, threads) == SetToSortSeq(IF threads THEN t ELSE {x \in t : Tgid[x] = x}, <)

Overwrite(old, new) == new \o SubSeq(old, Len(new) + 1, Len(old))

Identity(n) == [k \in 1..n |-> k]

Refilled(old, n, size, zero) == [x \in 1..size |-> IF x <= n THEN zero ELSE old[x]]


tasks_refresh(ws, tasks) ==
    LET n == Len(tasks)
        stk == Overwrite(stacks, tasks)
    IN  [stk |-> stk, n |-> n,
         win |-> [q \in Window |-> [ws[q] EXCEPT !.ppt = Overwrite(@, Identity(n))]],
         tree |-> [ppt |-> <<>>, hide |-> Hide_pid,
                   lvl |-> Refilled(tree.lvl, n, Len(stk), 0),
                   hid |-> Refilled(tree.hid, n, Len(stk), "")]]

-----------------------------------------------------------------------------
(* Forest view.  Children are looked for among the tasks that started      *)
(* later, a task whose parent started after it becomes a root.             *)

IsChild(s, a, b) ==
    \/ s[a] = Tgid[s[b]]
    \/ s[a] = Parent[s[b]] /\ s[b] = Tgid[s[b]]

Deeper(seq) == [k \in 1..Len(seq) |-> [seq[k] EXCEPT !.lvl = Min({@ + 1, 101})]]

forest_adds(s, seed) ==
    LET n == Len(seed)
        kids(i) == SetToSortSeq({j \in (i + 1)..n : IsChild(s, seed[i], seed[j])}, <)
        adds[i \in 1..n] ==
            FoldLeft(LAMBDA acc, j : acc \o Deeper(adds[j]), <<[stk |-> seed[i], lvl |-> 0]>>, kids(i))
        roots == SetToSortSeq({i \in 1..n : \A j \in 1..(i - 1) : ~IsChild(s, seed[j], seed[i])}, <)
    IN  FoldLeft(LAMBDA acc, i : acc \o adds[i], <<>>, roots)

(* A bug: the range of a collapsed parent ends at its first child.         *)
Collapse_first(s, f, k) ==
    LET h == f.hide[k]
        at == {j \in 1..Len(f.ppt) : s[f.ppt[j]] = h}
    IN  IF h <= 0 THEN f
        ELSE IF at = {} THEN [f EXCEPT !.hide[k] = -h]
        ELSE [f EXCEPT !.hid = [x \in DOMAIN @ |->
                 IF Min(at) < Len(f.ppt) /\ x = f.ppt[Min(at) + 1] THEN "z" ELSE @[x]]]

(* One entry of Hide_pid: the children of a collapsed parent are unseen,   *)
(* the parent is marked; an entry whose task is gone is switched off.      *)
Collapse(s, f, k) ==
    LET h == f.hide[k]
        n == Len(f.ppt)
        at == {j \in 1..n : s[f.ppt[j]] = h}
    IN  IF h <= 0 THEN f
        ELSE IF at = {} THEN [f EXCEPT !.hide[k] = -h]
        ELSE LET p == Min(at)
                 past == {j \in (p + 1)..n : f.lvl[f.ppt[j]] <= f.lvl[f.ppt[p]]}
                 last == IF past = {} THEN n ELSE Min(past) - 1
             IN  IF last = p THEN f
                 ELSE [f EXCEPT !.hid = [x \in DOMAIN @ |->
                          IF x = f.ppt[p] THEN "x"
                          ELSE IF \E j \in (p + 1)..last : f.ppt[j] = x THEN "z"
                          ELSE @[x]]]

(* The first window of a frame in forest view builds the tree.             *)
forest_begin(s, f, ppt, n) ==
    IF f.ppt # <<>> THEN f
    ELSE LET seed == SortSeq(SubSeq(ppt, 1, n), LAMBDA a, b : Began[s[a]] < Began[s[b]])
             t == forest_adds(s, seed)
             new == [f EXCEPT !.ppt = [k \in 1..Len(t) |-> t[k].stk],
                              !.lvl = [x \in DOMAIN @ |->
                                  IF \E k \in 1..Len(t) : t[k].stk = x
                                  THEN t[CHOOSE k \in 1..Len(t) : t[k].stk = x].lvl ELSE @[x]]]
         IN  FoldLeft(LAMBDA g, k : Collapse(s, g, k), new, [k \in 1..Len(f.hide) |-> k])

(* The range of a focused window: its task and what is indented below it.  *)
forest_config(s, f, w, n) ==
    LET at == {i \in 0..(n - 1) : s[w.ppt[i + 1]] = w.focus_pid}
        i == Min(at)
        past == {j \in (i + 1)..(n - 1) : f.lvl[w.ppt[j + 1]] <= f.lvl[w.ppt[i + 1]]}
    IN  IF at = {} THEN [w EXCEPT !.focus_pid = 0, !.begtask = 0]
        ELSE [w EXCEPT !.focus_beg = i,
                       !.focus_end = IF past = {} THEN n ELSE Min(past),
                       !.begtask = Max({@, i}),
                       !.begnext = IF w.begtask < i THEN 0 ELSE @]

-----------------------------------------------------------------------------
(* window_show.  d carries what a frame changes: the windows, the tree,    *)
(* the rows and lines drawn so far.                                        *)

wins_usrselect(w, t) == ("u" \in w.filters) => t \in Mine

(* task_show yields an empty row for an unseen child, in the current       *)
(* window only, and for a task that the other filters exclude.             *)
task_show(d, q, x) ==
    LET w == d.win[q]
    IN  /\ (q = d.cur /\ w.forest) => d.tree.hid[x] # "z"
        /\ ("o" \in w.filters) => d.stk[x] \in Named

Visible(d, q, i) ==
    LET w == d.win[q]
    IN  /\ i + 1 \in DOMAIN w.ppt
        /\ wins_usrselect(w, d.stk[w.ppt[i + 1]])
        /\ task_show(d, q, w.ppt[i + 1])

(* window_hlp moves the first row of the current window by begnext and     *)
(* then to a task that is visible: forward, and else backward.             *)
Forward(d, from, end) == {i \in from..(end - 1) : Visible(d, d.cur, i)}
Backward(d, from, beg) ==
    LET s == {i \in (beg + 1)..from : Visible(d, d.cur, i)}
    IN  IF s = {} THEN beg ELSE Max(s)

(* A bug: any task taken for visible.                                      *)
Scrolled_blind(d, w, beg, end) == Max({beg, Min({w.begtask + w.begnext, end - 1})})

Scrolled(d, w, beg, end) ==
    LET to == w.begtask + w.begnext
        at == IF to <= beg THEN beg ELSE IF to >= end THEN end - 1 ELSE to
        fwd == to <= beg \/ w.begnext > 0
        ahead == Forward(d, at, end)
        back == Backward(d, IF fwd THEN end - 1 ELSE at, beg)
        again == Forward(d, beg, end)
    IN  IF fwd /\ ahead # {} THEN Min(ahead)
        ELSE IF back # beg \/ Visible(d, d.cur, beg) THEN back
        ELSE IF again # {} THEN Min(again) ELSE beg

window_hlp(d) ==
    LET w == d.win[d.cur]
        beg == IF w.focus_pid # 0 THEN w.focus_beg ELSE 0
        end == IF w.focus_pid # 0 THEN w.focus_end ELSE d.n
    IN  [d EXCEPT !.win[d.cur].begtask = Scrolled(d, w, beg, end),
                  !.win[d.cur].begnext = 0]

Ordered(d, w) ==
    LET key(x) == IF w.sortindx = "cpu" THEN Tics[d.stk[x]] ELSE d.stk[x]
    IN  SortSeq(SubSeq(w.ppt, 1, d.n),
                LAMBDA a, b : IF w.normal THEN key(a) > key(b) ELSE key(a) < key(b))

Arranged(d, q) ==
    LET w == d.win[q]
    IN  IF w.forest
        THEN LET f == forest_begin(d.stk, d.tree, w.ppt, d.n)
                 v == [w EXCEPT !.ppt = Overwrite(@, f.ppt)]
             IN  [d EXCEPT !.tree = f,
                           !.win[q] = IF w.focus_pid # 0 THEN forest_config(d.stk, f, v, d.n) ELSE v]
        ELSE [d EXCEPT !.win[q].ppt = Overwrite(@, Ordered(d, w))]

Shown(d, q, i) ==
    LET w == d.win[q]
    IN  \/ i < 0
        \/ /\ w.idle \/ Tics[d.stk[w.ppt[i + 1]]] > 0
           /\ Visible(d, q, i)

(* Entry 0 of rows stands for what lies before the array.                  *)
Rows(d, q, room) ==
    LET w == d.win[q]
        numtasks == IF w.focus_pid # 0 THEN Min({w.focus_end, d.n}) ELSE d.n
        seen == SetToSortSeq({i \in w.begtask..(numtasks - 1) : Shown(d, q, i)}, <)
        drawn == SubSeq(seen, 1, Min({room, Len(seen)}))
    IN  [k \in 1..Len(drawn) |-> IF drawn[k] < 0 THEN 0 ELSE w.ppt[drawn[k] + 1]]

Drawn(d, q, rs) == [d EXCEPT !.rows[q] = rs, !.lines[q] = 1 + Len(rs)]

Vized(d, q) ==
    IF d.win[d.cur].begnext # 0 THEN [window_hlp(d) EXCEPT !.vized = q] ELSE d

Listed(d, q, wmax) ==
    Drawn(d, q, Rows(d, q, Max({0, Min({wmax, d.win[q].winlines + 1}) - 1})))

window_show(d, q, wmax) ==
    IF d.n = 0 THEN [d EXCEPT !.lines[q] = 1]
    ELSE Listed(Vized(Arranged(d, q), q), q, wmax)

-----------------------------------------------------------------------------
(* frame_make                                                              *)

Taken(d) == FoldFunction(+, 0, d.lines)

(* frame_hlp: an equal share of what is left, less one line of headings.   *)
frame_hlp_no_headings(d, q, max) ==   \* a bug: headings not deducted
    LET wins == Cardinality({i \in q..GROUPSMAX : d.win[i].taskon})
    IN  [d EXCEPT !.win[q].winlines =
            IF d.win[q].maxtasks # 0 THEN d.win[q].maxtasks ELSE max \div wins]

frame_hlp(d, q, max) ==
    LET wins == Cardinality({i \in q..GROUPSMAX : d.win[i].taskon})
        size == (max - wins) \div wins
    IN  [d EXCEPT !.win[q].winlines =
            IF d.win[q].maxtasks # 0 THEN d.win[q].maxtasks
            ELSE IF max < wins THEN 0 ELSE size]

ShareFrame(d, q) ==
    IF ~d.win[q].taskon \/ d.max <= Taken(d) THEN d
    ELSE window_show(frame_hlp(d, q, d.max - Taken(d)), q, d.max - Taken(d))

WholeFrame(d) ==
    window_show([d EXCEPT !.win[d.cur].winlines =
                    IF d.win[d.cur].maxtasks # 0 THEN d.win[d.cur].maxtasks ELSE d.max],
                d.cur, d.max)

Draw(d) == IF altscr THEN FoldLeft(ShareFrame, d, Identity(GROUPSMAX)) ELSE WholeFrame(d)

Start(r, max) ==
    [stk |-> r.stk, n |-> r.n, win |-> r.win, tree |-> r.tree, cur |-> Curwin,
     max |-> max, vized |-> 0,
     rows |-> [q \in Window |-> <<>>], lines |-> [q \in Window |-> 0]]

Publish(d) ==
    /\ win' = d.win /\ tree' = [d.tree EXCEPT !.hide = <<>>] /\ Hide_pid' = d.tree.hide
    /\ rows' = d.rows /\ lines' = d.lines /\ vized' = d.vized
    /\ stacks' = d.stk /\ PIDSmaxt' = d.n /\ Max_lines' = d.max

frame_make ==
    /\ pc = "frame"
    /\ \E t \in Tables, max \in Lines :
          \E d \in {Draw(Start(tasks_refresh(win, Reaped(t, Thread_mode)), max))} : Publish(d)
    /\ pc' = "key"
    /\ UNCHANGED <<Curwin, altscr, Thread_mode, asked, beg_sav, w_sav, keys>>

-----------------------------------------------------------------------------
(* do_key.  Every key that is handled ends with mkVIZrow1 unless it asked  *)
(* for a scroll itself: the next frame then looks for a visible first row. *)

mkVIZrow1(ws, c) ==
    IF ws[c].taskon /\ ws[c].begnext = 0
    THEN [ws EXCEPT ![c].begnext = 1, ![c].begtask = @ - 1]
    ELSE ws

VIZISw == ~altscr \/ win[Curwin].taskon

w == win[Curwin]

First == w.ppt[w.begtask + 1]

Struck(k) ==
    /\ pc = "key" /\ k \in Keys /\ keys < MaxKeys
    /\ PIDSmaxt > 0 \/ k = "="
    /\ pc' = "frame" /\ keys' = keys + 1

do_key(k) == Struck(k) /\ UNCHANGED frame

(* A key that changes the current window's record only.                    *)
Becomes(v) ==
    /\ win' = mkVIZrow1([win EXCEPT ![Curwin] = v], Curwin)
    /\ UNCHANGED <<Curwin, altscr, Thread_mode>>

Plain == UNCHANGED <<Hide_pid, asked, beg_sav, w_sav>>

(* Keys that ask for a pid and offer the task of the first row: k, r, Y,   *)
(* the autogroup key and those of the bottom window.                       *)
KeyPid ==
    /\ do_key("k")
    /\ asked' = stacks[First]
    /\ Becomes(w)
    /\ UNCHANGED <<Hide_pid, beg_sav, w_sav>>

(* Keys that change none of this state: they only wake top up.             *)
KeyOther == do_key("space") /\ Becomes(w) /\ Plain

win_select(c) ==
    /\ Curwin' = c /\ win' = mkVIZrow1(win, c)
    /\ UNCHANGED <<altscr, Thread_mode>> /\ Plain

KeyG == do_key("g") /\ \E c \in Window : win_select(c)
KeyA == do_key("a") /\ win_select(IF altscr THEN (Curwin % GROUPSMAX) + 1 ELSE Curwin)
KeyW == do_key("w") /\ win_select(IF altscr THEN ((Curwin - 2) % GROUPSMAX) + 1 ELSE Curwin)

(* H reads the tasks one time more (usleep_refresh), so that the frame     *)
(* finds no history of the other mode.                                     *)
KeyH ==
    /\ Struck("H")
    /\ Thread_mode' = ~Thread_mode
    /\ \E t \in Tables :
          LET ws == [q \in Window |-> [win[q] EXCEPT !.begtask = 0, !.focus_pid = 0]]
          IN  \E r \in {tasks_refresh(ws, Reaped(t, ~Thread_mode))} :
                /\ win' = mkVIZrow1(r.win, Curwin)
                /\ stacks' = r.stk /\ PIDSmaxt' = r.n
                /\ tree' = [r.tree EXCEPT !.hide = <<>>]
    /\ UNCHANGED <<Curwin, altscr, rows, lines, Max_lines, vized>> /\ Plain

KeyN ==
    /\ do_key("n")
    /\ \E m \in 0..1 : Becomes(IF VIZISw THEN [w EXCEPT !.maxtasks = m] ELSE w)
    /\ Plain

(* The sort keys leave forest view, and keep the focus.                    *)
KeySort ==
    /\ do_key("P")
    /\ \E s \in {"cpu", "pid"} : Becomes([w EXCEPT !.sortindx = s, !.forest = FALSE])
    /\ Plain

KeyR ==
    /\ do_key("R")
    /\ Becomes(IF VIZISw THEN [w EXCEPT !.normal = ~@, !.forest = FALSE] ELSE w)
    /\ Plain

KeyF ==
    /\ do_key("F")
    /\ Becomes(IF VIZISw /\ w.forest
               THEN [w EXCEPT !.focus_pid = IF @ = stacks[First] THEN 0 ELSE stacks[First]]
               ELSE w)
    /\ Plain

KeyI ==
    /\ do_key("i")
    /\ w_sav' = Curwin
    /\ beg_sav' = IF w.idle THEN w.begtask ELSE 0
    /\ Becomes([w EXCEPT !.begtask = IF w.idle \/ w_sav # Curwin THEN 0 ELSE beg_sav,
                         !.idle = IF VIZISw THEN ~@ ELSE @])
    /\ UNCHANGED <<Hide_pid, asked>>

KeyU ==
    /\ do_key("u")
    /\ Becomes(IF VIZISw
               THEN [w EXCEPT !.filters = IF "u" \in @ THEN @ \ {"u"} ELSE @ \cup {"u"}] ELSE w)
    /\ Plain

KeyO ==
    /\ do_key("o")
    /\ Becomes(IF VIZISw THEN [w EXCEPT !.filters = @ \cup {"o"}] ELSE w)
    /\ Plain

KeyV ==
    /\ do_key("V")
    /\ Becomes(IF VIZISw
               THEN [w EXCEPT !.forest = ~@, !.focus_pid = IF w.forest THEN 0 ELSE @] ELSE w)
    /\ Plain

(* Collapse the first row's children or expand them; with nothing left     *)
(* collapsed the array is emptied.                                         *)
Toggled(hide, p) ==
    LET at == {k \in 1..Len(hide) : hide[k] \in {p, -p}}
        new == IF at = {} THEN Append(hide, p) ELSE [hide EXCEPT ![Min(at)] = -@]
    IN  IF \A k \in 1..Len(new) : new[k] < 0 THEN <<>> ELSE new

KeyHide ==
    /\ do_key("v")
    /\ Hide_pid' = IF VIZISw /\ w.forest THEN Toggled(Hide_pid, stacks[First]) ELSE Hide_pid
    /\ Becomes(w)
    /\ UNCHANGED <<asked, beg_sav, w_sav>>

(* find_string: the next row that is built and holds the string.           *)
KeyFind ==
    /\ do_key("L")
    /\ LET here == [win |-> win, cur |-> Curwin, stk |-> stacks, tree |-> tree]
           hits == {i \in (w.begtask + 1)..(PIDSmaxt - 1) :
                       task_show(here, Curwin, w.ppt[i + 1]) /\ stacks[w.ppt[i + 1]] \in Named}
       IN  Becomes(IF VIZISw /\ hits # {} THEN [w EXCEPT !.begtask = Min(hits)] ELSE w)
    /\ Plain

win_reset(v) ==
    [v EXCEPT !.idle = TRUE, !.taskon = TRUE, !.maxtasks = 0, !.filters = {},
              !.begtask = 0, !.begnext = 0, !.focus_pid = 0]

KeyEqual ==
    /\ do_key("=")
    /\ Hide_pid' = <<>>
    /\ Becomes(win_reset(w))
    /\ UNCHANGED <<asked, beg_sav, w_sav>>

KeyPlus ==
    /\ do_key("+")
    /\ Hide_pid' = <<>>
    /\ win' = mkVIZrow1(IF altscr THEN [q \in Window |-> win_reset(win[q])] ELSE win, Curwin)
    /\ UNCHANGED <<Curwin, altscr, Thread_mode, asked, beg_sav, w_sav>>

KeyMinus ==
    /\ do_key("-")
    /\ Becomes(IF altscr THEN [w EXCEPT !.taskon = ~@] ELSE w)
    /\ Plain

KeyTog ==
    /\ do_key("_")
    /\ win' = mkVIZrow1(IF altscr THEN [q \in Window |-> [win[q] EXCEPT !.taskon = ~@]] ELSE win,
                        Curwin)
    /\ UNCHANGED <<Curwin, altscr, Thread_mode>> /\ Plain

KeyAlt ==
    /\ do_key("A")
    /\ altscr' = ~altscr
    /\ win' = mkVIZrow1(win, Curwin)
    /\ UNCHANGED <<Curwin, Thread_mode>> /\ Plain

mkVIZrowX(n) == Becomes([w EXCEPT !.begnext = n])

Scrolls == VIZISw /\ w.idle

KeyUp == do_key("Up") /\ mkVIZrowX(IF Scrolls THEN -1 ELSE w.begnext) /\ Plain
KeyDown == do_key("Down") /\ mkVIZrowX(IF Scrolls THEN 1 ELSE w.begnext) /\ Plain

Page == w.winlines - (IF altscr THEN 1 ELSE 2)

KeyPgUp ==
    /\ do_key("PgUp")
    /\ mkVIZrowX(IF Scrolls /\ w.begtask > 0 THEN -Page ELSE w.begnext) /\ Plain
KeyPgDn ==
    /\ do_key("PgDn")
    /\ mkVIZrowX(IF Scrolls /\ w.begtask < PIDSmaxt - 1 THEN Page ELSE w.begnext) /\ Plain

KeyHome == do_key("Home") /\ Becomes(IF Scrolls THEN [w EXCEPT !.begtask = 0] ELSE w) /\ Plain
KeyEnd ==
    /\ do_key("End")
    /\ mkVIZrowX(IF Scrolls THEN (PIDSmaxt - w.winlines) + 1 ELSE w.begnext) /\ Plain

(* The delay passes without a key.                                         *)
Delay ==
    /\ pc = "key" /\ pc' = "frame"
    /\ UNCHANGED <<win, Curwin, altscr, Thread_mode, Hide_pid, asked, beg_sav, w_sav, keys>>
    /\ UNCHANGED frame

-----------------------------------------------------------------------------
(* wins_stage_2 asks for a visible first row of the current window; then   *)
(* the tasks are read once (usleep_refresh) before the first frame.        *)

wins_stage_2(n) ==
    [q \in Window |->
       [taskon |-> TRUE, idle |-> TRUE, forest |-> FALSE, filters |-> {}, normal |-> TRUE,
        sortindx |-> "cpu", maxtasks |-> 0, begtask |-> IF q = 1 THEN -1 ELSE 0,
        begnext |-> IF q = 1 THEN 1 ELSE 0,
        focus_pid |-> 0, focus_beg |-> 0, focus_end |-> 0, winlines |-> 0, ppt |-> Identity(n)]]

Init ==
    /\ Curwin = 1
    /\ altscr \in BOOLEAN /\ Thread_mode = FALSE /\ Hide_pid = <<>>
    /\ stacks \in {Reaped(t, FALSE) : t \in Tables}
    /\ PIDSmaxt = Len(stacks) /\ win = wins_stage_2(PIDSmaxt)
    /\ tree = [ppt |-> <<>>, hide |-> <<>>, lvl |-> [x \in 1..PIDSmaxt |-> 0],
               hid |-> [x \in 1..PIDSmaxt |-> ""]]
    /\ rows = [q \in Window |-> <<>>] /\ lines = [q \in Window |-> 0]
    /\ Max_lines = 0 /\ vized = 0 /\ asked = 0 /\ beg_sav = 0 /\ w_sav = 0
    /\ pc = "frame" /\ keys = 0

Next ==
    \/ frame_make \/ Delay
    \/ KeyPid \/ KeyOther \/ KeyG \/ KeyA \/ KeyW \/ KeyH \/ KeyN \/ KeySort \/ KeyR
    \/ KeyF \/ KeyI \/ KeyU \/ KeyO \/ KeyV \/ KeyHide \/ KeyFind
    \/ KeyEqual \/ KeyPlus \/ KeyMinus \/ KeyTog \/ KeyAlt
    \/ KeyUp \/ KeyDown \/ KeyPgUp \/ KeyPgDn \/ KeyHome \/ KeyEnd

Spec == Init /\ [][Next]_vars

-----------------------------------------------------------------------------
(* Properties                                                              *)

WindowRec ==
    [taskon : BOOLEAN, idle : BOOLEAN, forest : BOOLEAN, filters : SUBSET {"u", "o"},
     normal : BOOLEAN, sortindx : {"cpu", "pid"}, maxtasks : 0..1,
     begtask : -1..(Cardinality(Task) - 1), begnext : Int, focus_pid : Task \cup {0},
     focus_beg : Nat, focus_end : Nat, winlines : Nat, ppt : Seq(1..Cardinality(Task))]

(* The windows, the table and the drawing state stay within their types:   *)
(* begtask never falls below the -1 of mkVIZrow1.                          *)
TypeOK ==
    /\ win \in [Window -> WindowRec] /\ Curwin \in Window
    /\ stacks \in Seq(Task) /\ PIDSmaxt \in 0..Len(stacks)
    /\ \A q \in Window : Len(win[q].ppt) = Len(stacks)
    /\ \A k \in 1..Len(Hide_pid) : Hide_pid[k] \in Task \/ -Hide_pid[k] \in Task
    /\ asked \in Task \cup {0} /\ pc \in {"frame", "key"} /\ keys \in 0..MaxKeys

(* The windows of a frame, headings included, never take more lines than   *)
(* frame_make found left on the screen.                                    *)
RowsFit == pc = "key" => FoldFunction(+, 0, lines) <= Max_lines

(* frame_hlp leaves every visible window at least its heading when there   *)
(* are as many lines and no window was given a number of tasks.            *)
WindowsShare ==
    LET on == {q \in Window : win[q].taskon}
    IN  (/\ pc = "key" /\ altscr
         /\ \A q \in on : win[q].maxtasks = 0
         /\ Cardinality(on) <= Max_lines) => \A q \in on : lines[q] > 0

(* What is drawn was read in this frame: no row comes from an entry that   *)
(* an earlier, longer list left behind or from before the array, and no    *)
(* task is drawn twice in a window.                                        *)
RowsInFrame ==
    pc = "key" => \A q \in Window :
        /\ ToSet(rows[q]) \subseteq 1..PIDSmaxt
        /\ Cardinality(ToSet(rows[q])) = Len(rows[q])

(* The keys that look at the first row's task find an entry of the array   *)
(* there, whichever window is current.  It is an entry of this frame       *)
(* whenever begtask lies within the list, and the frame that answers a key *)
(* brings it there.  After a frame without a key a list that shrank below  *)
(* begtask leaves the keys an entry of an earlier frame: that much the     *)
(* code allows, and nothing more.                                          *)
KeyReadsEntry ==
    (pc = "key" /\ PIDSmaxt > 0) =>
        /\ w.begtask + 1 \in DOMAIN w.ppt
        /\ w.begtask < PIDSmaxt => First \in 1..PIDSmaxt
        /\ vized # 0 => w.begtask < PIDSmaxt

(* Forest view shows every task once, and a task right below its parent    *)
(* and the parent's other descendants, one level deeper, unless the parent *)
(* started later.                                                          *)
TreeWhole ==
    LET t == tree.ppt
        pos(x) == CHOOSE k \in 1..Len(t) : t[k] = x
    IN  (pc = "key" /\ t # <<>>) =>
          /\ Len(t) = PIDSmaxt /\ ToSet(t) = 1..PIDSmaxt
          /\ \A a, b \in 1..PIDSmaxt :
                (a # b /\ IsChild(stacks, a, b) /\ Began[stacks[a]] < Began[stacks[b]]) =>
                    /\ pos(a) < pos(b) /\ tree.lvl[b] = tree.lvl[a] + 1
                    /\ \A k \in (pos(a) + 1)..pos(b) : tree.lvl[t[k]] > tree.lvl[a]

(* A focused window in forest view shows the focused task's family only:   *)
(* what descends from it through tasks that are there.                     *)
Kin(p) ==
    LET here == {stacks[k] : k \in 1..PIDSmaxt}
        kin[n \in 0..Cardinality(here)] ==
            IF n = 0 THEN {p}
            ELSE kin[n - 1] \cup {t \in here : Tgid[t] \in kin[n - 1]
                                    \/ (t = Tgid[t] /\ Parent[t] \in kin[n - 1])}
    IN  kin[Cardinality(here)]

FocusOnly ==
    \A q \in Window :
        (pc = "key" /\ win[q].forest /\ win[q].focus_pid # 0) =>
            \A x \in ToSet(rows[q]) : stacks[x] \in Kin(win[q].focus_pid)

(* After a keystroke the first row of the current window, when it is the   *)
(* window being drawn, is the task begtask points to, and a list that      *)
(* stays empty has no task to show.                                        *)
FirstRowVisible ==
    (/\ pc = "key" /\ vized = Curwin /\ w.idle
     /\ w.focus_pid # 0 => w.forest) =>
        \/ rows[Curwin] # <<>> /\ rows[Curwin][1] = First
        \/ rows[Curwin] = <<>> /\ \/ lines[Curwin] > w.winlines
                                  \/ FoldFunction(+, 0, lines) = Max_lines
                                  \/ \A x \in 1..PIDSmaxt :
                                        ~ task_show([win |-> win, cur |-> Curwin, stk |-> stacks,
                                                     tree |-> tree], Curwin, x)
                                        \/ ~wins_usrselect(w, stacks[x])
                                        \/ w.focus_pid # 0

(* man/top.1 of k and r: the default shown in the prompt is the first task *)
(* displayed.                                                              *)
DefaultIsFirst ==
    [][(asked' # asked /\ rows[Curwin] # <<>>) => asked' = stacks[rows[Curwin][1]]]_vars

(* The children of a collapsed parent are not shown in the current window  *)
(* while no collapsed task lies below another.                             *)
CollapsedUnseen ==
    LET t == tree.ppt
        below(a, b) == /\ a < b
                       /\ \A k \in (a + 1)..b : tree.lvl[t[k]] > tree.lvl[t[a]]
        closed == {a \in 1..Len(t) : stacks[t[a]] \in ToSet(Hide_pid)}
    IN  (pc = "key" /\ w.forest /\ ~ \E a, b \in closed : below(a, b)) =>
          \A a \in closed, b \in 1..Len(t) : below(a, b) => t[b] \notin ToSet(rows[Curwin])

(* The windows are typed, share the screen fairly and never overrun it        *)
(* (frame_hlp, frame_make).                                                   *)
WindowsFit == TypeOK /\ RowsFit /\ WindowsShare


(* Forest view shows the whole tree, or the family in focus, without what was *)
(* collapsed (forest_begin, window_show).                                     *)
TreeShown == TreeWhole /\ FocusOnly /\ CollapsedUnseen
=============================================================================
