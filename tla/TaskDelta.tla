------------------------------- MODULE TaskDelta -------------------------------
(****************************************************************************)
(* What the history support of libproc2's <pids> API promises, with no hash *)
(* table, no link and no allocation in sight: the library remembers one     *)
(* frame.  A task tallied in this frame is reported relative to its record  *)
(* in the frame before; a task that frame did not hold is reported whole.   *)
(* PidsHistory implements this specification.                               *)
(****************************************************************************)
EXTENDS Integers

CONSTANTS
  Pid,        \* the task identifiers
  Count,      \* the values a cpu or fault counter takes
  UINT_MOD    \* the modulus of C's unsigned int (2^32 in the build)

VARIABLES
  prev,       \* the frame before: a record per task, NoRec where it held none
  cur,        \* the frame being gathered
  result      \* what was stored in the proc_t of the task tallied last

NoRec == [seen |-> FALSE, tics |-> 0, maj |-> 0]

Rec(t, m) == [seen |-> TRUE, tics |-> t, maj |-> m]

EmptyFrame == [p \in Pid |-> NoRec]

\* The three derived proc_t members: 'pcpu' is an int the API hands out as
\* u_int, so a difference wraps; the fault delta of an unseen task stays zero.
Reported(p, t, m, old) ==
  [ tid   |-> p,
    tics  |-> t,
    pcpu  |-> (IF old.seen THEN t - old.tics ELSE t) % UINT_MOD,
    delta |-> (IF old.seen THEN m - old.maj ELSE 0) % UINT_MOD ]

Nothing == [tid |-> 0, tics |-> 0, pcpu |-> 0, delta |-> 0]

Init ==
  /\ prev = EmptyFrame
  /\ cur = EmptyFrame
  /\ result = Nothing

NextFrame ==
  /\ prev' = cur
  /\ cur' = EmptyFrame
  /\ UNCHANGED result

Tally(p, t, m) ==
  /\ cur' = [cur EXCEPT ![p] = Rec(t, m)]
  /\ result' = Reported(p, t, m, prev[p])
  /\ UNCHANGED prev

Next == NextFrame \/ \E p \in Pid, t \in Count, m \in Count : Tally(p, t, m)

vars == <<prev, cur, result>>

Spec == Init /\ [][Next]_vars
================================================================================
