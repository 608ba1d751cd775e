------------------------------ MODULE MCReadProc -------------------------------
(* Instances of ReadProc: process 1 with thread 2, process 3 with thread 4,  *)
(* process 5 alone.  1 and 2 belong to user 10, the others to user 20.       *)
EXTENDS ReadProc

MCTgidOf == [t \in Tid |-> IF t \in {2, 4} THEN t - 1 ELSE t]

MCUidOf == [t \in Tid |-> IF t < 3 THEN 10 ELSE 20]

Mode(threads, pids, uids) == [threads |-> threads, pids |-> pids, uids |-> uids]

\* Scans of all processes, of one user's, and of a few by pid; of all threads,
\* also when one user's are asked for.
TaskModes == {Mode(FALSE, <<>>, {}), Mode(FALSE, <<>>, {20})}
ThreadModes == {Mode(TRUE, <<>>, {}), Mode(TRUE, <<>>, {20})}
ListModes == {Mode(th, l, {}) : th \in BOOLEAN, l \in {<<2, 1>>, <<3, 1>>}}
FetchModes == TaskModes \cup ListModes

AllModes == FetchModes \cup ThreadModes
================================================================================
