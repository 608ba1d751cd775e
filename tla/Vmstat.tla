--------------------------------- MODULE Vmstat --------------------------------
(****************************************************************************)
(* The vmstat interface of libproc2 (library/vmstat.c).  Of some 150 names  *)
(* in /proc/vmstat the model keeps a few, and names the library does not    *)
(* know; the numbers are taken as they are.                                 *)
(****************************************************************************)
EXTENDS Integers, Sequences

CONSTANTS Text, ItemLists, MaxSecs, MaxRef,
  Half          \* 2^63 of a long, which a change is stored in

VARIABLES text, secs, refcount, fd, new, old, items, stack, sav_secs, reads, out

\* A name for the members of the struct.
vmstat_data == {"pgpgin", "pswpin"}

\* The hash table finds the member for a name; an unknown name is passed over.
htVAL(name) == IF name \in vmstat_data THEN {name} ELSE {}

\* Every line of the file, in any order, into members that were cleared.
parse(t) ==
  [f \in vmstat_data |-> IF \E n \in DOMAIN t : f \in htVAL(n) THEN t[f] ELSE 0]

\* Every number and every change of one may be asked for.
vmstat_item == {<<"noop", "">>, <<"extra", "">>} \cup ({"new", "delta"} \X vmstat_data)

F == INSTANCE ValueFile WITH Field <- vmstat_data, Parse <- parse, GetItems <- vmstat_item

Init == F!Init
Next == F!Next
vars == F!vars
Spec == Init /\ [][Next]_vars
================================================================================
