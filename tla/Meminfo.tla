-------------------------------- MODULE Meminfo --------------------------------
(****************************************************************************)
(* The meminfo interface of libproc2 (library/meminfo.c): the calls are     *)
(* those of vmstat, but a read also corrects and derives numbers: memory in *)
(* use, the low zone of kernels without one, what is available on kernels   *)
(* that do not say, and inside a container that shows another machine's     *)
(* numbers.  Numbers are unsigned words.                                    *)
(****************************************************************************)
EXTENDS Integers, Sequences

CONSTANTS Text, ItemLists, MaxSecs, MaxRef,
  Word,         \* 2^64 of an unsigned long
  Half          \* 2^31 of an int, which a change is stored in

VARIABLES text, secs, refcount, fd, new, old, items, stack, sav_secs, reads, out

\* Members that come from the file, and members that are derived.
htVAL == {"MemTotal", "MemFree", "MemAvailable", "Cached", "SReclaimable",
          "HighTotal", "HighFree", "LowTotal", "LowFree", "SwapTotal", "SwapFree"}
meminfo_data == htVAL \cup {"mem_used", "mem_cached", "hi_used", "lo_used", "swap_used"}

\* What is available, if the file says so and says no more than there is.
Available(m) ==
  IF m["MemAvailable"] = 0 \/ m["MemAvailable"] > m["MemTotal"]
    THEN m["MemFree"] ELSE m["MemAvailable"]

\* The difference is taken in a signed word and stored in an unsigned one.
Used(total, available, free) ==
  (IF total - available < 0 THEN total - free ELSE total - available) % Word

\* Of a zone or of swap: nothing when more is free than there is.
PartUsed(total, free) == IF free < total THEN total - free ELSE 0

meminfo_derive(m) ==
  LET avail == Available(m)
      low   == m["LowTotal"] # 0
      lowt  == IF low THEN m["LowTotal"] ELSE m["MemTotal"]
      lowf  == IF low THEN m["LowFree"] ELSE m["MemFree"]
  IN  [m EXCEPT !["MemAvailable"] = avail,
                !["mem_cached"] = m["Cached"] + m["SReclaimable"],
                !["mem_used"] = Used(m["MemTotal"], avail, m["MemFree"]),
                !["hi_used"] = PartUsed(m["HighTotal"], m["HighFree"]),
                !["LowTotal"] = lowt, !["LowFree"] = lowf,
                !["lo_used"] = PartUsed(lowt, lowf),
                !["swap_used"] = PartUsed(m["SwapTotal"], m["SwapFree"])]

parse(t) ==
  meminfo_derive([f \in meminfo_data |-> IF f \in DOMAIN t \cap htVAL THEN t[f] ELSE 0])

\* A number, or the change of one.
meminfo_item == {<<"new", f>> : f \in {"mem_used", "MemAvailable"}} \cup {<<"delta", "swap_used">>}

F == INSTANCE ValueFile WITH Field <- meminfo_data, Parse <- parse, GetItems <- meminfo_item

procps_meminfo_new(r)   == F!new_context(r)
procps_meminfo_ref      == F!ref
procps_meminfo_unref    == F!unref
procps_meminfo_get(item, r) == item \in meminfo_item /\ F!get(item, r)
procps_meminfo_select(list, r) == F!select(list, r)

Init == F!Init

Next ==
  \/ \E r \in F!Outcome : procps_meminfo_new(r)
  \/ procps_meminfo_ref
  \/ procps_meminfo_unref
  \/ \E item \in meminfo_item, r \in F!Outcome : procps_meminfo_get(item, r)
  \/ \E list \in ItemLists, r \in F!Outcome : procps_meminfo_select(list, r)
  \/ \E t \in Text : F!Change(t)
  \/ F!Tick

vars == F!vars
Spec == Init /\ [][Next]_vars

\* In a machine whose file does not say that more is free than there is, no
\* part is greater than its whole: memory available and in use, the low zone
\* and swap, also where the file says nothing or belongs to another machine.
PartsFit ==
  new["MemFree"] <= new["MemTotal"] =>
    /\ new["mem_used"] <= new["MemTotal"]
    /\ new["MemAvailable"] <= new["MemTotal"]
    /\ new["lo_used"] <= new["LowTotal"]
    /\ new["swap_used"] <= new["SwapTotal"]
================================================================================
