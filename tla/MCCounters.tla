------------------------------- MODULE MCCounters ------------------------------
(* Instances of the contexts over files that count. *)
EXTENDS Counters, TLC

\* Files with a name the library knows, one it does not, and one left out.
MCVmText == {"pgpgin" :> 1 @@ "zone_new" :> 7, "pgpgin" :> 3 @@ "pswpin" :> 2}
MCVmLists == {<<<<"new", "pswpin">>>>, <<<<"new", "pgpgin">>>>,
            <<<<"delta", "pgpgin">>, <<"extra", "">>, <<"noop", "">>>>, <<>>}

\* An ordinary machine, one that shows the numbers of its host, an old kernel,
\* and one that counts more free than there is.
MCMemText == {
  "MemTotal" :> 8 @@ "MemFree" :> 2 @@ "MemAvailable" :> 5 @@ "SwapTotal" :> 4 @@ "SwapFree" :> 1,
  "MemTotal" :> 4 @@ "MemFree" :> 3 @@ "MemAvailable" :> 9 @@ "SwapTotal" :> 0 @@ "SwapFree" :> 2,
  "MemTotal" :> 6 @@ "MemFree" :> 1 @@ "Cached" :> 2 @@ "LowTotal" :> 3 @@ "LowFree" :> 2,
  "MemTotal" :> 2 @@ "MemFree" :> 3}
MCMemLists == {<<<<"delta", "mem_used">>>>, <<<<"new", "MemAvailable">>, <<"new", "lo_used">>>>}

Cache(name, objs, size) == [name |-> name, nr_objs |-> objs, obj_size |-> size]
MCSlabText == {<<>>, <<Cache("a", 2, 2), Cache("b", 0, 4)>>,
             <<Cache("b", 1, 4), Cache("c", 3, 1), Cache("a", 2, 2)>>}
MCSlabLists == {<<"OBJS">>, <<"NAME">>}

StatCores == (0 :> 0) @@ (1 :> 0) @@ (2 :> 1)
StatNodes == (0 :> 0) @@ (1 :> 1) @@ (2 :> -1)

MCBoot == [c \in Cpu |-> [user |-> IF c = 0 THEN 1 ELSE 0, idle |-> IF c = 1 THEN 1 ELSE 0]]
MCJunk == {[user |-> 1, idle |-> 1]}
================================================================================
