-------------------------------- MODULE Slabinfo -------------------------------
(****************************************************************************)
(* The slabinfo interface of libproc2 (library/slabinfo.c): an array of     *)
(* nodes, one for each cache in /proc/slabinfo, that every read fills from  *)
(* the front, totals of this and of the last read, and the stacks of reap,  *)
(* which point into the array.                                              *)
(*                                                                          *)
(* A cache is its name and three numbers.  A read may fail at the start or  *)
(* at any line, with the lines before it already counted.  Left out: failed *)
(* allocations and the stack of select.                                     *)
(****************************************************************************)
EXTENDS Integers, Sequences, SequencesExt

CONSTANTS
  Text,         \* contents the file may have: sequences of caches
  ItemLists,    \* item arrays that reap is called with
  STACKS_INCR,  \* stacks allocated at a time
  NODES_INCR,   \* nodes allocated at least (30)
  INT_MAX,
  MaxSecs, MaxRef

VARIABLES
  text, secs,           \* the kernel: the file and the clock
  refcount,             \* 0 while there is no context
  nodes,                \* the nodes in use
  nodes_alloc,          \* how many the array holds
  new, old,             \* totals of the last read and of the one before
  items, extents,       \* what the stacks are made for, and how many there are
  anchor,               \* the numbers of the stacks reap fills, in order
  results,              \* what reap returned: stacks and what each holds
  sav_secs,             \* the second of the last read that get made
  reads,                \* history: the file at the last two reads, or failed
  out                   \* history: the call that has returned

kernel == <<text, secs>>
stacks == <<items, extents, anchor, results>>
vars   == <<kernel, refcount, nodes, nodes_alloc, new, old, stacks, sav_secs, reads, out>>

slabs_summ == [nr_caches |-> 0, nr_objs |-> 0, total_size |-> 0, min |-> 0, max |-> 0, avg |-> 0]
NoRead == [ok |-> FALSE, lines |-> <<>>]

--------------------------------------------------------------------------------
(* Reading.                                                                 *)

Grow(alloc) == (alloc * 5) \div 4 + NODES_INCR

\* The array has room for one more node than are in use.
alloc_slabnodes(used, alloc) == IF used < alloc THEN alloc ELSE Grow(alloc)

\* The array's size after n nodes were taken, one after the other; it was looked
\* at once before the nodes of the last read were given up.
get_slabnode(n) ==
  LET size[k \in 0 .. n] ==
        IF k = 0 THEN alloc_slabnodes(Len(nodes), nodes_alloc)
        ELSE alloc_slabnodes(k - 1, size[k - 1])
  IN  size[n]

\* A line added to totals.
Add(s, line) ==
  [s EXCEPT !.nr_caches = @ + 1, !.nr_objs = @ + line.nr_objs,
            !.total_size = @ + line.nr_objs * line.obj_size,
            !.min = IF line.obj_size < @ THEN line.obj_size ELSE @,
            !.max = IF line.obj_size > @ THEN line.obj_size ELSE @]

\* Added to the totals of the last read.
parse_slabinfo20_adds(lines) == FoldLeft(Add, [new EXCEPT !.min = INT_MAX], lines)

\* The totals over the lines of a file, the smallest from INT_MAX down.
parse_slabinfo20(lines) == FoldLeft(Add, [slabs_summ EXCEPT !.min = INT_MAX], lines)

Average(s) == IF s.nr_objs = 0 THEN s ELSE [s EXCEPT !.avg = s.total_size \div s.nr_objs]

\* A read that ends well (k = 0), before the first line (k = -1), or at line k,
\* whose node is taken but not counted.
slabinfo_read_failed(k) ==
  LET taken == IF k = 0 THEN text ELSE SubSeq(text, 1, k)
      summ  == parse_slabinfo20(IF k = 0 THEN text ELSE SubSeq(text, 1, k - 1))
  IN  /\ old' = new
      /\ new' = CASE k = -1 -> slabs_summ [] k = 0 -> Average(summ) [] k > 0 -> summ
      /\ nodes' = IF k = -1 THEN <<>> ELSE taken
      /\ nodes_alloc' = get_slabnode(Len(nodes'))
      /\ reads' = <<[ok |-> k = 0, lines |-> IF k = -1 THEN <<>> ELSE taken], reads[1]>>

Outcome == {0, -1} \cup DOMAIN text

--------------------------------------------------------------------------------
(* Stacks.                                                                  *)

\* Stacks are made anew when the items are others than last time.
stacks_reconfig_maybe(list) ==
  IF items = list THEN [num |-> extents, items |-> items] ELSE [num |-> 0, items |-> list]

\* The anchor starts with STACKS_INCR entries and grows by as many; every
\* extent adds its stacks at the end.  A stack is <<when made, position>>.
slabinfo_stacks_fetch(ext) ==
  LET full  == IF anchor = <<>> THEN STACKS_INCR ELSE Len(anchor)
      base  == IF ext.num = 0 THEN [i \in 1 .. full |-> [items |-> ext.items, at |-> i]]
               ELSE anchor
      need  == Len(nodes')
      steps == IF need <= full THEN 0 ELSE (need - full + STACKS_INCR - 1) \div STACKS_INCR
  IN  base \o [i \in 1 .. steps * STACKS_INCR |-> [items |-> ext.items, at |-> full + i]]

\* Each stack in use shows its node.
slabinfo_assign_results(fetched) ==
  [i \in 1 .. Len(nodes') |-> [stack |-> fetched[i], node |-> nodes'[i]]]

Perms(n) == {p \in [1 .. n -> 1 .. n] : \A i, j \in 1 .. n : p[i] = p[j] => i = j}

--------------------------------------------------------------------------------
(* Calls.                                                                   *)

\* Everything there was is freed.
free_all ==
  /\ nodes' = <<>> /\ nodes_alloc' = 0
  /\ new' = slabs_summ /\ old' = slabs_summ /\ sav_secs' = 0
  /\ items' = <<>> /\ extents' = 0 /\ anchor' = <<>> /\ results' = <<>>
  /\ reads' = <<NoRead, NoRead>>

\* If the first read fails there is no context, and nothing is left of it.
procps_slabinfo_new(k) ==
  /\ refcount = 0
  /\ IF k = 0 THEN slabinfo_read_failed(k) /\ UNCHANGED <<stacks, sav_secs>> ELSE free_all
  /\ refcount' = IF k = 0 THEN 1 ELSE 0
  /\ out' = IF k = 0 THEN "new" ELSE "failed"
  /\ UNCHANGED kernel

procps_slabinfo_ref ==
  /\ refcount \in 1 .. MaxRef - 1
  /\ refcount' = refcount + 1
  /\ out' = "ref"
  /\ UNCHANGED <<kernel, nodes, nodes_alloc, new, old, stacks, sav_secs, reads>>

procps_slabinfo_unref ==
  /\ refcount > 0
  /\ refcount' = refcount - 1
  /\ IF refcount > 1
       THEN UNCHANGED <<nodes, nodes_alloc, new, old, stacks, sav_secs, reads>>
       ELSE free_all
  /\ out' = "unref"
  /\ UNCHANGED kernel

\* The totals only: the items of a single cache are those of an empty node.
procps_slabinfo_get(k) ==
  /\ refcount > 0
  /\ IF secs - sav_secs >= 1
       THEN slabinfo_read_failed(k) /\ sav_secs' = IF k = 0 THEN secs ELSE sav_secs
       ELSE k = 0 /\ UNCHANGED <<nodes, nodes_alloc, new, old, reads, sav_secs>>
  /\ out' = IF k = 0 THEN "get" ELSE "failed"
  /\ UNCHANGED <<kernel, refcount, stacks>>

procps_slabinfo_select(k) ==
  /\ refcount > 0
  /\ slabinfo_read_failed(k)
  /\ out' = IF k = 0 THEN "select" ELSE "failed"
  /\ UNCHANGED <<kernel, refcount, stacks, sav_secs>>

procps_slabinfo_reap(list, k) ==
  /\ refcount > 0
  /\ slabinfo_read_failed(k)
  /\ \E ext \in {stacks_reconfig_maybe(list)} :
       /\ items' = ext.items
       /\ IF k = 0
            THEN /\ anchor' = slabinfo_stacks_fetch(ext)
                 /\ extents' = Len(anchor')
                 /\ results' = slabinfo_assign_results(anchor')
            ELSE extents' = ext.num /\ UNCHANGED <<anchor, results>>
  /\ out' = IF k = 0 THEN "reap" ELSE "failed"
  /\ UNCHANGED <<kernel, refcount, sav_secs>>

\* The caller's array is put in order, least first or greatest first; stacks
\* that compare equal may come in any order.
procps_slabinfo_sort(order) ==
  /\ refcount > 0 /\ out = "reap" /\ Len(results) >= 2
  /\ \E p \in Perms(Len(results)) :
       /\ \A i \in 1 .. Len(results) - 1 :
            order * results[p[i]].node.nr_objs <= order * results[p[i + 1]].node.nr_objs
       /\ results' = [i \in DOMAIN results |-> results[p[i]]]
  /\ out' = "sort"
  /\ UNCHANGED <<kernel, refcount, nodes, nodes_alloc, new, old, items, extents, anchor,
                 sav_secs, reads>>

Change(t) ==
  /\ text' = t /\ t # text
  /\ out' = "none"
  /\ UNCHANGED <<secs, refcount, nodes, nodes_alloc, new, old, stacks, sav_secs, reads>>

Tick ==
  /\ secs < MaxSecs /\ secs' = secs + 1
  /\ out' = "none"
  /\ UNCHANGED <<text, refcount, nodes, nodes_alloc, new, old, stacks, sav_secs, reads>>
Init ==
  /\ text \in Text /\ secs = 1 /\ refcount = 0
  /\ nodes = <<>> /\ nodes_alloc = 0 /\ new = slabs_summ /\ old = slabs_summ
  /\ items = <<>> /\ extents = 0 /\ anchor = <<>> /\ results = <<>>
  /\ sav_secs = 0 /\ reads = <<NoRead, NoRead>> /\ out = "none"

Next ==
  \/ \E k \in Outcome : procps_slabinfo_new(k)
  \/ procps_slabinfo_ref
  \/ procps_slabinfo_unref
  \/ \E k \in Outcome : procps_slabinfo_get(k)
  \/ \E k \in Outcome : procps_slabinfo_select(k)
  \/ \E k \in Outcome, list \in ItemLists : procps_slabinfo_reap(list, k)
  \/ \E order \in {1, -1} : procps_slabinfo_sort(order)
  \/ \E t \in Text : Change(t)
  \/ Tick

Spec == Init /\ [][Next]_vars

--------------------------------------------------------------------------------
(* Properties.                                                              *)

\* The nodes in use fit the array that get_slabnode grew for them, also when
\* the file has become longer and the last read stopped in the middle.
NodesFit ==
  /\ refcount \in 0 .. MaxRef /\ sav_secs \in 0 .. secs
  /\ Len(nodes) <= nodes_alloc /\ extents \in {0, Len(anchor)}

\* reap shows every cache of the file once, in a stack of its own that was
\* made for the items asked for now, whatever was asked before, and sort only
\* changes the order.
ReapShowsAll ==
  out \in {"reap", "sort"} =>
    /\ Len(results) = Len(text)
    /\ \A c \in ToSet(text) : \E i \in DOMAIN results : results[i].node = c
    /\ \A i, j \in DOMAIN results : results[i].stack = results[j].stack => i = j
    /\ \A i \in DOMAIN results : results[i].stack.items = items

\* The numbers of a function over 1 .. n added up.
SumOf(n, val) ==
  LET sum[k \in 0 .. n] == IF k = 0 THEN 0 ELSE sum[k - 1] + val[k]
  IN  sum[n]

ObjsOf(lines)  == [i \in DOMAIN lines |-> lines[i].nr_objs]
BytesOf(lines) == [i \in DOMAIN lines |-> lines[i].nr_objs * lines[i].obj_size]
SizesOf(lines) == {lines[i].obj_size : i \in DOMAIN lines}

\* s is what the lines of a file come to: how many there are, their objects and
\* bytes added up, the smallest and the largest size, and the average.
TotalsOf(s, lines) ==
  /\ s.nr_caches = Len(lines)
  /\ s.nr_objs = SumOf(Len(lines), ObjsOf(lines))
  /\ s.total_size = SumOf(Len(lines), BytesOf(lines))
  /\ s.min \in SizesOf(lines) \cup {INT_MAX} /\ \A size \in SizesOf(lines) : s.min <= size
  /\ s.max \in SizesOf(lines) \cup {0} /\ \A size \in SizesOf(lines) : size <= s.max
  /\ s.avg = IF s.nr_objs = 0 THEN 0 ELSE s.total_size \div s.nr_objs

\* After a read that went well the totals are those of the lines it read, with
\* nothing left of a read before it that stopped half way, and the average lies
\* between smallest and largest; the totals before are those of the read
\* before, if that went well (parse_slabinfo20, slabinfo_read_failed).
TotalsRight ==
  refcount > 0 =>
    /\ reads[1].ok =>
         /\ TotalsOf(new, reads[1].lines)
         /\ new.nr_objs > 0 => new.min <= new.avg /\ new.avg <= new.max
    /\ reads[2].ok => TotalsOf(old, reads[2].lines)
================================================================================
