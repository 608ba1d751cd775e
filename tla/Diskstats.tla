------------------------------- MODULE Diskstats -------------------------------
(****************************************************************************)
(* The diskstats interface of libproc2 (library/diskstats.c): a list of     *)
(* device nodes that every read of /proc/diskstats updates, time stamps in  *)
(* whole seconds that tell which nodes have gone stale, and the stacks a    *)
(* reap fills.  The list is the set of its nodes: nothing here depends on   *)
(* their order.                                                             *)
(*                                                                          *)
(* Meanwhile devices come, do I/O and go, and the clock advances.  Of a     *)
(* device's counters one is kept; of an item list its identity.  A read     *)
(* sees the file as it is at one moment but may stop at a line it cannot    *)
(* parse or store, with the lines before it already applied.                *)
(*                                                                          *)
(* Left out: failed allocations of stacks, the type of a node (disk or      *)
(* partition), the stack of select, sort, and invalid arguments.            *)
(****************************************************************************)
EXTENDS Integers, Sequences, FiniteSets, SequencesExt

CONSTANTS
  Dev,          \* device names: numbers, in the order of the file
  ItemLists,    \* the item arrays that reap is called with
  STACKS_INCR,  \* stacks allocated at a time
  MaxIo,        \* bound on a device's counter
  MaxSecs,      \* bound on the clock
  MaxRef,       \* bound on the references held
  NULL          \* no item list

ASSUME DiskstatsAssumption ==
  /\ Dev \subseteq Nat /\ IsFiniteSet(Dev)
  /\ STACKS_INCR \in Nat \ {0}
  /\ MaxIo \in Nat /\ MaxSecs \in Nat \ {0} /\ MaxRef \in Nat \ {0}

VARIABLES
  present, io,  \* the kernel: devices there are, and their counters
  secs,         \* the clock
  refcount,     \* 0 while there is no context
  nodes,        \* the device nodes
  old_stamp,    \* the second of the read before the last
  new_stamp,    \* the second of the last read
  fetch_items,  \* the items of the fetch extents, or NULL
  fetch_live,   \* the stacks of the fetch extents
  anchor,       \* the stacks reap fills, in order
  inlast,       \* history: the devices the last read saw; and for every
                \*   device in the list,
  seen_at,      \* history: the second a device was last seen
  missed,       \* history: the later seconds with a read that missed it
  credit,       \* history: its counter when the node was made, plus all
                \*   its deltas since
  last          \* history: what the last step returned

kernel  == <<present, io, secs>>
stamps  == <<old_stamp, new_stamp>>
stacks  == <<fetch_items, fetch_live, anchor>>
ghosts  == <<inlast, seen_at, missed, credit>>
vars    == <<kernel, refcount, nodes, stamps, stacks, ghosts, last>>

Nothing == [call |-> "none", devs |-> {}]

Names(list) == {n.name : n \in list}

--------------------------------------------------------------------------------
(* The kernel and the clock.                                                *)

Plug(d) ==
  /\ d \notin present
  /\ present' = present \cup {d}
  /\ io' = [io EXCEPT ![d] = 0]
  /\ last' = Nothing
  /\ UNCHANGED <<secs, refcount, nodes, stamps, stacks, ghosts>>

Unplug(d) ==
  /\ d \in present
  /\ present' = present \ {d}
  /\ last' = Nothing
  /\ UNCHANGED <<io, secs, refcount, nodes, stamps, stacks, ghosts>>

Transfer(d) ==
  /\ d \in present
  /\ io[d] < MaxIo
  /\ io' = [io EXCEPT ![d] = @ + 1]
  /\ last' = Nothing
  /\ UNCHANGED <<present, secs, refcount, nodes, stamps, stacks, ghosts>>

Tick ==
  /\ secs < MaxSecs
  /\ secs' = secs + 1
  /\ last' = Nothing
  /\ UNCHANGED <<present, io, refcount, nodes, stamps, stacks, ghosts>>

--------------------------------------------------------------------------------
(* Reading /proc/diskstats.                                                 *)

\* Never stale.
Stale_never(node, old, new) == FALSE

\* node_get loses a node that neither stamp vouches for.
Stale(node, old, new) == node.stamped # old /\ node.stamped # new

node_get(list, d, old, new) ==
  {n \in list : n.name = d /\ ~Stale(n, old, new)}

\* The stale node is not found but stays in the list.
node_cut_forgotten(list, gone, old, new) == list

\* The list without those nodes of 'gone' that node_get finds stale.
node_cut(list, gone, old, new) ==
  {n \in list : ~(n.name \in gone /\ Stale(n, old, new))}

\* The counters overwritten before they were saved.
node_update_swapped(node, new, now) ==
  [name |-> node.name, stamped |-> now, new |-> new, old |-> new]

\* An existing node keeps its last counters as the old ones.
node_update(node, new, now) ==
  [name |-> node.name, stamped |-> now, new |-> new, old |-> node.new]

\* A new node has no delta.
node_add(d, new, now) ==
  [name |-> d, stamped |-> now, new |-> new, old |-> new]

\* The devices of 'seen' that have a node which is not stale.
Found(list, seen, old, new) == {d \in seen : node_get(list, d, old, new) # {}}

\* The list after the lines of the devices in 'seen', old and new being the
\* stamps once the read has moved them.
NodesAfter(list, seen, old, new) ==
  LET found == Found(list, seen, old, new)
  IN  {IF n.name \in found THEN node_update(n, io[n.name], new) ELSE n :
         n \in node_cut(list, seen, old, new)}
      \cup {node_add(d, io[d], new) : d \in seen \ found}

\* Lines are read in order; a read that fails has applied the first ones.
Readable(seen, failed) ==
  IF failed THEN /\ seen \subseteq present /\ seen # present
                 /\ \A d \in seen, e \in present : e < d => e \in seen
            ELSE seen = present

\* The node of d after the read.
NodeOf(list, d) == CHOOSE n \in list : n.name = d

\* The node list that a read of 'seen' makes.
After(seen) == NodesAfter(nodes, seen, new_stamp, secs)

\* The stamps move before the first line is read.
diskstats_read_failed(seen, failed) ==
  LET found == Found(nodes, seen, new_stamp, secs)
      delta(d) == NodeOf(After(seen), d).new - NodeOf(After(seen), d).old
  IN  /\ Readable(seen, failed)
      /\ old_stamp' = new_stamp
      /\ new_stamp' = secs
      /\ inlast' = seen
      /\ seen_at' = [d \in Dev |-> IF d \in seen THEN secs
                                   ELSE IF d \in Names(nodes) THEN seen_at[d] ELSE 0]
      /\ missed' = [d \in Dev |-> IF d \in Names(nodes) /\ seen_at'[d] # secs
                                    THEN missed[d] \cup {secs} ELSE {}]
      /\ credit' = [d \in Dev |-> IF d \in found THEN credit[d] + delta(d)
                                  ELSE IF d \in seen THEN io[d]
                                  ELSE IF d \in Names(nodes) THEN credit[d] ELSE 0]

--------------------------------------------------------------------------------
(* The life of a context.                                                   *)

Init ==
  /\ present = Dev /\ io = [d \in Dev |-> 0] /\ secs = 1
  /\ refcount = 0 /\ nodes = {} /\ old_stamp = 0 /\ new_stamp = 0
  /\ fetch_items = NULL /\ fetch_live = {} /\ anchor = <<>>
  /\ inlast = {} /\ seen_at = [d \in Dev |-> 0] /\ missed = [d \in Dev |-> {}]
  /\ credit = [d \in Dev |-> 0]
  /\ last = Nothing

\* A priming read, so that the first deltas mean something.
procps_diskstats_new ==
  /\ refcount = 0
  /\ refcount' = 1
  /\ diskstats_read_failed(present, FALSE)
  /\ nodes' = After(present)
  /\ last' = Nothing
  /\ UNCHANGED <<kernel, stacks>>

procps_diskstats_ref ==
  /\ refcount \in 1 .. MaxRef - 1
  /\ refcount' = refcount + 1
  /\ last' = Nothing
  /\ UNCHANGED <<kernel, nodes, stamps, stacks, ghosts>>

procps_diskstats_unref ==
  /\ refcount > 0
  /\ refcount' = refcount - 1
  /\ IF refcount > 1
       THEN UNCHANGED <<nodes, stamps, stacks, ghosts>>
       ELSE /\ nodes' = {} /\ old_stamp' = 0 /\ new_stamp' = 0
            /\ fetch_items' = NULL /\ fetch_live' = {} /\ anchor' = <<>>
            /\ inlast' = {} /\ seen_at' = [d \in Dev |-> 0]
            /\ missed' = [d \in Dev |-> {}]
            /\ credit' = [d \in Dev |-> 0]
  /\ last' = Nothing
  /\ UNCHANGED kernel

--------------------------------------------------------------------------------
(* get, select and reap                                                     *)

\* One device looked up: a stale node is freed, which is as good as none.
lookup(call, d, list, old, new) ==
  /\ nodes' = node_cut(list, {d}, old, new)
  /\ last' = [call |-> IF node_get(list, d, old, new) # {} THEN call ELSE "ENXIO",
              devs |-> {d}]

\* A call that fails with the read: what was applied stays.
give_up(seen) ==
  /\ nodes' = After(seen)
  /\ last' = Nothing

\* The file is read at most once a second.
procps_diskstats_get_cached(d) ==
  /\ refcount > 0
  /\ secs - new_stamp < 1
  /\ lookup("get", d, nodes, old_stamp, new_stamp)
  /\ UNCHANGED <<kernel, refcount, stamps, stacks, ghosts>>

procps_diskstats_get(d, seen, failed) ==
  /\ refcount > 0
  /\ secs - new_stamp >= 1
  /\ diskstats_read_failed(seen, failed)
  /\ IF failed THEN give_up(seen) ELSE lookup("get", d, After(seen), new_stamp, secs)
  /\ UNCHANGED <<kernel, refcount, stacks>>

\* The file is read every time.  The stack, of an extent of its own, is out
\* of reach of the other calls.
procps_diskstats_select(d, seen, failed) ==
  /\ refcount > 0
  /\ diskstats_read_failed(seen, failed)
  /\ IF failed THEN give_up(seen) ELSE lookup("select", d, After(seen), new_stamp, secs)
  /\ UNCHANGED <<kernel, refcount, stacks>>

Stack == 1 .. Cardinality(Dev) + STACKS_INCR

\* n stacks beyond those in use.
Fresh(used, n) ==
  LET top == IF used = {} THEN 0 ELSE CHOOSE s \in used : \A r \in used : r <= s
  IN  [i \in 1 .. n |-> top + i]

\* The stacks allocated when there are no extents: as many as the anchor has
\* places, which are STACKS_INCR at first.
Refill(live) ==
  IF live # {} THEN <<>>
  ELSE Fresh({}, IF anchor = <<>> THEN STACKS_INCR ELSE Len(anchor))

\* The refill is copied over the anchor; then more stacks, STACKS_INCR at a
\* time, until there is one for every node.
diskstats_stacks_fetch(live, n) ==
  LET refill == Refill(live)
      first  == refill \o SubSeq(anchor, Len(refill) + 1, Len(anchor))
      lack   == n - Len(first)
      more   == IF lack <= 0 THEN 0
                ELSE ((lack + STACKS_INCR - 1) \div STACKS_INCR) * STACKS_INCR
      extra  == Fresh(live \cup ToSet(first), more)
  IN  /\ anchor' = first \o extra
      /\ fetch_live' = live \cup ToSet(refill) \cup ToSet(extra)

\* diskstats_stacks_reconfig_maybe: other items, other stacks.
Kept(list) == IF list = fetch_items THEN fetch_live ELSE {}

procps_diskstats_reap(list, seen, failed) ==
  /\ refcount > 0
  /\ fetch_items' = list
  /\ diskstats_read_failed(seen, failed)
  /\ IF failed
       THEN /\ give_up(seen)
            /\ fetch_live' = Kept(list)
            /\ UNCHANGED anchor
       ELSE /\ nodes' = After(seen)
            /\ diskstats_stacks_fetch(Kept(list), Cardinality(After(seen)))
            /\ last' = [call |-> "reap", devs |-> Names(After(seen))]
  /\ UNCHANGED <<kernel, refcount>>

--------------------------------------------------------------------------------

Next ==
  \/ \E d \in Dev : Plug(d) \/ Unplug(d) \/ Transfer(d)
  \/ Tick
  \/ procps_diskstats_new
  \/ procps_diskstats_ref
  \/ procps_diskstats_unref
  \/ \E d \in Dev : procps_diskstats_get_cached(d)
  \/ \E d \in Dev, seen \in SUBSET Dev, failed \in BOOLEAN :
       \/ procps_diskstats_get(d, seen, failed)
       \/ procps_diskstats_select(d, seen, failed)
  \/ \E list \in ItemLists, seen \in SUBSET Dev, failed \in BOOLEAN :
       procps_diskstats_reap(list, seen, failed)

Spec == Init /\ [][Next]_vars

--------------------------------------------------------------------------------
(* Properties.                                                              *)

\* Every variable has its type.
TypeOK ==
  /\ present \subseteq Dev /\ io \in [Dev -> 0 .. MaxIo] /\ secs \in 1 .. MaxSecs
  /\ refcount \in 0 .. MaxRef
  /\ nodes \subseteq [name : Dev, stamped : 1 .. MaxSecs, new : 0 .. MaxIo, old : 0 .. MaxIo]
  /\ old_stamp \in 0 .. MaxSecs /\ new_stamp \in old_stamp .. secs
  /\ fetch_items \in ItemLists \cup {NULL}
  /\ fetch_live \subseteq Stack /\ ToSet(anchor) \subseteq Stack

\* However devices come and go between reads, the list has one node for a
\* device at most, and one for every device that the last read saw.
OneNodeEach ==
  /\ \A m, n \in nodes : m.name = n.name => m = n
  /\ inlast \subseteq Names(nodes)

\* A device that the last read saw is found by get and select.
ListedIsFound == last.call = "ENXIO" => last.devs \cap inlast = {}

\* A device that reads of two later seconds have missed is not found, even
\* if other calls made those reads.
GoneIsLost ==
  last.call \in {"get", "select"} =>
    \A d \in last.devs : Cardinality(missed[d]) < 2

\* The deltas of a device add up to what its counter has moved by since its
\* node was made: no read loses a transfer or counts one twice, whether get,
\* select or reap made it, missed it or failed half way.
DeltasAddUp ==
  \A n \in nodes : n.new = credit[n.name]

\* Where there are extents, reap has a stack of its own for every place of the
\* anchor, also after the items changed and the old stacks were freed.
Anchored ==
  fetch_live # {} =>
    /\ ToSet(anchor) = fetch_live
    /\ Cardinality(fetch_live) = Len(anchor)

\* Nodes and stacks are sound after any calls: typed, one node for a device,
\* one stack for a place (node_update, diskstats_stacks_fetch).
NodesSound == TypeOK /\ OneNodeEach /\ Anchored

\* get and select find a device while reads see it and lose it when they have
\* not for two later seconds (node_get).
FoundWhileThere == ListedIsFound /\ GoneIsLost
================================================================================
