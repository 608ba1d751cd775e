---------------------------- MODULE DiskstatsProofs ----------------------------
(****************************************************************************)
(* Proofs about Diskstats for every set of devices and every bound: however *)
(* devices come and go between the reads of get, select and reap, there is  *)
(* one node for a device, its deltas add up, it is found while reads see it *)
(* and lost when they have not for two later seconds, and every place of    *)
(* the anchor has a stack of its own.                                       *)
(****************************************************************************)
EXTENDS Diskstats, FiniteSetTheorems, SequenceTheorems, TLAPS

Node == [name : Dev, stamped : 1 .. MaxSecs, new : 0 .. MaxIo, old : 0 .. MaxIo]

--------------------------------------------------------------------------------
(* The parts of the inductive invariant, about a list of nodes.             *)

Unique(list) == \A m, n \in list : m.name = n.name => m = n

\* The devices of 'seen' have a node with the stamp of the last read.
Listed(list, seen, new) ==
  /\ seen \subseteq Dev
  /\ \A d \in seen : \E n \in list : n.name = d /\ n.stamped = new

\* A stamp is the second its device was last seen in.  Reads of no later second
\* have missed a device with the new stamp, and only that of the new stamp one
\* with the old stamp.
StampsTell(list, old, new, at, miss) ==
  \A n \in list :
    /\ n.stamped <= new /\ at[n.name] = n.stamped
    /\ n.stamped = new => miss[n.name] = {}
    /\ n.stamped = old => miss[n.name] \subseteq {new}

Credited(list, cr) == \A n \in list : n.new = cr[n.name]

\* All that is kept of a list.
ListSound(list, seen, old, new, at, miss, cr) ==
  /\ list \subseteq Node
  /\ Unique(list)
  /\ Listed(list, seen, new)
  /\ StampsTell(list, old, new, at, miss)
  /\ Credited(list, cr)

\* The places of the anchor are filled with stacks in the order they were made.
Numbered(m) == [i \in 1 .. m |-> i]

AnchorInOrder ==
  \E m \in 0 .. Cardinality(Dev) + STACKS_INCR :
    anchor = Numbered(m) /\ fetch_live \in {{}, 1 .. m}

\* The inductive invariant.
DInv ==
  /\ present \subseteq Dev /\ io \in [Dev -> 0 .. MaxIo] /\ secs \in 1 .. MaxSecs
  /\ refcount \in 0 .. MaxRef
  /\ old_stamp \in 0 .. MaxSecs /\ new_stamp \in old_stamp .. secs
  /\ fetch_items \in ItemLists \cup {NULL}
  /\ ListSound(nodes, inlast, old_stamp, new_stamp, seen_at, missed, credit)
  /\ AnchorInOrder
  /\ FoundWhileThere

--------------------------------------------------------------------------------
(* Reading.                                                                 *)

\* What a node is after a read: one whose device was not seen, one that was
\* updated, or a new one.
LEMMA NodesAfterCases ==
  ASSUME NEW list, NEW seen, NEW old, NEW new, NEW n \in NodesAfter(list, seen, old, new)
  PROVE  \/ n \in list /\ n.name \notin seen
         \/ \E m \in list : /\ m.name \in Found(list, seen, old, new)
                            /\ n = node_update(m, io[m.name], new)
         \/ \E d \in seen \ Found(list, seen, old, new) : n = node_add(d, io[d], new)
<1>1. \A m \in node_cut(list, seen, old, new) :
        m \in list /\ (m.name \in seen => m.name \in Found(list, seen, old, new))
  BY DEF node_cut, Found, node_get
<1> QED
  BY <1>1 DEF NodesAfter

\* Every device seen has a node afterwards: its old one, if that was found.
LEMMA NodesAfterHas ==
  ASSUME NEW list, NEW seen, NEW old, NEW new, NEW d \in seen
  PROVE  /\ d \in Found(list, seen, old, new) =>
              \E m \in list : /\ m.name = d
                              /\ node_update(m, io[d], new) \in NodesAfter(list, seen, old, new)
         /\ d \notin Found(list, seen, old, new) =>
              node_add(d, io[d], new) \in NodesAfter(list, seen, old, new)
<1>1. ASSUME d \in Found(list, seen, old, new)
      PROVE  \E m \in list : /\ m.name = d
                             /\ node_update(m, io[d], new) \in NodesAfter(list, seen, old, new)
  <2>1. PICK m \in list : m.name = d /\ ~Stale(m, old, new)
    BY <1>1 DEF Found, node_get
  <2>2. m \in node_cut(list, seen, old, new)
    BY <2>1 DEF node_cut
  <2>3. node_update(m, io[m.name], new) \in NodesAfter(list, seen, old, new)
    BY <2>1, <2>2, <1>1 DEF NodesAfter
  <2> QED
    BY <2>1, <2>3
<1> QED
  BY <1>1 DEF NodesAfter

\* A read keeps the list sound, whatever devices it saw.
LEMMA ReadSound ==
  ASSUME DInv, NEW seen \in SUBSET Dev, NEW failed, diskstats_read_failed(seen, failed)
  PROVE  ListSound(After(seen), inlast', old_stamp', new_stamp', seen_at', missed', credit')
<1> DEFINE N == After(seen)
           found == Found(nodes, seen, new_stamp, secs)
<1>1. /\ io \in [Dev -> 0 .. MaxIo] /\ secs \in 1 .. MaxSecs /\ old_stamp \in 0 .. MaxSecs
      /\ new_stamp \in old_stamp .. secs /\ MaxSecs \in Nat /\ MaxIo \in Nat
      /\ nodes \subseteq Node /\ Unique(nodes) /\ Credited(nodes, credit)
      /\ StampsTell(nodes, old_stamp, new_stamp, seen_at, missed)
  BY DiskstatsAssumption DEF DInv, ListSound
<1>2. /\ old_stamp' = new_stamp /\ new_stamp' = secs /\ inlast' = seen
      /\ seen_at' = [d \in Dev |-> IF d \in seen THEN secs
                                   ELSE IF d \in Names(nodes) THEN seen_at[d] ELSE 0]
      /\ missed' = [d \in Dev |-> IF d \in Names(nodes) /\ seen_at'[d] # secs
                                    THEN missed[d] \cup {secs} ELSE {}]
      /\ credit' = [d \in Dev |->
           IF d \in found THEN credit[d] + (NodeOf(N, d).new - NodeOf(N, d).old)
           ELSE IF d \in seen THEN io[d]
           ELSE IF d \in Names(nodes) THEN credit[d] ELSE 0]
  BY DEF diskstats_read_failed
<1>3. found \subseteq seen
  BY DEF Found
<1>4. ASSUME NEW n \in N
      PROVE  \/ n \in nodes /\ n.name \notin seen
             \/ \E m \in nodes : /\ m.name \in found
                                 /\ n = node_update(m, io[m.name], secs)
             \/ \E d \in seen \ found : n = node_add(d, io[d], secs)
  BY <1>4, NodesAfterCases DEF After
<1>5. \A d \in seen :
        /\ d \in found => \E m \in nodes : m.name = d /\ node_update(m, io[d], secs) \in N
        /\ d \notin found => node_add(d, io[d], secs) \in N
  BY NodesAfterHas DEF After
<1> HIDE DEF N, found
<1>6. N \subseteq Node
  <2> SUFFICES ASSUME NEW n \in N PROVE n \in Node
    OBVIOUS
  <2>1. ASSUME NEW m \in nodes, n = node_update(m, io[m.name], secs)
        PROVE  n \in Node
    BY <2>1, <1>1 DEF Node, node_update
  <2>2. ASSUME NEW d \in seen, n = node_add(d, io[d], secs)
        PROVE  n \in Node
    BY <2>2, <1>1 DEF Node, node_add
  <2> QED
    BY <1>1, <1>4, <2>1, <2>2
<1>7. Unique(N)
  <2> SUFFICES ASSUME NEW a \in N, NEW b \in N, a.name = b.name PROVE a = b
    BY DEF Unique
  <2>1. ASSUME NEW n \in N
        PROVE  \/ n \in nodes /\ n.name \notin seen
               \/ \E m \in nodes : /\ m.name = n.name /\ n.name \in found
                                   /\ n = node_update(m, io[n.name], secs)
               \/ n.name \in seen \ found /\ n = node_add(n.name, io[n.name], secs)
    BY <1>4 DEF node_update, node_add
  <2> QED
    BY <2>1, <1>1, <1>3 DEF Unique
<1>8. Listed(N, seen, secs)
  <2>1. \A m, v : node_update(m, v, secs).stamped = secs /\ node_update(m, v, secs).name = m.name
    BY DEF node_update
  <2>2. \A d, v : node_add(d, v, secs).stamped = secs /\ node_add(d, v, secs).name = d
    BY DEF node_add
  <2> QED
    BY <2>1, <2>2, <1>5 DEF Listed
<1>9. StampsTell(N, new_stamp, secs, seen_at', missed')
  <2> SUFFICES ASSUME NEW n \in N
               PROVE  /\ n.stamped <= secs /\ seen_at'[n.name] = n.stamped
                      /\ n.stamped = secs => missed'[n.name] = {}
                      /\ n.stamped = new_stamp => missed'[n.name] \subseteq {secs}
    BY DEF StampsTell
  <2>1. n.name \in Dev
    BY <1>6 DEF Node
  <2>2. CASE n.name \in seen
    <3>1. n.stamped = secs
      BY <2>2, <1>4 DEF node_update, node_add
    <3>2. seen_at'[n.name] = secs
      BY <2>1, <2>2, <1>2
    <3>3. missed'[n.name] = {}
      BY <2>1, <3>2, <1>2
    <3> QED
      BY <3>1, <3>2, <3>3, <1>1
  <2>3. CASE n.name \notin seen
    <3>1. n \in nodes /\ n.name \in Names(nodes)
      BY <2>3, <1>3, <1>4 DEF node_update, node_add, Names
    <3>2. seen_at'[n.name] = seen_at[n.name]
      BY <2>1, <2>3, <3>1, <1>2
    <3>3. /\ n.stamped <= new_stamp /\ seen_at[n.name] = n.stamped /\ n.stamped \in Int
          /\ n.stamped = new_stamp => missed[n.name] = {}
      BY <3>1, <1>1 DEF StampsTell, Node
    <3>4. missed'[n.name] = IF n.stamped # secs THEN missed[n.name] \cup {secs} ELSE {}
      BY <2>1, <3>1, <3>2, <3>3, <1>2
    <3> QED
      BY <3>2, <3>3, <3>4, <1>1
  <2> QED
    BY <2>2, <2>3
<1>10. Credited(N, credit')
  <2> SUFFICES ASSUME NEW n \in N PROVE n.new = credit'[n.name]
    BY DEF Credited
  <2>1. n.name \in Dev
    BY <1>6 DEF Node
  <2>2. NodeOf(N, n.name) = n
    BY <1>7 DEF NodeOf, Unique
  <2>3. CASE n \in nodes /\ n.name \notin seen
    <3>1. n.name \in Names(nodes) /\ n.name \notin found
      BY <2>3, <1>3 DEF Names
    <3> QED
      BY <2>1, <2>3, <3>1, <1>1, <1>2 DEF Credited
  <2>4. CASE \E m \in nodes : m.name \in found /\ n = node_update(m, io[m.name], secs)
    <3>1. PICK m \in nodes : m.name \in found /\ n = node_update(m, io[m.name], secs)
      BY <2>4
    <3>2. n.name = m.name /\ n.new = io[n.name] /\ n.old = m.new
      BY <3>1 DEF node_update
    <3>3. credit[n.name] = m.new /\ m.new \in Int /\ io[n.name] \in Int
      BY <3>2, <2>1, <1>1 DEF Credited, Node
    <3>4. credit'[n.name] = credit[n.name] + (n.new - n.old)
      BY <2>1, <2>2, <3>1, <3>2, <1>2
    <3> QED
      BY <3>2, <3>3, <3>4
  <2>5. CASE \E d \in seen \ found : n = node_add(d, io[d], secs)
    BY <2>1, <2>5, <1>2 DEF node_add
  <2> QED
    BY <2>3, <2>4, <2>5, <1>4
<1> QED
  BY <1>2, <1>6, <1>7, <1>8, <1>9, <1>10 DEF ListSound, N

\* A list from which node_get has cut stale nodes is as sound as it was.
LEMMA CutSound ==
  ASSUME NEW list, NEW seen, NEW old, NEW new, NEW at, NEW miss, NEW cr, NEW gone,
         ListSound(list, seen, old, new, at, miss, cr)
  PROVE  ListSound(node_cut(list, gone, old, new), seen, old, new, at, miss, cr)
<1>1. node_cut(list, gone, old, new) \subseteq list
  BY DEF node_cut
<1>2. \A n \in list : n.stamped = new => n \in node_cut(list, gone, old, new)
  BY DEF node_cut, Stale
<1> QED
  BY <1>1, <1>2 DEF ListSound, Unique, Listed, StampsTell, Credited

\* A device looked up in a sound list is found if the last read saw it, and
\* not found if reads of two later seconds have missed it.
LEMMA LookupFinds ==
  ASSUME NEW call \in {"get", "select"}, NEW d, NEW list, NEW seen, NEW old, NEW new,
         NEW at, NEW miss, NEW cr, lookup(call, d, list, old, new),
         ListSound(list, seen, old, new, at, miss, cr)
  PROVE  /\ last'.call = "ENXIO" => last'.devs \cap seen = {}
         /\ last'.call \in {"get", "select"} =>
              \A e \in last'.devs : Cardinality(miss[e]) < 2
<1>1. last' = [call |-> IF node_get(list, d, old, new) # {} THEN call ELSE "ENXIO",
               devs |-> {d}]
  BY DEF lookup
<1>2. CASE node_get(list, d, old, new) # {}
  <2>1. PICK n \in list : n.name = d /\ ~Stale(n, old, new)
    BY <1>2 DEF node_get
  <2>2. miss[d] \subseteq {new}
    BY <2>1 DEF Stale, ListSound, StampsTell
  <2>3. Cardinality(miss[d]) < 2
    <3>1. miss[d] = {} \/ miss[d] = {new}
      BY <2>2
    <3>2. Cardinality({}) = 0 /\ Cardinality({new}) = 1
      BY FS_EmptySet, FS_Singleton
    <3> QED
      BY <3>1, <3>2
  <2> QED
    BY <1>1, <1>2, <2>3
<1>3. CASE node_get(list, d, old, new) = {}
  <2>1. d \notin seen
    BY <1>3 DEF node_get, Stale, ListSound, Listed
  <2> QED
    BY <1>1, <1>3, <2>1
<1> QED
  BY <1>2, <1>3

--------------------------------------------------------------------------------
(* Stacks.                                                                  *)

\* The anchor in order has m places and the stacks 1 to m in them.
LEMMA NumberedIs ==
  ASSUME NEW m \in Nat
  PROVE  /\ Numbered(m) \in Seq(Nat) /\ Len(Numbered(m)) = m
         /\ \A i \in 1 .. m : Numbered(m)[i] = i
         /\ ToSet(Numbered(m)) = 1 .. m
         /\ Numbered(m) = <<>> <=> m = 0
<1>1. Numbered(m) \in Seq(Nat) /\ Len(Numbered(m)) = m /\ DOMAIN Numbered(m) = 1 .. m
  BY DEF Numbered
<1>2. \A i \in 1 .. m : Numbered(m)[i] = i
  BY DEF Numbered
<1>3. ToSet(Numbered(m)) = 1 .. m
  BY <1>1, <1>2 DEF ToSet
<1>4. Numbered(m) = <<>> <=> m = 0
  BY <1>1
<1> QED
  BY <1>1, <1>2, <1>3, <1>4

\* Fresh stacks are numbered on from those in use.
LEMMA FreshNumbersOn ==
  ASSUME NEW m \in Nat, NEW n \in Nat
  PROVE  /\ Fresh(1 .. m, n) = [i \in 1 .. n |-> m + i]
         /\ Numbered(m) \o Fresh(1 .. m, n) = Numbered(m + n)
         /\ ToSet(Fresh(1 .. m, n)) = (m + 1) .. (m + n)
<1> DEFINE top == IF 1 .. m = {} THEN 0 ELSE CHOOSE s \in 1 .. m : \A r \in 1 .. m : r <= s
           F == [i \in 1 .. n |-> m + i]
<1>1. top = m
  <2>1. CASE m = 0
    BY <2>1
  <2>2. CASE m # 0
    <3>1. 1 .. m # {} /\ m \in 1 .. m /\ \A r \in 1 .. m : r <= m
      BY <2>2
    <3>2. \A s \in 1 .. m : (\A r \in 1 .. m : r <= s) => s = m
      BY <3>1
    <3> QED
      BY <3>1, <3>2
  <2> QED
    BY <2>1, <2>2
<1>2. Fresh(1 .. m, n) = F
  BY <1>1 DEF Fresh
<1>3. F \in Seq(Nat) /\ Len(F) = n /\ DOMAIN F = 1 .. n
  OBVIOUS
<1>4. Numbered(m) \o F = Numbered(m + n)
  <2>1. Numbered(m) \in Seq(Nat) /\ Len(Numbered(m)) = m /\ m + n \in Nat
        /\ \A i \in 1 .. m : Numbered(m)[i] = i
    BY NumberedIs
  <2>2. Numbered(m + n) \in Seq(Nat) /\ Len(Numbered(m + n)) = m + n
        /\ \A i \in 1 .. m + n : Numbered(m + n)[i] = i
    BY <2>1, NumberedIs
  <2>3. \A i \in 1 .. n : F[i] = m + i
    OBVIOUS
  <2> HIDE DEF F
  <2>4. Numbered(m) \o F \in Seq(Nat) /\ Len(Numbered(m) \o F) = m + n
    BY <2>1, <1>3
  <2>5. \A i \in 1 .. m + n : (Numbered(m) \o F)[i] = i
    BY <2>1, <2>3, <1>3
  <2>6. \A i \in 1 .. m + n : (Numbered(m) \o F)[i] = Numbered(m + n)[i]
    BY <2>2, <2>5, Zenon
  <2> QED
    BY <2>2, <2>4, <2>6, SeqEqual, Zenon
<1>5. ToSet(F) = (m + 1) .. (m + n)
  <2>1. ToSet(F) = {F[i] : i \in 1 .. n}
    BY <1>3 DEF ToSet
  <2>2. ASSUME NEW y \in ToSet(F) PROVE y \in (m + 1) .. (m + n)
    BY <2>1
  <2>3. ASSUME NEW y \in (m + 1) .. (m + n) PROVE y \in ToSet(F)
    <3>1. y - m \in 1 .. n /\ F[y - m] = y
      OBVIOUS
    <3> QED
      BY <2>1, <3>1
  <2> QED
    BY <2>2, <2>3
<1> QED
  BY <1>2, <1>4, <1>5

\* Rounding up adds less than one step.
LEMMA RoundedUp ==
  ASSUME NEW a \in Nat \ {0}, NEW b \in Nat \ {0}
  PROVE  LET r == ((a + b - 1) \div b) * b IN r \in Nat /\ a <= r /\ r <= a + b - 1
BY Z3

\* The stacks that a refill leaves in the anchor: as many as it had places, or
\* a first lot.
LEMMA RefillInOrder ==
  ASSUME NEW m \in Nat, anchor = Numbered(m), NEW live \in {{}, 1 .. m}
  PROVE  LET f == IF m = 0 THEN STACKS_INCR ELSE m
             r == Refill(live)
         IN  /\ r \o SubSeq(anchor, Len(r) + 1, Len(anchor)) = Numbered(f)
             /\ live \cup ToSet(r) = 1 .. f
<1> DEFINE f == IF m = 0 THEN STACKS_INCR ELSE m
<1>1. /\ f \in Nat \ {0} /\ anchor \in Seq(Nat) /\ Len(anchor) = m
      /\ anchor = <<>> <=> m = 0
  BY DiskstatsAssumption, NumberedIs
<1>2. Numbered(f) \in Seq(Nat) /\ Len(Numbered(f)) = f /\ ToSet(Numbered(f)) = 1 .. f
  BY <1>1, NumberedIs, Zenon
<1>3. CASE live = {}
  <2>1. Refill(live) = Fresh({}, f)
    BY <1>1, <1>3 DEF Refill
  <2>2. Fresh({}, f) = Numbered(f)
    BY DEF Fresh, Numbered
  <2>3. SubSeq(anchor, f + 1, m) = <<>>
    <3>1. f + 1 \in Int /\ m \in Int /\ m < f + 1
      BY <1>1
    <3> QED
      BY <3>1, SubSeqEmpty, Zenon
  <2>4. Numbered(f) \o <<>> = Numbered(f)
    BY <1>2, ConcatEmptySeq, Zenon
  <2> HIDE DEF f
  <2> QED
    BY <1>1, <1>2, <1>3, <2>1, <2>2, <2>3, <2>4 DEF f
<1>4. CASE live # {}
  <2>1. live = 1 .. m /\ f = m
    BY <1>4
  <2>2. Refill(live) = <<>> /\ Len(<<>>) = 0 /\ ToSet(<<>>) = {}
    BY <1>4 DEF Refill, ToSet
  <2>3. SubSeq(anchor, 1, m) = anchor
    BY <1>1, SubSeqFull, Zenon
  <2>4. <<>> \o anchor = anchor
    BY <1>1, ConcatEmptySeq, Zenon
  <2>5. Refill(live) \o SubSeq(anchor, 0 + 1, m) = anchor
    BY <2>2, <2>3, <2>4, 0 + 1 = 1
  <2>6. live \cup ToSet(Refill(live)) = 1 .. f
    BY <2>1, <2>2, Zenon
  <2> QED
    BY <1>1, <2>1, <2>2, <2>5, <2>6, Zenon
<1> QED
  BY <1>3, <1>4

\* diskstats_stacks_fetch leaves a stack in every place, and n places at least.
LEMMA FetchInOrder ==
  ASSUME AnchorInOrder, NEW live \in {{}, fetch_live},
         NEW n \in 0 .. Cardinality(Dev), diskstats_stacks_fetch(live, n)
  PROVE  AnchorInOrder' /\ fetch_live' # {} /\ n <= Len(anchor')
<1>1. Cardinality(Dev) \in Nat /\ STACKS_INCR \in Nat \ {0}
  BY DiskstatsAssumption, FS_CardinalityType
<1>2. PICK m \in 0 .. Cardinality(Dev) + STACKS_INCR :
        anchor = Numbered(m) /\ live \in {{}, 1 .. m}
  BY DEF AnchorInOrder
<1> DEFINE f == IF m = 0 THEN STACKS_INCR ELSE m
           first == Refill(live) \o SubSeq(anchor, Len(Refill(live)) + 1, Len(anchor))
           lack == n - Len(first)
           more == IF lack <= 0 THEN 0
                   ELSE ((lack + STACKS_INCR - 1) \div STACKS_INCR) * STACKS_INCR
           extra == Fresh(live \cup ToSet(first), more)
<1>3. anchor' = first \o extra /\ fetch_live' = live \cup ToSet(Refill(live)) \cup ToSet(extra)
  BY DEF diskstats_stacks_fetch
<1>4. m \in Nat /\ f \in 1 .. Cardinality(Dev) + STACKS_INCR /\ f \in Nat
  BY <1>1, <1>2
<1>5. first = Numbered(f) /\ live \cup ToSet(Refill(live)) = 1 .. f
  BY <1>2, <1>4, RefillInOrder
<1>6. live \in {{}, 1 .. m} /\ live \subseteq 1 .. f
  BY <1>2, <1>4
<1> HIDE DEF f, first
<1>7. Len(first) = f /\ ToSet(first) = 1 .. f
  BY <1>4, <1>5, NumberedIs
<1>8. /\ more \in Nat /\ f + more \in Nat /\ n <= f + more
      /\ f + more <= Cardinality(Dev) + STACKS_INCR
  <2>1. CASE n - f <= 0
    BY <2>1, <1>1, <1>4, <1>7
  <2>2. CASE ~(n - f <= 0)
    <3>1. lack = n - f /\ lack \in Nat \ {0} /\ ~(lack <= 0)
      BY <2>2, <1>1, <1>4, <1>7
    <3> HIDE DEF lack
    <3>2. more \in Nat /\ lack <= more /\ more <= lack + STACKS_INCR - 1
      BY <3>1, <1>1, RoundedUp
    <3> HIDE DEF more
    <3> QED
      BY <3>1, <3>2, <1>1, <1>4
  <2> QED
    BY <2>1, <2>2
<1>9. live \cup ToSet(first) = 1 .. f
  BY <1>6, <1>7
<1> HIDE DEF lack, more
<1>10. /\ Numbered(f) \o Fresh(1 .. f, more) = Numbered(f + more)
       /\ ToSet(Fresh(1 .. f, more)) = (f + 1) .. (f + more)
  BY <1>4, <1>8, FreshNumbersOn
<1>11. anchor' = Numbered(f + more)
  BY <1>3, <1>5, <1>9, <1>10
<1>12. fetch_live' = (1 .. f) \cup (f + 1) .. (f + more)
  BY <1>3, <1>5, <1>9, <1>10
<1>13. fetch_live' = 1 .. f + more
  BY <1>4, <1>8, <1>12
<1>14. Len(anchor') = f + more
  BY <1>8, <1>11, NumberedIs
<1>15. f + more \in 0 .. Cardinality(Dev) + STACKS_INCR /\ 1 \in 1 .. f + more
  BY <1>1, <1>4, <1>8
<1> QED
  BY <1>8, <1>11, <1>13, <1>14, <1>15 DEF AnchorInOrder

\* No more nodes than devices.
LEMMA NodesBounded ==
  ASSUME NEW list \in SUBSET Node, Unique(list)
  PROVE  Cardinality(list) \in 0 .. Cardinality(Dev)
<1> DEFINE name == [n \in list |-> n.name]
<1>1. \A n \in list : n.name \in Dev
  BY DEF Node
<1>2. name \in Injection(list, Dev)
  BY <1>1 DEF Unique, Injection, IsInjective
<1> HIDE DEF name
<1>3. IsFiniteSet(list) /\ Cardinality(list) <= Cardinality(Dev)
  BY <1>2, DiskstatsAssumption, FS_Injection
<1>4. Cardinality(list) \in Nat /\ Cardinality(Dev) \in Nat
  BY <1>3, DiskstatsAssumption, FS_CardinalityType
<1> QED
  BY <1>3, <1>4

--------------------------------------------------------------------------------
(* Every step keeps the invariant.                                          *)

\* An empty list, as before new and after the last unref, is sound.
LEMMA EmptySound ==
  ASSUME NEW old, NEW new, NEW at, NEW miss, NEW cr
  PROVE  ListSound({}, {}, old, new, at, miss, cr)
BY DEF ListSound, Unique, Listed, StampsTell, Credited

\* A step that returns nothing to the caller makes no promise about a device.
LEMMA NothingPromised ==
  ASSUME last' = Nothing
  PROVE  FoundWhileThere'
BY DEF FoundWhileThere, ListedIsFound, GoneIsLost, Nothing

\* DInv holds at first.
LEMMA InitDInv ==
  Init => DInv
<1> SUFFICES ASSUME Init PROVE DInv
  OBVIOUS
<1>1. Cardinality(Dev) \in Nat
  BY DiskstatsAssumption, FS_CardinalityType
<1>2. AnchorInOrder
  <2>1. Numbered(0) = <<>>
    BY NumberedIs
  <2>2. 0 \in 0 .. Cardinality(Dev) + STACKS_INCR
    BY <1>1, DiskstatsAssumption
  <2> QED
    BY <2>1, <2>2 DEF Init, AnchorInOrder
<1>3. ListSound(nodes, inlast, old_stamp, new_stamp, seen_at, missed, credit)
  BY EmptySound DEF Init
<1>4. FoundWhileThere
  BY DEF Init, FoundWhileThere, ListedIsFound, GoneIsLost, Nothing
<1> QED
  BY <1>2, <1>3, <1>4, DiskstatsAssumption DEF Init, DInv

\* What the kernel does leaves the list and the stacks alone.
LEMMA KernelKeeps ==
  ASSUME DInv, NEW d, (d \in Dev /\ (Plug(d) \/ Unplug(d) \/ Transfer(d))) \/ Tick
  PROVE  DInv'
<1>1. /\ UNCHANGED <<refcount, nodes, stamps, stacks, ghosts>> /\ last' = Nothing
  BY DEF Plug, Unplug, Transfer, Tick
<1>2. present' \subseteq Dev
  BY DEF DInv, Plug, Unplug, Transfer, Tick
<1>3. io' \in [Dev -> 0 .. MaxIo]
  <2>1. CASE d \in Dev /\ Plug(d)
    BY <2>1, DiskstatsAssumption DEF Plug, DInv
  <2>2. CASE d \in Dev /\ Transfer(d)
    BY <2>2, DiskstatsAssumption DEF Transfer, DInv
  <2> QED
    BY <2>1, <2>2 DEF Unplug, Tick, DInv
<1>4. secs' \in 1 .. MaxSecs /\ new_stamp \in old_stamp .. secs'
  BY DiskstatsAssumption DEF DInv, Plug, Unplug, Transfer, Tick
<1>5. FoundWhileThere'
  BY <1>1, NothingPromised
<1>6. AnchorInOrder'
  BY <1>1 DEF DInv, AnchorInOrder, stacks
<1>7. ListSound(nodes, inlast, old_stamp, new_stamp, seen_at, missed, credit)'
  BY <1>1 DEF DInv, ListSound, Unique, Listed, StampsTell, Credited, stamps, ghosts
<1> QED
  BY <1>1, <1>2, <1>3, <1>4, <1>5, <1>6, <1>7 DEF DInv, stamps, stacks

\* A read moves the stamps forward.
LEMMA ReadTyped ==
  ASSUME DInv, NEW seen, NEW failed, diskstats_read_failed(seen, failed), UNCHANGED kernel
  PROVE  /\ present' \subseteq Dev /\ io' \in [Dev -> 0 .. MaxIo] /\ secs' \in 1 .. MaxSecs
         /\ old_stamp' \in 0 .. MaxSecs /\ new_stamp' \in old_stamp' .. secs'
BY DiskstatsAssumption DEF DInv, diskstats_read_failed, kernel

\* new reads once, into an empty list or that of a context given up.
LEMMA NewKeeps ==
  ASSUME DInv, procps_diskstats_new
  PROVE  DInv'
<1>1. /\ refcount' = 1 /\ diskstats_read_failed(present, FALSE) /\ nodes' = After(present)
      /\ last' = Nothing /\ UNCHANGED <<kernel, stacks>>
  BY DEF procps_diskstats_new
<1>2. present \in SUBSET Dev
  BY DEF DInv
<1>3. ListSound(nodes, inlast, old_stamp, new_stamp, seen_at, missed, credit)'
  <2>1. ListSound(After(present), inlast', old_stamp', new_stamp', seen_at', missed', credit')
    BY <1>1, <1>2, ReadSound
  <2> QED
    BY <1>1, <2>1 DEF ListSound, Unique, Listed, StampsTell, Credited
<1>4. AnchorInOrder'
  BY <1>1 DEF DInv, AnchorInOrder, stacks
<1>5. refcount' \in 0 .. MaxRef /\ fetch_items' \in ItemLists \cup {NULL}
  BY <1>1, DiskstatsAssumption DEF DInv, stacks
<1> QED
  BY <1>1, <1>3, <1>4, <1>5, ReadTyped, NothingPromised DEF DInv

\* ref and unref: the last unref frees everything.
LEMMA RefKeeps ==
  ASSUME DInv, procps_diskstats_ref \/ procps_diskstats_unref
  PROVE  DInv'
<1>1. /\ refcount' \in 0 .. MaxRef /\ last' = Nothing /\ UNCHANGED kernel
  BY DiskstatsAssumption DEF DInv, procps_diskstats_ref, procps_diskstats_unref
<1>2. CASE UNCHANGED <<nodes, stamps, stacks, ghosts>>
  <2>1. AnchorInOrder'
    BY <1>2 DEF DInv, AnchorInOrder, stacks
  <2>2. ListSound(nodes, inlast, old_stamp, new_stamp, seen_at, missed, credit)'
    BY <1>2 DEF DInv, ListSound, Unique, Listed, StampsTell, Credited, stamps, ghosts
  <2> QED
    BY <1>1, <1>2, <2>1, <2>2, NothingPromised DEF DInv, kernel, stamps, stacks
<1>3. CASE /\ nodes' = {} /\ inlast' = {} /\ old_stamp' = 0 /\ new_stamp' = 0
           /\ fetch_items' = NULL /\ fetch_live' = {} /\ anchor' = <<>>
  <2>1. AnchorInOrder'
    <3>1. Numbered(0) = <<>> /\ Cardinality(Dev) \in Nat
      BY NumberedIs, DiskstatsAssumption, FS_CardinalityType
    <3> QED
      BY <3>1, <1>3, DiskstatsAssumption DEF AnchorInOrder
  <2>2. ListSound(nodes, inlast, old_stamp, new_stamp, seen_at, missed, credit)'
    BY <1>3 DEF ListSound, Unique, Listed, StampsTell, Credited
  <2>3. old_stamp' \in 0 .. MaxSecs /\ new_stamp' \in old_stamp' .. secs'
    BY <1>1, <1>3, DiskstatsAssumption DEF DInv, kernel
  <2> QED
    BY <1>1, <1>3, <2>1, <2>2, <2>3, NothingPromised DEF DInv, kernel
<1> QED
  BY <1>2, <1>3 DEF procps_diskstats_ref, procps_diskstats_unref

\* get without a read: only a stale node may go.
LEMMA CachedKeeps ==
  ASSUME DInv, NEW d \in Dev, procps_diskstats_get_cached(d)
  PROVE  DInv'
<1>1. /\ lookup("get", d, nodes, old_stamp, new_stamp)
      /\ UNCHANGED <<kernel, refcount, stamps, stacks, ghosts>>
  BY DEF procps_diskstats_get_cached
<1>2. ListSound(nodes, inlast, old_stamp, new_stamp, seen_at, missed, credit)
  BY DEF DInv
<1>3. nodes' = node_cut(nodes, {d}, old_stamp, new_stamp)
  BY <1>1 DEF lookup
<1>4. ListSound(nodes', inlast, old_stamp, new_stamp, seen_at, missed, credit)
  BY <1>2, <1>3, CutSound
<1>5. ListSound(nodes, inlast, old_stamp, new_stamp, seen_at, missed, credit)'
  BY <1>1, <1>4 DEF ListSound, Unique, Listed, StampsTell, Credited, stamps, ghosts
<1>6. FoundWhileThere'
  <2>1. /\ last'.call = "ENXIO" => last'.devs \cap inlast = {}
        /\ last'.call \in {"get", "select"} =>
             \A e \in last'.devs : Cardinality(missed[e]) < 2
    BY <1>1, <1>2, LookupFinds
  <2> QED
    BY <2>1, <1>1 DEF FoundWhileThere, ListedIsFound, GoneIsLost, ghosts
<1>7. AnchorInOrder'
  BY <1>1 DEF DInv, AnchorInOrder, stacks
<1> QED
  BY <1>1, <1>5, <1>6, <1>7 DEF DInv, kernel, stamps, stacks

\* get and select after a read, or given up with one that failed.
LEMMA LookupKeeps ==
  ASSUME DInv, NEW d \in Dev, NEW seen \in SUBSET Dev, NEW failed \in BOOLEAN,
         procps_diskstats_get(d, seen, failed) \/ procps_diskstats_select(d, seen, failed)
  PROVE  DInv'
<1>1. PICK call \in {"get", "select"} :
        IF failed THEN give_up(seen) ELSE lookup(call, d, After(seen), new_stamp, secs)
  BY DEF procps_diskstats_get, procps_diskstats_select
<1>2. diskstats_read_failed(seen, failed) /\ UNCHANGED <<kernel, refcount, stacks>>
  BY DEF procps_diskstats_get, procps_diskstats_select
<1>3. ListSound(After(seen), inlast', old_stamp', new_stamp', seen_at', missed', credit')
  BY <1>2, ReadSound
<1>4. old_stamp' = new_stamp /\ new_stamp' = secs
  BY <1>2 DEF diskstats_read_failed
<1>5. ListSound(nodes', inlast', old_stamp', new_stamp', seen_at', missed', credit')
      /\ FoundWhileThere'
  <2>1. CASE failed
    BY <1>1, <1>3, <2>1, NothingPromised DEF give_up
  <2>2. CASE ~failed
    <3>1. lookup(call, d, After(seen), old_stamp', new_stamp')
      BY <1>1, <1>4, <2>2
    <3>2. nodes' = node_cut(After(seen), {d}, old_stamp', new_stamp')
      BY <3>1 DEF lookup
    <3>3. ListSound(nodes', inlast', old_stamp', new_stamp', seen_at', missed', credit')
      BY <1>3, <3>2, CutSound
    <3>4. /\ last'.call = "ENXIO" => last'.devs \cap inlast' = {}
          /\ last'.call \in {"get", "select"} =>
               \A e \in last'.devs : Cardinality(missed'[e]) < 2
      BY <1>3, <3>1, LookupFinds
    <3> QED
      BY <3>3, <3>4 DEF FoundWhileThere, ListedIsFound, GoneIsLost
  <2> QED
    BY <2>1, <2>2
<1>6. ListSound(nodes, inlast, old_stamp, new_stamp, seen_at, missed, credit)'
  BY <1>5 DEF ListSound, Unique, Listed, StampsTell, Credited
<1>7. AnchorInOrder'
  BY <1>2 DEF DInv, AnchorInOrder, stacks
<1> QED
  BY <1>2, <1>5, <1>6, <1>7, ReadTyped DEF DInv, kernel, stacks

\* reap: with a failed read the stacks of other items are freed and no more.
LEMMA ReapKeeps ==
  ASSUME DInv, NEW list \in ItemLists, NEW seen \in SUBSET Dev, NEW failed \in BOOLEAN,
         procps_diskstats_reap(list, seen, failed)
  PROVE  DInv'
<1>1. /\ diskstats_read_failed(seen, failed) /\ UNCHANGED <<kernel, refcount>>
      /\ fetch_items' = list /\ nodes' = After(seen)
  BY DEF procps_diskstats_reap, give_up
<1>2. ListSound(After(seen), inlast', old_stamp', new_stamp', seen_at', missed', credit')
  BY <1>1, ReadSound
<1>3. ListSound(nodes, inlast, old_stamp, new_stamp, seen_at, missed, credit)'
  BY <1>1, <1>2 DEF ListSound, Unique, Listed, StampsTell, Credited
<1>4. Kept(list) \in {{}, fetch_live}
  BY DEF Kept
<1>5. AnchorInOrder' /\ FoundWhileThere'
  <2>1. CASE failed
    <3>1. fetch_live' = Kept(list) /\ anchor' = anchor /\ last' = Nothing
      BY <2>1 DEF procps_diskstats_reap, give_up
    <3> QED
      BY <1>4, <3>1, NothingPromised DEF DInv, AnchorInOrder
  <2>2. CASE ~failed
    <3>1. /\ diskstats_stacks_fetch(Kept(list), Cardinality(After(seen)))
          /\ last'.call = "reap"
      BY <2>2 DEF procps_diskstats_reap
    <3>2. Cardinality(After(seen)) \in 0 .. Cardinality(Dev)
      BY <1>2, NodesBounded DEF ListSound
    <3>3. AnchorInOrder'
      BY <1>4, <3>1, <3>2, FetchInOrder DEF DInv
    <3> QED
      BY <3>1, <3>3 DEF FoundWhileThere, ListedIsFound, GoneIsLost
  <2> QED
    BY <2>1, <2>2
<1> QED
  BY <1>1, <1>3, <1>5, ReadTyped DEF DInv

\* DInv is inductive.
LEMMA NextDInv ==
  DInv /\ [Next]_vars => DInv'
<1> SUFFICES ASSUME DInv, [Next]_vars PROVE DInv'
  OBVIOUS
<1>1. CASE UNCHANGED vars
  <2>1. UNCHANGED <<kernel, refcount, nodes, stamps, stacks, ghosts, last>>
    BY <1>1 DEF vars
  <2> QED
    BY <2>1 DEF DInv, kernel, stamps, stacks, ghosts, AnchorInOrder, FoundWhileThere,
                ListedIsFound, GoneIsLost, ListSound, Unique, Listed, StampsTell, Credited
<1>2. CASE \E d \in Dev : Plug(d) \/ Unplug(d) \/ Transfer(d)
  BY <1>2, KernelKeeps
<1>3. CASE Tick
  BY <1>3, KernelKeeps
<1>4. CASE procps_diskstats_new
  BY <1>4, NewKeeps
<1>5. CASE procps_diskstats_ref \/ procps_diskstats_unref
  BY <1>5, RefKeeps
<1>6. CASE \E d \in Dev : procps_diskstats_get_cached(d)
  BY <1>6, CachedKeeps
<1>7. CASE \E d \in Dev, seen \in SUBSET Dev, failed \in BOOLEAN :
             \/ procps_diskstats_get(d, seen, failed)
             \/ procps_diskstats_select(d, seen, failed)
  BY <1>7, LookupKeeps
<1>8. CASE \E list \in ItemLists, seen \in SUBSET Dev, failed \in BOOLEAN :
             procps_diskstats_reap(list, seen, failed)
  BY <1>8, ReapKeeps
<1> QED
  BY <1>1, <1>2, <1>3, <1>4, <1>5, <1>6, <1>7, <1>8 DEF Next

--------------------------------------------------------------------------------
(* The theorems.                                                            *)

\* DInv holds always.
LEMMA AlwaysDInv ==
  Spec => []DInv
<1>1. Init => DInv
  BY InitDInv
<1>2. DInv /\ [Next]_vars => DInv'
  BY NextDInv
<1> QED
  BY <1>1, <1>2, PTL DEF Spec

\* Nodes and stacks are sound after any calls of new, ref, unref, get, select and
\* reap, for any devices: typed, one node for a device and one for every device
\* the last read saw, one stack for every place of the anchor.
THEOREM NodesCorrect ==
  Spec => []NodesSound
<1>1. DInv => NodesSound
  <2> SUFFICES ASSUME DInv PROVE NodesSound
    OBVIOUS
  <2>1. ListSound(nodes, inlast, old_stamp, new_stamp, seen_at, missed, credit)
    BY DEF DInv
  <2>2. PICK m \in 0 .. Cardinality(Dev) + STACKS_INCR :
          anchor = Numbered(m) /\ fetch_live \in {{}, 1 .. m}
    BY DEF DInv, AnchorInOrder
  <2>3. m \in Nat /\ m <= Cardinality(Dev) + STACKS_INCR /\ Cardinality(Dev) \in Nat
    BY <2>2, DiskstatsAssumption, FS_CardinalityType
  <2>4. ToSet(anchor) = 1 .. m /\ Len(anchor) = m
    BY <2>2, <2>3, NumberedIs
  <2>5. 1 .. m \subseteq Stack
    BY <2>3, DiskstatsAssumption DEF Stack
  <2>6. TypeOK
    BY <2>1, <2>2, <2>4, <2>5 DEF DInv, TypeOK, ListSound, Node
  <2>7. OneNodeEach
    BY <2>1 DEF ListSound, Unique, Listed, OneNodeEach, Names
  <2>8. Cardinality(1 .. m) = m
    BY <2>3, FS_Interval
  <2>9. Anchored
    BY <2>2, <2>4, <2>8 DEF Anchored
  <2> QED
    BY <2>6, <2>7, <2>9 DEF NodesSound
<1> QED
  BY <1>1, AlwaysDInv, PTL

\* get and select find every device that the last read saw, and none that reads
\* of two later seconds have missed, whichever calls made the reads.
THEOREM LookupsCorrect ==
  Spec => []FoundWhileThere
<1>1. DInv => FoundWhileThere
  BY DEF DInv
<1> QED
  BY <1>1, AlwaysDInv, PTL

\* The deltas of a device add up to what its counter moved by, for any devices
\* and however many reads were made, missed it or failed half way.
THEOREM DeltasCorrect ==
  Spec => []DeltasAddUp
<1>1. DInv => DeltasAddUp
  BY DEF DInv, ListSound, Credited, DeltasAddUp
<1> QED
  BY <1>1, AlwaysDInv, PTL
================================================================================
