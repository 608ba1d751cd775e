--------------------------- MODULE PidsContextProofs ---------------------------
(****************************************************************************)
(* Proofs about PidsContext, for any item lists, block sizes and bounds.    *)
(*                                                                          *)
(* SInv is the invariant of the stacks.  Its parts: ConfigOK, ScannerOK and *)
(* CachesOK on the members of the context; Gone, nothing is left without a  *)
(* context; and MemOK, which says how the stacks are placed (numbered in    *)
(* the order of allocation, in extents that share none), what each looks    *)
(* like (HeadOK: for every position the item the list has there, a value    *)
(* that the item's functions can have put there, zero after the end), and   *)
(* that the strings on hand are those they own.  StacksSound follows; it is *)
(* not inductive by itself, since a reset frees by the items in the stacks  *)
(* and a set function by those in func_array.                               *)
(*                                                                          *)
(* AInv, of what was returned, adds to AnswersHold that the results shown   *)
(* are in stacks of fetch, which get never writes.                          *)
(****************************************************************************)
EXTENDS PidsContext, FiniteSetTheorems, TLAPS

--------------------------------------------------------------------------------
(* The table of items, and stacks.                                          *)

Items == DOMAIN Item_table

\* How an item is set and how it is freed go together.
LEMMA TableIs ==
  ASSUME NEW x \in Items
  PROVE  /\ x # END
         /\ Item_table[x].set \in {"noop", "extra", "REG", "DUP", "STR", "VEC", "NAME"}
         /\ Item_table[x].freefunc \in {"none", "str", "strv"}
         /\ Item_table[x].set \in {"DUP", "STR"} <=> Item_table[x].freefunc = "str"
         /\ Item_table[x].set = "VEC" <=> Item_table[x].freefunc = "strv"
BY DEF Items, Item_table, Row, END

\* A value that the item's functions can have put there.
Suits(x, v) ==
  /\ v.kind = "num" => Item_table[x].set = "REG"
  /\ v.kind = "str" => Item_table[x].freefunc = "str"
  /\ v.kind = "strv" => Item_table[x].freefunc = "strv"
  /\ v.kind = "name" => Item_table[x].set = "NAME"

\* A result at its place in a stack made for a list.
SlotOK(list, i, x) ==
  /\ x \in Slot
  /\ i <= Len(list) => x.item = list[i] /\ Suits(list[i], x.val)
  /\ i = Len(list) + 1 => x.item = END
  /\ i > Len(list) => x.val = Zero

\* A stack for a list.
HeadOK(list, h) ==
  h \in Seq(Slot) /\ Len(h) > Len(list) /\ \A i \in 1 .. Len(h) : SlotOK(list, i, h[i])

Blank(h) == \A i \in 1 .. Len(h) : h[i].val = Zero

\* The members of a result.
LEMMA SlotHas ==
  ASSUME NEW x \in Slot
  PROVE  x.item \in Items \cup {END} /\ x.val \in Val
BY DEF Slot, Items

\* A result made of its members.
LEMMA SlotIs ==
  ASSUME NEW a \in Items \cup {END}, NEW v \in Val, NEW x, x = [item |-> a, val |-> v]
  PROVE  x \in Slot /\ x.item = a /\ x.val = v
BY DEF Slot, Items

\* A cleared value.
LEMMA ZeroIs == Zero \in Val /\ Zero.kind = "zero" /\ \A x \in Items : Suits(x, Zero)
BY PidsContextAssumption DEF Zero, Val, Suits

\* A stack is delimited right after its list.
LEMMA EndIs ==
  ASSUME NEW list \in Seq(Items), NEW h, HeadOK(list, h)
  PROVE  EndOf(h) = Len(list) + 1 /\ DOMAIN h = 1 .. Len(h) /\ Len(h) \in Nat
<1>1. DOMAIN h = 1 .. Len(h) /\ Len(h) \in Nat /\ Len(list) \in Nat /\ Len(list) + 1 \in 1 .. Len(h)
  BY DEF HeadOK
<1>2. h[Len(list) + 1].item = END
  BY <1>1 DEF HeadOK, SlotOK
<1>3. \A j \in 1 .. Len(list) : h[j].item # END
  <2> SUFFICES ASSUME NEW j \in 1 .. Len(list) PROVE h[j].item # END
    OBVIOUS
  <2>1. h[j].item = list[j]
    BY <1>1 DEF HeadOK, SlotOK
  <2> QED
    BY <2>1, TableIs
<1>4. ASSUME NEW i \in DOMAIN h, h[i].item = END, \A j \in 1 .. i - 1 : h[j].item # END
      PROVE  i = Len(list) + 1
  <2>1. ~(i <= Len(list))
    BY <1>1, <1>3, <1>4
  <2>2. ~(Len(list) + 1 < i)
    BY <1>1, <1>2, <1>4
  <2> QED
    BY <1>1, <2>1, <2>2
<1>5. \A j \in 1 .. (Len(list) + 1) - 1 : h[j].item # END
  BY <1>1, <1>3
<1> QED
  BY <1>1, <1>2, <1>4, <1>5 DEF EndOf

\* New stacks.
LEMMA AllocIs ==
  ASSUME NEW list \in Seq(Items)
  PROVE  LET h == pids_itemize_stack([i \in 1 .. Len(list) + 1 |-> [item |-> "noop", val |-> Zero]], list)
         IN  HeadOK(list, h) /\ Blank(h) /\ h # <<>>
<1> DEFINE h0 == [i \in 1 .. Len(list) + 1 |-> [item |-> "noop", val |-> Zero]]
           h  == pids_itemize_stack(h0, list)
<1>1. Len(list) \in Nat
  OBVIOUS
<1>2. h = [i \in 1 .. Len(list) + 1 |-> [item |-> Append(list, END)[i], val |-> Zero]]
  BY <1>1 DEF pids_itemize_stack
<1>3. \A i \in 1 .. Len(list) + 1 : Append(list, END)[i] \in Items \cup {END}
  BY <1>1
<1>4. \A i \in 1 .. Len(list) + 1 : h[i] \in Slot /\ h[i].item = Append(list, END)[i] /\ h[i].val = Zero
  <2> SUFFICES ASSUME NEW i \in 1 .. Len(list) + 1
               PROVE  h[i] \in Slot /\ h[i].item = Append(list, END)[i] /\ h[i].val = Zero
    OBVIOUS
  <2>1. PICK a \in Items \cup {END} : a = Append(list, END)[i]
    BY <1>3
  <2>2. h[i] = [item |-> a, val |-> Zero]
    BY <1>2, <2>1
  <2> HIDE DEF h
  <2> QED
    BY <2>1, <2>2, SlotIs, ZeroIs
<1>5. h \in Seq(Slot) /\ Len(h) = Len(list) + 1
  BY <1>1, <1>2, <1>4
<1> HIDE DEF h
<1>6. ASSUME NEW i \in 1 .. Len(h) PROVE SlotOK(list, i, h[i])
  <2>1. CASE i <= Len(list)
    <3>1. Append(list, END)[i] = list[i] /\ list[i] \in Items
      BY <1>1, <2>1
    <3> QED
      BY <1>1, <1>4, <1>5, <2>1, <3>1, ZeroIs DEF SlotOK
  <2>2. CASE i = Len(list) + 1
    <3>1. Append(list, END)[i] = END
      BY <2>2
    <3> QED
      BY <1>1, <1>4, <1>5, <2>2, <3>1 DEF SlotOK
  <2> QED
    BY <1>1, <1>5, <2>1, <2>2
<1>7. Blank(h)
  BY <1>4, <1>5 DEF Blank
<1>8. h # <<>>
  BY <1>1, <1>5
<1>9. HeadOK(list, h)
  BY <1>1, <1>5, <1>6 DEF HeadOK
<1> QED
  BY <1>7, <1>8, <1>9 DEF h

\* Cleaning a stack clears all of it.
LEMMA CleanIs ==
  ASSUME NEW list \in Seq(Items), NEW h, HeadOK(list, h)
  PROVE  HeadOK(list, pids_cleanup_stack(h)) /\ Blank(pids_cleanup_stack(h))
         /\ (h # <<>> => pids_cleanup_stack(h) # <<>>)
<1> DEFINE c == pids_cleanup_stack(h)
<1>1. EndOf(h) = Len(list) + 1 /\ DOMAIN h = 1 .. Len(h) /\ Len(h) \in Nat /\ Len(list) \in Nat
  BY EndIs
<1>2. c = [i \in 1 .. Len(h) |-> IF i < Len(list) + 1 THEN [item |-> h[i].item, val |-> Zero] ELSE h[i]]
  BY <1>1 DEF pids_cleanup_stack
<1>3. ASSUME NEW i \in 1 .. Len(h)
      PROVE  c[i] \in Slot /\ c[i].item = h[i].item /\ c[i].val = Zero
  <2>1. SlotOK(list, i, h[i])
    BY DEF HeadOK
  <2>2. CASE i < Len(list) + 1
    <3>1. PICK a \in Items \cup {END} : a = h[i].item
      BY <2>1, SlotHas DEF SlotOK
    <3>2. c[i] = [item |-> a, val |-> Zero]
      BY <1>2, <2>2, <3>1
    <3> HIDE DEF c
    <3> QED
      BY <3>1, <3>2, SlotIs, ZeroIs
  <2>3. CASE ~(i < Len(list) + 1)
    <3>1. c[i] = h[i]
      BY <1>2, <2>3
    <3> HIDE DEF c
    <3> QED
      BY <1>1, <2>1, <2>3, <3>1 DEF SlotOK
  <2> QED
    BY <2>2, <2>3
<1>4. c \in Seq(Slot) /\ Len(c) = Len(h)
  <2>1. c = [i \in 1 .. Len(h) |-> c[i]]
    BY <1>2
  <2> HIDE DEF c
  <2>2. c \in [1 .. Len(h) -> Slot]
    BY <1>3, <2>1
  <2> QED
    BY <1>1, <2>2
<1> HIDE DEF c
<1>5. ASSUME NEW i \in 1 .. Len(c) PROVE SlotOK(list, i, c[i])
  <2>1. SlotOK(list, i, h[i])
    BY <1>4 DEF HeadOK
  <2>2. i <= Len(list) => list[i] \in Items
    BY <1>1, <1>4
  <2> QED
    BY <1>3, <1>4, <2>1, <2>2, ZeroIs DEF SlotOK
<1>6. HeadOK(list, c)
  BY <1>4, <1>5 DEF HeadOK
<1>7. Blank(c)
  BY <1>3, <1>4 DEF Blank
<1>8. h # <<>> => c # <<>>
  <2>1. Len(c) # 0
    BY <1>1, <1>4 DEF HeadOK
  <2> QED
    BY <1>4, <2>1
<1> QED
  BY <1>6, <1>7, <1>8 DEF c

\* A clear stack can be used for another list that is not longer.
LEMMA ItemizeIs ==
  ASSUME NEW list \in Seq(Items), NEW list2 \in Seq(Items), ~(Len(list) < Len(list2)),
         NEW h, HeadOK(list, h), Blank(h)
  PROVE  HeadOK(list2, pids_itemize_stack(h, list2)) /\ Blank(pids_itemize_stack(h, list2))
         /\ pids_itemize_stack(h, list2) # <<>>
<1> DEFINE c == pids_itemize_stack(h, list2)
<1>1. DOMAIN h = 1 .. Len(h) /\ Len(h) \in Nat /\ Len(list) \in Nat /\ Len(list2) \in Nat
      /\ Len(h) > Len(list2)
  BY DEF HeadOK
<1>2. c = [i \in 1 .. Len(h) |->
             IF i <= Len(list2) + 1 THEN [item |-> Append(list2, END)[i], val |-> h[i].val] ELSE h[i]]
  BY <1>1 DEF pids_itemize_stack
<1>3. ASSUME NEW i \in 1 .. Len(h)
      PROVE  /\ c[i] \in Slot /\ c[i].val = Zero
             /\ i <= Len(list2) + 1 => c[i].item = Append(list2, END)[i]
  <2>1. CASE i <= Len(list2) + 1
    <3>1. PICK a \in Items \cup {END} : a = Append(list2, END)[i]
      BY <1>1, <2>1
    <3>2. c[i] = [item |-> a, val |-> h[i].val] /\ h[i].val = Zero
      BY <1>2, <2>1, <3>1 DEF Blank
    <3>3. c[i] = [item |-> a, val |-> Zero]
      BY <3>2
    <3> HIDE DEF c
    <3>4. c[i] \in Slot /\ c[i].item = a /\ c[i].val = Zero
      BY <3>3, SlotIs, ZeroIs
    <3> QED
      BY <3>1, <3>4
  <2>2. CASE ~(i <= Len(list2) + 1)
    <3>1. c[i] = h[i]
      BY <1>2, <2>2
    <3> HIDE DEF c
    <3> QED
      BY <2>2, <3>1 DEF Blank, HeadOK, SlotOK
  <2> QED
    BY <2>1, <2>2
<1>4. c \in Seq(Slot) /\ Len(c) = Len(h)
  <2>1. c = [i \in 1 .. Len(h) |-> c[i]]
    BY <1>2
  <2> HIDE DEF c
  <2>2. c \in [1 .. Len(h) -> Slot]
    BY <1>3, <2>1
  <2> QED
    BY <1>1, <2>2
<1> HIDE DEF c
<1>5. ASSUME NEW i \in 1 .. Len(c) PROVE SlotOK(list2, i, c[i])
  <2>1. CASE i <= Len(list2)
    <3>1. Append(list2, END)[i] = list2[i] /\ list2[i] \in Items
      BY <1>1, <2>1
    <3> QED
      BY <1>1, <1>3, <1>4, <2>1, <3>1, ZeroIs DEF SlotOK
  <2>2. CASE i = Len(list2) + 1
    <3>1. Append(list2, END)[i] = END
      BY <2>2
    <3> QED
      BY <1>1, <1>3, <1>4, <2>2, <3>1 DEF SlotOK
  <2>3. CASE i > Len(list2) + 1
    BY <1>1, <1>3, <1>4, <2>3 DEF SlotOK
  <2> QED
    BY <1>1, <1>4, <2>1, <2>2, <2>3
<1>6. HeadOK(list2, c) /\ Blank(c)
  BY <1>1, <1>3, <1>4, <1>5 DEF HeadOK, Blank
<1>7. c # <<>>
  BY <1>1, <1>4
<1> QED
  BY <1>6, <1>7 DEF c

\* What a set function leaves: a value of the item's own kind.
LEMMA SetIs ==
  ASSUME NEW i, func_array[i] \in Items, NEW old \in Val, Suits(func_array[i], old),
         NEW t \in 0 .. MaxTasks, NEW flags, NEW cache \in 0 .. MaxDays
  PROVE  Set(i, old, t, flags, cache) \in Val /\ Suits(func_array[i], Set(i, old, t, flags, cache))
<1> DEFINE row == Item_table[func_array[i]]
           read == row.oldflags \subseteq flags
           avail == Available(i, flags)
           val(kind, from) == [kind |-> kind, of |-> IF from THEN t ELSE 0, cache |-> 0]
           v == Set(i, old, t, flags, cache)
<1>0. 0 \in 0 .. MaxTasks /\ 0 \in 0 .. MaxDays
  BY PidsContextAssumption
<1>1. \A kind \in {"num", "str", "strv"} : \A from : val(kind, from) \in Val /\ val(kind, from).kind = kind
  <2> SUFFICES ASSUME NEW kind \in {"num", "str", "strv"}, NEW from
               PROVE  val(kind, from) \in Val /\ val(kind, from).kind = kind
    OBVIOUS
  <2>1. PICK o \in 0 .. MaxTasks : o = IF from THEN t ELSE 0
    BY <1>0
  <2>2. val(kind, from) = [kind |-> kind, of |-> o, cache |-> 0]
    BY <2>1
  <2> QED
    BY <1>0, <2>2 DEF Val
<1>2. \/ row.set = "noop" /\ v = old
      \/ row.set = "extra" /\ v = Zero
      \/ row.set = "REG" /\ v = val("num", read)
      \/ row.set = "DUP" /\ v = val("str", read)
      \/ row.set = "STR" /\ v = val("str", avail)
      \/ row.set = "VEC" /\ v = val("strv", avail)
      \/ row.set = "NAME" /\ v = [kind |-> "name", of |-> t, cache |-> cache]
      \/ row.set = "NAME" /\ v = Zero
  BY TableIs DEF Set
<1>3. [kind |-> "name", of |-> t, cache |-> cache] \in Val
  BY DEF Val
<1>4. [kind |-> "name", of |-> t, cache |-> cache].kind = "name"
  OBVIOUS
<1> HIDE DEF val, v, read, avail
<1>5. CASE row.set = "noop" /\ v = old
  BY <1>5 DEF v
<1>6. CASE v = Zero
  BY <1>6, ZeroIs DEF v
<1>7. CASE row.set = "REG" /\ v = val("num", read)
  BY <1>1, <1>7 DEF v, Suits
<1>8. CASE row.set \in {"DUP", "STR"} /\ v \in {val("str", read), val("str", avail)}
  BY <1>1, <1>8, TableIs DEF v, Suits
<1>9. CASE row.set = "VEC" /\ v = val("strv", avail)
  BY <1>1, <1>9, TableIs DEF v, Suits
<1>10. CASE row.set = "NAME" /\ v = [kind |-> "name", of |-> t, cache |-> cache]
  BY <1>3, <1>4, <1>10 DEF v, Suits
<1> QED
  BY <1>2, <1>5, <1>6, <1>7, <1>8, <1>9, <1>10

\* The results of a task in a stack.
LEMMA AssignIs ==
  ASSUME func_array \in Seq(Items), NEW h, HeadOK(func_array, h),
         NEW t \in 0 .. MaxTasks, NEW flags, NEW cache \in 0 .. MaxDays, NEW failed
  PROVE  LET c == pids_assign_results(h, t, flags, cache, failed)
         IN  /\ HeadOK(func_array, c) /\ c # <<>> /\ Len(c) = Len(h)
             /\ \A i \in 1 .. Len(h) :
                  c[i].val = IF i > Len(func_array) THEN h[i].val
                             ELSE IF i = failed THEN Zero ELSE Set(i, h[i].val, t, flags, cache)
<1> DEFINE c == pids_assign_results(h, t, flags, cache, failed)
           new(i) == IF i = failed THEN Zero ELSE Set(i, h[i].val, t, flags, cache)
<1>1. DOMAIN h = 1 .. Len(h) /\ Len(h) \in Nat /\ Len(func_array) \in Nat /\ Len(h) > Len(func_array)
  BY DEF HeadOK
<1>2. c = [i \in 1 .. Len(h) |-> IF i > Len(func_array) THEN h[i]
                                 ELSE [item |-> h[i].item, val |-> new(i)]]
  BY <1>1 DEF pids_assign_results
<1>3. ASSUME NEW i \in 1 .. Len(h), i <= Len(func_array)
      PROVE  /\ func_array[i] \in Items /\ h[i].item = func_array[i]
             /\ new(i) \in Val /\ Suits(func_array[i], new(i))
  <2>1. func_array[i] \in Items
    BY <1>1, <1>3
  <2>2. SlotOK(func_array, i, h[i])
    BY DEF HeadOK
  <2>3. h[i].item = func_array[i] /\ Suits(func_array[i], h[i].val) /\ h[i].val \in Val
    BY <1>3, <2>2, SlotHas DEF SlotOK
  <2>4. CASE i = failed
    BY <2>1, <2>3, <2>4, ZeroIs
  <2>5. CASE i # failed
    BY <2>1, <2>3, <2>5, SetIs
  <2> QED
    BY <2>4, <2>5
<1> HIDE DEF new
<1>4. ASSUME NEW i \in 1 .. Len(h)
      PROVE  /\ c[i] \in Slot /\ c[i].item = h[i].item
             /\ c[i].val = IF i > Len(func_array) THEN h[i].val ELSE new(i)
  <2>1. CASE i <= Len(func_array)
    <3>1. PICK a \in Items \cup {END}, v \in Val : a = h[i].item /\ v = new(i)
      BY <1>3, <2>1
    <3>2. c[i] = [item |-> a, val |-> v]
      BY <1>1, <1>2, <2>1, <3>1
    <3> HIDE DEF c
    <3>3. c[i] \in Slot /\ c[i].item = a /\ c[i].val = v
      BY <3>2, SlotIs
    <3> QED
      BY <1>1, <2>1, <3>1, <3>3
  <2>2. CASE i > Len(func_array)
    <3>1. c[i] = h[i]
      BY <1>2, <2>2
    <3> HIDE DEF c
    <3> QED
      BY <2>2, <3>1 DEF HeadOK, SlotOK
  <2> QED
    BY <1>1, <2>1, <2>2
<1>5. c \in Seq(Slot) /\ Len(c) = Len(h)
  <2>1. c = [i \in 1 .. Len(h) |-> c[i]]
    BY <1>2
  <2> HIDE DEF c
  <2>2. c \in [1 .. Len(h) -> Slot]
    BY <1>4, <2>1
  <2> QED
    BY <1>1, <2>2
<1> HIDE DEF c
<1>6. ASSUME NEW i \in 1 .. Len(c) PROVE SlotOK(func_array, i, c[i])
  <2>1. SlotOK(func_array, i, h[i])
    BY <1>5 DEF HeadOK
  <2>2. CASE i <= Len(func_array)
    <3>1. ~(i > Len(func_array)) /\ i # Len(func_array) + 1
      BY <1>1, <1>5, <2>2
    <3> QED
      BY <1>3, <1>4, <1>5, <2>2, <3>1 DEF SlotOK
  <2>3. CASE i > Len(func_array)
    <3>1. ~(i <= Len(func_array))
      BY <1>1, <1>5, <2>3
    <3> QED
      BY <1>4, <1>5, <2>1, <2>3, <3>1 DEF SlotOK
  <2> QED
    BY <1>1, <1>5, <2>2, <2>3
<1>7. HeadOK(func_array, c)
  BY <1>1, <1>5, <1>6 DEF HeadOK
<1>8. c # <<>>
  BY <1>1, <1>5
<1>9. \A i \in 1 .. Len(h) :
         c[i].val = IF i > Len(func_array) THEN h[i].val
                    ELSE IF i = failed THEN Zero ELSE Set(i, h[i].val, t, flags, cache)
  BY <1>4 DEF new
<1> QED
  BY <1>5, <1>7, <1>8, <1>9 DEF c

\* The stack is one for the same list.
LEMMA AssignHead ==
  ASSUME func_array \in Seq(Items), NEW h, HeadOK(func_array, h),
         NEW t \in 0 .. MaxTasks, NEW flags, NEW cache \in 0 .. MaxDays, NEW failed,
         NEW c, c = pids_assign_results(h, t, flags, cache, failed)
  PROVE  HeadOK(func_array, c) /\ c # <<>>
BY AssignIs

\* The value a set function leaves for a task: names point into the cache
\* there is now, and what was read is the task's.
LEMMA SetAnswers ==
  ASSUME NEW i \in Nat, func_array[i] \in Items, NEW old \in Val, Suits(func_array[i], old),
         NEW t, NEW flags, NEW cache
  PROVE  /\ Set(i, old, t, flags, cache).kind = "name" => Set(i, old, t, flags, cache).cache = cache
         /\ /\ Item_table[func_array[i]].set \in {"REG", "DUP", "STR", "VEC", "NAME"}
            /\ Item_table[func_array[i]].oldflags \subseteq flags
            /\ \A j \in 1 .. i - 1 : func_array[j] # func_array[i]
            => Set(i, old, t, flags, cache).of = t
<1> DEFINE row == Item_table[func_array[i]]
           read == row.oldflags \subseteq flags
           avail == Available(i, flags)
           val(kind, from) == [kind |-> kind, of |-> IF from THEN t ELSE 0, cache |-> 0]
           v == Set(i, old, t, flags, cache)
<1>1. \/ row.set = "noop" /\ v = old
      \/ row.set = "extra" /\ v = Zero
      \/ row.set = "REG" /\ v = val("num", read)
      \/ row.set = "DUP" /\ v = val("str", read)
      \/ row.set = "STR" /\ v = val("str", avail)
      \/ row.set = "VEC" /\ v = val("strv", avail)
      \/ row.set = "NAME" /\ read /\ v = [kind |-> "name", of |-> t, cache |-> cache]
      \/ row.set = "NAME" /\ ~read /\ v = Zero
  BY TableIs DEF Set
<1>2. \A kind, from : val(kind, from).kind = kind /\ (from => val(kind, from).of = t)
  OBVIOUS
<1>3. read /\ (\A j \in 1 .. i - 1 : func_array[j] # func_array[i]) => avail
  BY DEF Available
<1>4. [kind |-> "name", of |-> t, cache |-> cache].cache = cache
      /\ [kind |-> "name", of |-> t, cache |-> cache].of = t
  OBVIOUS
<1> HIDE DEF val, v, avail
<1>5. v.kind = "name" => v.cache = cache
  <2>1. row.set = "noop" => old.kind # "name"
    BY DEF Suits
  <2> QED
    BY <1>1, <1>2, <1>4, <2>1, ZeroIs
<1>6. row.set \in {"REG", "DUP", "STR", "VEC", "NAME"} /\ read
        /\ (\A j \in 1 .. i - 1 : func_array[j] # func_array[i]) => v.of = t
  <2> SUFFICES ASSUME row.set \in {"REG", "DUP", "STR", "VEC", "NAME"}, read,
                      \A j \in 1 .. i - 1 : func_array[j] # func_array[i]
               PROVE  v.of = t
    OBVIOUS
  <2>1. avail
    BY <1>3
  <2>2. \A kind : val(kind, read).of = t /\ val(kind, avail).of = t
    BY <1>2, <2>1
  <2>3. \/ \E kind : v = val(kind, read) \/ v = val(kind, avail)
        \/ v = [kind |-> "name", of |-> t, cache |-> cache]
    BY <1>1
  <2> QED
    BY <1>4, <2>2, <2>3
<1> QED
  BY <1>5, <1>6 DEF v

--------------------------------------------------------------------------------
(* Extents.                                                                 *)

\* Enough extents are added, and less than one too many.
LEMMA GrowthsIs ==
  ASSUME NEW n \in Int
  PROVE  /\ Growths(n) \in Nat /\ n <= Growths(n) * STACKS_GROW
         /\ n <= 0 => Growths(n) = 0
         /\ n > 0 => Growths(n) * STACKS_GROW <= n + STACKS_GROW - 1
<1>0. PICK G \in Nat \ {0} : G = STACKS_GROW
  BY PidsContextAssumption
<1>1. CASE n <= 0
  BY <1>0, <1>1 DEF Growths
<1>2. CASE n > 0
  <2>1. PICK m \in Nat : m = n + G - 1
    BY <1>0, <1>2
  <2>2. m \div G \in Nat /\ (m \div G) * G <= m /\ m < (m \div G) * G + G
    BY <1>0, <2>1
  <2>3. Growths(n) = m \div G
    BY <1>0, <1>2, <2>1 DEF Growths
  <2> QED
    BY <1>0, <1>2, <2>1, <2>2, <2>3
<1> QED
  BY <1>1, <1>2

\* Extents one after the other.
Row_of(base, times) == {Extent(base + (k - 1) * STACKS_GROW, STACKS_GROW) : k \in 1 .. times}

\* Together they are one interval, and they share nothing.
LEMMA ExtentsAre ==
  ASSUME NEW base \in Nat, NEW times \in Nat
  PROVE  /\ UNION Row_of(base, times) = base + 1 .. base + times * STACKS_GROW
         /\ \A e, f \in Row_of(base, times) : e # f => e \cap f = {}
<1>0. PICK G \in Nat \ {0} : G = STACKS_GROW
  BY PidsContextAssumption
<1>1. ASSUME NEW k \in 1 .. times, NEW x \in Extent(base + (k - 1) * G, G)
      PROVE  x \in base + 1 .. base + times * G
  <2>1. x \in Int /\ base + (k - 1) * G + 1 <= x /\ x <= base + (k - 1) * G + G
    BY <1>1 DEF Extent
  <2>2. (k - 1) * G >= 0 /\ (k - 1) * G + G = k * G /\ k * G <= times * G
    OBVIOUS
  <2> QED
    BY <2>1, <2>2
<1>2. ASSUME NEW x \in base + 1 .. base + times * G
      PROVE  \E k \in 1 .. times : x \in Extent(base + (k - 1) * G, G)
  <2>1. PICK m \in Nat : m = x - base - 1 /\ m < times * G
    OBVIOUS
  <2>2. PICK q \in Nat : q * G <= m /\ m < q * G + G
    <3>1. m \div G \in Nat /\ (m \div G) * G <= m /\ m < (m \div G) * G + G
      OBVIOUS
    <3> QED
      BY <3>1
  <2>3. q < times
    <3>1. ~(q >= times)
      <4> SUFFICES ASSUME q >= times PROVE FALSE
        OBVIOUS
      <4>1. q * G >= times * G
        OBVIOUS
      <4> QED
        BY <2>1, <2>2, <4>1
    <3> QED
      BY <3>1
  <2>4. x \in Extent(base + ((q + 1) - 1) * G, G)
    <3>1. ((q + 1) - 1) * G = q * G /\ q * G \in Int
      OBVIOUS
    <3>2. base + q * G + 1 <= x /\ x <= base + q * G + G
      BY <2>1, <2>2, <3>1
    <3> QED
      BY <3>1, <3>2 DEF Extent
  <2>5. q + 1 \in 1 .. times
    BY <2>3
  <2> QED
    BY <2>4, <2>5
<1>3. ASSUME NEW k \in 1 .. times, NEW l \in 1 .. times, k < l
      PROVE  Extent(base + (k - 1) * G, G) \cap Extent(base + (l - 1) * G, G) = {}
  <2>1. (k - 1) * G + G = k * G /\ k * G <= (l - 1) * G /\ (k - 1) * G \in Int /\ (l - 1) * G \in Int
    BY <1>3
  <2> QED
    BY <2>1 DEF Extent
<1>4. UNION Row_of(base, times) = base + 1 .. base + times * G
  BY <1>0, <1>1, <1>2 DEF Row_of
<1>5. ASSUME NEW e \in Row_of(base, times), NEW f \in Row_of(base, times), e # f
      PROVE  e \cap f = {}
  <2>1. PICK k \in 1 .. times : e = Extent(base + (k - 1) * G, G)
    BY <1>0 DEF Row_of
  <2>2. PICK l \in 1 .. times : f = Extent(base + (l - 1) * G, G)
    BY <1>0 DEF Row_of
  <2>3. k < l \/ l < k
    BY <1>5, <2>1, <2>2
  <2> QED
    BY <1>3, <2>1, <2>2, <2>3
<1> QED
  BY <1>0, <1>4, <1>5

--------------------------------------------------------------------------------
(* Strings.                                                                 *)

\* A string that a stack owns.
LEMMA OwnedIs ==
  ASSUME NEW hd, NEW S, NEW p
  PROVE  p \in Owned(hd, S) <=>
           \E s \in S : \E i \in DOMAIN hd[s] : p = <<s, i>> /\ IsString(hd[s][i].val)
BY DEF Owned

\* Strings are where the list has an item that frees them.
LEMMA StringAt ==
  ASSUME NEW list \in Seq(Items), NEW h, HeadOK(list, h), NEW i \in DOMAIN h, IsString(h[i].val)
  PROVE  /\ i \in 1 .. Len(list) /\ h[i].item = list[i] /\ list[i] \in Items
         /\ Item_table[list[i]].freefunc # "none"
         /\ Item_table[list[i]].set \in {"DUP", "STR", "VEC"}
<1>1. i \in 1 .. Len(h) /\ Len(h) \in Nat /\ Len(list) \in Nat
  BY DEF HeadOK
<1>2. SlotOK(list, i, h[i])
  BY <1>1 DEF HeadOK
<1>3. i <= Len(list)
  <2>1. i > Len(list) => h[i].val = Zero
    BY <1>2 DEF SlotOK
  <2> QED
    BY <1>1, <2>1, ZeroIs DEF IsString
<1>4. h[i].item = list[i] /\ Suits(list[i], h[i].val) /\ list[i] \in Items
  BY <1>1, <1>2, <1>3 DEF SlotOK
<1> QED
  BY <1>1, <1>3, <1>4, TableIs DEF Suits, IsString

\* There are finitely many.
LEMMA OwnedFinite ==
  ASSUME NEW list \in Seq(Items), NEW hd, NEW S, IsFiniteSet(S), \A s \in S : HeadOK(list, hd[s])
  PROVE  IsFiniteSet(Owned(hd, S)) /\ Cardinality(Owned(hd, S)) \in Nat
<1>1. IsFiniteSet(1 .. Len(list))
  BY FS_Interval
<1>2. IsFiniteSet(S \X (1 .. Len(list)))
  BY <1>1, FS_Product
<1>3. Owned(hd, S) \subseteq S \X (1 .. Len(list))
  <2> SUFFICES ASSUME NEW p \in Owned(hd, S) PROVE p \in S \X (1 .. Len(list))
    OBVIOUS
  <2>0. PICK s \in S : \E i \in DOMAIN hd[s] : p = <<s, i>> /\ IsString(hd[s][i].val)
    BY OwnedIs
  <2>1. PICK i \in DOMAIN hd[s] : p = <<s, i>> /\ IsString(hd[s][i].val)
    BY <2>0
  <2>2. i \in 1 .. Len(list)
    BY <2>1, StringAt
  <2> QED
    BY <2>1, <2>2
<1>4. IsFiniteSet(Owned(hd, S))
  BY <1>2, <1>3, FS_Subset
<1> QED
  BY <1>4, FS_CardinalityType

\* Clear stacks own none.
LEMMA BlankOwns ==
  ASSUME NEW hd, NEW S, \A s \in S : hd[s] \in Seq(Slot) /\ Blank(hd[s])
  PROVE  Owned(hd, S) = {}
<1> SUFFICES ASSUME NEW p \in Owned(hd, S) PROVE FALSE
  OBVIOUS
<1>0. PICK s \in S : \E i \in DOMAIN hd[s] : p = <<s, i>> /\ IsString(hd[s][i].val)
  BY OwnedIs
<1>1. PICK i \in DOMAIN hd[s] : p = <<s, i>> /\ IsString(hd[s][i].val)
  BY <1>0
<1>2. hd[s] \in Seq(Slot)
  OBVIOUS
<1>3. i \in 1 .. Len(hd[s])
  BY <1>2
<1>4. hd[s][i].val = Zero
  BY <1>3 DEF Blank
<1> QED
  BY <1>1, <1>4, ZeroIs DEF IsString

\* Strings on hand when stacks are added, which own none yet, and some filled
\* anew.
LEMMA OwnedFilled ==
  ASSUME NEW L, NEW M, L \subseteq M, NEW F, F \subseteq M, NEW h0, NEW h1, NEW h2,
         \A s \in L : h1[s] = h0[s], Owned(h1, M \ L) = {},
         \A s \in M \ F : h2[s] = h1[s],
         IsFiniteSet(Owned(h1, M)), IsFiniteSet(Owned(h2, M))
  PROVE  Cardinality(Owned(h2, M)) =
           Cardinality(Owned(h0, L)) - Cardinality(Owned(h1, F)) + Cardinality(Owned(h2, F))
<1>1. Owned(h1, M) = Owned(h0, L)
  <2>1. ASSUME NEW p PROVE p \in Owned(h1, M) => p \in Owned(h0, L)
    <3> SUFFICES ASSUME p \in Owned(h1, M) PROVE p \in Owned(h0, L)
      OBVIOUS
    <3>1. PICK s \in M : \E i \in DOMAIN h1[s] : p = <<s, i>> /\ IsString(h1[s][i].val)
      BY OwnedIs
    <3>2. s \in M \ L => p \in Owned(h1, M \ L)
      BY <3>1, OwnedIs
    <3>3. s \in L
      BY <3>2
    <3>4. h1[s] = h0[s]
      BY <3>3
    <3> QED
      BY <3>1, <3>3, <3>4, OwnedIs
  <2>2. ASSUME NEW p PROVE p \in Owned(h0, L) => p \in Owned(h1, M)
    <3> SUFFICES ASSUME p \in Owned(h0, L) PROVE p \in Owned(h1, M)
      OBVIOUS
    <3>1. PICK s \in L : \E i \in DOMAIN h0[s] : p = <<s, i>> /\ IsString(h0[s][i].val)
      BY OwnedIs
    <3>2. h1[s] = h0[s] /\ s \in M
      BY <3>1
    <3> QED
      BY <3>1, <3>2, OwnedIs
  <2> QED
    BY <2>1, <2>2
<1> DEFINE A == Owned(h1, M)
           B == Owned(h1, F)
           C == Owned(h2, F)
<1>2. B \subseteq A /\ C \subseteq Owned(h2, M)
  BY DEF Owned
<1>3. Owned(h2, M) = (A \ B) \cup C
  <2>1. ASSUME NEW p PROVE p \in Owned(h2, M) => p \in (A \ B) \cup C
    <3> SUFFICES ASSUME p \in Owned(h2, M) PROVE p \in (A \ B) \cup C
      OBVIOUS
    <3>1. PICK s \in M : \E i \in DOMAIN h2[s] : p = <<s, i>> /\ IsString(h2[s][i].val)
      BY OwnedIs
    <3>2. CASE s \in F
      <4>1. p \in C
        BY <3>1, <3>2, OwnedIs
      <4> QED
        BY <4>1
    <3>3. CASE s \notin F
      <4>1. h2[s] = h1[s]
        BY <3>3
      <4>2. p \in A
        BY <3>1, <4>1, OwnedIs
      <4>3. p \notin B
        BY <3>1, <3>3, OwnedIs
      <4> QED
        BY <4>2, <4>3
    <3> QED
      BY <3>2, <3>3
  <2>2. ASSUME NEW p PROVE p \in A \ B => p \in Owned(h2, M)
    <3> SUFFICES ASSUME p \in A, p \notin B PROVE p \in Owned(h2, M)
      OBVIOUS
    <3>1. PICK s \in M : \E i \in DOMAIN h1[s] : p = <<s, i>> /\ IsString(h1[s][i].val)
      BY OwnedIs
    <3>2. s \notin F
      BY <3>1, OwnedIs
    <3>3. h2[s] = h1[s]
      BY <3>2
    <3> QED
      BY <3>1, <3>3, OwnedIs
  <2> QED
    BY <1>2, <2>1, <2>2
<1>4. (A \ B) \cap C = {}
  <2> SUFFICES ASSUME NEW p \in A, p \notin B, p \in C PROVE FALSE
    OBVIOUS
  <2>1. PICK s \in M : \E i \in DOMAIN h1[s] : p = <<s, i>> /\ IsString(h1[s][i].val)
    BY OwnedIs
  <2>2. PICK r \in F : \E i \in DOMAIN h2[r] : p = <<r, i>> /\ IsString(h2[r][i].val)
    BY OwnedIs
  <2>3. s = r
    BY <2>1, <2>2
  <2> QED
    BY <2>1, <2>2, <2>3, OwnedIs
<1>5. IsFiniteSet(A) /\ IsFiniteSet(C) /\ IsFiniteSet(B) /\ A \cap B = B
  BY <1>2, FS_Subset
<1> HIDE DEF A, B, C
<1>6. IsFiniteSet(A \ B) /\ Cardinality(A \ B) = Cardinality(A) - Cardinality(B)
  BY <1>5, FS_Difference
<1>7. Cardinality((A \ B) \cup C) = Cardinality(A \ B) + Cardinality(C) - Cardinality((A \ B) \cap C)
  BY <1>5, <1>6, FS_Union
<1>8. Cardinality((A \ B) \cap C) = 0 /\ Cardinality(A) \in Nat /\ Cardinality(B) \in Nat
      /\ Cardinality(C) \in Nat
  BY <1>4, <1>5, FS_EmptySet, FS_CardinalityType
<1>9. Cardinality((A \ B) \cup C) = Cardinality(A) - Cardinality(B) + Cardinality(C)
  BY <1>6, <1>7, <1>8
<1> QED
  BY <1>1, <1>3, <1>9 DEF A, B, C

--------------------------------------------------------------------------------
(* Memory.                                                                  *)

Capacity == STACKS_INIT + MaxTasks + STACKS_GROW

\* The stacks of fetch and of get, and the extents that hold them.
Placed(ext, anc, g) ==
  /\ anc \in Seq(Nat) /\ g \in Nat /\ Len(anc) < Capacity
  /\ \A i, j \in 1 .. Len(anc) : anc[i] = anc[j] => i = j
  /\ \A i \in 1 .. Len(anc) : anc[i] \in UNION ext /\ anc[i] # g
  /\ g # 0 => g \in UNION ext
  /\ UNION ext = 1 .. Len(anc) + (IF g = 0 THEN 0 ELSE 1)
  /\ \A e, f \in ext : e # f => e \cap f = {}

\* What live stacks look like, and the others.
Headed(list, L, hd) ==
  /\ hd = [s \in Stack |-> hd[s]]
  /\ \A s \in Stack : IF s \in L THEN HeadOK(list, hd[s]) /\ hd[s] # <<>> ELSE hd[s] = <<>>

\* There is room in Stack.
LEMMA Capable ==
  ASSUME Placed(extents, anchor, get_ext)
  PROVE  /\ Live \subseteq Stack /\ IsFiniteSet(Live) /\ Live = 1 .. Allocated /\ Allocated \in Nat
         /\ Capacity \in Nat /\ Stack = 1 .. Capacity /\ Allocated <= Capacity
         /\ Len(anchor) \in Nat /\ DOMAIN anchor = 1 .. Len(anchor)
<1>1. Capacity \in Nat /\ Stack = 1 .. Capacity
  BY PidsContextAssumption DEF Capacity, Stack
<1>2. Len(anchor) \in Nat /\ DOMAIN anchor = 1 .. Len(anchor)
  BY DEF Placed
<1>3. Allocated \in Nat /\ Allocated <= Capacity /\ Live = 1 .. Allocated
  BY <1>1, <1>2 DEF Placed, Allocated, Live
<1>4. IsFiniteSet(1 .. Allocated)
  BY <1>3, FS_Interval
<1> QED
  BY <1>1, <1>2, <1>3, <1>4

\* The stack of get.
LEMMA GetPlaced ==
  ASSUME Placed(extents, anchor, get_ext)
  PROVE  /\ Placed(GetExtents, anchor, GetStack)
         /\ GetStack \in Stack /\ GetStack # 0 /\ GetStack \in UNION GetExtents
         /\ get_ext = 0 => /\ UNION GetExtents = Live \cup Extent(Allocated, 1)
                           /\ Extent(Allocated, 1) \subseteq Stack \ Live
         /\ get_ext # 0 => UNION GetExtents = Live
<1>1. /\ Live \subseteq Stack /\ Live = 1 .. Allocated /\ Allocated \in Nat /\ Capacity \in Nat
      /\ Stack = 1 .. Capacity /\ Len(anchor) \in Nat
  BY Capable
<1>2. CASE get_ext # 0
  BY <1>1, <1>2 DEF GetExtents, GetStack, Live, Placed
<1>3. CASE get_ext = 0
  <2>1. Allocated = Len(anchor) /\ Len(anchor) < Capacity
    BY <1>1, <1>3 DEF Allocated, Placed
  <2>2. Extent(Allocated, 1) = {Allocated + 1}
    BY <1>1 DEF Extent
  <2>3. GetStack = Allocated + 1 /\ GetExtents = extents \cup {{Allocated + 1}}
    BY <1>3, <2>2 DEF GetStack, GetExtents
  <2>4. UNION GetExtents = Live \cup {Allocated + 1}
    BY <2>3 DEF Live
  <2>5. UNION GetExtents = 1 .. Allocated + 1
    BY <1>1, <2>4
  <2>6. \A e \in extents : e \cap {Allocated + 1} = {}
    <3>1. Allocated + 1 \notin Live
      BY <1>1
    <3> QED
      BY <3>1 DEF Live
  <2>7. \A e, f \in GetExtents : e # f => e \cap f = {}
    <3>1. \A e, f \in extents : e # f => e \cap f = {}
      BY DEF Placed
    <3> QED
      BY <2>3, <2>6, <3>1
  <2>8. \A i \in 1 .. Len(anchor) : anchor[i] \in Live /\ anchor[i] # Allocated + 1
    <3>1. \A i \in 1 .. Len(anchor) : anchor[i] \in Live
      BY DEF Placed, Live
    <3> QED
      BY <1>1, <3>1
  <2>0. GetStack \in Nat /\ GetStack # 0 /\ GetStack \in UNION GetExtents
    <3>1. GetStack = Allocated + 1
      BY <2>3
    <3> QED
      BY <1>1, <2>5, <3>1
  <2>9. Placed(GetExtents, anchor, GetStack)
    <3>1. /\ anchor \in Seq(Nat) /\ Len(anchor) < Capacity
          /\ \A i, j \in 1 .. Len(anchor) : anchor[i] = anchor[j] => i = j
      BY DEF Placed
    <3>3. UNION GetExtents = 1 .. Len(anchor) + (IF GetStack = 0 THEN 0 ELSE 1)
      BY <2>0, <2>1, <2>5
    <3>4. \A i \in 1 .. Len(anchor) : anchor[i] \in UNION GetExtents /\ anchor[i] # GetStack
      BY <2>3, <2>4, <2>8
    <3> HIDE DEF GetExtents, GetStack
    <3> QED
      BY <2>0, <2>7, <3>1, <3>3, <3>4 DEF Placed
  <2>10. Allocated + 1 \in Stack \ Live
    BY <1>1, <2>1
  <2>11. GetStack \in Stack
    BY <2>3, <2>10
  <2>12. UNION GetExtents = Live \cup Extent(Allocated, 1) /\ Extent(Allocated, 1) \subseteq Stack \ Live
    BY <2>2, <2>4, <2>10
  <2> QED
    BY <1>3, <2>0, <2>9, <2>11, <2>12
<1> QED
  BY <1>2, <1>3

\* The stacks of fetch, with those added for n tasks.
First == IF anchor = <<>> THEN STACKS_INIT ELSE 0
Times(n) == Growths(n - (Len(anchor) + First))
More(n) == First + Times(n) * STACKS_GROW
All(n) == anchor \o [k \in 1 .. More(n) |-> Allocated + k]
Grown(n) ==
  extents \cup {Extent(Allocated + First + (k - 1) * STACKS_GROW, STACKS_GROW) : k \in 1 .. Times(n)}
          \cup (IF First > 0 THEN {Extent(Allocated, First)} ELSE {})

\* How many there are.
LEMMA MoreIs ==
  ASSUME Placed(extents, anchor, get_ext), NEW n \in 0 .. MaxTasks
  PROVE  /\ First \in Nat /\ Times(n) \in Nat /\ More(n) \in Nat /\ Times(n) * STACKS_GROW \in Nat
         /\ n <= Len(anchor) + More(n) /\ Len(anchor) + More(n) < Capacity
<1>1. /\ STACKS_INIT \in Nat \ {0} /\ STACKS_GROW \in Nat \ {0} /\ MaxTasks \in Nat
  BY PidsContextAssumption
<1>2. First \in {0, STACKS_INIT} /\ Len(anchor) \in Nat /\ Len(anchor) < Capacity
  BY Capable DEF First, Placed
<1>3. First # 0 => Len(anchor) = 0
  BY DEF First
<1>0. n \in Int /\ First \in Int /\ n - (Len(anchor) + First) \in Int
  <2>1. n \in Int
    BY <1>1
  <2>2. First \in Int
    BY <1>1, <1>2
  <2> QED
    BY <1>2, <2>1, <2>2
<1>4. PICK m \in Int : m = n - (Len(anchor) + First)
  BY <1>0
<1>5. PICK g : g = Growths(m) * STACKS_GROW
  OBVIOUS
<1>6. /\ Growths(m) \in Nat /\ m <= g /\ (m <= 0 => Growths(m) = 0)
      /\ (m > 0 => g <= m + STACKS_GROW - 1)
  BY <1>5, GrowthsIs
<1>7. g \in Nat /\ (m <= 0 => g = 0)
  BY <1>1, <1>5, <1>6
<1>8. Times(n) = Growths(m) /\ More(n) = First + g /\ Times(n) * STACKS_GROW = g
  BY <1>4, <1>5 DEF Times, More
<1>9. n <= Len(anchor) + (First + g)
  BY <1>1, <1>2, <1>4, <1>6, <1>7
<1>10. Len(anchor) + (First + g) < Capacity
  BY <1>1, <1>2, <1>3, <1>4, <1>6, <1>7 DEF Capacity
<1> QED
  BY <1>1, <1>2, <1>6, <1>7, <1>8, <1>9, <1>10

\* Intervals that meet.
LEMMA Joined ==
  ASSUME NEW a \in Nat, NEW m \in Nat
  PROVE  /\ (1 .. a) \cup (a + 1 .. a + m) = 1 .. a + m
         /\ (1 .. a) \cap (a + 1 .. a + m) = {}
         /\ \A c \in Nat : a + m <= c => (a + 1 .. a + m) \subseteq (1 .. c) \ (1 .. a)
OBVIOUS

\* Three intervals in a row have nothing in common.
LEMMA Apart ==
  ASSUME NEW a \in Nat, NEW f \in Nat, NEW g \in Nat, NEW x
  PROVE  /\ ~(x \in 1 .. a /\ x \in a + 1 .. a + f)
         /\ ~(x \in 1 .. a /\ x \in a + f + 1 .. a + f + g)
         /\ ~(x \in a + f + 1 .. a + f + g /\ x \in a + 1 .. a + f)
OBVIOUS

\* Sequences one after the other.
LEMMA Concat ==
  ASSUME NEW a \in Seq(Nat), NEW b \in Seq(Nat)
  PROVE  /\ a \o b \in Seq(Nat) /\ Len(a \o b) = Len(a) + Len(b)
         /\ \A i \in 1 .. Len(a) + Len(b) : (a \o b)[i] = IF i <= Len(a) THEN a[i] ELSE b[i - Len(a)]
OBVIOUS

\* The extents there are, with the new ones.
LEMMA GrownIs ==
  ASSUME Placed(extents, anchor, get_ext), NEW n \in 0 .. MaxTasks
  PROVE  /\ UNION Grown(n) = Live \cup Extent(Allocated, More(n))
         /\ \A e, f \in Grown(n) : e # f => e \cap f = {}
         /\ Extent(Allocated, More(n)) = Allocated + 1 .. Allocated + More(n)
<1>0. Live = 1 .. Allocated /\ Allocated \in Nat
  BY Capable
<1>1. First \in Nat /\ Times(n) \in Nat /\ More(n) \in Nat /\ Times(n) * STACKS_GROW \in Nat
      /\ More(n) = First + Times(n) * STACKS_GROW
  BY MoreIs DEF More
<1> DEFINE R == Row_of(Allocated + First, Times(n))
           Q == IF First > 0 THEN {Extent(Allocated, First)} ELSE {}
<1>2. Grown(n) = extents \cup R \cup Q
  BY DEF Grown, Row_of
<1>3. /\ UNION R = Allocated + First + 1 .. Allocated + First + Times(n) * STACKS_GROW
      /\ \A e, f \in R : e # f => e \cap f = {}
  BY <1>0, <1>1, ExtentsAre
<1>4. UNION Q = Allocated + 1 .. Allocated + First
  <2>1. CASE First > 0
    BY <2>1 DEF Extent
  <2>2. CASE ~(First > 0)
    <3>1. Q = {} /\ First = 0
      BY <1>1, <2>2
    <3> QED
      BY <1>0, <3>1
  <2> QED
    BY <2>1, <2>2
<1>5. \A e, f \in Q : e = f
  OBVIOUS
<1> HIDE DEF R, Q
<1>6. UNION Grown(n) = Live \cup (UNION R) \cup (UNION Q)
  BY <1>2 DEF Live
<1>7. (UNION R) \cup (UNION Q) = Allocated + 1 .. Allocated + More(n)
  BY <1>0, <1>1, <1>3, <1>4
<1>8. Extent(Allocated, More(n)) = Allocated + 1 .. Allocated + More(n)
  BY DEF Extent
<1>9. Live \cap UNION R = {} /\ Live \cap UNION Q = {} /\ (UNION R) \cap UNION Q = {}
  <2>0. PICK A \in Nat, F \in Nat, G \in Nat :
          A = Allocated /\ F = First /\ G = Times(n) * STACKS_GROW
    BY <1>0, <1>1
  <2>1. Live = 1 .. A /\ UNION Q = A + 1 .. A + F /\ UNION R = A + F + 1 .. A + F + G
    BY <1>0, <1>3, <1>4, <2>0
  <2>4. ASSUME NEW x \in Live, x \in UNION R PROVE FALSE
    BY <2>1, <2>4, Apart, Zenon
  <2>5. ASSUME NEW x \in Live, x \in UNION Q PROVE FALSE
    BY <2>1, <2>5, Apart, Zenon
  <2>6. ASSUME NEW x \in UNION R, x \in UNION Q PROVE FALSE
    BY <2>1, <2>6, Apart, Zenon
  <2> QED
    BY <2>4, <2>5, <2>6
<1>10. \A e, f \in extents : e # f => e \cap f = {}
  BY DEF Placed
<1>11. ASSUME NEW e \in Grown(n), NEW f \in Grown(n), e # f, NEW x \in e \cap f PROVE FALSE
  <2>1. CASE e \in extents /\ f \in extents
    BY <1>10, <1>11, <2>1
  <2>2. CASE e \in R /\ f \in R
    BY <1>3, <1>11, <2>2
  <2>3. CASE e \in Q /\ f \in Q
    BY <1>5, <1>11, <2>3
  <2>4. CASE (e \in extents /\ f \in R) \/ (e \in R /\ f \in extents)
    BY <1>9, <1>11, <2>4 DEF Live
  <2>5. CASE (e \in extents /\ f \in Q) \/ (e \in Q /\ f \in extents)
    BY <1>9, <1>11, <2>5 DEF Live
  <2>6. CASE (e \in R /\ f \in Q) \/ (e \in Q /\ f \in R)
    BY <1>9, <1>11, <2>6
  <2> QED
    <3>1. (e \in extents \/ e \in R \/ e \in Q) /\ (f \in extents \/ f \in R \/ f \in Q)
      BY <1>2
    <3> QED
      BY <2>1, <2>2, <2>3, <2>4, <2>5, <2>6, <3>1
<1> QED
  BY <1>6, <1>7, <1>8, <1>11

\* The stacks of fetch.
LEMMA AllPlaced ==
  ASSUME Placed(extents, anchor, get_ext), NEW n \in 0 .. MaxTasks
  PROVE  /\ Placed(Grown(n), All(n), get_ext)
         /\ Extent(Allocated, More(n)) \subseteq Stack \ Live
         /\ Len(All(n)) \in Nat /\ n <= Len(All(n))
         /\ \A i \in 1 .. Len(anchor) : All(n)[i] = anchor[i] /\ i <= Len(All(n))
<1>0. /\ Live = 1 .. Allocated /\ Allocated \in Nat /\ Len(anchor) \in Nat /\ Stack = 1 .. Capacity
      /\ DOMAIN anchor = 1 .. Len(anchor)
  BY Capable
<1>1. /\ More(n) \in Nat /\ n <= Len(anchor) + More(n) /\ Len(anchor) + More(n) < Capacity
  BY MoreIs
<1>2. /\ anchor \in Seq(Nat) /\ get_ext \in Nat
      /\ \A i, j \in 1 .. Len(anchor) : anchor[i] = anchor[j] => i = j
      /\ \A i \in 1 .. Len(anchor) : anchor[i] \in Live /\ anchor[i] # get_ext
      /\ get_ext # 0 => get_ext \in Live
  BY DEF Placed, Live
<1>3. PICK one \in 0 .. 1 : one = (IF get_ext = 0 THEN 0 ELSE 1) /\ Allocated = Len(anchor) + one
  <2>1. (IF get_ext = 0 THEN 0 ELSE 1) \in 0 .. 1
    OBVIOUS
  <2> QED
    BY <2>1 DEF Allocated
<1> DEFINE new == [k \in 1 .. More(n) |-> Allocated + k]
<1>4. new \in Seq(Nat) /\ Len(new) = More(n) /\ \A k \in 1 .. More(n) : new[k] = Allocated + k
  BY <1>0, <1>1
<1> HIDE DEF new
<1>5. All(n) = anchor \o new
  BY DEF All, new
<1>6. /\ All(n) \in Seq(Nat) /\ Len(All(n)) = Len(anchor) + More(n)
      /\ \A i \in 1 .. Len(anchor) + More(n) :
           All(n)[i] = IF i <= Len(anchor) THEN anchor[i] ELSE Allocated + (i - Len(anchor))
  <2>1. /\ All(n) \in Seq(Nat) /\ Len(All(n)) = Len(anchor) + Len(new)
        /\ \A i \in 1 .. Len(anchor) + Len(new) :
             All(n)[i] = IF i <= Len(anchor) THEN anchor[i] ELSE new[i - Len(anchor)]
    <3>1. /\ anchor \o new \in Seq(Nat) /\ Len(anchor \o new) = Len(anchor) + Len(new)
          /\ \A i \in 1 .. Len(anchor) + Len(new) :
               (anchor \o new)[i] = IF i <= Len(anchor) THEN anchor[i] ELSE new[i - Len(anchor)]
      <4>1. anchor \in Seq(Nat) /\ new \in Seq(Nat)
        BY <1>2, <1>4
      <4> QED
        BY <4>1, Concat, Zenon
    <3> QED
      BY <1>5, <3>1, Zenon
  <2>2. Len(new) = More(n)
    BY <1>4
  <2>3. \A i \in 1 .. Len(anchor) + More(n) : ~(i <= Len(anchor)) => i - Len(anchor) \in 1 .. More(n)
    BY <1>0, <1>1
  <2> QED
    BY <1>4, <2>1, <2>2, <2>3
<1>7. UNION Grown(n) = Live \cup (Allocated + 1 .. Allocated + More(n))
      /\ \A e, f \in Grown(n) : e # f => e \cap f = {}
      /\ Extent(Allocated, More(n)) = Allocated + 1 .. Allocated + More(n)
  BY GrownIs
<1>8. UNION Grown(n) = 1 .. Len(All(n)) + (IF get_ext = 0 THEN 0 ELSE 1)
  <2>1. UNION Grown(n) = 1 .. Allocated + More(n)
    BY <1>0, <1>1, <1>7, Joined
  <2>2. Allocated + More(n) = Len(All(n)) + one
    <3>1. PICK l \in Nat, m \in Nat : l = Len(anchor) /\ m = More(n)
      BY <1>0, <1>1
    <3>2. Allocated = l + one /\ Len(All(n)) = l + m
      BY <1>3, <1>6, <3>1, Zenon
    <3>3. (l + one) + m = (l + m) + one
      OBVIOUS
    <3> QED
      BY <3>1, <3>2, <3>3, Zenon
  <2> QED
    BY <1>3, <2>1, <2>2
<1>9. \A i, j \in 1 .. Len(All(n)) : All(n)[i] = All(n)[j] => i = j
  BY <1>0, <1>1, <1>2, <1>6
<1>10. \A i \in 1 .. Len(All(n)) : All(n)[i] \in UNION Grown(n) /\ All(n)[i] # get_ext
  <2> SUFFICES ASSUME NEW i \in 1 .. Len(All(n))
               PROVE  All(n)[i] \in UNION Grown(n) /\ All(n)[i] # get_ext
    OBVIOUS
  <2>1. CASE i <= Len(anchor)
    <3>1. All(n)[i] = anchor[i] /\ i \in 1 .. Len(anchor)
      BY <1>0, <1>1, <1>6, <2>1
    <3> QED
      BY <1>2, <1>7, <3>1
  <2>2. CASE i > Len(anchor)
    <3>1. All(n)[i] = Allocated + (i - Len(anchor)) /\ i \in Int /\ i <= Len(anchor) + More(n)
      BY <1>0, <1>1, <1>6, <2>2
    <3>2. All(n)[i] \in Allocated + 1 .. Allocated + More(n)
      BY <1>0, <1>1, <2>2, <3>1
    <3>3. get_ext <= Allocated
      BY <1>0, <1>2
    <3> QED
      BY <1>0, <1>2, <1>7, <3>2, <3>3
  <2> QED
    BY <1>0, <1>6, <2>1, <2>2
<1>11. get_ext # 0 => get_ext \in UNION Grown(n)
  BY <1>2, <1>7
<1>12. Placed(Grown(n), All(n), get_ext)
  BY <1>1, <1>2, <1>6, <1>7, <1>8, <1>9, <1>10, <1>11 DEF Placed
<1>13. Allocated + 1 .. Allocated + More(n) \subseteq Stack \ Live
  <2>1. Allocated + More(n) <= Capacity /\ Capacity \in Nat
    <3>1. PICK l \in Nat, m \in Nat, c \in Nat : l = Len(anchor) /\ m = More(n) /\ c = Capacity
      BY <1>0, <1>1, Capable
    <3>2. l + m < c /\ Allocated = l + one
      BY <1>1, <1>3, <3>1, Zenon
    <3>3. (l + one) + m <= c
      BY <3>2
    <3> QED
      BY <3>1, <3>2, <3>3, Zenon
  <2> QED
    BY <1>0, <1>1, <2>1, Joined
<1>14. \A i \in 1 .. Len(anchor) : All(n)[i] = anchor[i] /\ i <= Len(All(n))
  BY <1>0, <1>1, <1>6
<1>15. Len(All(n)) \in Nat /\ n <= Len(All(n))
  BY <1>0, <1>1, <1>6
<1>16. Extent(Allocated, More(n)) \subseteq Stack \ Live
  <2>1. Extent(Allocated, More(n)) = Allocated + 1 .. Allocated + More(n)
    BY Zenon DEF Extent
  <2> QED
    BY <1>13, <2>1, Zenon
<1> QED
  BY <1>12, <1>14, <1>15, <1>16

\* New stacks look like stacks for the items, and own nothing.
LEMMA AllocHeaded ==
  ASSUME Headed(items, Live, head), items \in Seq(Items), NEW new, new \subseteq Stack \ Live
  PROVE  /\ Headed(items, Live \cup new, pids_stacks_alloc(new))
         /\ \A s \in Stack \ new : pids_stacks_alloc(new)[s] = head[s]
         /\ \A s \in new : Blank(pids_stacks_alloc(new)[s]) /\ pids_stacks_alloc(new)[s] \in Seq(Slot)
<1> DEFINE h == pids_itemize_stack([i \in 1 .. Len(items) + 1 |-> [item |-> "noop", val |-> Zero]], items)
           hd == pids_stacks_alloc(new)
<1>1. HeadOK(items, h) /\ Blank(h) /\ h # <<>>
  BY AllocIs
<1> HIDE DEF h
<1>2. hd = [s \in Stack |-> IF s \in new THEN h ELSE head[s]]
  BY DEF pids_stacks_alloc, h
<1>3. \A s \in Stack : hd[s] = IF s \in new THEN h ELSE head[s]
  BY <1>2
<1>4. hd = [s \in Stack |-> hd[s]]
  BY <1>2
<1> HIDE DEF hd
<1>5. \A s \in new : Blank(hd[s]) /\ hd[s] \in Seq(Slot)
  BY <1>1, <1>3 DEF HeadOK
<1>6. Headed(items, Live \cup new, hd)
  BY <1>1, <1>3, <1>4 DEF Headed
<1> QED
  BY <1>3, <1>5, <1>6 DEF hd

--------------------------------------------------------------------------------
(* The memory of a context: its stacks are placed, headed for the items, and *)
(* own the strings that are on hand.                                         *)

Mem(ext, anc, g, list, hd, str) ==
  /\ Placed(ext, anc, g)
  /\ Headed(list, UNION ext, hd)
  /\ str = Cardinality(Owned(hd, UNION ext))

MemOK == Mem(extents, anchor, get_ext, items, head, strings)

\* Setting a stack frees every string it owns.
LEMMA FreesAll ==
  ASSUME func_array \in Seq(Items), NEW hd, NEW F, \A s \in F : HeadOK(func_array, hd[s])
  PROVE  {p \in Owned(hd, F) : p[2] <= Len(func_array) /\ Frees(p[2])} = Owned(hd, F)
<1> SUFFICES ASSUME NEW p \in Owned(hd, F) PROVE p[2] <= Len(func_array) /\ Frees(p[2])
  OBVIOUS
<1>1. PICK s \in F : \E i \in DOMAIN hd[s] : p = <<s, i>> /\ IsString(hd[s][i].val)
  BY OwnedIs
<1>2. PICK i \in DOMAIN hd[s] : p = <<s, i>> /\ IsString(hd[s][i].val)
  BY <1>1
<1>3. i \in 1 .. Len(func_array) /\ Item_table[func_array[i]].set \in {"DUP", "STR", "VEC"}
  BY <1>2, StringAt
<1>4. p[2] = i
  BY <1>2
<1> QED
  BY <1>3, <1>4 DEF Frees

\* Stacks before they are set: those there were, and some that own nothing.
Based(M, hd) ==
  /\ Live \subseteq M /\ M \subseteq Stack /\ IsFiniteSet(M)
  /\ Headed(items, M, hd)
  /\ \A s \in Live : hd[s] = head[s]
  /\ Owned(hd, M \ Live) = {}

\* Those in 'order' set.
Filled(M, hd, order, full) ==
  /\ ToSet(order) \subseteq M
  /\ full = [s \in Stack |-> full[s]]
  /\ \A s \in Stack \ ToSet(order) : full[s] = hd[s]
  /\ \A s \in ToSet(order) : HeadOK(items, full[s]) /\ full[s] # <<>>

\* Strings on hand after some stacks, new ones among them, have been set.
LEMMA Accounting ==
  ASSUME func_array = items, items \in Seq(Items), strings = Cardinality(Owned(head, Live)),
         NEW M, NEW hd, Based(M, hd), NEW order, NEW full, Filled(M, hd, order, full)
  PROVE  Headed(items, M, full) /\ Accounted(hd, full, order) = Cardinality(Owned(full, M))
<1> DEFINE F == ToSet(order)
<1> HIDE DEF F
<1>0. /\ F \subseteq M /\ \A s \in Stack \ F : full[s] = hd[s]
      /\ \A s \in F : HeadOK(items, full[s]) /\ full[s] # <<>>
      /\ full = [s \in Stack |-> full[s]]
  BY DEF F, Filled
<1>00. /\ Live \subseteq M /\ M \subseteq Stack /\ IsFiniteSet(M) /\ Headed(items, M, hd)
       /\ \A s \in Live : hd[s] = head[s]
       /\ Owned(hd, M \ Live) = {}
  BY DEF Based
<1>1. Headed(items, M, full)
  BY <1>0, <1>00 DEF Headed
<1>2. \A s \in M : HeadOK(items, hd[s]) /\ HeadOK(items, full[s])
  BY <1>00, <1>1 DEF Headed
<1>3. IsFiniteSet(Owned(hd, M)) /\ IsFiniteSet(Owned(full, M))
  BY <1>00, <1>2, OwnedFinite
<1>4. Cardinality(Owned(full, M)) =
        Cardinality(Owned(head, Live)) - Cardinality(Owned(hd, F)) + Cardinality(Owned(full, F))
  <2>1. \A s \in M \ F : full[s] = hd[s]
    BY <1>0, <1>00
  <2> QED
    BY <1>0, <1>00, <1>3, <2>1, OwnedFilled
<1>5. /\ {p \in Owned(hd, F) : p[2] <= Len(func_array) /\ Frees(p[2])} = Owned(hd, F)
      /\ {p \in Owned(full, F) : p[2] <= Len(func_array) /\ Frees(p[2])} = Owned(full, F)
  <2>1. \A s \in F : HeadOK(func_array, hd[s]) /\ HeadOK(func_array, full[s])
    BY <1>0, <1>2
  <2>2. func_array \in Seq(Items)
    OBVIOUS
  <2> QED
    BY <2>1, <2>2, FreesAll
<1>6. Accounted(hd, full, order) = strings - Cardinality(Owned(hd, F)) + Cardinality(Owned(full, F))
  BY <1>5, Zenon DEF Accounted, F
<1> QED
  BY <1>1, <1>4, <1>6, Zenon

\* A context without memory.
LEMMA NoMemory ==
  ASSUME NEW list
  PROVE  Mem({}, <<>>, 0, list, [s \in Stack |-> <<>>], 0)
<1>1. Placed({}, <<>>, 0)
  <2>1. Capacity \in Nat \ {0}
    BY PidsContextAssumption DEF Capacity
  <2> QED
    BY <2>1 DEF Placed
<1>2. Headed(list, UNION {}, [s \in Stack |-> <<>>])
  BY DEF Headed
<1>3. Owned([s \in Stack |-> <<>>], UNION {}) = {}
  BY DEF Owned
<1> QED
  BY <1>1, <1>2, <1>3, FS_EmptySet DEF Mem

\* Cleaning all stacks frees every string there is.
LEMMA FreesEvery ==
  ASSUME MemOK, items \in Seq(Items)
  PROVE  strings - Cardinality(CleanupFrees(Live)) = 0
<1>1. /\ \A s \in Live : HeadOK(items, head[s]) /\ IsFiniteSet(Live)
      /\ strings = Cardinality(Owned(head, Live))
  BY Capable DEF MemOK, Mem, Headed, Live
<1>2. CleanupFrees(Live) = Owned(head, Live)
  <2> SUFFICES ASSUME NEW p \in Owned(head, Live)
               PROVE  /\ p[2] < EndOf(head[p[1]])
                      /\ Item_table[head[p[1]][p[2]].item].freefunc # "none"
    BY DEF CleanupFrees
  <2>1. PICK s \in Live : \E i \in DOMAIN head[s] : p = <<s, i>> /\ IsString(head[s][i].val)
    BY OwnedIs
  <2>2. PICK i \in DOMAIN head[s] : p = <<s, i>> /\ IsString(head[s][i].val)
    BY <2>1
  <2>3. /\ i \in 1 .. Len(items) /\ head[s][i].item = items[i]
        /\ Item_table[items[i]].freefunc # "none"
    BY <1>1, <2>2, StringAt
  <2>4. EndOf(head[s]) = Len(items) + 1 /\ Len(items) \in Nat
    BY <1>1, EndIs
  <2>5. p[1] = s /\ p[2] = i
    BY <2>2
  <2>6. i < EndOf(head[s])
    BY <2>3, <2>4
  <2> QED
    BY <2>3, <2>5, <2>6
<1>3. Cardinality(Owned(head, Live)) \in Nat
  <2>1. IsFiniteSet(Live)
    BY Capable DEF MemOK, Mem
  <2> QED
    BY <1>1, <2>1, OwnedFinite
<1> QED
  BY <1>1, <1>2, <1>3

\* Cleaning all stacks leaves nothing in them.
LEMMA CleanHeaded ==
  ASSUME MemOK, items \in Seq(Items)
  PROVE  /\ Headed(items, Live, pids_cleanup_stacks_all)
         /\ \A s \in Live : Blank(pids_cleanup_stacks_all[s])
<1> DEFINE c == pids_cleanup_stacks_all
<1>1. Headed(items, Live, head)
  BY DEF MemOK, Mem, Live
<1>2. \A s \in Stack : c[s] = IF s \in Live THEN pids_cleanup_stack(head[s]) ELSE head[s]
  BY DEF pids_cleanup_stacks_all
<1>3. c = [s \in Stack |-> c[s]]
  BY DEF pids_cleanup_stacks_all
<1> HIDE DEF c
<1>4. \A s \in Live : HeadOK(items, head[s]) /\ head[s] # <<>> /\ s \in Stack
  BY <1>1, Capable DEF Headed, MemOK, Mem
<1>5. \A s \in Live : HeadOK(items, c[s]) /\ c[s] # <<>> /\ Blank(c[s])
  BY <1>2, <1>4, CleanIs
<1>6. Headed(items, Live, c)
  BY <1>1, <1>2, <1>3, <1>5 DEF Headed
<1> QED
  BY <1>5, <1>6 DEF c

\* Clear stacks own no string.
LEMMA BlankMem ==
  ASSUME NEW ext, NEW anc, NEW g, NEW list, NEW hd, Placed(ext, anc, g), UNION ext \subseteq Stack,
         Headed(list, UNION ext, hd), \A s \in UNION ext : Blank(hd[s])
  PROVE  Mem(ext, anc, g, list, hd, 0)
<1>1. \A s \in UNION ext : hd[s] \in Seq(Slot)
  BY DEF Headed, HeadOK
<1>2. Owned(hd, UNION ext) = {}
  BY <1>1, BlankOwns
<1> QED
  BY <1>2, FS_EmptySet DEF Mem

\* A reset to the same items.
LEMMA CleanMem ==
  ASSUME MemOK, items \in Seq(Items)
  PROVE  Mem(extents, anchor, get_ext, items, pids_cleanup_stacks_all, 0)
<1>1. Placed(extents, anchor, get_ext) /\ UNION extents \subseteq Stack
  BY Capable DEF MemOK, Mem, Live
<1> QED
  BY <1>1, CleanHeaded, BlankMem DEF Live

\* A reset to other items that the stacks can hold.
LEMMA ItemizedMem ==
  ASSUME MemOK, items \in Seq(Items), NEW list \in Seq(Items), ~Deeper(list)
  PROVE  Mem(extents, anchor, get_ext, list, pids_itemize_stacks_all(pids_cleanup_stacks_all, list), 0)
<1> DEFINE c == pids_cleanup_stacks_all
           h == pids_itemize_stacks_all(c, list)
<1>1. Placed(extents, anchor, get_ext) /\ UNION extents \subseteq Stack
  BY Capable DEF MemOK, Mem, Live
<1>2. Headed(items, Live, c) /\ \A s \in Live : Blank(c[s])
  BY CleanHeaded
<1> HIDE DEF c
<1>3. \A s \in Stack : h[s] = IF s \in Live THEN pids_itemize_stack(c[s], list) ELSE c[s]
  BY DEF pids_itemize_stacks_all
<1>4. h = [s \in Stack |-> h[s]]
  BY DEF pids_itemize_stacks_all
<1> HIDE DEF h
<1>5. \A s \in Live : s \in Stack /\ HeadOK(items, c[s])
  BY <1>1, <1>2 DEF Headed, Live
<1>6. ~(Len(items) < Len(list))
  BY DEF Deeper
<1>7. \A s \in Live : HeadOK(list, h[s]) /\ h[s] # <<>> /\ Blank(h[s])
  BY <1>2, <1>3, <1>5, <1>6, ItemizeIs
<1>8. Headed(list, Live, h)
  BY <1>2, <1>3, <1>4, <1>7 DEF Headed
<1>9. Mem(extents, anchor, get_ext, list, h, 0)
  BY <1>1, <1>7, <1>8, BlankMem DEF Live
<1> QED
  BY <1>9 DEF h, c

\* Any number of stacks is finite.
LEMMA StackFinite ==
  ASSUME NEW M, M \subseteq Stack
  PROVE  IsFiniteSet(M)
<1>1. Capacity \in Nat /\ Stack = 1 .. Capacity
  BY PidsContextAssumption DEF Capacity, Stack
<1>2. IsFiniteSet(Stack)
  BY <1>1, FS_Interval
<1> QED
  BY <1>2, FS_Subset

\* New stacks.
LEMMA AllocBased ==
  ASSUME MemOK, items \in Seq(Items), NEW new, new \subseteq Stack \ Live
  PROVE  Based(Live \cup new, pids_stacks_alloc(new))
<1> DEFINE hd == pids_stacks_alloc(new)
<1>1. Headed(items, Live, head) /\ Live \subseteq Stack
  BY Capable DEF MemOK, Mem, Live
<1>2. /\ Headed(items, Live \cup new, hd)
      /\ \A s \in Stack \ new : hd[s] = head[s]
      /\ \A s \in new : Blank(hd[s]) /\ hd[s] \in Seq(Slot)
  BY <1>1, AllocHeaded
<1> HIDE DEF hd
<1>3. Owned(hd, (Live \cup new) \ Live) = {}
  BY <1>2, BlankOwns
<1>4. Live \cup new \subseteq Stack /\ IsFiniteSet(Live \cup new)
  BY <1>1, StackFinite
<1>5. \A s \in Live : hd[s] = head[s]
  BY <1>1, <1>2
<1> QED
  BY <1>2, <1>3, <1>4, <1>5 DEF Based, hd

\* The stacks there are.
LEMMA HeadBased ==
  ASSUME MemOK
  PROVE  Based(Live, head)
<1>1. Headed(items, Live, head) /\ Live \subseteq Stack
  BY Capable DEF MemOK, Mem, Live
<1>2. Owned(head, Live \ Live) = {}
  BY DEF Owned
<1> QED
  BY <1>1, <1>2, StackFinite DEF Based

\* The strings on hand are those of the stacks before they are set.
LEMMA BasedStrings ==
  ASSUME MemOK, items \in Seq(Items), func_array = items, NEW M, NEW hd, Based(M, hd)
  PROVE  strings = Cardinality(Owned(hd, M))
<1>1. strings = Cardinality(Owned(head, Live))
  BY DEF MemOK, Mem, Live
<1>2. Owned(hd, M) = Owned(head, Live)
  <2>1. ASSUME NEW p PROVE p \in Owned(hd, M) => p \in Owned(head, Live)
    <3> SUFFICES ASSUME p \in Owned(hd, M) PROVE p \in Owned(head, Live)
      OBVIOUS
    <3>1. PICK s \in M : \E i \in DOMAIN hd[s] : p = <<s, i>> /\ IsString(hd[s][i].val)
      BY OwnedIs
    <3>2. s \in M \ Live => p \in Owned(hd, M \ Live)
      BY <3>1, OwnedIs
    <3>3. s \in Live
      BY <3>1, <3>2 DEF Based
    <3>4. hd[s] = head[s]
      BY <3>3 DEF Based
    <3> QED
      BY <3>1, <3>3, <3>4, OwnedIs
  <2>2. ASSUME NEW p PROVE p \in Owned(head, Live) => p \in Owned(hd, M)
    <3> SUFFICES ASSUME p \in Owned(head, Live) PROVE p \in Owned(hd, M)
      OBVIOUS
    <3>1. PICK s \in Live : \E i \in DOMAIN head[s] : p = <<s, i>> /\ IsString(head[s][i].val)
      BY OwnedIs
    <3>2. hd[s] = head[s] /\ s \in M
      BY <3>1 DEF Based
    <3> QED
      BY <3>1, <3>2, OwnedIs
  <2> QED
    BY <2>1, <2>2
<1> QED
  BY <1>1, <1>2

\* The stack of get, before it is set.
LEMMA GetBased ==
  ASSUME MemOK, items \in Seq(Items)
  PROVE  Based(UNION GetExtents, GetHead)
<1>1. Placed(extents, anchor, get_ext)
  BY DEF MemOK, Mem
<1>2. CASE get_ext = 0
  <2>1. UNION GetExtents = Live \cup Extent(Allocated, 1) /\ Extent(Allocated, 1) \subseteq Stack \ Live
    BY <1>1, <1>2, GetPlaced
  <2>2. GetHead = pids_stacks_alloc(Extent(Allocated, 1))
    BY <1>2 DEF GetHead
  <2>3. Based(Live \cup Extent(Allocated, 1), pids_stacks_alloc(Extent(Allocated, 1)))
    BY <2>1, AllocBased
  <2> QED
    BY <2>1, <2>2, <2>3, Zenon
<1>3. CASE get_ext # 0
  <2>1. UNION GetExtents = Live
    BY <1>1, <1>3, GetPlaced
  <2>2. GetHead = head
    BY <1>3 DEF GetHead
  <2> QED
    BY <2>1, <2>2, HeadBased, Zenon
<1> QED
  BY <1>2, <1>3

\* get's stack in place, nothing read.
LEMMA GetMem ==
  ASSUME MemOK, items \in Seq(Items), func_array = items
  PROVE  Mem(GetExtents, anchor, GetStack, items, GetHead, strings)
<1>1. Placed(GetExtents, anchor, GetStack)
  BY GetPlaced DEF MemOK, Mem
<1>2. Based(UNION GetExtents, GetHead)
  BY GetBased
<1>3. strings = Cardinality(Owned(GetHead, UNION GetExtents))
  BY <1>2, BasedStrings
<1>4. Headed(items, UNION GetExtents, GetHead)
  BY <1>2 DEF Based
<1> QED
  BY <1>1, <1>3, <1>4, Zenon DEF Mem

\* Memory after some stacks have been set.
LEMMA SetMem ==
  ASSUME MemOK, items \in Seq(Items), func_array = items,
         NEW ext, NEW anc, NEW g, Placed(ext, anc, g), NEW hd, Based(UNION ext, hd),
         NEW order, NEW full, Filled(UNION ext, hd, order, full)
  PROVE  Mem(ext, anc, g, items, full, Accounted(hd, full, order))
<1>1. strings = Cardinality(Owned(head, Live))
  BY DEF MemOK, Mem, Live
<1>2. Headed(items, UNION ext, full) /\ Accounted(hd, full, order) = Cardinality(Owned(full, UNION ext))
  BY <1>1, Accounting, Zenon
<1> QED
  BY <1>2 DEF Mem

\* get's stack, set from a task.
GetFull(t, flags, failed) ==
  [GetHead EXCEPT ![GetStack] =
     pids_assign_results(GetHead[GetStack], t, flags, CurrentNames, failed)]

\* Only it changes.
LEMMA GetFullIs ==
  ASSUME MemOK, items \in Seq(Items), func_array = items, CurrentNames \in 0 .. MaxDays,
         NEW t \in 0 .. MaxTasks, NEW flags, NEW failed
  PROVE  LET full == GetFull(t, flags, failed)
         IN  /\ full = [s \in Stack |-> full[s]]
             /\ \A s \in Stack \ {GetStack} : full[s] = GetHead[s]
             /\ full[GetStack] = pids_assign_results(GetHead[GetStack], t, flags, CurrentNames, failed)
             /\ HeadOK(items, GetHead[GetStack])
             /\ HeadOK(items, full[GetStack]) /\ full[GetStack] # <<>>
<1> DEFINE hd == GetHead
           s0 == GetStack
           full == GetFull(t, flags, failed)
<1>1. Based(UNION GetExtents, hd) /\ s0 \in UNION GetExtents /\ s0 \in Stack
  BY GetBased, GetPlaced DEF MemOK, Mem
<1>2. hd = [s \in Stack |-> hd[s]] /\ HeadOK(items, hd[s0])
  BY <1>1 DEF Based, Headed
<1>3. PICK c : c = pids_assign_results(hd[s0], t, flags, CurrentNames, failed)
  OBVIOUS
<1>4. HeadOK(items, c) /\ c # <<>>
  <2>1. PICK h : h = hd[s0] /\ HeadOK(func_array, h)
    BY <1>2
  <2>2. PICK cache \in 0 .. MaxDays : cache = CurrentNames
    OBVIOUS
  <2>3. c = pids_assign_results(h, t, flags, cache, failed) /\ func_array \in Seq(Items)
    BY <1>3, <2>1, <2>2
  <2> HIDE DEF hd, s0, full
  <2>4. HeadOK(func_array, c) /\ c # <<>>
    BY <2>1, <2>2, <2>3, AssignIs
  <2> QED
    BY <2>4
<1>5. full = [hd EXCEPT ![s0] = c]
  BY <1>3 DEF GetFull
<1> HIDE DEF hd, s0, full
<1>6. full = [s \in Stack |-> IF s = s0 THEN c ELSE hd[s]]
  BY <1>1, <1>2, <1>5
<1>7. full = [s \in Stack |-> full[s]] /\ full[s0] = c /\ \A s \in Stack \ {s0} : full[s] = hd[s]
  BY <1>1, <1>6
<1> QED
  BY <1>2, <1>3, <1>4, <1>7 DEF hd, s0, full

\* A get that reads a task.
LEMMA GetFullMem ==
  ASSUME MemOK, items \in Seq(Items), func_array = items, CurrentNames \in 0 .. MaxDays,
         NEW t \in 0 .. MaxTasks, NEW flags, NEW failed
  PROVE  Mem(GetExtents, anchor, GetStack, items, GetFull(t, flags, failed),
             Accounted(GetHead, GetFull(t, flags, failed), <<GetStack>>))
<1> DEFINE full == GetFull(t, flags, failed)
<1>1. /\ full = [s \in Stack |-> full[s]]
      /\ \A s \in Stack \ {GetStack} : full[s] = GetHead[s]
      /\ HeadOK(items, full[GetStack]) /\ full[GetStack] # <<>>
  BY GetFullIs
<1>2. ToSet(<<GetStack>>) = {GetStack}
  BY DEF ToSet
<1>3. Placed(GetExtents, anchor, GetStack) /\ GetStack \in UNION GetExtents
  BY GetPlaced DEF MemOK, Mem
<1>4. Based(UNION GetExtents, GetHead)
  BY GetBased
<1> HIDE DEF full
<1>5. Mem(GetExtents, anchor, GetStack, items, full, Accounted(GetHead, full, <<GetStack>>))
  <2>1. ToSet(<<GetStack>>) \subseteq UNION GetExtents
    BY <1>2, <1>3
  <2>2. \A s \in Stack \ ToSet(<<GetStack>>) : full[s] = GetHead[s]
    BY <1>1, <1>2
  <2>3. \A s \in ToSet(<<GetStack>>) : HeadOK(items, full[s]) /\ full[s] # <<>>
    BY <1>1, <1>2
  <2> QED
    BY <1>1, <1>3, <1>4, <2>1, <2>2, <2>3, SetMem DEF Filled
<1> QED
  BY <1>5 DEF full

--------------------------------------------------------------------------------
(* What a fetch sets.                                                       *)

Used(n) == SubSeq(All(n), 1, n)

FetchHead(n) == pids_stacks_alloc(Extent(Allocated, More(n)))

TaskOf(n, s) == CHOOSE i \in 1 .. n : Used(n)[i] = s

FetchFull(n, flags, failed) ==
  [s \in Stack |->
     IF s \notin ToSet(Used(n)) THEN FetchHead(n)[s]
     ELSE pids_assign_results(FetchHead(n)[s], TaskOf(n, s), flags, CurrentNames,
                              IF TaskOf(n, s) = n THEN failed ELSE 0)]

\* The elements of a sequence without repetition are as many as it is long.
LEMMA Distinct ==
  ASSUME NEW q \in Seq(Nat), \A i, j \in 1 .. Len(q) : q[i] = q[j] => i = j
  PROVE  Cardinality(ToSet(q)) = Len(q) /\ ToSet(q) = {q[i] : i \in 1 .. Len(q)}
<1>1. Len(q) \in Nat /\ DOMAIN q = 1 .. Len(q)
  OBVIOUS
<1>2. ToSet(q) = {q[i] : i \in 1 .. Len(q)}
  BY <1>1 DEF ToSet
<1>3. IsFiniteSet(1 .. Len(q)) /\ Cardinality(1 .. Len(q)) = Len(q)
  <2>1. /\ IsFiniteSet(1 .. Len(q))
        /\ Cardinality(1 .. Len(q)) = IF 1 > Len(q) THEN 0 ELSE Len(q) - 1 + 1
    BY <1>1, FS_Interval
  <2> QED
    BY <1>1, <2>1
<1> DEFINE T == ToSet(q)
<1>4. q \in Surjection(1 .. Len(q), T)
  <2>1. q \in [1 .. Len(q) -> T]
    BY <1>1, <1>2
  <2>2. \A y \in T : \E i \in 1 .. Len(q) : q[i] = y
    BY <1>2
  <2> HIDE DEF T
  <2> QED
    BY <2>1, <2>2 DEF Surjection
<1> HIDE DEF T
<1>5. Cardinality(T) = Cardinality(1 .. Len(q)) <=> q \in Injection(1 .. Len(q), T)
  BY <1>3, <1>4, FS_Surjection
<1>6. q \in Injection(1 .. Len(q), T)
  BY <1>4 DEF Surjection, Injection, IsInjective
<1> QED
  BY <1>2, <1>3, <1>5, <1>6 DEF T

\* The first n stacks of fetch, one for each task.
LEMMA UsedIs ==
  ASSUME MemOK, NEW n \in 0 .. MaxTasks
  PROVE  /\ Used(n) \in Seq(Nat) /\ Len(Used(n)) = n
         /\ ToSet(Used(n)) = {Used(n)[i] : i \in 1 .. n}
         /\ Cardinality(ToSet(Used(n))) = n
         /\ ToSet(Used(n)) \subseteq ToSet(All(n))
         /\ ToSet(Used(n)) \subseteq UNION Grown(n)
         /\ \A s \in ToSet(Used(n)) : TaskOf(n, s) \in 1 .. n
<1>1. /\ Placed(Grown(n), All(n), get_ext) /\ Len(All(n)) \in Nat /\ n <= Len(All(n))
  BY AllPlaced DEF MemOK, Mem
<1>2. /\ All(n) \in Seq(Nat)
      /\ \A i, j \in 1 .. Len(All(n)) : All(n)[i] = All(n)[j] => i = j
      /\ \A i \in 1 .. Len(All(n)) : All(n)[i] \in UNION Grown(n)
  BY <1>1 DEF Placed
<1>3. n \in Nat
  BY PidsContextAssumption
<1> DEFINE a == All(n)
           u == Used(n)
<1> HIDE DEF a
<1>4. u \in Seq(Nat) /\ Len(u) = n /\ \A i \in 1 .. n : u[i] = a[i] /\ i \in 1 .. Len(a)
  BY <1>1, <1>2, <1>3 DEF Used, a
<1> HIDE DEF u
<1>5. \A i, j \in 1 .. Len(u) : u[i] = u[j] => i = j
  BY <1>2, <1>4 DEF a
<1>6. Cardinality(ToSet(u)) = n /\ ToSet(u) = {u[i] : i \in 1 .. n}
  BY <1>4, <1>5, Distinct
<1>7. ToSet(u) \subseteq ToSet(a)
  <2>1. ToSet(a) = {a[i] : i \in 1 .. Len(a)}
    BY <1>2, Distinct DEF a
  <2> QED
    BY <1>4, <1>6, <2>1
<1>8. ToSet(u) \subseteq UNION Grown(n)
  BY <1>2, <1>4, <1>6 DEF a
<1>9. \A s \in ToSet(u) : TaskOf(n, s) \in 1 .. n
  BY <1>6 DEF TaskOf, u
<1> QED
  BY <1>4, <1>6, <1>7, <1>8, <1>9 DEF u, a

\* The stacks of fetch, before they are set.
LEMMA FetchBased ==
  ASSUME MemOK, items \in Seq(Items), NEW n \in 0 .. MaxTasks
  PROVE  Based(UNION Grown(n), FetchHead(n))
<1>1. Placed(extents, anchor, get_ext)
  BY DEF MemOK, Mem
<1>2. Extent(Allocated, More(n)) \subseteq Stack \ Live
  BY <1>1, AllPlaced
<1>3. UNION Grown(n) = Live \cup Extent(Allocated, More(n))
  BY <1>1, GrownIs
<1>4. Based(Live \cup Extent(Allocated, More(n)), pids_stacks_alloc(Extent(Allocated, More(n))))
  BY <1>2, AllocBased
<1> QED
  BY <1>3, <1>4, Zenon DEF FetchHead

\* Each task is in its stack.
LEMMA FetchFullIs ==
  ASSUME MemOK, items \in Seq(Items), func_array = items, CurrentNames \in 0 .. MaxDays,
         NEW n \in 0 .. MaxTasks, NEW flags, NEW failed
  PROVE  LET full == FetchFull(n, flags, failed)
         IN  /\ Filled(UNION Grown(n), FetchHead(n), Used(n), full)
             /\ \A s \in ToSet(Used(n)) :
                  /\ HeadOK(items, FetchHead(n)[s]) /\ s \in Stack
                  /\ full[s] = pids_assign_results(FetchHead(n)[s], TaskOf(n, s), flags, CurrentNames,
                                                   IF TaskOf(n, s) = n THEN failed ELSE 0)
<1> DEFINE U == ToSet(Used(n))
           hd == FetchHead(n)
           full == FetchFull(n, flags, failed)
           new(s) == pids_assign_results(hd[s], TaskOf(n, s), flags, CurrentNames,
                                         IF TaskOf(n, s) = n THEN failed ELSE 0)
<1>1. Based(UNION Grown(n), hd)
  BY FetchBased
<1>2. U \subseteq UNION Grown(n) /\ \A s \in U : TaskOf(n, s) \in 1 .. n
  BY UsedIs
<1>3. full = [s \in Stack |-> IF s \notin U THEN hd[s] ELSE new(s)]
  BY DEF FetchFull
<1>4. \A s \in U : s \in Stack /\ HeadOK(items, hd[s])
  BY <1>1, <1>2 DEF Based, Headed
<1>5. ASSUME NEW s \in U PROVE HeadOK(items, new(s)) /\ new(s) # <<>>
  <2>1. PICK h : h = hd[s] /\ HeadOK(func_array, h)
    BY <1>4
  <2>2. PICK cache \in 0 .. MaxDays : cache = CurrentNames
    OBVIOUS
  <2>3. PICK t \in 0 .. MaxTasks : t = TaskOf(n, s)
    <3>1. TaskOf(n, s) \in 1 .. n /\ n \in 0 .. MaxTasks
      BY <1>2
    <3> QED
      BY <3>1, PidsContextAssumption
  <2>4. PICK x : x = IF TaskOf(n, s) = n THEN failed ELSE 0
    OBVIOUS
  <2>5. PICK c : c = new(s)
    OBVIOUS
  <2>6. c = pids_assign_results(h, t, flags, cache, x) /\ func_array \in Seq(Items)
    BY <2>1, <2>2, <2>3, <2>4, <2>5
  <2> HIDE DEF hd, U, full, new
  <2>7. HeadOK(func_array, c) /\ c # <<>>
    BY <2>1, <2>6, AssignHead
  <2> QED
    BY <2>5, <2>7
<1> HIDE DEF hd, U, new, full
<1>6. full = [s \in Stack |-> full[s]]
  BY <1>3
<1>7. /\ \A s \in Stack \ U : full[s] = hd[s]
      /\ \A s \in U : full[s] = new(s)
  BY <1>3, <1>4
<1>8. Filled(UNION Grown(n), hd, Used(n), full)
  <2>1. \A s \in ToSet(Used(n)) : HeadOK(items, full[s]) /\ full[s] # <<>>
    BY <1>5, <1>7 DEF U
  <2>2. ToSet(Used(n)) \subseteq UNION Grown(n) /\ \A s \in Stack \ ToSet(Used(n)) : full[s] = hd[s]
    BY <1>2, <1>7 DEF U
  <2> QED
    BY <1>6, <2>1, <2>2, Zenon DEF Filled
<1> QED
  BY <1>4, <1>7, <1>8 DEF U, hd, full, new

\* Memory after a fetch.
LEMMA FetchMem ==
  ASSUME MemOK, items \in Seq(Items), func_array = items, CurrentNames \in 0 .. MaxDays,
         NEW n \in 0 .. MaxTasks, NEW flags, NEW failed
  PROVE  Mem(Grown(n), All(n), get_ext, items, FetchFull(n, flags, failed),
             Accounted(FetchHead(n), FetchFull(n, flags, failed), Used(n)))
<1>1. Placed(Grown(n), All(n), get_ext)
  BY AllPlaced DEF MemOK, Mem
<1>2. Based(UNION Grown(n), FetchHead(n))
  BY FetchBased
<1>3. Filled(UNION Grown(n), FetchHead(n), Used(n), FetchFull(n, flags, failed))
  BY FetchFullIs
<1> QED
  BY <1>1, <1>2, <1>3, SetMem, Zenon

--------------------------------------------------------------------------------
(* The invariant of the stacks.                                             *)

ConfigOK ==
  /\ refcount \in 0 .. MaxRef
  /\ items \in ItemLists \cup {<<>>} /\ func_array = items
  /\ oldflags = pids_libflags_set(items)

ScannerOK ==
  /\ get_type \in BOOLEAN /\ read_something \in BOOLEAN /\ fault \in BOOLEAN
  /\ get_PT # NULL => get_ext # 0

CachesOK ==
  /\ names \in 0 .. MaxDays /\ sav_secs \in {"unset", "young", "old"}
  /\ sav_secs = "old" => names < MaxDays

\* Without a context there is no memory and nothing to look at.
Gone ==
  refcount = 0 => extents = {} /\ anchor = <<>> /\ get_ext = 0 /\ shown = <<>> /\ last = Nothing

SInv == ConfigOK /\ ScannerOK /\ CachesOK /\ Gone /\ MemOK

\* Item lists are made of items.
LEMMA ListsAre ==
  ASSUME NEW list \in ItemLists \cup {<<>>}
  PROVE  list \in Seq(Items)
<1>1. ItemLists \subseteq Seq(Items)
  BY PidsContextAssumption, Zenon DEF Items
<1>2. <<>> \in Seq(Items)
  OBVIOUS
<1> QED
  BY <1>1, <1>2

\* The cache that names point into after a check.
LEMMA ChecksCaches ==
  ASSUME CachesOK
  PROVE  CurrentNames \in 0 .. MaxDays /\ (pids_containers_check => CachesOK' /\ names' = CurrentNames)
<1>1. CurrentNames \in 0 .. MaxDays
  BY PidsContextAssumption DEF CachesOK, CurrentNames, CacheDropped
<1>2. ASSUME pids_containers_check PROVE CachesOK' /\ names' = CurrentNames
  <2>1. names' = CurrentNames /\ sav_secs' = IF containers_yes THEN "young" ELSE sav_secs
    BY <1>2 DEF pids_containers_check
  <2>2. CASE containers_yes
    <3>1. sav_secs' = "young"
      BY <2>1, <2>2
    <3> QED
      BY <1>1, <2>1, <3>1 DEF CachesOK
  <2>3. CASE ~containers_yes
    <3>1. sav_secs' = sav_secs /\ names' = names
      BY <2>1, <2>3 DEF CurrentNames, CacheDropped
    <3> QED
      BY <2>1, <3>1 DEF CachesOK
  <2> QED
    BY <2>2, <2>3
<1> QED
  BY <1>1, <1>2

\* A step that leaves the memory as it is.
LEMMA MemSame ==
  ASSUME MemOK, UNCHANGED <<items, memory>>
  PROVE  MemOK'
BY DEF MemOK, Mem, memory, Placed, Headed, Owned

\* At first there is no context.
LEMMA SInit == Init => SInv
<1> SUFFICES ASSUME Init PROVE SInv
  OBVIOUS
<1>1. ConfigOK
  <2>1. pids_libflags_set(<<>>) = {}
    BY DEF pids_libflags_set
  <2> QED
    BY <2>1, PidsContextAssumption DEF ConfigOK, Init
<1>2. ScannerOK
  BY DEF ScannerOK, Init
<1>3. CachesOK
  BY PidsContextAssumption DEF CachesOK, Init
<1>4. Gone
  BY DEF Gone, Init
<1>5. MemOK
  BY NoMemory DEF MemOK, Init
<1> QED
  BY <1>1, <1>2, <1>3, <1>4, <1>5 DEF SInv

\* A day passes.
LEMMA SOneDay == SInv /\ OneDay => SInv'
<1> SUFFICES ASSUME SInv, OneDay PROVE SInv'
  OBVIOUS
<1>1. ConfigOK' /\ ScannerOK' /\ Gone'
  BY DEF SInv, OneDay, ConfigOK, ScannerOK, Gone, config, scanner, memory
<1>2. CachesOK'
  BY DEF SInv, OneDay, CachesOK
<1>3. MemOK'
  BY MemSame DEF SInv, OneDay, config
<1> QED
  BY <1>1, <1>2, <1>3 DEF SInv

\* A new context.
LEMMA SNew ==
  ASSUME SInv, NEW list \in ItemLists \cup {<<>>}, procps_pids_new(list)
  PROVE  SInv'
<1>1. ConfigOK'
  BY PidsContextAssumption DEF procps_pids_new, ConfigOK, pids_prep_func_array
<1>2. ScannerOK' /\ CachesOK'
  BY DEF SInv, procps_pids_new, ScannerOK, CachesOK, scanner, caches, memory
<1>3. Gone'
  BY DEF Gone, procps_pids_new
<1>4. MemOK'
  <2>1. extents = {} /\ MemOK
    BY DEF SInv, Gone, procps_pids_new
  <2>2. Headed(list, UNION extents, head)
    BY <2>1 DEF MemOK, Mem, Headed
  <2>3. /\ extents' = extents /\ anchor' = anchor /\ get_ext' = get_ext /\ head' = head
        /\ strings' = strings /\ items' = list
    BY DEF procps_pids_new, memory
  <2>4. Mem(extents, anchor, get_ext, list, head, strings)
    BY <2>1, <2>2 DEF MemOK, Mem
  <2> QED
    BY <2>3, <2>4, Zenon DEF MemOK
<1> QED
  BY <1>1, <1>2, <1>3, <1>4 DEF SInv

\* One more reference.
LEMMA SRef == SInv /\ procps_pids_ref => SInv'
<1> SUFFICES ASSUME SInv, procps_pids_ref PROVE SInv'
  OBVIOUS
<1>1. ConfigOK'
  BY PidsContextAssumption DEF SInv, procps_pids_ref, ConfigOK, config
<1>2. ScannerOK' /\ CachesOK'
  BY DEF SInv, procps_pids_ref, ScannerOK, CachesOK, scanner, caches, memory
<1>3. Gone'
  <2>1. refcount' # 0
    BY DEF procps_pids_ref
  <2> QED
    BY <2>1 DEF Gone
<1>4. MemOK'
  BY MemSame DEF SInv, procps_pids_ref, config
<1> QED
  BY <1>1, <1>2, <1>3, <1>4 DEF SInv

\* One reference less; the last one frees all there is.
LEMMA SUnref == SInv /\ procps_pids_unref => SInv'
<1> SUFFICES ASSUME SInv, procps_pids_unref PROVE SInv'
  OBVIOUS
<1>0. refcount \in 1 .. MaxRef /\ refcount' = refcount - 1 /\ MaxRef \in Nat
  BY PidsContextAssumption DEF SInv, ConfigOK, procps_pids_unref
<1>1. CachesOK'
  BY DEF SInv, procps_pids_unref, CachesOK, caches
<1>2. CASE refcount > 1
  <2>1. UNCHANGED <<config, memory, results, scanner, shown, last, fault>>
    BY <1>2 DEF procps_pids_unref
  <2>2. ConfigOK'
    <3>1. items' = items /\ func_array' = func_array /\ oldflags' = oldflags
      BY <2>1 DEF config
    <3>2. refcount' \in 0 .. MaxRef
      BY <1>0
    <3> QED
      BY <3>1, <3>2 DEF SInv, ConfigOK, pids_libflags_set
  <2>3. ScannerOK'
    BY <2>1 DEF SInv, ScannerOK, scanner, memory
  <2>4. Gone'
    <3>1. refcount' # 0
      BY <1>0, <1>2
    <3> QED
      BY <3>1 DEF Gone
  <2>5. MemOK'
    BY <2>1, MemSame DEF SInv, config
  <2> QED
    BY <1>1, <2>2, <2>3, <2>4, <2>5 DEF SInv
<1>3. CASE ~(refcount > 1)
  <2>1. /\ items' = <<>> /\ func_array' = <<>> /\ oldflags' = {}
        /\ extents' = {} /\ head' = [s \in Stack |-> <<>>] /\ anchor' = <<>>
        /\ strings' = strings - Cardinality(CleanupFrees(Live))
        /\ get_PT' = IF get_ext # 0 THEN NULL ELSE get_PT
        /\ get_ext' = 0 /\ get_type' = FALSE /\ read_something' = FALSE
        /\ shown' = <<>> /\ last' = Nothing /\ fault' = fault
    BY <1>3 DEF procps_pids_unref
  <2>2. items \in Seq(Items) /\ MemOK /\ ScannerOK
    BY ListsAre DEF SInv, ConfigOK
  <2>3. strings' = 0
    BY <2>1, <2>2, FreesEvery, Zenon
  <2>4. MemOK'
    <3>1. Mem({}, <<>>, 0, <<>>, [s \in Stack |-> <<>>], 0)
      BY NoMemory
    <3> QED
      BY <2>1, <2>3, <3>1, Zenon DEF MemOK
  <2>5. ConfigOK'
    <3>1. pids_libflags_set(<<>>) = {}
      BY DEF pids_libflags_set
    <3>2. pids_libflags_set(items)' = pids_libflags_set(<<>>)
      BY <2>1 DEF pids_libflags_set
    <3> QED
      BY <1>0, <2>1, <3>1, <3>2 DEF ConfigOK
  <2>6. get_PT' = NULL
    BY <2>1, <2>2 DEF ScannerOK
  <2>7. ScannerOK'
    BY <2>1, <2>2, <2>6 DEF ScannerOK
  <2>8. Gone'
    BY <2>1 DEF Gone, Nothing
  <2> QED
    BY <1>1, <2>4, <2>5, <2>7, <2>8 DEF SInv
<1> QED
  BY <1>2, <1>3

\* Items are changed, and the stacks with them.
LEMMA SReset ==
  ASSUME SInv, NEW list \in ItemLists, procps_pids_reset(list)
  PROVE  SInv'
<1>0. /\ items \in Seq(Items) /\ list \in Seq(Items) /\ list \in ItemLists \cup {<<>>}
      /\ MemOK /\ ScannerOK /\ ConfigOK /\ refcount # 0
  BY ListsAre DEF SInv, ConfigOK, procps_pids_reset
<1>1. /\ strings' = strings - Cardinality(CleanupFrees(Live))
      /\ refcount' = refcount /\ UNCHANGED <<get_type, read_something, sav_secs, names, fault>>
  BY DEF procps_pids_reset
<1>2. strings' = 0
  BY <1>0, <1>1, FreesEvery, Zenon
<1>3. CachesOK'
  BY <1>1 DEF SInv, CachesOK, caches
<1>4. Gone'
  BY <1>0, <1>1 DEF Gone
<1>5. CASE items = list
  <2>1. /\ head' = pids_cleanup_stacks_all
        /\ UNCHANGED <<items, func_array, oldflags, extents, anchor, get_ext, get_PT>>
    BY <1>5 DEF procps_pids_reset, config
  <2>2. ConfigOK'
    BY <1>0, <1>1, <2>1 DEF ConfigOK, pids_libflags_set
  <2>3. ScannerOK'
    BY <1>0, <1>1, <2>1 DEF ScannerOK
  <2>4. MemOK'
    <3>1. Mem(extents, anchor, get_ext, items, pids_cleanup_stacks_all, 0)
      BY <1>0, CleanMem
    <3>2. /\ extents' = extents /\ anchor' = anchor /\ get_ext' = get_ext /\ items' = items
          /\ head' = pids_cleanup_stacks_all
      BY <2>1
    <3> QED
      BY <1>2, <3>1, <3>2, Zenon DEF MemOK
  <2> QED
    BY <1>3, <1>4, <2>2, <2>3, <2>4 DEF SInv
<1>6. CASE items # list
  <2>1. /\ items' = list /\ func_array' = list /\ oldflags' = pids_libflags_set(list)
        /\ IF Deeper(list)
             THEN drop_extents
             ELSE /\ head' = pids_itemize_stacks_all(pids_cleanup_stacks_all, list)
                  /\ UNCHANGED <<extents, anchor, get_ext, get_PT>>
    BY <1>6 DEF procps_pids_reset, pids_prep_func_array
  <2>2. ConfigOK'
    BY <1>0, <1>1, <2>1 DEF ConfigOK, pids_libflags_set
  <2>3. CASE Deeper(list)
    <3>1. /\ extents' = {} /\ head' = [s \in Stack |-> <<>>] /\ anchor' = <<>> /\ get_ext' = 0
          /\ get_PT' = IF get_ext # 0 THEN NULL ELSE get_PT
      BY <2>1, <2>3 DEF drop_extents
    <3>2. get_PT' = NULL
      BY <1>0, <3>1 DEF ScannerOK
    <3>3. ScannerOK'
      BY <1>0, <1>1, <3>1, <3>2 DEF ScannerOK
    <3>4. MemOK'
      <4>1. Mem({}, <<>>, 0, list, [s \in Stack |-> <<>>], 0)
        BY NoMemory
      <4> QED
        BY <1>2, <2>1, <3>1, <4>1, Zenon DEF MemOK
    <3> QED
      BY <1>3, <1>4, <2>2, <3>3, <3>4 DEF SInv
  <2>4. CASE ~Deeper(list)
    <3>1. /\ head' = pids_itemize_stacks_all(pids_cleanup_stacks_all, list)
          /\ extents' = extents /\ anchor' = anchor /\ get_ext' = get_ext /\ get_PT' = get_PT
      BY <2>1, <2>4
    <3>2. ScannerOK'
      BY <1>0, <1>1, <3>1 DEF ScannerOK
    <3>3. MemOK'
      <4>1. Mem(extents, anchor, get_ext, list, pids_itemize_stacks_all(pids_cleanup_stacks_all, list), 0)
        BY <1>0, <2>4, ItemizedMem
      <4> QED
        BY <1>2, <2>1, <3>1, <4>1, Zenon DEF MemOK
    <3> QED
      BY <1>3, <1>4, <2>2, <3>2, <3>3 DEF SInv
  <2> QED
    BY <2>3, <2>4
<1> QED
  BY <1>5, <1>6

\* What a call of get or fetch starts from.
LEMMA Ready ==
  ASSUME SInv, MayGet
  PROVE  /\ items \in Seq(Items) /\ func_array = items /\ func_array \in Seq(Items) /\ MemOK
         /\ CurrentNames \in 0 .. MaxDays /\ refcount # 0 /\ oldflags = pids_libflags_set(items)
<1>1. items \in Seq(Items) /\ func_array = items /\ oldflags = pids_libflags_set(items)
  BY ListsAre DEF SInv, ConfigOK
<1>2. CurrentNames \in 0 .. MaxDays
  BY ChecksCaches DEF SInv
<1>3. refcount # 0
  BY DEF MayGet
<1> QED
  BY <1>1, <1>2, <1>3 DEF SInv

\* A step that leaves the items and the references as they are.
LEMMA SameConfig ==
  ASSUME SInv, refcount # 0, UNCHANGED <<refcount, config>>
  PROVE  ConfigOK' /\ Gone'
<1>1. UNCHANGED <<refcount, items, func_array, oldflags>>
  BY DEF config
<1> QED
  BY <1>1 DEF SInv, ConfigOK, Gone, pids_libflags_set

\* get's scan cannot be opened.
LEMMA SGetOpenFails ==
  ASSUME SInv, NEW threads \in BOOLEAN, get_open_fails(threads)
  PROVE  SInv'
<1>0. MayGet /\ ScannerOK
  BY DEF get_open_fails, SInv
<1>1. /\ items \in Seq(Items) /\ func_array = items /\ MemOK /\ refcount # 0
  BY <1>0, Ready
<1>2. /\ extents' = GetExtents /\ head' = GetHead /\ get_ext' = GetStack /\ get_PT' = NULL
      /\ anchor' = anchor /\ strings' = strings /\ items' = items
      /\ UNCHANGED <<refcount, config, get_type, read_something, caches, fault>>
  BY DEF get_open_fails, config
<1>3. MemOK'
  <2>1. Mem(GetExtents, anchor, GetStack, items, GetHead, strings)
    BY <1>1, GetMem
  <2> QED
    BY <1>2, <2>1, Zenon DEF MemOK
<1>4. ScannerOK'
  BY <1>0, <1>2 DEF ScannerOK
<1>5. CachesOK'
  BY <1>2 DEF SInv, CachesOK, caches
<1> QED
  BY <1>1, <1>2, <1>3, <1>4, <1>5, SameConfig DEF SInv

\* get reads through a scan that is not there.
LEMMA SGetNoScan ==
  ASSUME SInv, NEW threads \in BOOLEAN, get_no_scan(threads)
  PROVE  SInv'
<1>0. MayGet /\ ScannerOK /\ CachesOK /\ pids_containers_check
  BY DEF get_no_scan, SInv
<1>1. refcount # 0 /\ MemOK
  BY <1>0, Ready
<1>2. fault' = TRUE /\ UNCHANGED <<refcount, config, memory, scanner, items, get_ext>>
  BY DEF get_no_scan, config, memory
<1>3. MemOK'
  BY <1>1, <1>2, MemSame
<1>4. ScannerOK'
  BY <1>0, <1>2 DEF ScannerOK, scanner
<1>5. CachesOK'
  BY <1>0, ChecksCaches
<1> QED
  BY <1>1, <1>2, <1>3, <1>4, <1>5, SameConfig DEF SInv

\* What a get does.
LEMMA GetDoes ==
  ASSUME NEW threads \in BOOLEAN, NEW t, NEW failed, procps_pids_get(threads, t, failed)
  PROVE  \E flags :
           /\ MayGet /\ pids_containers_check
           /\ extents' = GetExtents /\ get_ext' = GetStack /\ get_PT' = flags
           /\ get_type' = threads
           /\ read_something' = IF FreshStart(threads) THEN threads ELSE read_something
           /\ head' = IF t = 0 THEN GetHead ELSE GetFull(t, flags, failed)
           /\ strings' = IF t = 0 THEN strings
                         ELSE Accounted(GetHead, GetFull(t, flags, failed), <<GetStack>>)
           /\ IF t = 0 \/ failed # 0 THEN last' = Nothing
              ELSE last'.call = "get" /\ last'.stacks = {GetStack}
           /\ UNCHANGED <<refcount, config, anchor, results, aged, shown, fault>>
<1>1. PICK flags : flags = IF FreshStart(threads) THEN oldflags ELSE get_PT
  OBVIOUS
<1>2. /\ MayGet /\ pids_containers_check
      /\ extents' = GetExtents /\ get_ext' = GetStack /\ get_PT' = flags
      /\ get_type' = threads
      /\ read_something' = IF FreshStart(threads) THEN threads ELSE read_something
      /\ UNCHANGED <<refcount, config, anchor, results, aged, shown, fault>>
  BY <1>1 DEF procps_pids_get
<1>3. head' = IF t = 0 THEN GetHead ELSE GetFull(t, flags, failed)
  BY <1>1 DEF procps_pids_get, GetFull
<1>4. strings' = IF t = 0 THEN strings
                 ELSE Accounted(GetHead, GetFull(t, flags, failed), <<GetStack>>)
  BY <1>1 DEF procps_pids_get, GetFull
<1>5. last' = IF t = 0 \/ failed # 0 THEN Nothing
              ELSE [call |-> "get", asreader |-> read_something' = threads, stacks |-> {GetStack}]
  BY DEF procps_pids_get
<1>6. IF t = 0 \/ failed # 0 THEN last' = Nothing
      ELSE last'.call = "get" /\ last'.stacks = {GetStack}
  BY <1>5
<1> QED
  BY <1>2, <1>3, <1>4, <1>6

\* get reads a task or finds the end.
LEMMA SGet ==
  ASSUME SInv, NEW threads \in BOOLEAN, NEW t \in 0 .. 1, NEW failed,
         procps_pids_get(threads, t, failed)
  PROVE  SInv'
<1>0. PICK flags :
           /\ MayGet /\ pids_containers_check
           /\ extents' = GetExtents /\ get_ext' = GetStack /\ get_PT' = flags
           /\ get_type' = threads
           /\ read_something' = IF FreshStart(threads) THEN threads ELSE read_something
           /\ head' = IF t = 0 THEN GetHead ELSE GetFull(t, flags, failed)
           /\ strings' = IF t = 0 THEN strings
                         ELSE Accounted(GetHead, GetFull(t, flags, failed), <<GetStack>>)
           /\ UNCHANGED <<refcount, config, anchor, results, shown, fault>>
  BY GetDoes
<1>1. /\ items \in Seq(Items) /\ func_array = items /\ MemOK /\ refcount # 0
      /\ CurrentNames \in 0 .. MaxDays
  BY <1>0, Ready
<1>2. GetStack # 0
  BY <1>1, GetPlaced DEF MemOK, Mem
<1>3. items' = items /\ anchor' = anchor
  BY <1>0 DEF config
<1>4. MemOK'
  <2>1. CASE t = 0
    <3>1. Mem(GetExtents, anchor, GetStack, items, GetHead, strings)
      BY <1>1, GetMem
    <3>2. head' = GetHead /\ strings' = strings
      BY <1>0, <2>1
    <3> QED
      BY <1>0, <1>3, <3>1, <3>2, Zenon DEF MemOK
  <2>2. CASE t # 0
    <3>1. Mem(GetExtents, anchor, GetStack, items, GetFull(t, flags, failed),
              Accounted(GetHead, GetFull(t, flags, failed), <<GetStack>>))
      <4>1. t \in 0 .. MaxTasks
        BY PidsContextAssumption
      <4> QED
        BY <1>1, <4>1, GetFullMem
    <3>2. /\ head' = GetFull(t, flags, failed)
          /\ strings' = Accounted(GetHead, GetFull(t, flags, failed), <<GetStack>>)
      BY <1>0, <2>2
    <3> QED
      BY <1>0, <1>3, <3>1, <3>2, Zenon DEF MemOK
  <2> QED
    BY <2>1, <2>2
<1>5. ScannerOK'
  <2>1. read_something' \in BOOLEAN /\ get_type' \in BOOLEAN /\ fault' \in BOOLEAN
    BY <1>0 DEF SInv, ScannerOK
  <2> QED
    BY <1>0, <1>2, <2>1 DEF ScannerOK
<1>6. CachesOK'
  BY <1>0, ChecksCaches DEF SInv
<1>7. ConfigOK' /\ Gone'
  BY <1>0, <1>1, SameConfig
<1> QED
  BY <1>4, <1>5, <1>6, <1>7 DEF SInv

\* What a fetch leaves.
Fetched(n, threads, flags, failed) ==
  /\ extents' = Grown(n) /\ anchor' = All(n) /\ head' = FetchFull(n, flags, failed)
  /\ strings' = Accounted(FetchHead(n), FetchFull(n, flags, failed), Used(n))
  /\ read_something' = threads /\ aged' = FALSE
  /\ failed # 0 => results' = <<>> /\ shown' = <<>> /\ last' = Nothing
  /\ failed = 0 => /\ results' = Used(n)
                   /\ shown' = [s \in ToSet(Used(n)) |-> FetchFull(n, flags, failed)[s]]
                   /\ last' = [call |-> "fetch", asreader |-> read_something' = threads,
                               stacks |-> ToSet(Used(n))]

\* The names of the model's own definition are those used here.
LEMMA FetchDoes ==
  ASSUME NEW n, NEW threads, NEW flags, NEW failed,
         pids_stacks_fetch(n, threads, flags, failed)
  PROVE  Fetched(n, threads, flags, failed)
<1>1. extents' = Grown(n) /\ anchor' = All(n) /\ read_something' = threads /\ aged' = FALSE
  BY DEF pids_stacks_fetch, Grown, All, First, Times, More
<1>2. head' = FetchFull(n, flags, failed)
  BY Zenon DEF pids_stacks_fetch, FetchFull, FetchHead, Used, TaskOf, All, First, Times, More
<1>3. strings' = Accounted(FetchHead(n), FetchFull(n, flags, failed), Used(n))
  BY Zenon DEF pids_stacks_fetch, FetchFull, FetchHead, Used, TaskOf, All, First, Times, More
<1>4. failed # 0 => results' = <<>> /\ shown' = <<>> /\ last' = Nothing
  BY Zenon DEF pids_stacks_fetch
<1>5. failed = 0 => results' = Used(n)
  BY Zenon DEF pids_stacks_fetch, Used, All, First, Times, More
<1>6. failed = 0 => shown' = [s \in ToSet(Used(n)) |-> FetchFull(n, flags, failed)[s]]
  BY Zenon DEF pids_stacks_fetch, FetchFull, FetchHead, Used, TaskOf, All, First, Times, More
<1>7. failed = 0 => last' = [call |-> "fetch", asreader |-> read_something' = threads,
                             stacks |-> ToSet(Used(n))]
  BY Zenon DEF pids_stacks_fetch, Used, All, First, Times, More
<1> QED
  BY <1>1, <1>2, <1>3, <1>4, <1>5, <1>6, <1>7, Zenon DEF Fetched

\* A reap or a select.
Fetches(n, threads, flags, failed) ==
  /\ MayGet
  /\ pids_containers_check
  /\ pids_stacks_fetch(n, threads, flags, failed)
  /\ UNCHANGED <<refcount, config, get_ext, get_PT, get_type, fault>>

\* The stacks of fetch are set.
LEMMA SFetch ==
  ASSUME SInv, NEW n \in 0 .. MaxTasks, NEW threads \in BOOLEAN, NEW flags, NEW failed,
         Fetches(n, threads, flags, failed)
  PROVE  SInv'
<1>0. /\ MayGet /\ pids_containers_check /\ pids_stacks_fetch(n, threads, flags, failed)
      /\ UNCHANGED <<refcount, config, get_ext, get_PT, get_type, fault>>
  BY DEF Fetches
<1>1. /\ items \in Seq(Items) /\ func_array = items /\ MemOK /\ refcount # 0
      /\ CurrentNames \in 0 .. MaxDays
  BY <1>0, Ready
<1>2. /\ extents' = Grown(n) /\ anchor' = All(n) /\ head' = FetchFull(n, flags, failed)
      /\ strings' = Accounted(FetchHead(n), FetchFull(n, flags, failed), Used(n))
      /\ read_something' = threads
  BY <1>0, FetchDoes DEF Fetched
<1>3. MemOK'
  <2>1. Mem(Grown(n), All(n), get_ext, items, FetchFull(n, flags, failed),
             Accounted(FetchHead(n), FetchFull(n, flags, failed), Used(n)))
    BY <1>1, FetchMem
  <2>2. items' = items /\ get_ext' = get_ext
    BY <1>0 DEF config
  <2> QED
    BY <1>2, <2>1, <2>2, Zenon DEF MemOK
<1>4. ScannerOK'
  BY <1>0, <1>2 DEF SInv, ScannerOK
<1>5. CachesOK'
  BY <1>0, ChecksCaches DEF SInv
<1>6. ConfigOK' /\ Gone'
  BY <1>0, <1>1, SameConfig
<1> QED
  BY <1>3, <1>4, <1>5, <1>6 DEF SInv

\* The scan of a fetch cannot be opened.
LEMMA SFetchOpenFails == SInv /\ fetch_open_fails => SInv'
<1> SUFFICES ASSUME SInv, fetch_open_fails PROVE SInv'
  OBVIOUS
<1>0. /\ MayGet /\ pids_containers_check
      /\ UNCHANGED <<refcount, config, memory, scanner, fault, items, get_ext>>
  BY DEF fetch_open_fails, config, memory
<1>1. refcount # 0 /\ MemOK
  BY <1>0, Ready
<1>2. MemOK'
  BY <1>0, <1>1, MemSame
<1>3. ScannerOK'
  BY <1>0 DEF SInv, ScannerOK, scanner
<1>4. CachesOK'
  BY <1>0, ChecksCaches DEF SInv
<1> QED
  BY <1>0, <1>1, <1>2, <1>3, <1>4, SameConfig DEF SInv

\* Steps that touch no stack.
LEMMA SSame ==
  ASSUME SInv, UNCHANGED <<refcount, config, memory, scanner, caches, shown, last, fault>>
  PROVE  SInv'
<1>1. ConfigOK' /\ Gone'
  BY DEF SInv, ConfigOK, Gone, config, memory, pids_libflags_set
<1>2. ScannerOK' /\ CachesOK'
  BY DEF SInv, ScannerOK, CachesOK, scanner, caches, memory
<1>3. MemOK'
  BY MemSame DEF SInv, config
<1> QED
  BY <1>1, <1>2, <1>3 DEF SInv

\* A select and a reap are fetches.
LEMMA AreFetches ==
  ASSUME NEW n, NEW threads, NEW failed
  PROVE  /\ procps_pids_reap(threads, n, failed) => Fetches(n, threads, oldflags, failed)
         /\ procps_pids_select(threads, n, failed)
              => Fetches(n, threads, oldflags \cup {"PROC_PID"}, failed)
BY Zenon DEF procps_pids_reap, procps_pids_select, Fetches

\* Every fetch there is.
LEMMA FetchCases ==
  ASSUME \/ \E threads \in BOOLEAN, n \in 0 .. MaxTasks, failed \in Failures :
              procps_pids_reap(threads, n, failed)
         \/ \E threads \in BOOLEAN, n \in 0 .. 1, failed \in Failures :
              procps_pids_select(threads, n, failed)
         \/ fatal_proc_unmounted
  PROVE  \E threads \in BOOLEAN, n \in 0 .. MaxTasks, failed \in Nat : \E flags :
           oldflags \subseteq flags /\ Fetches(n, threads, flags, failed)
<1>0. /\ \A n \in 0 .. 1 : n \in 0 .. MaxTasks
      /\ \A failed \in Failures : failed \in Nat
      /\ oldflags \subseteq oldflags \cup {"PROC_PID"} /\ oldflags \subseteq oldflags
  BY PidsContextAssumption DEF Failures
<1>1. CASE \E threads \in BOOLEAN, n \in 0 .. MaxTasks, failed \in Failures :
             procps_pids_reap(threads, n, failed)
  BY <1>0, <1>1, AreFetches, Zenon
<1>2. CASE \E threads \in BOOLEAN, n \in 0 .. 1, failed \in Failures :
             procps_pids_select(threads, n, failed)
  BY <1>0, <1>2, AreFetches, Zenon
<1>3. CASE fatal_proc_unmounted
  <2>1. Fetches(1, FALSE, oldflags \cup {"PROC_PID"}, 0)
    BY <1>3, AreFetches, Zenon DEF fatal_proc_unmounted
  <2>2. 1 \in 0 .. MaxTasks /\ FALSE \in BOOLEAN /\ 0 \in Nat
    BY PidsContextAssumption
  <2> QED
    BY <1>0, <2>1, <2>2, Zenon
<1> QED
  BY <1>1, <1>2, <1>3

\* Every step.
LEMMA SNext == SInv /\ [Next]_vars => SInv'
<1> SUFFICES ASSUME SInv, [Next]_vars PROVE SInv'
  OBVIOUS
<1>1. CASE OneDay
  BY <1>1, SOneDay
<1>2. CASE \E list \in ItemLists \cup {<<>>} : procps_pids_new(list)
  BY <1>2, SNew
<1>3. CASE procps_pids_ref
  BY <1>3, SRef
<1>4. CASE procps_pids_unref
  BY <1>4, SUnref
<1>5. CASE \E list \in ItemLists : procps_pids_reset(list)
  BY <1>5, SReset
<1>6. CASE \E threads \in BOOLEAN : get_open_fails(threads)
  BY <1>6, SGetOpenFails
<1>7. CASE \E threads \in BOOLEAN : get_no_scan(threads)
  BY <1>7, SGetNoScan
<1>8. CASE \E threads \in BOOLEAN, t \in 0 .. 1, failed \in Failures :
             procps_pids_get(threads, t, failed)
  BY <1>8, SGet
<1>9. CASE \/ \E threads \in BOOLEAN, n \in 0 .. MaxTasks, failed \in Failures :
                procps_pids_reap(threads, n, failed)
           \/ \E threads \in BOOLEAN, n \in 0 .. 1, failed \in Failures :
                procps_pids_select(threads, n, failed)
           \/ fatal_proc_unmounted
  <2>1. PICK threads \in BOOLEAN, n \in 0 .. MaxTasks, failed \in Nat :
          \E flags : Fetches(n, threads, flags, failed)
    BY <1>9, FetchCases, Zenon
  <2>2. PICK flags : Fetches(n, threads, flags, failed)
    BY <2>1, Zenon
  <2> QED
    BY <2>2, SFetch
<1>10. CASE fetch_open_fails
  BY <1>10, SFetchOpenFails
<1>11. CASE \E item \in DOMAIN Item_table, ascend \in BOOLEAN : procps_pids_sort(item, ascend)
  <2>1. UNCHANGED <<refcount, config, memory, scanner, caches, shown, last, fault>>
    BY <1>11 DEF procps_pids_sort
  <2> QED
    BY <2>1, SSame
<1>12. CASE UNCHANGED vars
  BY <1>12, SSame DEF vars
<1> QED
  BY <1>1, <1>2, <1>3, <1>4, <1>5, <1>6, <1>7, <1>8, <1>9, <1>10, <1>11, <1>12, Zenon DEF Next

\* Stacks of that kind are sound.
LEMMA SSound == SInv => StacksSound
<1> SUFFICES ASSUME SInv PROVE StacksSound
  OBVIOUS
<1>0. /\ items \in Seq(Items) /\ Len(items) \in Nat /\ MemOK /\ ConfigOK /\ ScannerOK /\ CachesOK
  BY ListsAre DEF SInv, ConfigOK
<1>1. /\ Placed(extents, anchor, get_ext) /\ Headed(items, Live, head)
      /\ strings = Cardinality(Owned(head, Live))
  BY <1>0 DEF MemOK, Mem, Live
<1>2. Live \subseteq Stack /\ IsFiniteSet(Live)
  BY <1>1, Capable
<1>3. \A s \in Live : HeadOK(items, head[s]) /\ head[s] # <<>>
  BY <1>1, <1>2 DEF Headed
<1>4. TypeOK
  <2>1. refcount \in 0 .. MaxRef /\ items \in ItemLists \cup {<<>>}
    BY <1>0 DEF ConfigOK
  <2>2. \A e, f \in extents : e # f => e \cap f = {}
    BY <1>1 DEF Placed
  <2>3. \A s \in Stack : head[s] # <<>> <=> s \in Live
    BY <1>1 DEF Headed
  <2>4. ASSUME NEW s \in Stack, NEW i \in DOMAIN head[s] PROVE head[s][i] \in Slot
    <3>1. CASE s \in Live
      <4>1. head[s] \in Seq(Slot)
        BY <1>3, <3>1 DEF HeadOK
      <4> QED
        BY <2>4, <4>1
    <3>2. CASE s \notin Live
      <4>1. head[s] = <<>>
        BY <2>3, <3>2
      <4> QED
        BY <2>4, <4>1
    <3> QED
      BY <3>1, <3>2
  <2>5. get_ext \in Stack \cup {0}
    BY <1>1, <1>2 DEF Placed, Live
  <2>6. /\ get_type \in BOOLEAN /\ read_something \in BOOLEAN /\ fault \in BOOLEAN
        /\ names \in 0 .. MaxDays /\ sav_secs \in {"unset", "young", "old"}
    BY <1>0 DEF ScannerOK, CachesOK
  <2>7. strings \in Nat
    BY <1>0, <1>1, <1>2, <1>3, OwnedFinite
  <2> QED
    BY <2>1, <2>2, <2>3, <2>4, <2>5, <2>6, <2>7 DEF TypeOK
<1>5. Itemized
  <2>1. func_array = items
    BY <1>0 DEF ConfigOK
  <2>2. ASSUME NEW s \in Live
        PROVE  /\ Len(head[s]) > Len(items)
               /\ SubSeq(head[s], 1, Len(items) + 1) =
                    [i \in 1 .. Len(items) + 1 |->
                       [item |-> Append(items, END)[i], val |-> head[s][i].val]]
    <3>1. PICK h : h = head[s] /\ HeadOK(items, h)
      BY <1>3
    <3>2. h \in Seq(Slot) /\ Len(h) > Len(items) /\ Len(h) \in Nat
      BY <3>1 DEF HeadOK
    <3>3. ASSUME NEW i \in 1 .. Len(items) + 1
          PROVE  h[i] = [item |-> Append(items, END)[i], val |-> h[i].val]
      <4>1. i \in 1 .. Len(h)
        BY <1>0, <3>2
      <4>2. SlotOK(items, i, h[i])
        BY <3>1, <4>1 DEF HeadOK
      <4>3. h[i].item = Append(items, END)[i]
        <5>1. CASE i <= Len(items)
          BY <1>0, <4>2, <5>1 DEF SlotOK
        <5>2. CASE i = Len(items) + 1
          BY <1>0, <4>2, <5>2 DEF SlotOK
        <5> QED
          BY <1>0, <5>1, <5>2
      <4>4. h[i] = [item |-> h[i].item, val |-> h[i].val]
        BY <4>2 DEF SlotOK, Slot
      <4> QED
        BY <4>3, <4>4
    <3>4. SubSeq(h, 1, Len(items) + 1) = [i \in 1 .. Len(items) + 1 |-> h[i]]
      BY <1>0, <3>2
    <3>5. SubSeq(h, 1, Len(items) + 1) =
            [i \in 1 .. Len(items) + 1 |-> [item |-> Append(items, END)[i], val |-> h[i].val]]
      BY <3>3, <3>4
    <3> QED
      BY <3>1, <3>2, <3>5, Zenon
  <2> QED
    BY <2>1, <2>2 DEF Itemized
<1>6. SlotsOwn
  <2> SUFFICES ASSUME NEW s \in Live, NEW i \in 1 .. EndOf(head[s]) - 1
               PROVE  LET row == Item_table[head[s][i].item]
                          kind == head[s][i].val.kind
                      IN  /\ row.freefunc # "none" => kind \in {"zero", row.freefunc}
                          /\ row.freefunc = "none" => kind \notin {"str", "strv"}
    BY DEF SlotsOwn
  <2>1. EndOf(head[s]) = Len(items) + 1 /\ HeadOK(items, head[s])
    BY <1>0, <1>3, EndIs
  <2>2. i \in 1 .. Len(items)
    BY <1>0, <2>1
  <2>3. SlotOK(items, i, head[s][i])
    BY <1>0, <2>1, <2>2 DEF HeadOK
  <2>4. PICK x : x = head[s][i]
    OBVIOUS
  <2>5. x \in Slot /\ x.item = items[i] /\ Suits(items[i], x.val) /\ items[i] \in Items
    BY <1>0, <2>2, <2>3, <2>4 DEF SlotOK
  <2>6. x.val.kind \in {"zero", "num", "str", "strv", "name"}
    BY <2>5, SlotHas DEF Val
  <2>7. /\ Item_table[x.item].freefunc # "none" => x.val.kind \in {"zero", Item_table[x.item].freefunc}
        /\ Item_table[x.item].freefunc = "none" => x.val.kind \notin {"str", "strv"}
    BY <2>5, <2>6, TableIs DEF Suits
  <2> QED
    BY <2>4, <2>7
<1>7. Anchored
  <2>1. /\ anchor \in Seq(Nat) /\ \A i, j \in 1 .. Len(anchor) : anchor[i] = anchor[j] => i = j
        /\ \A i \in 1 .. Len(anchor) : anchor[i] \in Live /\ anchor[i] # get_ext
        /\ get_ext # 0 => get_ext \in Live
    BY <1>1 DEF Placed, Live
  <2>2. Cardinality(ToSet(anchor)) = Len(anchor) /\ ToSet(anchor) = {anchor[i] : i \in 1 .. Len(anchor)}
    BY <2>1, Distinct
  <2>3. ToSet(anchor) \subseteq Live /\ (get_ext # 0 => get_ext \in Live \ ToSet(anchor))
    BY <2>1, <2>2
  <2> QED
    BY <1>0, <2>2, <2>3 DEF Anchored, ScannerOK
<1>8. StringsOwned
  BY <1>1 DEF StringsOwned
<1> QED
  BY <1>4, <1>5, <1>6, <1>7, <1>8 DEF StacksSound

\* After any calls of the API on a context, with any item lists, block sizes
\* and numbers of tasks: every stack of library/pids.c can hold the current
\* items and is delimited after them, each value is one that its item's free
\* function can free, each string has one owner, and the stacks that a fetch
\* and a get write are live and all different.
THEOREM StacksCorrect == Spec => []StacksSound
<1>1. Spec => []SInv
  BY SInit, SNext, PTL DEF Spec
<1> QED
  BY <1>1, SSound, PTL

--------------------------------------------------------------------------------
(* The invariant of what was returned.                                      *)

\* The results that may be looked at are in stacks of fetch.
ShownPlaced == shown # <<>> => DOMAIN shown \subseteq ToSet(anchor)

\* Until a day has passed the caches are those of the last fetch.
Youth ==
  /\ ~aged => NamesOf(DOMAIN shown)
  /\ shown # <<>> /\ containers_yes /\ ~aged => sav_secs # "old"

AInv == ShownPlaced /\ ResultsKept /\ FetchAnswers /\ NamesOf(last.stacks) /\ Youth

\* A result is for the first of its item, and holds what was read.
Reads(list, i) ==
  /\ Item_table[list[i]].set \in {"REG", "DUP", "STR", "VEC", "NAME"}
  /\ \A j \in 1 .. i - 1 : list[j] # list[i]

\* A call that returned nothing says nothing.
LEMMA NothingIs == Nothing.call # "fetch" /\ Nothing.stacks = {} /\ Nothing.asreader
BY DEF Nothing

\* The names in a stack are of one cache.
NamesAt(c, cache) == \A i \in DOMAIN c : c[i].val.kind = "name" => c[i].val.cache = cache

\* What a stack has to hold of a task.
ReadsAt(c, t) == \A i \in DOMAIN func_array : Reads(func_array, i) => c[i].val.of = t

\* The values of a task in a stack.
LEMMA AssignAnswers ==
  ASSUME func_array \in Seq(Items), NEW h, HeadOK(func_array, h),
         NEW t \in 0 .. MaxTasks, NEW flags, NEW cache \in 0 .. MaxDays, NEW failed,
         NEW c, c = pids_assign_results(h, t, flags, cache, failed)
  PROVE  /\ NamesAt(c, cache)
         /\ failed = 0 /\ pids_libflags_set(func_array) \subseteq flags => ReadsAt(c, t)
<1>1. /\ DOMAIN h = 1 .. Len(h) /\ Len(h) \in Nat /\ Len(func_array) \in Nat
      /\ Len(h) > Len(func_array) /\ DOMAIN func_array = 1 .. Len(func_array)
  BY DEF HeadOK
<1>2. \A i \in 1 .. Len(h) :
        c[i].val = IF i > Len(func_array) THEN h[i].val
                   ELSE IF i = failed THEN Zero ELSE Set(i, h[i].val, t, flags, cache)
  BY AssignIs
<1>3. DOMAIN c = 1 .. Len(h)
  BY <1>1 DEF pids_assign_results
<1>4. ASSUME NEW i \in 1 .. Len(h), i <= Len(func_array)
      PROVE  func_array[i] \in Items /\ h[i].val \in Val /\ Suits(func_array[i], h[i].val) /\ i \in Nat
  <2>1. SlotOK(func_array, i, h[i])
    BY DEF HeadOK
  <2>2. h[i].val \in Val
    BY <2>1, SlotHas DEF SlotOK
  <2>3. Suits(func_array[i], h[i].val)
    BY <1>4, <2>1 DEF SlotOK
  <2>4. func_array[i] \in Items /\ i \in Nat
    BY <1>1, <1>4
  <2> QED
    BY <2>2, <2>3, <2>4
<1>5. ASSUME NEW i \in DOMAIN c, c[i].val.kind = "name" PROVE c[i].val.cache = cache
  <2>0. i \in 1 .. Len(h)
    BY <1>3
  <2>1. CASE i > Len(func_array)
    <3>1. h[i].val = Zero
      BY <2>0, <2>1 DEF HeadOK, SlotOK
    <3>2. c[i].val = Zero
      BY <1>2, <2>0, <2>1, <3>1
    <3> QED
      BY <1>5, <3>2, ZeroIs
  <2>2. CASE i <= Len(func_array) /\ i = failed
    <3>1. ~(i > Len(func_array))
      BY <1>1, <2>0, <2>2
    <3>2. c[i].val = Zero
      BY <1>2, <2>0, <2>2, <3>1
    <3> QED
      BY <1>5, <3>2, ZeroIs
  <2>3. CASE i <= Len(func_array) /\ i # failed
    <3>1. ~(i > Len(func_array))
      BY <1>1, <2>0, <2>3
    <3>2. c[i].val = Set(i, h[i].val, t, flags, cache)
      BY <1>2, <2>0, <2>3, <3>1
    <3> QED
      BY <1>4, <1>5, <2>0, <2>3, <3>2, SetAnswers
  <2> QED
    BY <1>1, <2>0, <2>1, <2>2, <2>3
<1>6. ASSUME failed = 0, pids_libflags_set(func_array) \subseteq flags,
             NEW i \in DOMAIN func_array, Reads(func_array, i)
      PROVE  c[i].val.of = t
  <2>1. i \in 1 .. Len(h) /\ i <= Len(func_array) /\ ~(i > Len(func_array)) /\ i # failed
    BY <1>1, <1>6
  <2>2. c[i].val = Set(i, h[i].val, t, flags, cache)
    BY <1>2, <2>1
  <2>3. Item_table[func_array[i]].oldflags \subseteq flags
    BY <1>6 DEF pids_libflags_set
  <2> QED
    BY <1>4, <1>6, <2>1, <2>2, <2>3, SetAnswers DEF Reads
<1> QED
  BY <1>5, <1>6 DEF NamesAt, ReadsAt

\* What was returned stays as it is while head does at those stacks.
LEMMA AKept ==
  ASSUME AInv, UNCHANGED <<results, shown>>, ToSet(anchor') = ToSet(anchor),
         \A s \in ToSet(anchor) : head'[s] = head[s]
  PROVE  ShownPlaced' /\ ResultsKept'
<1>1. ShownPlaced'
  BY DEF AInv, ShownPlaced
<1>2. ResultsKept'
  BY DEF AInv, ShownPlaced, ResultsKept
<1> QED
  BY <1>1, <1>2

\* A step after which there is nothing to look at.
LEMMA ANone ==
  ASSUME shown' = <<>>
  PROVE  ShownPlaced' /\ ResultsKept'
BY DEF ShownPlaced, ResultsKept

\* A call that returns nothing.
LEMMA ANothing ==
  ASSUME last' = Nothing
  PROVE  FetchAnswers' /\ NamesOf(last.stacks)'
<1>1. last'.call # "fetch" /\ last'.stacks = {}
  BY NothingIs
<1> QED
  BY <1>1 DEF FetchAnswers, NamesOf

\* With nothing to look at nothing ages, nor after a day.
LEMMA ANoYouth ==
  ASSUME shown' = <<>> \/ aged' = TRUE
  PROVE  Youth'
<1>1. DOMAIN <<>> = {}
  OBVIOUS
<1> QED
  BY <1>1 DEF Youth, NamesOf

\* A call that leaves what was returned where it is drops no cache of it.
LEMMA AYouth ==
  ASSUME AInv, UNCHANGED <<oldflags, aged, shown>>, \A s \in ToSet(anchor) : head'[s] = head[s],
         UNCHANGED <<names, sav_secs>> \/ pids_containers_check
  PROVE  Youth'
<1>1. CASE shown = <<>> \/ aged
  <2>1. shown' = <<>> \/ aged' = TRUE \/ aged'
    BY <1>1
  <2>2. DOMAIN <<>> = {}
    OBVIOUS
  <2> QED
    BY <2>1, <2>2 DEF Youth, NamesOf
<1>2. CASE shown # <<>> /\ ~aged
  <2>1. DOMAIN shown \subseteq ToSet(anchor) /\ Youth
    BY <1>2 DEF AInv, ShownPlaced
  <2>2. containers_yes' <=> containers_yes
    BY DEF containers_yes
  <2>3. names' = names /\ (containers_yes => sav_secs' # "old")
    <3>1. CASE UNCHANGED <<names, sav_secs>>
      BY <1>2, <2>1, <3>1 DEF Youth
    <3>2. CASE pids_containers_check
      <4>1. ~CacheDropped
        BY <1>2, <2>1 DEF Youth, CacheDropped
      <4> QED
        BY <3>2, <4>1 DEF pids_containers_check, CurrentNames
    <3> QED
      BY <3>1, <3>2
  <2>4. NamesOf(DOMAIN shown)
    BY <1>2, <2>1 DEF Youth
  <2>5. NamesOf(DOMAIN shown)'
    BY <2>1, <2>3, <2>4 DEF NamesOf
  <2> QED
    BY <1>2, <2>2, <2>3, <2>5 DEF Youth
<1> QED
  BY <1>1, <1>2

\* Steps that leave stacks, items and names as they are.
LEMMA ASame ==
  ASSUME AInv, UNCHANGED <<items, head, anchor, results, names, shown, last>>, Youth'
  PROVE  AInv'
<1>1. ShownPlaced' /\ ResultsKept'
  BY AKept
<1>2. FetchAnswers'
  BY DEF AInv, FetchAnswers, Answers
<1>3. NamesOf(last.stacks)'
  BY DEF AInv, NamesOf
<1> QED
  BY <1>1, <1>2, <1>3 DEF AInv

\* get leaves the stacks of fetch alone.
LEMMA GetAside ==
  ASSUME MemOK, items \in Seq(Items), NEW s \in ToSet(anchor)
  PROVE  s \in Stack /\ s # GetStack /\ GetHead[s] = head[s]
<1>1. Placed(GetExtents, anchor, GetStack) /\ Placed(extents, anchor, get_ext)
  BY GetPlaced DEF MemOK, Mem
<1>2. PICK i \in 1 .. Len(anchor) : s = anchor[i]
  <2>1. anchor \in Seq(Nat)
    BY <1>1 DEF Placed
  <2>2. DOMAIN anchor = 1 .. Len(anchor)
    BY <2>1
  <2> QED
    BY <2>2 DEF ToSet
<1>3. s # GetStack /\ s \in Live
  BY <1>1, <1>2 DEF Placed, Live
<1>4. Based(UNION GetExtents, GetHead)
  BY GetBased
<1> QED
  BY <1>3, <1>4 DEF Based

\* get's scan cannot be opened.
LEMMA AGetOpenFails ==
  ASSUME SInv, AInv, NEW threads \in BOOLEAN, get_open_fails(threads)
  PROVE  AInv'
<1>0. items \in Seq(Items) /\ MemOK
  BY Ready DEF get_open_fails
<1>1. /\ head' = GetHead /\ anchor' = anchor /\ last' = Nothing
      /\ UNCHANGED <<results, oldflags, aged, shown, names, sav_secs>>
  BY DEF get_open_fails, caches, config
<1>2. \A s \in ToSet(anchor) : head'[s] = head[s]
  BY <1>0, <1>1, GetAside
<1>3. ShownPlaced' /\ ResultsKept'
  BY <1>1, <1>2, AKept
<1>4. Youth'
  BY <1>1, <1>2, AYouth
<1> QED
  BY <1>1, <1>3, <1>4, ANothing DEF AInv

\* get reads a task or finds the end.
LEMMA AGet ==
  ASSUME SInv, AInv, NEW threads \in BOOLEAN, NEW t \in 0 .. 1, NEW failed,
         procps_pids_get(threads, t, failed)
  PROVE  AInv'
<1>0. PICK flags :
        /\ MayGet /\ pids_containers_check
        /\ head' = IF t = 0 THEN GetHead ELSE GetFull(t, flags, failed)
        /\ IF t = 0 \/ failed # 0 THEN last' = Nothing
           ELSE last'.call = "get" /\ last'.stacks = {GetStack}
        /\ UNCHANGED <<oldflags, anchor, results, aged, shown>>
  BY GetDoes DEF config
<1>1. /\ items \in Seq(Items) /\ func_array = items /\ func_array \in Seq(Items) /\ MemOK
      /\ CurrentNames \in 0 .. MaxDays
  BY <1>0, Ready
<1>2. t \in 0 .. MaxTasks
  BY PidsContextAssumption
<1> DEFINE full == GetFull(t, flags, failed)
<1>3. /\ \A s \in Stack \ {GetStack} : full[s] = GetHead[s]
      /\ full[GetStack] = pids_assign_results(GetHead[GetStack], t, flags, CurrentNames, failed)
      /\ HeadOK(func_array, GetHead[GetStack])
  BY <1>1, <1>2, GetFullIs
<1> HIDE DEF full
<1>4. \A s \in ToSet(anchor) : head'[s] = head[s]
  <2> SUFFICES ASSUME NEW s \in ToSet(anchor) PROVE head'[s] = head[s]
    OBVIOUS
  <2>1. s \in Stack /\ s # GetStack /\ GetHead[s] = head[s]
    BY <1>1, GetAside
  <2>2. full[s] = GetHead[s]
    BY <1>3, <2>1
  <2> QED
    BY <1>0, <2>1, <2>2 DEF full
<1>5. ShownPlaced' /\ ResultsKept' /\ Youth'
  BY <1>0, <1>4, AKept, AYouth
<1>6. CASE t = 0 \/ failed # 0
  <2>1. last' = Nothing
    BY <1>0, <1>6
  <2> QED
    BY <1>5, <2>1, ANothing DEF AInv
<1>7. CASE ~(t = 0 \/ failed # 0)
  <2>1. last'.call = "get" /\ last'.stacks = {GetStack} /\ head' = full
    BY <1>0, <1>7 DEF full
  <2>2. FetchAnswers'
    BY <2>1 DEF FetchAnswers
  <2>3. names' = CurrentNames
    BY <1>0 DEF pids_containers_check
  <2>40. PICK cache \in 0 .. MaxDays : cache = CurrentNames
    BY <1>1
  <2>41. PICK h : h = GetHead[GetStack] /\ HeadOK(func_array, h)
    BY <1>3
  <2>42. PICK c : c = full[GetStack] /\ c = pids_assign_results(h, t, flags, cache, failed)
    BY <1>3, <2>40, <2>41
  <2>4. c = full[GetStack] /\ cache = CurrentNames
    BY <2>40, <2>42
  <2>5. \A i \in DOMAIN c : c[i].val.kind = "name" => c[i].val.cache = cache
    <3>1. NamesAt(c, cache)
      BY <1>1, <1>2, <2>41, <2>42, AssignAnswers, Zenon
    <3> QED
      BY <3>1 DEF NamesAt
  <2>6. NamesOf(last.stacks)'
    <3> SUFFICES ASSUME NEW s \in last'.stacks, NEW i \in DOMAIN head'[s],
                        head'[s][i].val.kind = "name"
                 PROVE  head'[s][i].val.cache = names'
      BY DEF NamesOf
    <3>1. head'[s] = c
      BY <2>1, <2>4
    <3> QED
      BY <2>3, <2>4, <2>5, <3>1
  <2> QED
    BY <1>5, <2>2, <2>6 DEF AInv
<1> QED
  BY <1>6, <1>7

\* A fetch returns what it read.
LEMMA AFetch ==
  ASSUME SInv, AInv, NEW n \in 0 .. MaxTasks, NEW threads \in BOOLEAN, NEW flags, NEW failed,
         oldflags \subseteq flags, Fetches(n, threads, flags, failed)
  PROVE  AInv'
<1>0. /\ MayGet /\ pids_containers_check /\ pids_stacks_fetch(n, threads, flags, failed)
      /\ items' = items
  BY DEF Fetches, config
<1>1. /\ items \in Seq(Items) /\ func_array = items /\ func_array \in Seq(Items) /\ MemOK
      /\ CurrentNames \in 0 .. MaxDays /\ oldflags = pids_libflags_set(items)
  BY <1>0, Ready
<1>2. CASE failed # 0
  <2>1. shown' = <<>> /\ last' = Nothing
    <3>1. Fetched(n, threads, flags, failed)
      BY <1>0, FetchDoes
    <3> QED
      BY <1>2, <3>1 DEF Fetched
  <2> QED
    BY <2>1, ANone, ANothing, ANoYouth DEF AInv
<1>3. CASE failed = 0
  <2> DEFINE U == ToSet(Used(n))
             full == FetchFull(n, flags, failed)
  <2>1. /\ anchor' = All(n) /\ head' = full /\ read_something' = threads /\ results' = Used(n)
        /\ shown' = [s \in U |-> full[s]]
        /\ last' = [call |-> "fetch", asreader |-> read_something' = threads, stacks |-> U]
    <3>1. Fetched(n, threads, flags, failed)
      BY <1>0, FetchDoes
    <3> QED
      BY <1>3, <3>1 DEF Fetched
  <2>2. /\ \A s \in U :
            /\ HeadOK(items, FetchHead(n)[s]) /\ s \in Stack
            /\ full[s] = pids_assign_results(FetchHead(n)[s], TaskOf(n, s), flags, CurrentNames,
                                             IF TaskOf(n, s) = n THEN failed ELSE 0)
    BY <1>1, FetchFullIs
  <2>3. /\ Len(Used(n)) = n /\ Cardinality(U) = n /\ U \subseteq ToSet(All(n))
        /\ \A s \in U : TaskOf(n, s) \in 1 .. n
    BY <1>1, UsedIs
  <2> HIDE DEF full, U
  <2>4. DOMAIN shown' = U /\ \A s \in U : head'[s] = shown'[s]
    BY <2>1
  <2>5. ShownPlaced'
    BY <2>1, <2>3, <2>4 DEF ShownPlaced
  <2>6. ResultsKept'
    <3>1. ToSet(results') = U /\ Len(results') = Cardinality(U)
      BY <2>1, <2>3 DEF U
    <3> QED
      BY <2>4, <3>1 DEF ResultsKept
  <2>7. last'.call = "fetch" /\ last'.stacks = U /\ last'.asreader
    BY <2>1
  <2>8. names' = CurrentNames
    BY <1>0 DEF pids_containers_check
  <2>9. ASSUME NEW s \in U
        PROVE  /\ \A i \in DOMAIN head'[s] :
                    head'[s][i].val.kind = "name" => head'[s][i].val.cache = names'
               /\ \A i \in DOMAIN items : Reads(items, i) => head'[s][i].val.of # 0
    <3>1. PICK t \in 0 .. MaxTasks : t = TaskOf(n, s) /\ t # 0
      <4>1. TaskOf(n, s) \in 1 .. n /\ n \in 0 .. MaxTasks
        BY <2>3
      <4> QED
        BY <4>1, PidsContextAssumption
    <3>20. PICK cache \in 0 .. MaxDays : cache = CurrentNames
      BY <1>1
    <3>21. PICK h : h = FetchHead(n)[s] /\ HeadOK(func_array, h)
      BY <1>1, <2>2
    <3>22. PICK c : c = full[s] /\ c = pids_assign_results(h, t, flags, cache, 0)
      <4>1. (IF TaskOf(n, s) = n THEN failed ELSE 0) = 0
        BY <1>3
      <4> QED
        BY <2>2, <3>1, <3>20, <3>21, <4>1
    <3>2. c = full[s] /\ cache = CurrentNames
      BY <3>20, <3>22
    <3>3. pids_libflags_set(func_array) \subseteq flags
      BY <1>1
    <3>4. /\ \A i \in DOMAIN c : c[i].val.kind = "name" => c[i].val.cache = cache
          /\ \A i \in DOMAIN func_array : Reads(func_array, i) => c[i].val.of = t
      <4>1. NamesAt(c, cache) /\ ReadsAt(c, t)
        BY <1>1, <3>21, <3>22, <3>3, AssignAnswers, Zenon
      <4> QED
        BY <4>1 DEF NamesAt, ReadsAt
    <3>5. head'[s] = c
      BY <2>1, <3>2
    <3> QED
      BY <1>1, <2>8, <3>1, <3>2, <3>4, <3>5
  <2>10. NamesOf(last.stacks)' /\ NamesOf(DOMAIN shown)'
    BY <2>4, <2>7, <2>9 DEF NamesOf
  <2>12. Youth'
    <3>1. containers_yes' <=> containers_yes
      BY DEF containers_yes, Fetches, config
    <3>2. containers_yes => sav_secs' = "young"
      BY <1>0 DEF pids_containers_check
    <3> QED
      BY <2>10, <3>1, <3>2 DEF Youth
  <2>11. FetchAnswers'
    BY <1>0, <2>7, <2>9 DEF FetchAnswers, Answers, Reads
  <2> QED
    BY <2>5, <2>6, <2>10, <2>11, <2>12 DEF AInv
<1> QED
  BY <1>2, <1>3

\* A sort moves the stacks of a fetch about.
LEMMA ASort ==
  ASSUME AInv, NEW item, NEW ascend, procps_pids_sort(item, ascend), SInv
  PROVE  AInv'
<1>1. UNCHANGED <<items, oldflags, head, anchor, names, sav_secs, aged, shown, last>>
  BY DEF procps_pids_sort, config, memory, caches
<1>2. shown # <<>> /\ ToSet(results') = ToSet(results) /\ results' \in [1 .. Len(results) -> ToSet(results)]
  BY DEF procps_pids_sort
<1>3. ToSet(results) = DOMAIN shown /\ Len(results) = Cardinality(DOMAIN shown)
  BY <1>2 DEF AInv, ResultsKept
<1>4. Len(results') = Len(results)
  <2>1. DOMAIN shown \subseteq Live /\ IsFiniteSet(Live)
    <3>1. /\ DOMAIN shown \subseteq ToSet(anchor) /\ Placed(extents, anchor, get_ext)
      BY <1>2 DEF AInv, ShownPlaced, SInv, MemOK, Mem
    <3>2. /\ anchor \in Seq(Nat) /\ \A i \in 1 .. Len(anchor) : anchor[i] \in Live
      BY <3>1 DEF Placed, Live
    <3>3. ToSet(anchor) \subseteq Live
      BY <3>2 DEF ToSet
    <3> QED
      BY <3>1, <3>3, Capable
  <2>2. Cardinality(DOMAIN shown) \in Nat
    BY <2>1, FS_Subset, FS_CardinalityType
  <2>3. Len(results) \in Nat
    BY <1>3, <2>2
  <2>4. results' \in Seq(ToSet(results))
    BY <1>2, <2>3
  <2> QED
    BY <1>2, <2>3, <2>4
<1>5. ResultsKept'
  BY <1>1, <1>2, <1>3, <1>4 DEF AInv, ResultsKept
<1>6. ShownPlaced'
  BY <1>1 DEF AInv, ShownPlaced
<1>7. FetchAnswers'
  BY <1>1 DEF AInv, FetchAnswers, Answers
<1>8. NamesOf(last.stacks)'
  BY <1>1 DEF AInv, NamesOf
<1>9. Youth'
  BY <1>1, AYouth
<1> QED
  BY <1>5, <1>6, <1>7, <1>8, <1>9 DEF AInv

\* Every step.
LEMMA ANext == SInv /\ AInv /\ [Next]_vars => AInv'
<1> SUFFICES ASSUME SInv, AInv, [Next]_vars PROVE AInv'
  OBVIOUS
<1>1. CASE OneDay
  <2>1. Youth'
    BY <1>1, ANoYouth DEF OneDay
  <2> QED
    BY <1>1, <2>1, ASame DEF OneDay, config, memory
<1>2. CASE \E list \in ItemLists \cup {<<>>} : procps_pids_new(list)
  <2>1. last' = Nothing /\ shown' = <<>>
    BY <1>2 DEF procps_pids_new, SInv, Gone
  <2> QED
    BY <2>1, ANone, ANothing, ANoYouth DEF AInv
<1>3. CASE procps_pids_ref
  BY <1>3, ASame, AYouth DEF procps_pids_ref, config, memory, caches
<1>4. CASE procps_pids_unref
  <2>1. CASE refcount > 1
    BY <1>4, <2>1, ASame, AYouth DEF procps_pids_unref, config, memory, caches
  <2>2. CASE ~(refcount > 1)
    <3>1. last' = Nothing /\ shown' = <<>>
      BY <1>4, <2>2 DEF procps_pids_unref
    <3> QED
      BY <3>1, ANone, ANothing, ANoYouth DEF AInv
  <2> QED
    BY <2>1, <2>2
<1>5. CASE \E list \in ItemLists : procps_pids_reset(list)
  <2>1. last' = Nothing /\ shown' = <<>>
    BY <1>5 DEF procps_pids_reset
  <2> QED
    BY <2>1, ANone, ANothing, ANoYouth DEF AInv
<1>6. CASE \E threads \in BOOLEAN : get_open_fails(threads)
  BY <1>6, AGetOpenFails
<1>7. CASE (\E threads \in BOOLEAN : get_no_scan(threads)) \/ fetch_open_fails
  <2>1. /\ last' = Nothing /\ UNCHANGED <<oldflags, head, anchor, results, aged, shown>>
        /\ pids_containers_check
    BY <1>7 DEF get_no_scan, fetch_open_fails, memory, config
  <2>2. ShownPlaced' /\ ResultsKept' /\ Youth'
    BY <2>1, AKept, AYouth
  <2> QED
    BY <2>1, <2>2, ANothing DEF AInv
<1>8. CASE \E threads \in BOOLEAN, t \in 0 .. 1, failed \in Failures :
             procps_pids_get(threads, t, failed)
  BY <1>8, AGet
<1>9. CASE \/ \E threads \in BOOLEAN, n \in 0 .. MaxTasks, failed \in Failures :
                procps_pids_reap(threads, n, failed)
           \/ \E threads \in BOOLEAN, n \in 0 .. 1, failed \in Failures :
                procps_pids_select(threads, n, failed)
           \/ fatal_proc_unmounted
  <2>1. PICK threads \in BOOLEAN, n \in 0 .. MaxTasks, failed \in Nat :
          \E flags : oldflags \subseteq flags /\ Fetches(n, threads, flags, failed)
    BY <1>9, FetchCases, Zenon
  <2>2. PICK flags : oldflags \subseteq flags /\ Fetches(n, threads, flags, failed)
    BY <2>1, Zenon
  <2> QED
    BY <2>2, AFetch
<1>10. CASE \E item \in DOMAIN Item_table, ascend \in BOOLEAN : procps_pids_sort(item, ascend)
  BY <1>10, ASort
<1>11. CASE UNCHANGED vars
  BY <1>11, ASame, AYouth DEF vars, config, memory, caches
<1> QED
  BY <1>1, <1>2, <1>3, <1>4, <1>5, <1>6, <1>7, <1>8, <1>9, <1>10, <1>11, Zenon DEF Next

\* What reap and select returned is what was asked for, of the tasks that were
\* found, with names of the cache there is, and stays in place whatever gets
\* and sorts follow, until the next fetch, a reset or the last unref; its names
\* stay those of the cache there is unless a day passes before the next fetch.
THEOREM ResultsCorrect == Spec => []AnswersHold
<1>1. Init => AInv
  <2> SUFFICES ASSUME Init PROVE AInv
    OBVIOUS
  <2>1. shown = <<>> /\ last = Nothing /\ DOMAIN <<>> = {}
    BY DEF Init
  <2> QED
    BY <2>1, NothingIs DEF AInv, ShownPlaced, ResultsKept, FetchAnswers, NamesOf, Youth
<1>2. AInv => AnswersHold
  BY DEF AInv, Youth, AnswersHold, NamesLive
<1> QED
  BY <1>1, <1>2, SInit, SNext, ANext, PTL DEF Spec
================================================================================
