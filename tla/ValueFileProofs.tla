---------------------------- MODULE ValueFileProofs ----------------------------
(****************************************************************************)
(* Proofs about ValueFile, the calls that vmstat and meminfo share, for     *)
(* every set of names, every way to parse a file and every sequence of      *)
(* calls and failed reads.                                                  *)
(****************************************************************************)
EXTENDS ValueFile, TLAPS

\* What is assumed of the constants: a parse gives a number to every name, the
\* items come in arrays, get is asked for items there are, a change has a type
\* and there may be a context at all.
Sensible(Any) ==
  /\ \A t \in Text : Parse(t) \in [Field -> Int]
  /\ ItemLists \subseteq Seq(Any) /\ GetItems \subseteq Item
  /\ Half \in Nat \ {0}
  /\ MaxRef \in Nat \ {0}

--------------------------------------------------------------------------------
(* The inductive invariant.                                                 *)

\* The history is that of the two last reads.
HistoryKept == reads[1].data = new /\ reads[2].data = old

\* If get has read in this second, nothing has been read since but by select.
GetNoted ==
  /\ secs \in Nat \ {0} /\ sav_secs \in 0 .. secs
  /\ refcount > 0 /\ sav_secs = secs =>
       reads[1].at = secs /\ (reads[1].ok \/ reads[1].by = "select")

Shape ==
  /\ text \in Text
  /\ refcount \in 0 .. MaxRef /\ fd \in BOOLEAN
  /\ new \in [Field -> Int] /\ old \in [Field -> Int]
  /\ DOMAIN stack = DOMAIN items
  /\ refcount = 0 => ~fd /\ items = <<>>

FInv == HistoryKept /\ GetNoted /\ Shape /\ DeltaSpansReads /\ GetIsRecent /\ SelectAnswers

\* A read makes the numbers the past and notes itself.
LEMMA ReadIs ==
  ASSUME NEW Any, Sensible(Any), FInv, NEW r \in Outcome, NEW by, read_failed(r, by)
  PROVE  /\ HistoryKept' /\ fd' \in BOOLEAN /\ new' \in [Field -> Int] /\ old' \in [Field -> Int]
         /\ reads'[1].ok = (r = "ok") /\ reads'[1].at = secs /\ reads'[1].by = by
BY DEF FInv, HistoryKept, Shape, Sensible, read_failed, Zero

\* A change and what is answered for it.
Stored(change, answer) == answer \in Storable /\ (change \in Storable => answer = change)

\* The lowest bits of a change are the change if the type can hold it.
LEMMA SignedIs ==
  ASSUME Half \in Nat \ {0}, NEW d \in Int
  PROVE  Stored(d, Signed(d))
<1> DEFINE m == 2 * Half
           x == d + Half
<1>1. m \in Nat \ {0} /\ x \in Int
  OBVIOUS
<1>2. x % m \in 0 .. m - 1
  <2> HIDE DEF m, x
  <2> QED
    BY <1>1
<1>3. x \in 0 .. m - 1 => x % m = x
  <2> HIDE DEF m, x
  <2> QED
    BY <1>1
<1>4. PICK y : y = x % m
  OBVIOUS
<1>5. y \in 0 .. 2 * Half - 1 /\ (d + Half \in 0 .. 2 * Half - 1 => y = d + Half)
  BY <1>2, <1>3, <1>4
<1>6. Signed(d) = y - Half
  BY <1>4 DEF Signed
<1> QED
  BY <1>5, <1>6 DEF Stored, Storable

\* An answer that was made of the numbers there are.
Right(o, l, v) ==
  /\ o.call \in {"get", "select"} /\ o.items = l /\ o.vals = v
  /\ \A k \in DOMAIN l : l[k][1] = "delta" => Stored(new'[l[k][2]] - old'[l[k][2]], v[k])
  /\ \A k \in DOMAIN l : l[k][1] = "new" => v[k] = new'[l[k][2]]

\* Such an answer is right.
LEMMA RightIs ==
  ASSUME HistoryKept', NEW l, NEW v, Right(out', l, v)
  PROVE  /\ DeltaSpansReads'
         /\ \A k \in DOMAIN out'.items :
              out'.items[k][1] = "new" => out'.vals[k] = reads'[1].data[out'.items[k][2]]
BY DEF Right, HistoryKept, DeltaSpansReads, Stored

\* What Item_table gives for numbers and for their changes.
LEMMA ItemIs ==
  ASSUME Half \in Nat \ {0}, new' \in [Field -> Int], old' \in [Field -> Int],
         NEW item \in Item, NEW was
  PROVE  /\ item[1] = "delta" => Stored(new'[item[2]] - old'[item[2]], Item_table(item, was))
         /\ item[1] = "new" => Item_table(item, was) = new'[item[2]]
<1>1. ASSUME item[1] = "delta" PROVE Stored(new'[item[2]] - old'[item[2]], Item_table(item, was))
  <2>1. item[2] \in Field
    <3>1. item = <<"noop", "">> \/ item = <<"extra", "">> \/ item \in {"new", "delta"} \X Field
      BY Zenon DEF Item
    <3>2. \A x, y : x = <<"noop", y>> \/ x = <<"extra", y>> => x[1] # "delta"
      OBVIOUS
    <3>3. item = <<"noop", "">> \/ item = <<"extra", "">> => item[1] # "delta"
      BY <3>2, Zenon
    <3>4. item \in {"new", "delta"} \X Field => item[2] \in Field
      OBVIOUS
    <3> QED
      BY <1>1, <3>1, <3>3, <3>4, Zenon
  <2>2. new'[item[2]] - old'[item[2]] \in Int
    BY <2>1
  <2>3. Item_table(item, was) = Signed(new'[item[2]] - old'[item[2]])
    BY <1>1 DEF Item_table, HST_set
  <2> QED
    BY <2>2, <2>3, SignedIs
<1>2. item[1] = "new" => Item_table(item, was) = new'[item[2]]
  BY DEF Item_table, REG_set
<1> QED
  BY <1>1, <1>2

\* Calls that answer nothing.
LEMMA NothingIs ==
  ASSUME out' = Nothing
  PROVE  DeltaSpansReads' /\ GetIsRecent' /\ SelectAnswers'
BY DEF Nothing, DeltaSpansReads, GetIsRecent, SelectAnswers

\* Calls that neither read nor answer.
LEMMA QuietIs ==
  ASSUME FInv, out' = Nothing, UNCHANGED hist, UNCHANGED <<items, stack, sav_secs>>,
         refcount > 0 \/ refcount' = 0, refcount' \in 0 .. MaxRef, refcount = 0 => refcount' = 0,
         secs' >= secs, secs' \in Nat, text' \in Text, refcount' = 0 => ~fd /\ items = <<>>
  PROVE  FInv'
<1>1. HistoryKept' /\ Shape'
  BY DEF FInv, HistoryKept, Shape, hist
<1>2. GetNoted'
  BY DEF FInv, GetNoted, hist, Shape
<1> QED
  BY <1>1, <1>2, NothingIs DEF FInv

\* get.
LEMMA GetKeeps ==
  ASSUME NEW Any, Sensible(Any), FInv, NEW item \in GetItems, NEW r \in Outcome, get(item, r)
  PROVE  FInv'
<1>1. UNCHANGED <<text, secs, refcount, items, stack>> /\ refcount > 0
  BY DEF get, kernel
<1>2. /\ HistoryKept' /\ fd' \in BOOLEAN /\ new' \in [Field -> Int] /\ old' \in [Field -> Int]
      /\ GetNoted'
      /\ out' # Nothing => /\ reads'[1].at = secs
                           /\ reads'[1].ok \/ reads'[1].by = "select"
  <2>1. CASE secs - sav_secs >= 1
    <3>1. read_failed(r, "get") /\ sav_secs' = (IF r = "ok" THEN secs ELSE sav_secs)
      BY <2>1 DEF get
    <3>2. /\ HistoryKept' /\ fd' \in BOOLEAN /\ new' \in [Field -> Int] /\ old' \in [Field -> Int]
          /\ reads'[1].ok = (r = "ok") /\ reads'[1].at = secs /\ reads'[1].by = "get"
      BY <3>1, ReadIs
    <3>3. out' # Nothing => r = "ok"
      BY <2>1 DEF get
    <3>4. GetNoted'
      <4>1. secs \in Nat \ {0} /\ sav_secs \in 0 .. secs
        BY DEF FInv, GetNoted
      <4>2. CASE r = "ok"
        <5>1. reads'[1].ok
          BY <3>2, <4>2
        <5> QED
          BY <1>1, <3>1, <3>2, <4>1, <4>2, <5>1 DEF GetNoted
      <4>3. CASE r # "ok"
        <5>1. sav_secs' = sav_secs /\ sav_secs # secs
          BY <2>1, <3>1, <4>1, <4>3
        <5> QED
          BY <1>1, <4>1, <5>1 DEF GetNoted
      <4> QED
        BY <4>2, <4>3
    <3> QED
      BY <3>2, <3>3, <3>4
  <2>2. CASE ~(secs - sav_secs >= 1)
    <3>1. UNCHANGED hist /\ sav_secs' = sav_secs
      BY <2>2 DEF get
    <3>2. sav_secs = secs
      BY <2>2 DEF FInv, GetNoted
    <3> QED
      BY <1>1, <3>1, <3>2 DEF FInv, HistoryKept, Shape, GetNoted, hist
  <2> QED
    BY <2>1, <2>2
<1>3. Shape'
  BY <1>1, <1>2 DEF FInv, Shape
<1>4. CASE out' = Nothing
  BY <1>2, <1>3, <1>4, NothingIs DEF FInv
<1>5. CASE out' # Nothing
  <2>1. out' = [call |-> "get", items |-> <<item>>, vals |-> <<Item_table(item, 0)>>]
    BY <1>5 DEF get
  <2>2. Right(out', <<item>>, <<Item_table(item, 0)>>)
    <3>1. Half \in Nat \ {0} /\ item \in Item
      BY DEF Sensible
    <3> QED
      BY <1>2, <2>1, <3>1, ItemIs DEF Right
  <2>3. DeltaSpansReads'
    BY <1>2, <2>2, RightIs
  <2>4. GetIsRecent' /\ SelectAnswers'
    BY <1>1, <1>2, <1>5, <2>1 DEF GetIsRecent, SelectAnswers
  <2> QED
    BY <1>2, <1>3, <2>3, <2>4 DEF FInv
<1> QED
  BY <1>4, <1>5

\* select.
LEMMA SelectKeeps ==
  ASSUME NEW Any, Sensible(Any), FInv, NEW list \in ItemLists, NEW r \in Outcome, select(list, r)
  PROVE  FInv'
<1>1. UNCHANGED <<text, secs, refcount, sav_secs>> /\ refcount > 0
  BY DEF select, kernel
<1>2. CASE items_check_failed(list)
  <2>1. out' = Nothing /\ UNCHANGED hist /\ UNCHANGED <<items, stack>>
    BY <1>2 DEF select
  <2>2. refcount' \in 0 .. MaxRef /\ refcount # 0
    BY <1>1 DEF FInv, Shape
  <2>3. secs' >= secs /\ secs' \in Nat /\ text' \in Text
    BY <1>1 DEF FInv, GetNoted, Shape
  <2> QED
    BY <1>1, <2>1, <2>2, <2>3, QuietIs
<1>3. CASE ~items_check_failed(list)
  <2> DEFINE fresh == IF Changed(list) THEN stacks_alloc(list) ELSE stack
  <2>1. /\ items' = list /\ read_failed(r, "select")
        /\ stack' = (IF r = "ok" THEN assign_results(items', fresh) ELSE fresh)
        /\ out' = IF r = "ok" THEN [call |-> "select", items |-> list, vals |-> stack']
                  ELSE Nothing
    BY <1>3 DEF select, Changed
  <2>2. /\ HistoryKept' /\ fd' \in BOOLEAN /\ new' \in [Field -> Int] /\ old' \in [Field -> Int]
        /\ reads'[1].ok = (r = "ok") /\ reads'[1].at = secs /\ reads'[1].by = "select"
    BY <2>1, ReadIs
  <2>3. DOMAIN fresh = DOMAIN list
    BY DEF Changed, stacks_alloc, FInv, Shape
  <2> HIDE DEF fresh
  <2>4. stack' = (IF r = "ok" THEN assign_results(list, fresh) ELSE fresh)
    BY <2>1
  <2>5. DOMAIN stack' = DOMAIN list
    BY <2>3, <2>4 DEF assign_results
  <2>6. Shape' /\ GetNoted'
    BY <1>1, <2>1, <2>2, <2>5 DEF FInv, Shape, GetNoted
  <2>7. CASE r # "ok"
    BY <2>1, <2>2, <2>6, <2>7, NothingIs DEF FInv
  <2>8. CASE r = "ok"
    <3>1. /\ stack' = [k \in DOMAIN list |-> Item_table(list[k], fresh[k])]
          /\ out' = [call |-> "select", items |-> list, vals |-> stack']
      BY <2>1, <2>4, <2>8 DEF assign_results
    <3>2. Right(out', list, stack')
      <4>1. Half \in Nat \ {0} /\ \A k \in DOMAIN list : list[k] \in Item
        BY <1>3 DEF Sensible, items_check_failed
      <4>2. \A k \in DOMAIN list : stack'[k] = Item_table(list[k], fresh[k])
        BY <3>1
      <4> QED
        BY <2>2, <3>1, <4>1, <4>2, ItemIs DEF Right
    <3>3. Len(stack') = Len(list)
      <4>1. list \in Seq(Any)
        BY DEF Sensible
      <4>2. DOMAIN list = 1 .. Len(list) /\ Len(list) \in Nat
        BY <4>1
      <4>3. stack' = [k \in 1 .. Len(list) |-> Item_table(list[k], fresh[k])]
        BY <3>1, <4>2
      <4> QED
        BY <4>2, <4>3
    <3>4. DeltaSpansReads' /\ GetIsRecent' /\ SelectAnswers'
      <4>1. /\ DeltaSpansReads'
            /\ \A k \in DOMAIN out'.items :
                 out'.items[k][1] = "new" => out'.vals[k] = reads'[1].data[out'.items[k][2]]
        BY <2>2, <3>2, RightIs
      <4>2. out'.call = "select" /\ out'.items = list /\ out'.vals = stack'
        BY <3>1
      <4> QED
        BY <2>2, <2>8, <3>3, <4>1, <4>2 DEF GetIsRecent, SelectAnswers
    <3> QED
      BY <2>2, <2>6, <3>4 DEF FInv
  <2> QED
    BY <2>7, <2>8
<1> QED
  BY <1>2, <1>3

\* new_context.
LEMMA NewKeeps ==
  ASSUME NEW Any, Sensible(Any), FInv, NEW r \in Outcome, new_context(r)
  PROVE  FInv'
<1>1. /\ UNCHANGED <<text, secs>> /\ out' = Nothing /\ old' = Zero /\ items' = <<>> /\ stack' = <<>>
      /\ sav_secs' = 0
      /\ reads' = <<[ok |-> r = "ok", data |-> new', at |-> secs, by |-> "new"], NoRead>>
  BY DEF new_context, kernel
<1>2. \/ refcount' = 1 /\ new' = Parse(text) /\ fd' = TRUE
      \/ refcount' = 0 /\ new' = Zero /\ fd' = FALSE
  BY DEF new_context
<1>3. HistoryKept'
  BY <1>1 DEF HistoryKept, NoRead
<1>4. Shape'
  <2>1. text' \in Text /\ Parse(text) \in [Field -> Int] /\ Zero \in [Field -> Int]
        /\ 1 \in 0 .. MaxRef /\ 0 \in 0 .. MaxRef
    BY <1>1 DEF FInv, Shape, Sensible, Zero
  <2>2. new' \in [Field -> Int] /\ old' \in [Field -> Int]
    BY <1>1, <1>2, <2>1
  <2>3. stack' = items'
    BY <1>1
  <2>4. refcount' \in 0 .. MaxRef /\ fd' \in BOOLEAN
    BY <1>2, <2>1
  <2>5. refcount' = 0 => ~fd'
    BY <1>2
  <2>6. items' = <<>>
    BY <1>1
  <2> QED
    BY <2>1, <2>2, <2>3, <2>4, <2>5, <2>6 DEF Shape
<1>5. GetNoted'
  BY <1>1 DEF FInv, GetNoted
<1> QED
  BY <1>1, <1>3, <1>4, <1>5, NothingIs DEF FInv

\* ref, unref and the kernel.
LEMMA OthersKeep ==
  ASSUME NEW Any, Sensible(Any), FInv, ref \/ unref \/ Tick \/ \E t \in Text : Change(t)
  PROVE  FInv'
<1>1. /\ refcount \in 0 .. MaxRef /\ (refcount = 0 => ~fd /\ items = <<>>)
      /\ secs \in Nat \ {0} /\ text \in Text /\ MaxRef \in Nat
  BY DEF FInv, Shape, GetNoted, Sensible
<1>2. CASE ref
  <2>1. /\ refcount' = refcount + 1 /\ refcount \in 1 .. MaxRef - 1 /\ out' = Nothing
        /\ UNCHANGED <<text, secs>> /\ UNCHANGED hist /\ UNCHANGED <<items, stack, sav_secs>>
    BY <1>2 DEF ref, kernel
  <2> QED
    BY <1>1, <2>1, QuietIs
<1>3. CASE unref /\ refcount > 1
  <2>1. /\ refcount' = refcount - 1 /\ out' = Nothing
        /\ UNCHANGED <<text, secs>> /\ UNCHANGED hist /\ UNCHANGED <<items, stack, sav_secs>>
    BY <1>3 DEF unref, kernel, hist
  <2> QED
    BY <1>1, <1>3, <2>1, QuietIs
<1>4. CASE unref /\ ~(refcount > 1)
  <2>1. /\ refcount' = 0 /\ out' = Nothing /\ fd' = FALSE /\ new' = Zero /\ old' = Zero
        /\ UNCHANGED <<text, secs>> /\ reads' = <<NoRead, NoRead>>
        /\ items' = <<>> /\ stack' = <<>> /\ sav_secs' = 0
    BY <1>1, <1>4 DEF unref, kernel
  <2>2. HistoryKept' /\ GetNoted'
    BY <1>1, <2>1 DEF HistoryKept, NoRead, GetNoted
  <2>3. Shape'
    <3>1. Zero \in [Field -> Int] /\ 0 \in 0 .. MaxRef
      BY <1>1 DEF Zero
    <3>2. stack' = items'
      BY <2>1
    <3>3. fd' \in BOOLEAN /\ ~fd'
      BY <2>1
    <3> QED
      BY <1>1, <2>1, <3>1, <3>2, <3>3 DEF Shape
  <2> QED
    BY <2>1, <2>2, <2>3, NothingIs DEF FInv
<1>5. CASE Tick
  <2>1. /\ secs' = secs + 1 /\ text' = text /\ out' = Nothing /\ refcount' = refcount
        /\ UNCHANGED hist /\ UNCHANGED <<items, stack, sav_secs>>
    BY <1>5 DEF Tick, context
  <2> QED
    BY <1>1, <2>1, QuietIs
<1>6. CASE \E t \in Text : Change(t)
  <2>1. /\ secs' = secs /\ text' \in Text /\ out' = Nothing /\ refcount' = refcount
        /\ UNCHANGED hist /\ UNCHANGED <<items, stack, sav_secs>>
    BY <1>6 DEF Change, context
  <2> QED
    BY <1>1, <2>1, QuietIs
<1> QED
  BY <1>2, <1>3, <1>4, <1>5, <1>6

\* FInv holds at the start.
LEMMA FInvInit ==
  ASSUME NEW Any, Sensible(Any), Init
  PROVE  FInv
<1>1. HistoryKept /\ GetNoted
  BY DEF Init, HistoryKept, GetNoted, NoRead
<1>2. Shape
  <2>1. Zero \in [Field -> Int] /\ 0 \in 0 .. MaxRef
    BY DEF Zero, Sensible
  <2>2. stack = items
    BY DEF Init
  <2>3. fd \in BOOLEAN /\ ~fd
    BY DEF Init
  <2> QED
    BY <2>1, <2>2, <2>3 DEF Init, Shape
<1> QED
  BY <1>1, <1>2 DEF Init, FInv, Nothing, DeltaSpansReads, GetIsRecent, SelectAnswers

\* Every step keeps it.
LEMMA FInvNext ==
  ASSUME NEW Any, Sensible(Any), FInv, [Next]_vars
  PROVE  FInv'
<1>1. CASE UNCHANGED vars
  BY <1>1 DEF vars, kernel, hist, context, FInv, HistoryKept, GetNoted, Shape,
              DeltaSpansReads, GetIsRecent, SelectAnswers
<1>2. CASE Next
  BY <1>2, NewKeeps, GetKeeps, SelectKeeps, OthersKeep DEF Next
<1> QED
  BY <1>1, <1>2

\* It gives what is promised.
LEMMA FInvAnswers == FInv => DeltaSpansReads /\ AnswersRight
BY DEF FInv, AnswersRight, TypeOK, Shape, GetNoted

\* FInv holds throughout.
LEMMA AlwaysFInv ==
  ASSUME NEW Any, Sensible(Any)
  PROVE  Spec => []FInv
<1>1. Init => FInv
  BY FInvInit
<1>2. FInv /\ [Next]_vars => FInv'
  BY FInvNext
<1> QED
  BY <1>1, <1>2, PTL DEF Spec

--------------------------------------------------------------------------------
(* The theorems.                                                            *)

\* A change that get or select answers is that between the two last reads,
\* whichever calls made them and whichever of them failed.
THEOREM ChangesCorrect ==
  ASSUME NEW Any, Sensible(Any)
  PROVE  Spec => []DeltaSpansReads
BY FInvAnswers, AlwaysFInv, PTL

\* get answers with numbers of this second unless a failed select has cleared
\* them, select answers all it is asked from a read of its own, and a context
\* that has been freed holds nothing.
THEOREM AnswersCorrect ==
  ASSUME NEW Any, Sensible(Any)
  PROVE  Spec => []AnswersRight
BY FInvAnswers, AlwaysFInv, PTL
================================================================================
