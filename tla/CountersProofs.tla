---------------------------- MODULE CountersProofs -----------------------------
(****************************************************************************)
(* Theorems about the contexts of libproc2 over files that count: vmstat,   *)
(* meminfo, slabinfo and stat, for all contents of the files, item lists    *)
(* and sequences of calls.                                                  *)
(****************************************************************************)
EXTENDS Counters, WellFoundedInduction, FiniteSetTheorems, FunctionTheorems, TLAPS

--------------------------------------------------------------------------------
(* vmstat and meminfo: the proofs are those of ValueFile.                   *)

VmF == INSTANCE ValueFileProofs WITH Text <- VmText, ItemLists <- VmLists, MaxSecs <- VmSecs,
         MaxRef <- VmRef, Half <- VmHalf, Field <- Vm!vmstat_data, Parse <- Vm!parse, GetItems <- Vm!vmstat_item
MemF == INSTANCE ValueFileProofs WITH Text <- MemText, ItemLists <- MemLists, MaxSecs <- MemSecs,
          MaxRef <- MemRef, Half <- MemHalf, Field <- Mem!meminfo_data, Parse <- Mem!parse,
          GetItems <- Mem!meminfo_item

\* vmstat is what the proofs of ValueFile assume.
LEMMA VmSensible == VmF!Sensible(STRING \X STRING)
<1>1. ASSUME NEW t \in VmText PROVE Vm!parse(t) \in [Vm!vmstat_data -> Int]
  <2>1. ASSUME NEW f \in Vm!vmstat_data, \E n \in DOMAIN t : f \in Vm!htVAL(n)
        PROVE  t[f] \in Int
    BY <2>1, FilesAssumption DEF Vm!htVAL
  <2> QED
    BY <2>1 DEF Vm!parse
<1>2. Vm!vmstat_item \subseteq VmF!Item
  BY DEF Vm!vmstat_item, VmF!Item
<1> QED
  BY <1>1, <1>2, FilesAssumption DEF VmF!Sensible

\* So is meminfo: what is derived is put where it belongs.
LEMMA MemSensible == MemF!Sensible(STRING \X STRING)
<1>1. ASSUME NEW m \in [Mem!meminfo_data -> Nat]
      PROVE  Mem!meminfo_derive(m) \in [Mem!meminfo_data -> Int]
  <2>1. \A f \in Mem!meminfo_data : m[f] \in Int
    OBVIOUS
  <2>2. \A f \in {"MemTotal", "MemFree", "MemAvailable", "Cached", "SReclaimable", "LowTotal",
                  "LowFree", "SwapTotal", "SwapFree", "HighTotal", "HighFree"} : m[f] \in Nat
    BY DEF Mem!meminfo_data, Mem!htVAL
  <2>3. Mem!Available(m) \in Nat
    BY <2>2 DEF Mem!Available
  <2>4. \A t, f \in Nat : Mem!PartUsed(t, f) \in Int
    BY DEF Mem!PartUsed
  <2>5. \A t, a, f \in Nat : Mem!Used(t, a, f) \in Int
    <3>1. \A d \in Int : d % Word \in Int
      BY FilesAssumption
    <3> QED
      BY <3>1 DEF Mem!Used
  <2>6. m["Cached"] + m["SReclaimable"] \in Int
    BY <2>2
  <2> DEFINE lt == IF m["LowTotal"] # 0 THEN m["LowTotal"] ELSE m["MemTotal"]
             lf == IF m["LowTotal"] # 0 THEN m["LowFree"] ELSE m["MemFree"]
             av == Mem!Available(m)
             ca == m["Cached"] + m["SReclaimable"]
             us == Mem!Used(m["MemTotal"], av, m["MemFree"])
             hi == Mem!PartUsed(m["HighTotal"], m["HighFree"])
             lo == Mem!PartUsed(lt, lf)
             sw == Mem!PartUsed(m["SwapTotal"], m["SwapFree"])
             d == [m EXCEPT !["MemAvailable"] = av, !["mem_cached"] = ca, !["mem_used"] = us,
                            !["hi_used"] = hi, !["LowTotal"] = lt, !["LowFree"] = lf,
                            !["lo_used"] = lo, !["swap_used"] = sw]
  <2>8. lt \in Nat /\ lf \in Nat
    BY <2>2
  <2> HIDE DEF lt, lf
  <2>7. av \in Nat /\ \A f \in {"MemTotal", "MemFree", "SwapTotal", "SwapFree", "HighTotal",
                               "HighFree"} : m[f] \in Nat
    BY <2>2, <2>3
  <2>9. av \in Int /\ lt \in Int /\ lf \in Int /\ ca \in Int
    BY <2>6, <2>7, <2>8
  <2>12. us \in Int
    BY <2>5, <2>7
  <2>13. hi \in Int /\ sw \in Int
    BY <2>4, <2>7
  <2>14. lo \in Int
    BY <2>4, <2>8
  <2>10. Mem!meminfo_derive(m) = d
    BY DEF Mem!meminfo_derive, lt, lf
  <2> HIDE DEF av, ca, us, hi, lo, sw
  <2>11. d \in [Mem!meminfo_data -> Int]
    BY <2>1, <2>9, <2>12, <2>13, <2>14
  <2> QED
    BY <2>10, <2>11
<1>2. ASSUME NEW t \in MemText PROVE Mem!parse(t) \in [Mem!meminfo_data -> Int]
  BY <1>1, FilesAssumption DEF Mem!parse
<1>3. Mem!meminfo_item \subseteq MemF!Item
  <2>1. {"mem_used", "MemAvailable", "swap_used"} \subseteq Mem!meminfo_data
    BY DEF Mem!meminfo_data, Mem!htVAL
  <2>2. \A f \in Mem!meminfo_data : <<"new", f>> \in MemF!Item /\ <<"delta", f>> \in MemF!Item
    BY Zenon DEF MemF!Item
  <2>3. ASSUME NEW i \in Mem!meminfo_item PROVE i \in MemF!Item
    BY <2>1, <2>2 DEF Mem!meminfo_item
  <2> QED
    BY <2>3
<1> QED
  BY <1>2, <1>3, FilesAssumption DEF MemF!Sensible

\* The steps of vmstat are steps of ValueFile.
LEMMA VmSteps == (Vm!Init => VmF!Init) /\ (Vm!Next => VmF!Next)
<1>1. Vm!Init => VmF!Init
  BY DEF Vm!Init, Vm!F!Init, VmF!Init, Vm!F!Zero, VmF!Zero, Vm!F!NoRead, VmF!NoRead,
         Vm!F!Nothing, VmF!Nothing
<1>2. Vm!F!Next = VmF!Next
  BY Zenon DEF Vm!F!Next, VmF!Next, Vm!F!Outcome, VmF!Outcome, Vm!F!new_context, VmF!new_context,
         Vm!F!ref, VmF!ref, Vm!F!unref, VmF!unref, Vm!F!get, VmF!get, Vm!F!select, VmF!select,
         Vm!F!Change, VmF!Change, Vm!F!Tick, VmF!Tick, Vm!F!kernel, VmF!kernel,
         Vm!F!hist, VmF!hist, Vm!F!context, VmF!context, Vm!F!Zero, VmF!Zero,
         Vm!F!NoRead, VmF!NoRead, Vm!F!Nothing, VmF!Nothing, Vm!F!read_failed, VmF!read_failed,
         Vm!F!Item_table, VmF!Item_table, Vm!F!REG_set, VmF!REG_set, Vm!F!HST_set, VmF!HST_set, Vm!F!Signed, VmF!Signed,
         Vm!F!assign_results, VmF!assign_results, Vm!F!stacks_alloc, VmF!stacks_alloc,
         Vm!F!Changed, VmF!Changed, Vm!F!items_check_failed, VmF!items_check_failed,
         Vm!F!Item, VmF!Item
<1> QED
  BY <1>1, <1>2 DEF Vm!Next

\* The steps of meminfo are steps of ValueFile too.
LEMMA MemSteps == (Mem!Init => MemF!Init) /\ (Mem!Next => MemF!Next)
<1>1. Mem!Init => MemF!Init
  BY DEF Mem!Init, Mem!F!Init, MemF!Init, Mem!F!Zero, MemF!Zero, Mem!F!NoRead, MemF!NoRead,
         Mem!F!Nothing, MemF!Nothing
<1>2. Mem!F!Next = MemF!Next
  BY Zenon DEF Mem!F!Next, MemF!Next, Mem!F!Outcome, MemF!Outcome,
         Mem!F!new_context, MemF!new_context, Mem!F!ref, MemF!ref, Mem!F!unref, MemF!unref,
         Mem!F!get, MemF!get, Mem!F!select, MemF!select,
         Mem!F!Change, MemF!Change, Mem!F!Tick, MemF!Tick, Mem!F!kernel, MemF!kernel,
         Mem!F!hist, MemF!hist, Mem!F!context, MemF!context, Mem!F!Zero, MemF!Zero,
         Mem!F!NoRead, MemF!NoRead, Mem!F!Nothing, MemF!Nothing,
         Mem!F!read_failed, MemF!read_failed, Mem!F!Item_table, MemF!Item_table,
         Mem!F!REG_set, MemF!REG_set, Mem!F!HST_set, MemF!HST_set, Mem!F!Signed, MemF!Signed,
         Mem!F!assign_results, MemF!assign_results, Mem!F!stacks_alloc, MemF!stacks_alloc,
         Mem!F!Changed, MemF!Changed, Mem!F!items_check_failed, MemF!items_check_failed,
         Mem!F!Item, MemF!Item
<1>3. Mem!Next => Mem!F!Next
  BY DEF Mem!Next, Mem!F!Next, Mem!procps_meminfo_new, Mem!procps_meminfo_ref,
         Mem!procps_meminfo_unref, Mem!procps_meminfo_get, Mem!procps_meminfo_select
<1> QED
  BY <1>1, <1>2, <1>3

\* No part of m is greater than its whole.
Fits(m) ==
  m["MemFree"] <= m["MemTotal"] =>
    /\ m["mem_used"] <= m["MemTotal"]
    /\ m["MemAvailable"] <= m["MemTotal"]
    /\ m["lo_used"] <= m["LowTotal"]
    /\ m["swap_used"] <= m["SwapTotal"]

\* What is left of a whole when a part is taken from it, in words, is no greater.
LEMMA UsedFits ==
  ASSUME NEW total \in Nat, NEW available \in Nat, NEW free \in Nat,
         available <= total
  PROVE  /\ Mem!Used(total, available, free) <= total
         /\ Mem!PartUsed(total, free) <= total
<1>1. \A d \in Nat : d <= total => d % Word <= total
  BY FilesAssumption
<1> QED
  BY <1>1 DEF Mem!Used, Mem!PartUsed

\* What a read derives fits: with more available than there is, or nothing said
\* of it, what is free is taken instead.
LEMMA DeriveFits ==
  ASSUME NEW m \in [Mem!meminfo_data -> Nat]
  PROVE  Fits(Mem!meminfo_derive(m))
<1> DEFINE d == Mem!meminfo_derive(m)
<1> SUFFICES ASSUME d["MemFree"] <= d["MemTotal"]
             PROVE  Fits(d)
  BY DEF Fits
<1>0. {"MemTotal", "MemFree", "MemAvailable", "Cached", "SReclaimable", "LowTotal", "LowFree",
       "SwapTotal", "SwapFree", "HighTotal", "HighFree", "mem_used", "mem_cached", "hi_used",
       "lo_used", "swap_used"} = Mem!meminfo_data
  BY DEF Mem!meminfo_data, Mem!htVAL
<1>1. /\ d["MemFree"] = m["MemFree"] /\ d["MemTotal"] = m["MemTotal"]
      /\ d["SwapTotal"] = m["SwapTotal"]
      /\ d["MemAvailable"] = Mem!Available(m)
      /\ d["mem_used"] = Mem!Used(m["MemTotal"], Mem!Available(m), m["MemFree"])
      /\ d["swap_used"] = Mem!PartUsed(m["SwapTotal"], m["SwapFree"])
      /\ \E t, f \in Nat : d["LowTotal"] = t /\ d["lo_used"] = Mem!PartUsed(t, f)
  BY <1>0 DEF Mem!meminfo_derive
<1>2. Mem!Available(m) \in Nat /\ Mem!Available(m) <= m["MemTotal"]
  BY <1>0, <1>1 DEF Mem!Available
<1>3. /\ m["MemTotal"] \in Nat /\ m["MemFree"] \in Nat /\ m["SwapTotal"] \in Nat
      /\ m["SwapFree"] \in Nat
  BY <1>0
<1>4. d["mem_used"] <= d["MemTotal"]
  BY <1>1, <1>2, <1>3, UsedFits
<1>5. \A t, f \in Nat : Mem!PartUsed(t, f) <= t
  BY DEF Mem!PartUsed
<1> HIDE DEF d
<1>6. d["lo_used"] <= d["LowTotal"] /\ d["swap_used"] <= d["SwapTotal"]
  BY <1>1, <1>3, <1>5
<1> QED
  BY <1>1, <1>2, <1>4, <1>6 DEF Fits

\* The numbers of a file fit, and so do zeroes.
LEMMA ParseFits == Fits(MemF!Zero) /\ \A t \in MemText : Fits(Mem!parse(t))
<1>1. Fits(MemF!Zero)
  <2>1. \A f \in Mem!meminfo_data : MemF!Zero[f] = 0
    BY DEF MemF!Zero
  <2> QED
    BY <2>1 DEF Fits, Mem!meminfo_data, Mem!htVAL
<1>2. ASSUME NEW t \in MemText PROVE Fits(Mem!parse(t))
  <2> DEFINE m == [f \in Mem!meminfo_data |-> IF f \in DOMAIN t \cap Mem!htVAL THEN t[f] ELSE 0]
  <2>1. m \in [Mem!meminfo_data -> Nat]
    BY FilesAssumption
  <2> QED
    BY <2>1, DeriveFits DEF Mem!parse
<1> QED
  BY <1>1, <1>2

\* The numbers of the last read fit.
LEMMA FitsStays ==
  ASSUME MemF!FInv, Fits(new), [MemF!Next]_(MemF!vars)
  PROVE  Fits(new')
<1>1. CASE UNCHANGED MemF!vars
  BY <1>1 DEF MemF!vars, MemF!hist
<1>2. CASE MemF!Next
  <2>0. text \in MemText
    BY DEF MemF!FInv, MemF!Shape
  <2>1. \/ new' = new \/ new' = MemF!Zero \/ new' = Mem!parse(text)
    BY <1>2 DEF MemF!Next, MemF!new_context, MemF!ref, MemF!unref, MemF!get, MemF!select,
                MemF!read_failed, MemF!Change, MemF!Tick, MemF!hist
  <2> QED
    BY <2>0, <2>1, ParseFits
<1> QED
  BY <1>1, <1>2

--------------------------------------------------------------------------------
(* Induction.  A set of naturals with a least element gives it, and with it  *)
(* what the folds and the recursive functions of the model compute.         *)

\* A set of naturals that is not empty has a least one.
LEMMA LeastNat ==
  ASSUME NEW S \in SUBSET Nat, S # {}
  PROVE  \E m \in S : \A k \in S : m <= k
<1>1. PICK m \in S : \A k \in S : ~(<<k, m>> \in OpToRel(<, Nat))
  BY NatLessThanWellFounded, WFMin
<1>2. \A k \in S : ~(k < m)
  BY <1>1 DEF OpToRel
<1> QED
  BY <1>2

\* Induction over a set of naturals.
LEMMA NatSteps ==
  ASSUME NEW S, 0 \in S, \A n \in Nat : n \in S => n + 1 \in S
  PROVE  Nat \subseteq S
<1> SUFFICES ASSUME Nat \ S # {} PROVE FALSE
  OBVIOUS
<1>1. PICK m \in Nat \ S : \A k \in Nat \ S : m <= k
  BY LeastNat
<1>2. m - 1 \in Nat
  BY <1>1
<1> QED
  BY <1>1, <1>2

\* Some of the numbers up to k + 1 without the largest are some of those up to k.
LEMMA MaxOfSome ==
  ASSUME NEW k \in Nat, NEW s \in SUBSET (1 .. k + 1), s # {}
  PROVE  Slab!Max(s) \in s /\ (\A x \in s : x <= Slab!Max(s)) /\ s \ {Slab!Max(s)} \in SUBSET (1 .. k)
<1> DEFINE up == {(k + 1) - x : x \in s}
<1>0. \A x \in s : x \in Nat /\ x > 0 /\ x <= k + 1
  OBVIOUS
<1>1. up \in SUBSET Nat /\ up # {}
  <2>1. \A x \in s : (k + 1) - x \in Nat
    BY <1>0
  <2> QED
    BY <2>1
<1>2. PICK m \in up : \A y \in up : m <= y
  BY <1>1, LeastNat
<1>3. PICK x \in s : m = (k + 1) - x
  BY <1>2
<1>4. \A y \in s : (k + 1) - x <= (k + 1) - y
  BY <1>2, <1>3
<1>5. \A y \in s : x >= y
  BY <1>4
<1>6. Slab!Max(s) \in s /\ \A y \in s : Slab!Max(s) >= y
  BY <1>5 DEF Slab!Max
<1> DEFINE top == Slab!Max(s)
<1> HIDE DEF top
<1>7. top \in s /\ \A y \in s : top >= y
  BY <1>6 DEF top
<1>8. ASSUME NEW y \in s \ {top} PROVE y \in 1 .. k
  BY <1>0, <1>7
<1>9. \A x_1 \in s : x_1 <= top
  BY <1>0, <1>7
<1> QED
  BY <1>7, <1>8, <1>9 DEF top

\* The largest of the first k.
LEMMA MaxOfFirst ==
  ASSUME NEW k \in Nat, k > 0
  PROVE  Slab!Max(1 .. k) = k /\ (1 .. k) \ {k} = 1 .. (k - 1)
<1>1. k \in 1 .. k /\ \A y \in 1 .. k : k >= y
  OBVIOUS
<1>2. \A x \in 1 .. k : (\A y \in 1 .. k : x >= y) => x = k
  BY <1>1
<1>3. Slab!Max(1 .. k) = k
  BY <1>1, <1>2 DEF Slab!Max
<1> QED
  BY <1>3

--------------------------------------------------------------------------------
(* slabinfo: the totals.                                                    *)

\* The function that FoldLeft of Add computes with.
Adding(it, base, seq, D) ==
  it = [s \in SUBSET D |->
          IF s = {} THEN base ELSE Slab!Add(it[s \ {Slab!Max(s)}], seq[Slab!Max(s)])]

Totals(base, seq) == Slab!FoldLeft(Slab!Add, base, seq)

\* There is such a function: one for the first k + 1 positions is made of one
\* for the first k.
LEMMA AddingExists ==
  ASSUME NEW base, NEW seq
  PROVE  \A n \in Nat : \E it : Adding(it, base, seq, 1 .. n)
<1> DEFINE S == {k \in Nat : \E it : Adding(it, base, seq, 1 .. k)}
<1>1. 0 \in S
  <2> DEFINE z == [s \in SUBSET (1 .. 0) |-> base]
  <2>1. \A s \in SUBSET (1 .. 0) : s = {}
    OBVIOUS
  <2>2. Adding(z, base, seq, 1 .. 0)
    BY <2>1 DEF Adding
  <2> QED
    BY <2>2
<1>2. ASSUME NEW k \in Nat, k \in S PROVE k + 1 \in S
  <2>1. PICK g : Adding(g, base, seq, 1 .. k)
    BY <1>2
  <2> DEFINE h == [s \in SUBSET (1 .. k + 1) |->
                     IF s = {} THEN base ELSE Slab!Add(g[s \ {Slab!Max(s)}], seq[Slab!Max(s)])]
  <2>2. ASSUME NEW s \in SUBSET (1 .. k + 1), s # {}
        PROVE  h[s \ {Slab!Max(s)}] = g[s \ {Slab!Max(s)}]
    <3> DEFINE t == s \ {Slab!Max(s)}
    <3>1. t \in SUBSET (1 .. k)
      BY <2>2, MaxOfSome
    <3>2. t \in SUBSET (1 .. k + 1)
      BY <3>1
    <3> HIDE DEF t
    <3>3. h[t] = IF t = {} THEN base ELSE Slab!Add(g[t \ {Slab!Max(t)}], seq[Slab!Max(t)])
      BY <3>2
    <3>4. g[t] = IF t = {} THEN base ELSE Slab!Add(g[t \ {Slab!Max(t)}], seq[Slab!Max(t)])
      BY <2>1, <3>1 DEF Adding
    <3> QED
      BY <3>3, <3>4 DEF t
  <2>3. h = [s \in SUBSET (1 .. k + 1) |->
               IF s = {} THEN base ELSE Slab!Add(h[s \ {Slab!Max(s)}], seq[Slab!Max(s)])]
    BY <2>2
  <2> HIDE DEF h
  <2>4. Adding(h, base, seq, 1 .. k + 1)
    BY <2>3 DEF Adding
  <2> QED
    BY <2>4
<1> QED
  BY <1>1, <1>2, NatSteps

\* f has the totals after each line.
Running(f, n, base, seq) ==
  /\ f[0] = base /\ f[n] = Totals(base, seq)
  /\ \A k \in 1 .. n : f[k] = Slab!Add(f[k - 1], seq[k])

\* A fold of Add takes one step for each member of the sequence.
LEMMA AddingSteps ==
  ASSUME NEW base, NEW n \in Nat, NEW seq, DOMAIN seq = 1 .. n
  PROVE  \E f : Running(f, n, base, seq)
<1> DEFINE it == CHOOSE x : Adding(x, base, seq, 1 .. n)
           f == [k \in 0 .. n |-> it[1 .. k]]
<1>1. Adding(it, base, seq, 1 .. n)
  BY AddingExists
<1>2. Totals(base, seq) = it[1 .. n]
  BY DEF Totals, Slab!FoldLeft, Slab!MapThenFoldSet, Adding
<1> HIDE DEF it
<1>3. f[0] = base /\ f[n] = it[1 .. n]
  <2>1. 1 .. 0 = {} /\ {} \in SUBSET (1 .. n) /\ 0 \in 0 .. n /\ n \in 0 .. n
    OBVIOUS
  <2>2. it[{}] = base
    BY <1>1, <2>1 DEF Adding
  <2> QED
    BY <2>1, <2>2
<1>4. ASSUME NEW k \in 1 .. n PROVE f[k] = Slab!Add(f[k - 1], seq[k])
  <2>1. 1 .. k \in SUBSET (1 .. n) /\ 1 .. k # {}
    <3>1. k \in 1 .. k
      OBVIOUS
    <3>2. \A j \in 1 .. k : j \in 1 .. n
      OBVIOUS
    <3> QED
      BY <3>1, <3>2
  <2>0. k \in 0 .. n /\ k - 1 \in 0 .. n
    OBVIOUS
  <2>2. Slab!Max(1 .. k) = k /\ (1 .. k) \ {k} = 1 .. (k - 1)
    BY MaxOfFirst
  <2>3. it[1 .. k] = Slab!Add(it[(1 .. k) \ {Slab!Max(1 .. k)}], seq[Slab!Max(1 .. k)])
    BY <1>1, <2>1 DEF Adding
  <2>4. it[1 .. k] = Slab!Add(it[1 .. (k - 1)], seq[k])
    BY <2>2, <2>3
  <2> QED
    BY <2>0, <2>4
<1> HIDE DEF f
<1> QED
  BY <1>2, <1>3, <1>4 DEF Running
\* Totals, and that the size of all objects lies between what it were if all
\* had the size of the smallest and of the largest.
Caches == [name : STRING, nr_objs : Nat, obj_size : Nat]
Tallies == [nr_caches : Nat, nr_objs : Nat, total_size : Nat, min : Nat, max : Nat, avg : Nat]
Around(s) == s.min * s.nr_objs <= s.total_size /\ s.total_size <= s.max * s.nr_objs

\* One more cache keeps a total between its bounds.
LEMMA AroundMore ==
  ASSUME NEW total \in Nat, NEW objs \in Nat, NEW n \in Nat, NEW size \in Nat,
         NEW min \in Nat, NEW max \in Nat, NEW lo \in Nat, NEW hi \in Nat,
         min * objs <= total, total <= max * objs,
         lo <= min, lo <= size, max <= hi, size <= hi
  PROVE  lo * (objs + n) <= total + n * size /\ total + n * size <= hi * (objs + n)
<1>1. \A a, b, c \in Nat : a <= b => a * c <= b * c
  OBVIOUS
<1>2. lo * objs <= min * objs /\ lo * n <= size * n /\ max * objs <= hi * objs /\ size * n <= hi * n
  BY <1>1
<1>3. /\ lo * (objs + n) = lo * objs + lo * n /\ hi * (objs + n) = hi * objs + hi * n
      /\ n * size = size * n
  OBVIOUS
<1>4. /\ lo * objs \in Nat /\ lo * n \in Nat /\ hi * objs \in Nat /\ hi * n \in Nat
      /\ min * objs \in Nat /\ max * objs \in Nat /\ size * n \in Nat
  OBVIOUS
<1>5. \A a, b, c, d, e, f, g \in Nat :
        (a <= e /\ e <= total /\ b <= g /\ total <= f /\ f <= c /\ g <= d)
          => a + b <= total + g /\ total + g <= c + d
  OBVIOUS
<1> QED
  BY <1>2, <1>3, <1>4, <1>5

\* t is s and a line.
Adds(s, line, t) ==
  /\ t.nr_caches = s.nr_caches + 1 /\ t.nr_objs = s.nr_objs + line.nr_objs
  /\ t.total_size = s.total_size + line.nr_objs * line.obj_size
  /\ t.min = (IF line.obj_size < s.min THEN line.obj_size ELSE s.min)
  /\ t.max = (IF line.obj_size > s.max THEN line.obj_size ELSE s.max)
  /\ t.avg = s.avg

\* Adding a line keeps the totals what they are.
LEMMA AddKeeps ==
  ASSUME NEW s \in Tallies, NEW line \in Caches, Around(s)
  PROVE  /\ Slab!Add(s, line) \in Tallies /\ Around(Slab!Add(s, line))
         /\ Adds(s, line, Slab!Add(s, line))
<1> DEFINE t == Slab!Add(s, line)
<1>1. /\ t.nr_caches = s.nr_caches + 1 /\ t.nr_objs = s.nr_objs + line.nr_objs
      /\ t.total_size = s.total_size + line.nr_objs * line.obj_size
      /\ t.min = IF line.obj_size < s.min THEN line.obj_size ELSE s.min
      /\ t.max = IF line.obj_size > s.max THEN line.obj_size ELSE s.max
      /\ t.avg = s.avg
      /\ t = [nr_caches |-> t.nr_caches, nr_objs |-> t.nr_objs, total_size |-> t.total_size,
              min |-> t.min, max |-> t.max, avg |-> t.avg]
  <2>1. /\ DOMAIN s = {"nr_caches", "nr_objs", "total_size", "min", "max", "avg"}
        /\ DOMAIN t = DOMAIN s
    BY DEF Slab!Add, Tallies
  <2>2. t.nr_caches = s.nr_caches + 1 /\ t.nr_objs = s.nr_objs + line.nr_objs
    BY <2>1 DEF Slab!Add
  <2>3. /\ t.total_size = s.total_size + line.nr_objs * line.obj_size
        /\ t.avg = s.avg
    BY <2>1 DEF Slab!Add
  <2>4. t.min = IF line.obj_size < s.min THEN line.obj_size ELSE s.min
    BY <2>1 DEF Slab!Add
  <2>5. t.max = IF line.obj_size > s.max THEN line.obj_size ELSE s.max
    BY <2>1 DEF Slab!Add
  <2>6. t = [x \in DOMAIN t |-> t[x]]
    BY DEF Slab!Add
  <2> HIDE DEF t
  <2>7. t = [nr_caches |-> t.nr_caches, nr_objs |-> t.nr_objs, total_size |-> t.total_size,
             min |-> t.min, max |-> t.max, avg |-> t.avg]
    BY <2>1, <2>6
  <2> QED
    BY <2>2, <2>3, <2>4, <2>5, <2>7
<1>2. /\ s.nr_caches \in Nat /\ s.nr_objs \in Nat /\ s.total_size \in Nat /\ s.min \in Nat
      /\ s.max \in Nat /\ s.avg \in Nat /\ line.nr_objs \in Nat /\ line.obj_size \in Nat
  BY DEF Tallies, Caches
<1>3. line.nr_objs * line.obj_size \in Nat
  BY <1>2
<1> HIDE DEF t
<1>4. t \in Tallies
  <2>1. /\ t.nr_caches \in Nat /\ t.nr_objs \in Nat /\ t.total_size \in Nat /\ t.min \in Nat
        /\ t.max \in Nat /\ t.avg \in Nat
    BY <1>1, <1>2, <1>3
  <2> QED
    BY <1>1, <2>1 DEF Tallies
<1>5. t.min <= s.min /\ t.min <= line.obj_size /\ s.max <= t.max /\ line.obj_size <= t.max
  BY <1>1, <1>2
<1>6. t.min \in Nat /\ t.max \in Nat
  BY <1>4 DEF Tallies
<1>7. s.min * s.nr_objs <= s.total_size /\ s.total_size <= s.max * s.nr_objs
  BY DEF Around
<1>8. /\ t.min * (s.nr_objs + line.nr_objs) <= s.total_size + line.nr_objs * line.obj_size
      /\ s.total_size + line.nr_objs * line.obj_size <= t.max * (s.nr_objs + line.nr_objs)
  BY <1>2, <1>5, <1>6, <1>7, AroundMore
<1>9. Around(t)
  BY <1>1, <1>8 DEF Around
<1>10. Adds(s, line, t)
  BY <1>1 DEF Adds
<1> QED
  BY <1>4, <1>9, <1>10 DEF t

\* The smallest and the largest size among the first k lines.
Extremes(s, lines, k) ==
  /\ s.min = INT_MAX \/ \E i \in 1 .. k : s.min = lines[i].obj_size
  /\ s.max = 0 \/ \E i \in 1 .. k : s.max = lines[i].obj_size
  /\ \A i \in 1 .. k : s.min <= lines[i].obj_size /\ lines[i].obj_size <= s.max

\* They are still when there is one line more.
LEMMA ExtremesMore ==
  ASSUME NEW k \in Nat, NEW lines, \A i \in 1 .. k + 1 : lines[i] \in Caches,
         NEW s \in Tallies, NEW t, Extremes(s, lines, k), Adds(s, lines[k + 1], t)
  PROVE  Extremes(t, lines, k + 1)
<1> DEFINE size == lines[k + 1].obj_size
<1>1. k + 1 \in 1 .. k + 1 /\ size \in Nat /\ s.min \in Nat /\ s.max \in Nat
  BY DEF Caches, Tallies
<1>2. /\ t.min = (IF size < s.min THEN size ELSE s.min)
      /\ t.max = (IF size > s.max THEN size ELSE s.max)
  BY DEF Adds
<1>3. \A i \in 1 .. k + 1 : lines[i].obj_size \in Nat /\ (i \in 1 .. k \/ lines[i].obj_size = size)
  <2>1. \A i \in 1 .. k + 1 : i \in 1 .. k \/ i = k + 1
    OBVIOUS
  <2> QED
    BY <2>1 DEF Caches
<1>4. \A i \in 1 .. k : i \in 1 .. k + 1
  OBVIOUS
<1>5. size = lines[k + 1].obj_size
  OBVIOUS
<1> HIDE DEF size
<1>6. t.min = INT_MAX \/ \E i \in 1 .. k + 1 : t.min = lines[i].obj_size
  BY <1>1, <1>2, <1>4, <1>5 DEF Extremes
<1>7. t.max = 0 \/ \E i \in 1 .. k + 1 : t.max = lines[i].obj_size
  BY <1>1, <1>2, <1>4, <1>5 DEF Extremes
<1>8. ASSUME NEW i \in 1 .. k + 1 PROVE t.min <= lines[i].obj_size /\ lines[i].obj_size <= t.max
  BY <1>1, <1>2, <1>3 DEF Extremes
<1> QED
  BY <1>6, <1>7, <1>8 DEF Extremes

\* The function that SumOf computes with.
LineSums(g, n, val) == g = [k \in 0 .. n |-> IF k = 0 THEN 0 ELSE g[k - 1] + val[k]]

\* f adds up val, one after the other.
AddsUp(f, n, val) == f[0] = 0 /\ \A k \in 1 .. n : f[k] = f[k - 1] + val[k]

\* What is added up one after the other is the sum.
LEMMA SumIs ==
  ASSUME NEW n \in Nat, NEW val, NEW f, DOMAIN f = 0 .. n, f = [k \in 0 .. n |-> f[k]],
         AddsUp(f, n, val)
  PROVE  Slab!SumOf(n, val) = f[n]
<1> DEFINE g == CHOOSE x : LineSums(x, n, val)
<1>1. LineSums(f, n, val)
  <2>1. \A k \in 0 .. n : k # 0 => k \in 1 .. n
    OBVIOUS
  <2>2. \A k \in 0 .. n : f[k] = IF k = 0 THEN 0 ELSE f[k - 1] + val[k]
    BY <2>1 DEF AddsUp
  <2> QED
    BY <2>2 DEF LineSums
<1>2. LineSums(g, n, val)
  BY <1>1
<1>3. Slab!SumOf(n, val) = g[n]
  BY DEF Slab!SumOf, LineSums
<1> HIDE DEF g
<1> DEFINE S == {k \in Nat : k > n \/ g[k] = f[k]}
<1>4. 0 \in S
  BY <1>2 DEF LineSums, AddsUp
<1>5. ASSUME NEW k \in Nat, k \in S PROVE k + 1 \in S
  <2>1. CASE k + 1 > n
    BY <2>1
  <2>2. CASE k + 1 <= n
    <3>1. k + 1 \in 1 .. n /\ k + 1 \in 0 .. n /\ k + 1 # 0 /\ (k + 1) - 1 = k /\ g[k] = f[k]
      BY <1>5, <2>2
    <3>2. g[k + 1] = g[k] + val[k + 1]
      BY <1>2, <3>1 DEF LineSums
    <3>3. f[k + 1] = f[k] + val[k + 1]
      BY <3>1 DEF AddsUp
    <3> QED
      BY <3>1, <3>2, <3>3
  <2> QED
    BY <2>1, <2>2
<1>6. n \in S
  <2> HIDE DEF S
  <2> QED
    BY <1>4, <1>5, NatSteps
<1> QED
  BY <1>3, <1>6

\* The totals over lines, before the average is taken.
Summed(s, lines, n) ==
  /\ s.nr_caches = n /\ s.avg = 0
  /\ s.nr_objs = Slab!SumOf(n, Slab!ObjsOf(lines))
  /\ s.total_size = Slab!SumOf(n, Slab!BytesOf(lines))
  /\ Extremes(s, lines, n)

\* Totals that lines are added to.
LEMMA TotalsFrom ==
  ASSUME NEW base, NEW n \in Nat, NEW lines, DOMAIN lines = 1 .. n
  PROVE  (/\ base = [nr_caches |-> 0, nr_objs |-> 0, total_size |-> 0, min |-> INT_MAX, max |-> 0,
                     avg |-> 0]
          /\ \A k \in 1 .. n : lines[k] \in Caches)
         => /\ Totals(base, lines) \in Tallies /\ Around(Totals(base, lines))
            /\ Summed(Totals(base, lines), lines, n)
<1>0. PICK f : Running(f, n, base, lines)
  BY AddingSteps
<1>1. /\ f[0] = base /\ f[n] = Totals(base, lines)
      /\ \A k \in 1 .. n : f[k] = Slab!Add(f[k - 1], lines[k])
  BY <1>0 DEF Running
<1> SUFFICES ASSUME base = [nr_caches |-> 0, nr_objs |-> 0, total_size |-> 0, min |-> INT_MAX,
                            max |-> 0, avg |-> 0],
                    \A k \in 1 .. n : lines[k] \in Caches
             PROVE  f[n] \in Tallies /\ Around(f[n]) /\ Summed(f[n], lines, n)
  BY <1>1
<1> DEFINE Good(k) == /\ f[k] \in Tallies /\ Around(f[k]) /\ f[k].nr_caches = k /\ f[k].avg = 0
                      /\ Extremes(f[k], lines, k)
           S == {k \in Nat : k > n \/ Good(k)}
<1>2. 0 \in S
  <2>1. INT_MAX \in Nat /\ INT_MAX * 0 = 0
    BY SlabAssumption
  <2>2. base \in Tallies /\ Around(base) /\ base.nr_caches = 0 /\ base.avg = 0
    BY <2>1 DEF Tallies, Around
  <2>3. Extremes(base, lines, 0)
    BY DEF Extremes
  <2> QED
    BY <1>1, <2>2, <2>3
<1>3. ASSUME NEW k \in Nat, k + 1 <= n, Good(k)
      PROVE  Good(k + 1) /\ Adds(f[k], lines[k + 1], f[k + 1])
  <2>1. k + 1 \in 1 .. n /\ (k + 1) - 1 = k /\ \A i \in 1 .. k + 1 : i \in 1 .. n
    BY <1>3
  <2>2. f[k + 1] = Slab!Add(f[k], lines[k + 1]) /\ lines[k + 1] \in Caches
    BY <2>1, <1>1
  <2>3. /\ f[k + 1] \in Tallies /\ Around(f[k + 1]) /\ Adds(f[k], lines[k + 1], f[k + 1])
    BY <1>3, <2>2, AddKeeps
  <2>4. Extremes(f[k + 1], lines, k + 1)
    BY <1>3, <2>1, <2>3, ExtremesMore
  <2>5. f[k + 1].nr_caches = k + 1 /\ f[k + 1].avg = 0
    BY <1>3, <2>3 DEF Adds
  <2> QED
    BY <2>3, <2>4, <2>5
<1>4. Nat \subseteq S
  <2>1. ASSUME NEW k \in Nat, k \in S PROVE k + 1 \in S
    BY <1>3, <2>1
  <2> HIDE DEF S
  <2> QED
    BY <1>2, <2>1, NatSteps
<1>5. ASSUME NEW k \in 1 .. n PROVE Adds(f[k - 1], lines[k], f[k])
  <2>1. k - 1 \in Nat /\ (k - 1) + 1 = k /\ k <= n /\ ~(k - 1 > n)
    OBVIOUS
  <2>2. Good(k - 1)
    BY <1>4, <2>1
  <2> QED
    BY <1>3, <2>1, <2>2
<1> HIDE DEF Good
<1>6. Good(n)
  BY <1>4
<1> DEFINE objs == [k \in 0 .. n |-> f[k].nr_objs]
           bytes == [k \in 0 .. n |-> f[k].total_size]
<1>7. \A k \in 1 .. n : k \in 0 .. n /\ k - 1 \in 0 .. n
  OBVIOUS
<1>8. objs[n] = Slab!SumOf(n, Slab!ObjsOf(lines))
  <2>1. objs[0] = 0
    BY <1>1
  <2>2. \A k \in 1 .. n : Slab!ObjsOf(lines)[k] = lines[k].nr_objs
    BY DEF Slab!ObjsOf
  <2>3. \A k \in 1 .. n : objs[k] = objs[k - 1] + Slab!ObjsOf(lines)[k]
    BY <1>5, <1>7, <2>2 DEF Adds
  <2>4. DOMAIN objs = 0 .. n /\ objs = [k \in 0 .. n |-> objs[k]]
    OBVIOUS
  <2> HIDE DEF objs
  <2> QED
    BY <2>1, <2>3, <2>4, SumIs DEF AddsUp
<1>9. bytes[n] = Slab!SumOf(n, Slab!BytesOf(lines))
  <2>1. bytes[0] = 0
    BY <1>1
  <2>2. \A k \in 1 .. n : Slab!BytesOf(lines)[k] = lines[k].nr_objs * lines[k].obj_size
    BY DEF Slab!BytesOf
  <2>3. \A k \in 1 .. n : bytes[k] = bytes[k - 1] + Slab!BytesOf(lines)[k]
    BY <1>5, <1>7, <2>2 DEF Adds
  <2>4. DOMAIN bytes = 0 .. n /\ bytes = [k \in 0 .. n |-> bytes[k]]
    OBVIOUS
  <2> HIDE DEF bytes
  <2> QED
    BY <2>1, <2>3, <2>4, SumIs DEF AddsUp
<1>10. n \in 0 .. n
  OBVIOUS
<1> QED
  BY <1>6, <1>8, <1>9, <1>10 DEF Summed, Good

\* The totals over lines.
LEMMA TotalsAre ==
  ASSUME NEW lines \in Seq(Caches)
  PROVE  /\ Slab!parse_slabinfo20(lines) \in Tallies
         /\ Around(Slab!parse_slabinfo20(lines))
         /\ Summed(Slab!parse_slabinfo20(lines), lines, Len(lines))
<1> DEFINE base == [Slab!slabs_summ EXCEPT !.min = INT_MAX]
           n == Len(lines)
<1>1. base = [nr_caches |-> 0, nr_objs |-> 0, total_size |-> 0, min |-> INT_MAX, max |-> 0,
              avg |-> 0]
  BY DEF Slab!slabs_summ
<1>2. n \in Nat /\ DOMAIN lines = 1 .. n /\ \A k \in 1 .. n : lines[k] \in Caches
  OBVIOUS
<1>3. Slab!parse_slabinfo20(lines) = Totals(base, lines)
  BY Zenon DEF Slab!parse_slabinfo20, Totals
<1> HIDE DEF base, n
<1> QED
  BY <1>1, <1>2, <1>3, TotalsFrom DEF n

\* A quotient lies between the bounds of what is divided.
LEMMA QuotientBetween ==
  ASSUME NEW total \in Nat, NEW n \in Nat, n > 0, NEW lo \in Nat, NEW hi \in Nat,
         lo * n <= total, total <= hi * n
  PROVE  total \div n \in Nat /\ lo <= total \div n /\ total \div n <= hi
<1>1. PICK q \in Nat : q = total \div n
  OBVIOUS
<1>2. q * n <= total /\ total < (q + 1) * n
  BY <1>1
<1>3. \A a, b \in Nat : a * n < b * n => a < b
  OBVIOUS
<1>4. q * n \in Nat /\ (q + 1) * n \in Nat /\ lo * n \in Nat /\ hi * n \in Nat /\ (hi + 1) * n \in Nat
  OBVIOUS
<1>5. lo * n < (q + 1) * n
  BY <1>2, <1>4
<1>6. lo < q + 1
  BY <1>3, <1>5
<1>7. hi * n < (hi + 1) * n
  OBVIOUS
<1>8. q * n < (hi + 1) * n
  BY <1>2, <1>4, <1>7
<1>9. q < hi + 1
  BY <1>3, <1>8
<1> QED
  BY <1>1, <1>6, <1>9

\* The average lies between the smallest and the largest.
Between(s) == s.nr_objs > 0 => s.min <= s.avg /\ s.avg <= s.max

\* What a read that went well leaves.
LEMMA AverageIs ==
  ASSUME NEW lines \in Seq(Caches)
  PROVE  LET t == Slab!Average(Slab!parse_slabinfo20(lines))
         IN  Slab!TotalsOf(t, lines) /\ Between(t)
<1> DEFINE s == Slab!parse_slabinfo20(lines)
           t == Slab!Average(s)
           n == Len(lines)
<1>1. s \in Tallies /\ Around(s) /\ Summed(s, lines, n)
  BY TotalsAre
<1> HIDE DEF s
<1>2. /\ t.nr_caches = s.nr_caches /\ t.nr_objs = s.nr_objs /\ t.total_size = s.total_size
      /\ t.min = s.min /\ t.max = s.max
      /\ t.avg = IF s.nr_objs = 0 THEN s.avg ELSE s.total_size \div s.nr_objs
  <2>1. CASE s.nr_objs = 0
    BY <2>1 DEF Slab!Average
  <2>2. CASE s.nr_objs # 0
    <3>1. t = [s EXCEPT !.avg = s.total_size \div s.nr_objs]
      BY <2>2 DEF Slab!Average
    <3> HIDE DEF t
    <3> QED
      BY <1>1, <2>2, <3>1 DEF Tallies
  <2> QED
    BY <2>1, <2>2
<1>3. Between(t)
  <2> SUFFICES ASSUME t.nr_objs > 0 PROVE t.min <= t.avg /\ t.avg <= t.max
    BY DEF Between
  <2>1. /\ s.nr_objs \in Nat /\ s.nr_objs > 0 /\ s.nr_objs # 0 /\ s.total_size \in Nat
        /\ s.min \in Nat /\ s.max \in Nat
    BY <1>1, <1>2 DEF Tallies
  <2>2. /\ s.min <= s.total_size \div s.nr_objs /\ s.total_size \div s.nr_objs <= s.max
    BY <1>1, <2>1, QuotientBetween DEF Around
  <2> HIDE DEF t
  <2> QED
    BY <1>2, <2>1, <2>2
<1> HIDE DEF t
<1>4. n = Len(lines) /\ DOMAIN lines = 1 .. n
  OBVIOUS
<1> HIDE DEF n
<1>5. t.nr_caches = n /\ t.nr_objs = Slab!SumOf(n, Slab!ObjsOf(lines))
      /\ t.total_size = Slab!SumOf(n, Slab!BytesOf(lines))
      /\ t.avg = IF t.nr_objs = 0 THEN 0 ELSE t.total_size \div t.nr_objs
  BY <1>1, <1>2 DEF Summed
<1>6. Slab!SizesOf(lines) = {lines[i].obj_size : i \in 1 .. n}
  BY <1>4 DEF Slab!SizesOf
<1>7. Extremes(t, lines, n)
  BY <1>1, <1>2 DEF Summed, Extremes
<1>8. /\ t.min \in Slab!SizesOf(lines) \cup {INT_MAX}
      /\ \A size \in Slab!SizesOf(lines) : t.min <= size
      /\ t.max \in Slab!SizesOf(lines) \cup {0}
      /\ \A size \in Slab!SizesOf(lines) : size <= t.max
  BY <1>6, <1>7 DEF Extremes
<1>9. Slab!TotalsOf(t, lines)
  BY <1>4, <1>5, <1>8 DEF Slab!TotalsOf
<1> QED
  BY <1>3, <1>9 DEF t, s

--------------------------------------------------------------------------------
(* slabinfo: the nodes.                                                     *)

\* The function that get_slabnode computes with.
Sizes(f, n) ==
  f = [k \in 0 .. n |-> IF k = 0 THEN Slab!alloc_slabnodes(Len(nodes), nodes_alloc)
                        ELSE Slab!alloc_slabnodes(k - 1, f[k - 1])]

\* There is one.
LEMMA SizesExist == \A n \in Nat : \E f : Sizes(f, n)
<1> DEFINE S == {n \in Nat : \E f : Sizes(f, n)}
           z == Slab!alloc_slabnodes(Len(nodes), nodes_alloc)
<1>1. 0 \in S
  <2> DEFINE f == [k \in 0 .. 0 |-> z]
  <2>1. \A k \in 0 .. 0 : k = 0
    OBVIOUS
  <2>2. Sizes(f, 0)
    BY <2>1 DEF Sizes
  <2> QED
    BY <2>2
<1>2. ASSUME NEW n \in Nat, n \in S PROVE n + 1 \in S
  <2>1. PICK g : Sizes(g, n)
    BY <1>2
  <2> DEFINE f == [k \in 0 .. (n + 1) |-> IF k = 0 THEN z ELSE Slab!alloc_slabnodes(k - 1, g[k - 1])]
  <2>2. \A k \in 0 .. n : f[k] = g[k]
    <3>1. \A k \in 0 .. n : g[k] = IF k = 0 THEN z ELSE Slab!alloc_slabnodes(k - 1, g[k - 1])
      BY <2>1 DEF Sizes
    <3>2. \A k \in 0 .. n : k \in 0 .. (n + 1)
      OBVIOUS
    <3> QED
      BY <3>1, <3>2
  <2>3. \A k \in 0 .. (n + 1) : k # 0 => k - 1 \in 0 .. n
    OBVIOUS
  <2>4. f = [k \in 0 .. (n + 1) |-> IF k = 0 THEN z ELSE Slab!alloc_slabnodes(k - 1, f[k - 1])]
    BY <2>2, <2>3
  <2> HIDE DEF f
  <2>5. Sizes(f, n + 1)
    BY <2>4 DEF Sizes
  <2> QED
    BY <2>5
<1> QED
  BY <1>1, <1>2, NatSteps

\* Room for one more node.
LEMMA RoomForOne ==
  ASSUME NEW used \in Nat, NEW alloc \in Nat, used <= alloc
  PROVE  Slab!alloc_slabnodes(used, alloc) \in Nat /\ used < Slab!alloc_slabnodes(used, alloc)
<1>1. Slab!Grow(alloc) \in Nat /\ alloc < Slab!Grow(alloc)
  <2>1. (alloc * 5) \div 4 \in Nat /\ alloc <= (alloc * 5) \div 4
    OBVIOUS
  <2>2. NODES_INCR \in Nat /\ NODES_INCR > 0
    BY SlabAssumption
  <2> QED
    BY <2>1, <2>2 DEF Slab!Grow
<1> QED
  BY <1>1 DEF Slab!alloc_slabnodes

\* After n nodes were taken the array has room for them.
LEMMA RoomForAll ==
  ASSUME NEW n \in Nat, nodes_alloc \in Nat, Len(nodes) \in Nat, Len(nodes) <= nodes_alloc
  PROVE  Slab!get_slabnode(n) \in Nat /\ n <= Slab!get_slabnode(n)
<1> DEFINE f == CHOOSE g : Sizes(g, n)
<1>1. Sizes(f, n)
  BY SizesExist
<1>2. Slab!get_slabnode(n) = f[n]
  BY DEF Slab!get_slabnode, Sizes
<1> HIDE DEF f
<1>3. f[0] = Slab!alloc_slabnodes(Len(nodes), nodes_alloc)
  BY <1>1 DEF Sizes
<1>4. \A k \in 1 .. n : f[k] = Slab!alloc_slabnodes(k - 1, f[k - 1])
  BY <1>1 DEF Sizes
<1> DEFINE S == {k \in Nat : k > n \/ (f[k] \in Nat /\ k <= f[k])}
<1>5. 0 \in S
  <2>1. f[0] \in Nat
    BY <1>3, RoomForOne
  <2> QED
    BY <2>1
<1>6. ASSUME NEW k \in Nat, k \in S PROVE k + 1 \in S
  <2>1. CASE k + 1 > n
    BY <2>1
  <2>2. CASE k + 1 <= n
    <3>1. k + 1 \in 1 .. n /\ (k + 1) - 1 = k /\ f[k] \in Nat /\ k <= f[k]
      BY <1>6, <2>2
    <3>2. f[k + 1] = Slab!alloc_slabnodes(k, f[k])
      BY <1>4, <3>1
    <3>3. f[k + 1] \in Nat /\ k < f[k + 1]
      BY <3>1, <3>2, RoomForOne
    <3> QED
      BY <3>3
  <2> QED
    BY <2>1, <2>2
<1>7. n \in S
  BY <1>5, <1>6, NatSteps
<1> QED
  BY <1>2, <1>7

--------------------------------------------------------------------------------
(* slabinfo: the stacks.                                                    *)

StackRecs == [items : SlabLists, at : Nat]
Shown == [stack : StackRecs, node : Caches]

\* The stacks there are have places of their own; unless they are to be made
\* anew they were made for the items of the last reap.
StacksOK ==
  /\ anchor \in Seq(StackRecs) /\ \A k \in 1 .. Len(anchor) : anchor[k].at = k
  /\ extents \in {0, Len(anchor)}
  /\ extents # 0 => \A k \in 1 .. Len(anchor) : anchor[k].items = items

\* As many extents as it takes.
LEMMA EnoughSteps ==
  ASSUME NEW want \in Nat, NEW incr \in Nat, incr > 0
  PROVE  /\ (want + incr - 1) \div incr \in Nat
         /\ want <= ((want + incr - 1) \div incr) * incr
<1>1. PICK q \in Nat : q = (want + incr - 1) \div incr
  OBVIOUS
<1>2. want + incr - 1 < (q + 1) * incr
  BY <1>1
<1>3. (q + 1) * incr = q * incr + incr /\ q * incr \in Nat
  OBVIOUS
<1> QED
  BY <1>1, <1>2, <1>3

\* n stacks for these items, each in its place; stacks that follow the first n.
InPlaces(f, n, list) ==
  /\ f \in Seq(StackRecs) /\ Len(f) = n
  /\ \A k \in 1 .. n : f[k].at = k /\ f[k].items = list
More(list, n, m) == [i \in 1 .. m |-> [items |-> list, at |-> n + i]]

\* Both one after the other.
LEMMA StacksJoin ==
  ASSUME NEW n \in Nat, NEW m \in Nat, NEW list \in SlabLists, NEW a, InPlaces(a, n, list)
  PROVE  InPlaces(a \o More(list, n, m), n + m, list)
<1> DEFINE b == More(list, n, m)
<1>1. b \in Seq(StackRecs) /\ Len(b) = m /\ \A k \in 1 .. m : b[k].at = n + k /\ b[k].items = list
  <2>1. \A k \in 1 .. m : [items |-> list, at |-> n + k] \in StackRecs
    BY DEF StackRecs
  <2>2. b = [i \in 1 .. m |-> [items |-> list, at |-> n + i]]
    BY DEF More
  <2> HIDE DEF b
  <2>3. b \in [1 .. m -> StackRecs] /\ \A k \in 1 .. m : b[k].at = n + k /\ b[k].items = list
    BY <2>1, <2>2
  <2>4. b \in Seq(StackRecs) /\ Len(b) = m
    BY <2>3
  <2> QED
    BY <2>3, <2>4
<1> HIDE DEF b
<1>5. a \in Seq(StackRecs) /\ Len(a) = n /\ b \in Seq(StackRecs) /\ Len(b) = m
  BY <1>1 DEF InPlaces
<1>2. /\ a \o b \in Seq(StackRecs) /\ Len(a \o b) = n + m
      /\ \A k \in 1 .. n + m : (a \o b)[k] = IF k <= n THEN a[k] ELSE b[k - n]
  BY <1>5
<1>3. \A k \in 1 .. n + m : IF k <= n THEN k \in 1 .. n ELSE k - n \in 1 .. m /\ n + (k - n) = k
  OBVIOUS
<1>4. \A k \in 1 .. n + m : (a \o b)[k].at = k /\ (a \o b)[k].items = list
  BY <1>1, <1>2, <1>3 DEF InPlaces
<1> QED
  BY <1>2, <1>4 DEF b, InPlaces

\* The stacks that reap fetches: enough, made for the items asked for, each in
\* its own place.
LEMMA FetchIs ==
  ASSUME StacksOK, NEW ext, ext.items \in SlabLists, ext.num \in {0, extents},
         ext.num # 0 => items = ext.items, Len(nodes') \in Nat
  PROVE  LET f == Slab!slabinfo_stacks_fetch(ext)
         IN  /\ f \in Seq(StackRecs) /\ Len(nodes') <= Len(f)
             /\ \A k \in 1 .. Len(f) : f[k].at = k /\ f[k].items = ext.items
<1> DEFINE full == IF anchor = <<>> THEN STACKS_INCR ELSE Len(anchor)
           base == IF ext.num = 0 THEN [i \in 1 .. full |-> [items |-> ext.items, at |-> i]]
                   ELSE anchor
           need == Len(nodes')
           steps == IF need <= full THEN 0
                    ELSE (need - full + STACKS_INCR - 1) \div STACKS_INCR
           list == ext.items
<1>1. full \in Nat /\ STACKS_INCR \in Nat /\ STACKS_INCR > 0
  BY SlabAssumption DEF StacksOK
<1>2. base \in Seq(StackRecs) /\ Len(base) = full
      /\ \A k \in 1 .. full : base[k].at = k /\ base[k].items = list
  <2>1. CASE ext.num = 0
    <3>1. \A k \in 1 .. full : [items |-> list, at |-> k] \in StackRecs
      BY <1>1 DEF StackRecs
    <3> HIDE DEF full
    <3>2. base = [k \in 1 .. full |-> [items |-> list, at |-> k]]
      BY <2>1
    <3> HIDE DEF base, list
    <3> QED
      BY <1>1, <3>1, <3>2
  <2>2. CASE ext.num # 0
    <3>1. anchor # <<>> /\ full = Len(anchor) /\ base = anchor
      BY <2>2 DEF StacksOK
    <3> QED
      BY <2>2, <3>1 DEF StacksOK
  <2> QED
    BY <2>1, <2>2
<1>3. steps \in Nat /\ steps * STACKS_INCR \in Nat /\ need <= full + steps * STACKS_INCR
  <2> HIDE DEF full, base
  <2>1. CASE need <= full
    BY <1>1, <2>1
  <2>2. CASE ~(need <= full)
    <3>1. need - full \in Nat
      BY <1>1, <2>2
    <3>2. /\ steps \in Nat /\ need - full <= steps * STACKS_INCR
      BY <1>1, <2>2, <3>1, EnoughSteps
    <3>3. steps * STACKS_INCR \in Nat
      BY <1>1, <3>2
    <3>4. need \in Nat
      OBVIOUS
    <3> HIDE DEF steps, need
    <3> QED
      BY <1>1, <3>1, <3>2, <3>3, <3>4
  <2> QED
    BY <2>1, <2>2
<1>4. Slab!slabinfo_stacks_fetch(ext)
        = base \o More(list, full, steps * STACKS_INCR)
  BY Zenon DEF Slab!slabinfo_stacks_fetch, More
<1> HIDE DEF full, base, steps, need
<1>5. list \in SlabLists
  OBVIOUS
<1> HIDE DEF list
<1> DEFINE extra == steps * STACKS_INCR
           f == base \o More(list, full, extra)
<1>8. extra \in Nat
  BY <1>3
<1>9. f = Slab!slabinfo_stacks_fetch(ext) /\ need <= full + extra
  BY <1>3, <1>4
<1> HIDE DEF extra
<1>10. InPlaces(base, full, list)
  BY <1>2 DEF InPlaces
<1>6. InPlaces(f, full + extra, list)
  BY <1>1, <1>5, <1>8, <1>10, StacksJoin
<1> HIDE DEF f
<1>7. /\ f \in Seq(StackRecs) /\ need <= Len(f)
      /\ \A k \in 1 .. Len(f) : f[k].at = k /\ f[k].items = list
  BY <1>6, <1>9 DEF InPlaces
<1> QED
  BY <1>7, <1>9 DEF need, list

--------------------------------------------------------------------------------
(* slabinfo: the inductive invariant.                                       *)

\* The array holds the nodes in use, and get notes no second to come.
SlabBase ==
  /\ text \in SlabText /\ secs \in Nat /\ secs > 0
  /\ refcount \in 0 .. SlabRef /\ sav_secs \in 0 .. secs
  /\ nodes \in Seq(Caches) /\ nodes_alloc \in Nat /\ Len(nodes) <= nodes_alloc

\* The totals are those of the two last reads.
SlabReads ==
  /\ reads[1].ok => Slab!TotalsOf(new, reads[1].lines) /\ Between(new)
  /\ reads[2].ok => Slab!TotalsOf(old, reads[2].lines)

\* Among the first n stacks: each of these caches, no stack twice, all made for
\* these items.
Covers(shown, lines, n) == \A c \in 1 .. n : \E k \in 1 .. n : shown[k].node = lines[c]
Apart(shown, n) == \A k, j \in 1 .. n : shown[k].stack = shown[j].stack => k = j
MadeFor(shown, list, n) == \A k \in 1 .. n : shown[k].stack.items = list

\* What reap returned, before anything else happens.
SlabReap ==
  out \in {"reap", "sort"} =>
    /\ results \in Seq(Shown) /\ Len(results) = Len(text)
    /\ Covers(results, text, Len(text))
    /\ Apart(results, Len(text))
    /\ MadeFor(results, items, Len(text))

SlabInv == SlabBase /\ SlabReads /\ StacksOK /\ SlabReap

\* A file is a sequence of caches.
LEMMA TextIs ==
  ASSUME text \in SlabText
  PROVE  text \in Seq(Caches) /\ Len(text) \in Nat /\ DOMAIN text = 1 .. Len(text)
<1>1. text \in Seq(Caches)
  BY SlabAssumption DEF Caches
<1> QED
  BY <1>1

\* A read, however it ends, leaves the nodes in their array and the totals right.
LEMMA SlabRead ==
  ASSUME SlabBase, SlabReads, NEW k \in Slab!Outcome, Slab!slabinfo_read_failed(k)
  PROVE  /\ SlabReads' /\ nodes' \in Seq(Caches) /\ nodes_alloc' \in Nat
         /\ Len(nodes') <= nodes_alloc' /\ (k = 0 => nodes' = text)
<1>1. text \in Seq(Caches) /\ Len(text) \in Nat /\ DOMAIN text = 1 .. Len(text)
  BY TextIs DEF SlabBase
<1>2. k \in {0, -1} \/ k \in 1 .. Len(text)
  BY <1>1 DEF Slab!Outcome
<1>3. nodes' \in Seq(Caches) /\ (k = 0 => nodes' = text)
  <2>1. nodes' = IF k = -1 THEN <<>> ELSE IF k = 0 THEN text ELSE SubSeq(text, 1, k)
    BY DEF Slab!slabinfo_read_failed
  <2>2. k \in 1 .. Len(text) => SubSeq(text, 1, k) \in Seq(Caches)
    BY <1>1
  <2>3. <<>> \in Seq(Caches)
    OBVIOUS
  <2> QED
    BY <1>1, <1>2, <2>1, <2>2, <2>3
<1>4. nodes_alloc' \in Nat /\ Len(nodes') <= nodes_alloc'
  <2>1. nodes_alloc' = Slab!get_slabnode(Len(nodes'))
    BY DEF Slab!slabinfo_read_failed
  <2>2. Len(nodes') \in Nat /\ Len(nodes) \in Nat /\ nodes_alloc \in Nat /\ Len(nodes) <= nodes_alloc
    BY <1>3 DEF SlabBase
  <2> QED
    BY <2>1, <2>2, RoomForAll
<1>5. reads'[1].ok => Slab!TotalsOf(new', reads'[1].lines) /\ Between(new')
  <2> SUFFICES ASSUME reads'[1].ok PROVE Slab!TotalsOf(new', reads'[1].lines) /\ Between(new')
    OBVIOUS
  <2>1. reads'[1].ok = (k = 0)
    BY DEF Slab!slabinfo_read_failed
  <2>2. k = 0
    BY <2>1
  <2>3. reads'[1].lines = text /\ new' = Slab!Average(Slab!parse_slabinfo20(text))
    BY <2>2 DEF Slab!slabinfo_read_failed
  <2> QED
    BY <1>1, <2>3, AverageIs
<1>6. reads'[2] = reads[1] /\ old' = new
  BY DEF Slab!slabinfo_read_failed
<1> QED
  BY <1>3, <1>4, <1>5, <1>6 DEF SlabReads

\* It holds at the start.
LEMMA SlabInit == Slab!Init => SlabInv
<1> SUFFICES ASSUME Slab!Init PROVE SlabInv
  OBVIOUS
<1>1. SlabBase
  BY SlabAssumption DEF Slab!Init, SlabBase
<1>2. SlabReads
  BY DEF Slab!Init, SlabReads, Slab!NoRead
<1>3. StacksOK
  BY DEF Slab!Init, StacksOK
<1> QED
  BY <1>1, <1>2, <1>3 DEF Slab!Init, SlabInv, SlabReap

\* Nothing but reap and sort leaves results that anyone may look at.
LEMMA SlabOthers ==
  ASSUME SlabInv,
         \/ \E k \in Slab!Outcome : \/ Slab!procps_slabinfo_new(k) \/ Slab!procps_slabinfo_get(k)
                                    \/ Slab!procps_slabinfo_select(k)
         \/ Slab!procps_slabinfo_ref \/ Slab!procps_slabinfo_unref
         \/ Slab!Tick \/ \E t \in SlabText : Slab!Change(t)
  PROVE  SlabInv'
<1> USE DEF Slab!kernel, Slab!stacks
<1>0. SlabRef \in Nat /\ SlabRef > 0 /\ secs \in Nat /\ secs > 0 /\ refcount \in 0 .. SlabRef
      /\ sav_secs \in 0 .. secs
  BY SlabAssumption DEF SlabInv, SlabBase
<1>1. out' \notin {"reap", "sort"}
  BY DEF Slab!procps_slabinfo_new, Slab!procps_slabinfo_get, Slab!procps_slabinfo_select,
         Slab!procps_slabinfo_ref, Slab!procps_slabinfo_unref, Slab!Tick, Slab!Change
<1>2. SlabReap'
  BY <1>1 DEF SlabReap
<1>9. ASSUME Slab!free_all, refcount' \in 0 .. SlabRef, UNCHANGED <<text, secs>> PROVE SlabInv'
  <2>1. /\ nodes' = <<>> /\ nodes_alloc' = 0 /\ new' = Slab!slabs_summ /\ old' = Slab!slabs_summ
        /\ sav_secs' = 0 /\ extents' = 0 /\ anchor' = <<>>
        /\ reads' = <<Slab!NoRead, Slab!NoRead>>
    BY <1>9 DEF Slab!free_all
  <2>2. SlabBase'
    BY <1>0, <1>9, <2>1 DEF SlabInv, SlabBase
  <2>3. SlabReads'
    BY <2>1 DEF SlabReads, Slab!NoRead
  <2>4. StacksOK'
    BY <2>1 DEF StacksOK
  <2> QED
    BY <1>2, <2>2, <2>3, <2>4 DEF SlabInv
<1>3. ASSUME NEW k \in Slab!Outcome, Slab!procps_slabinfo_new(k) PROVE SlabInv'
  <2>1. UNCHANGED <<text, secs>> /\ refcount' \in 0 .. SlabRef
    BY <1>0, <1>3 DEF Slab!procps_slabinfo_new
  <2>2. CASE k = 0
    <3>1. Slab!slabinfo_read_failed(k) /\ UNCHANGED <<sav_secs, items, extents, anchor>>
      BY <1>3, <2>2 DEF Slab!procps_slabinfo_new
    <3> QED
      BY <1>2, <2>1, <3>1, SlabRead DEF SlabInv, SlabBase, StacksOK
  <2>3. CASE k # 0
    BY <1>3, <1>9, <2>1, <2>3 DEF Slab!procps_slabinfo_new
  <2> QED
    BY <2>2, <2>3
<1>4. ASSUME NEW k \in Slab!Outcome, Slab!procps_slabinfo_get(k) PROVE SlabInv'
  <2>1. UNCHANGED <<text, secs, refcount, items, extents, anchor>>
    BY <1>4 DEF Slab!procps_slabinfo_get
  <2>2. CASE secs - sav_secs >= 1
    <3>1. Slab!slabinfo_read_failed(k) /\ sav_secs' \in {secs, sav_secs}
      BY <1>4, <2>2 DEF Slab!procps_slabinfo_get
    <3>2. sav_secs' \in 0 .. secs
      BY <1>0, <3>1
    <3> QED
      BY <1>2, <2>1, <3>1, <3>2, SlabRead DEF SlabInv, SlabBase, StacksOK
  <2>3. CASE ~(secs - sav_secs >= 1)
    <3>1. UNCHANGED <<nodes, nodes_alloc, new, old, reads, sav_secs>>
      BY <1>4, <2>3 DEF Slab!procps_slabinfo_get
    <3> QED
      BY <1>2, <2>1, <3>1 DEF SlabInv, SlabBase, StacksOK, SlabReads
  <2> QED
    BY <2>2, <2>3
<1>5. ASSUME NEW k \in Slab!Outcome, Slab!procps_slabinfo_select(k) PROVE SlabInv'
  <2>1. /\ Slab!slabinfo_read_failed(k)
        /\ UNCHANGED <<text, secs, sav_secs, refcount, items, extents, anchor>>
    BY <1>5 DEF Slab!procps_slabinfo_select
  <2> QED
    BY <1>2, <2>1, SlabRead DEF SlabInv, SlabBase, StacksOK
<1>6. CASE Slab!procps_slabinfo_ref
  <2>1. /\ refcount' \in 0 .. SlabRef
        /\ UNCHANGED <<text, secs, sav_secs, items, extents, anchor, nodes, nodes_alloc, new, old,
                       reads>>
    BY <1>0, <1>6 DEF Slab!procps_slabinfo_ref
  <2> QED
    BY <1>2, <2>1 DEF SlabInv, SlabBase, StacksOK, SlabReads
<1>7. CASE Slab!procps_slabinfo_unref
  <2>1. refcount' \in 0 .. SlabRef /\ UNCHANGED <<text, secs>>
    BY <1>0, <1>7 DEF Slab!procps_slabinfo_unref
  <2>2. CASE refcount > 1
    <3>1. UNCHANGED <<sav_secs, items, extents, anchor, nodes, nodes_alloc, new, old, reads>>
      BY <1>7, <2>2 DEF Slab!procps_slabinfo_unref
    <3> QED
      BY <1>2, <2>1, <3>1 DEF SlabInv, SlabBase, StacksOK, SlabReads
  <2>3. CASE ~(refcount > 1)
    BY <1>7, <1>9, <2>1, <2>3 DEF Slab!procps_slabinfo_unref
  <2> QED
    BY <2>2, <2>3
<1>8. CASE Slab!Tick \/ \E t \in SlabText : Slab!Change(t)
  <2>1. /\ text' \in SlabText /\ secs' \in {secs, secs + 1}
        /\ UNCHANGED <<refcount, sav_secs, items, extents, anchor, nodes, nodes_alloc, new, old,
                       reads>>
    BY <1>8 DEF Slab!Tick, Slab!Change, SlabInv, SlabBase
  <2>2. secs' \in Nat /\ secs' > 0 /\ sav_secs' \in 0 .. secs'
    BY <1>0, <2>1
  <2> QED
    BY <1>2, <2>1, <2>2 DEF SlabInv, SlabBase, StacksOK, SlabReads
<1> QED
  BY <1>3, <1>4, <1>5, <1>6, <1>7, <1>8

\* reap shows the nodes it read, each in the stack of its place.
LEMMA SlabReaps ==
  ASSUME SlabInv, NEW k \in Slab!Outcome, NEW list \in SlabLists,
         Slab!procps_slabinfo_reap(list, k)
  PROVE  SlabInv'
<1> DEFINE ext == Slab!stacks_reconfig_maybe(list)
<1>1. /\ Slab!slabinfo_read_failed(k) /\ items' = ext.items
      /\ UNCHANGED <<text, secs, refcount, sav_secs>>
  BY DEF Slab!procps_slabinfo_reap, Slab!kernel
<1>2. SlabBase' /\ SlabReads' /\ (k = 0 => nodes' = text)
  BY <1>1, SlabRead DEF SlabInv, SlabBase
<1>3. ext.items = list /\ ext.num \in {0, extents} /\ (ext.num # 0 => items = list)
  BY DEF Slab!stacks_reconfig_maybe
<1>4. CASE k # 0
  <2>1. extents' = ext.num /\ UNCHANGED anchor /\ out' = "failed"
    BY <1>4 DEF Slab!procps_slabinfo_reap
  <2>2. StacksOK'
    BY <1>1, <1>3, <2>1 DEF SlabInv, StacksOK
  <2> QED
    BY <1>2, <2>1, <2>2 DEF SlabInv, SlabReap
<1>5. CASE k = 0
  <2>1. /\ anchor' = Slab!slabinfo_stacks_fetch(ext) /\ extents' = Len(anchor')
        /\ results' = Slab!slabinfo_assign_results(anchor')
    BY <1>5 DEF Slab!procps_slabinfo_reap
  <2>2. text \in Seq(Caches) /\ Len(text) \in Nat /\ nodes' = text /\ text' = text
    BY <1>1, <1>2, <1>5, TextIs DEF SlabInv, SlabBase
  <2> HIDE DEF ext
  <2>3. /\ anchor' \in Seq(StackRecs) /\ Len(text) <= Len(anchor')
        /\ \A i \in 1 .. Len(anchor') : anchor'[i].at = i /\ anchor'[i].items = list
    BY <1>3, <2>1, <2>2, FetchIs DEF SlabInv
  <2>4. StacksOK'
    BY <1>1, <1>3, <2>1, <2>3 DEF StacksOK
  <2>5. results' = [i \in 1 .. Len(text) |-> [stack |-> anchor'[i], node |-> text[i]]]
    BY <2>1, <2>2 DEF Slab!slabinfo_assign_results
  <2>6. \A i \in 1 .. Len(text) : i \in 1 .. Len(anchor')
    BY <2>2, <2>3
  <2>7. \A i \in 1 .. Len(text) : anchor'[i] \in StackRecs /\ text[i] \in Caches
    BY <2>2, <2>3, <2>6
  <2>8. results' \in Seq(Shown) /\ Len(results') = Len(text)
    <3>1. results' \in [1 .. Len(text) -> Shown]
      BY <2>5, <2>7 DEF Shown
    <3> QED
      BY <2>2, <3>1
  <2>9. \A i \in 1 .. Len(text) : results'[i].stack = anchor'[i] /\ results'[i].node = text[i]
    BY <2>5
  <2>10. Apart(results', Len(text))
    BY <2>3, <2>6, <2>9 DEF Apart
  <2>11. MadeFor(results', items', Len(text))
    BY <1>1, <1>3, <2>3, <2>6, <2>9 DEF MadeFor
  <2>13. Covers(results', text, Len(text))
    BY <2>9 DEF Covers
  <2>12. SlabReap'
    BY <2>2, <2>8, <2>10, <2>11, <2>13 DEF SlabReap
  <2> QED
    BY <1>2, <2>4, <2>12 DEF SlabInv
<1> QED
  BY <1>4, <1>5

\* What is put one to one in n places fills them all.
LEMMA PermCovers ==
  ASSUME NEW n \in Nat, NEW p \in Slab!Perms(n)
  PROVE  \A j \in 1 .. n : \E i \in 1 .. n : p[i] = j
<1> DEFINE S == 1 .. n
<1>1. p \in [S -> S] /\ \A i, j \in S : p[i] = p[j] => i = j
  BY DEF Slab!Perms
<1>2. IsFiniteSet(S)
  BY FS_Interval
<1>3. p \in Injection(S, S)
  BY <1>1 DEF Injection, IsInjective
<1>4. p \in Surjection(S, S)
  BY <1>2, <1>3, FS_Injection
<1> QED
  BY <1>4 DEF Surjection

\* sort loses no cache and shows none twice.
LEMMA SlabSorts ==
  ASSUME SlabInv, NEW order, Slab!procps_slabinfo_sort(order)
  PROVE  SlabInv'
<1>1. out = "reap" /\ UNCHANGED <<text, secs, refcount, nodes, nodes_alloc, new, old, items,
                                  extents, anchor, sav_secs, reads>>
  BY DEF Slab!procps_slabinfo_sort, Slab!kernel
<1>2. SlabBase' /\ SlabReads' /\ StacksOK'
  BY <1>1 DEF SlabInv, SlabBase, SlabReads, StacksOK
<1>3. /\ results \in Seq(Shown) /\ Len(results) = Len(text)
      /\ Covers(results, text, Len(text)) /\ Apart(results, Len(text))
      /\ MadeFor(results, items, Len(text))
  BY <1>1 DEF SlabInv, SlabReap
<1> DEFINE n == Len(text)
<1>4. n \in Nat /\ DOMAIN results = 1 .. n
  BY <1>3
<1>5. PICK p \in Slab!Perms(n) : results' = [i \in 1 .. n |-> results[p[i]]]
  BY <1>3, <1>4 DEF Slab!procps_slabinfo_sort
<1>6. \A i \in 1 .. n : results[i] \in Shown
  BY <1>3
<1> HIDE DEF n
<1>7. p \in [1 .. n -> 1 .. n] /\ \A i, j \in 1 .. n : p[i] = p[j] => i = j
  BY <1>5 DEF Slab!Perms
<1>8. \A i \in 1 .. n : p[i] \in 1 .. n /\ results'[i] = results[p[i]]
  BY <1>5, <1>7
<1>9. results' \in Seq(Shown) /\ Len(results') = n
  <2>1. results' \in [1 .. n -> Shown]
    BY <1>5, <1>6, <1>8
  <2> QED
    BY <1>4, <2>1
<1>10. Covers(results', text, n)
  <2> SUFFICES ASSUME NEW c \in 1 .. n PROVE \E k \in 1 .. n : results'[k].node = text[c]
    BY DEF Covers
  <2>1. PICK j \in 1 .. n : results[j].node = text[c]
    BY <1>3 DEF Covers, n
  <2>2. \A j1 \in 1 .. n : \E i \in 1 .. n : p[i] = j1
    BY <1>4, <1>5, PermCovers
  <2>3. PICK i \in 1 .. n : p[i] = j
    BY <2>2
  <2> QED
    BY <1>8, <2>1, <2>3
<1>11. Apart(results', n)
  <2> SUFFICES ASSUME NEW i \in 1 .. n, NEW j \in 1 .. n, results'[i].stack = results'[j].stack
               PROVE  i = j
    BY DEF Apart
  <2>1. p[i] = p[j]
    BY <1>3, <1>8 DEF Apart, n
  <2> QED
    BY <1>7, <2>1
<1>12. MadeFor(results', items, n)
  BY <1>3, <1>8 DEF MadeFor, n
<1>13. SlabReap'
  BY <1>1, <1>9, <1>10, <1>11, <1>12 DEF SlabReap, n
<1> QED
  BY <1>2, <1>13 DEF SlabInv

\* Every step of slabinfo keeps it.
LEMMA SlabNext ==
  ASSUME SlabInv, Slab!Next PROVE SlabInv'
<1>1. ASSUME NEW k \in Slab!Outcome, NEW list \in SlabLists, Slab!procps_slabinfo_reap(list, k)
      PROVE  SlabInv'
  BY <1>1, SlabReaps
<1>2. ASSUME NEW order \in {1, -1}, Slab!procps_slabinfo_sort(order) PROVE SlabInv'
  BY <1>2, SlabSorts
<1> QED
  BY <1>1, <1>2, SlabOthers DEF Slab!Next

\* And it is what a caller relies on.
LEMMA SlabShows ==
  ASSUME SlabInv PROVE Slab!NodesFit /\ Slab!ReapShowsAll /\ Slab!TotalsRight
<1>1. Slab!NodesFit
  BY DEF SlabInv, SlabBase, StacksOK, Slab!NodesFit
<1>2. Slab!ReapShowsAll
  <2> SUFFICES ASSUME out \in {"reap", "sort"}
               PROVE  /\ Len(results) = Len(text)
                      /\ \A c \in Slab!ToSet(text) : \E i \in DOMAIN results : results[i].node = c
                      /\ \A i, j \in DOMAIN results : results[i].stack = results[j].stack => i = j
                      /\ \A i \in DOMAIN results : results[i].stack.items = items
    BY DEF Slab!ReapShowsAll
  <2>1. /\ results \in Seq(Shown) /\ Len(results) = Len(text)
        /\ Covers(results, text, Len(text)) /\ Apart(results, Len(text))
        /\ MadeFor(results, items, Len(text))
    BY DEF SlabInv, SlabReap
  <2>2. DOMAIN text = 1 .. Len(text)
    BY TextIs DEF SlabInv, SlabBase
  <2>3. DOMAIN results = 1 .. Len(text)
    BY <2>1
  <2>4. \A c \in Slab!ToSet(text) : \E i \in 1 .. Len(text) : text[i] = c
    BY <2>2 DEF Slab!ToSet
  <2>5. \A c \in Slab!ToSet(text) : \E i \in DOMAIN results : results[i].node = c
    BY <2>1, <2>3, <2>4 DEF Covers
  <2>6. \A i, j \in DOMAIN results : results[i].stack = results[j].stack => i = j
    BY <2>1, <2>3 DEF Apart
  <2>7. \A i \in DOMAIN results : results[i].stack.items = items
    BY <2>1, <2>3 DEF MadeFor
  <2> QED
    BY <2>1, <2>5, <2>6, <2>7
<1>3. Slab!TotalsRight
  BY DEF SlabInv, SlabReads, Between, Slab!TotalsRight
<1> QED
  BY <1>1, <1>2, <1>3

--------------------------------------------------------------------------------
(* stat: sums of tics.                                                      *)

Jifs == Stt!stat_jifs
Any(s) == CHOOSE x \in s : TRUE

\* Sums of tics are tics, in any order.
LEMMA SumFacts ==
  /\ Stt!NoTics \in Jifs
  /\ \A a, b \in Jifs : Stt!Sum(a, b) \in Jifs /\ Stt!Sum(a, b) = Stt!Sum(b, a)
  /\ \A a \in Jifs : Stt!Sum(a, Stt!NoTics) = a
<1>1. Stt!NoTics \in Jifs
  BY DEF Stt!NoTics, Jifs, Stt!stat_jifs
<1>2. \A a, b \in Jifs : Stt!Sum(a, b) \in Jifs /\ Stt!Sum(a, b) = Stt!Sum(b, a)
  BY DEF Jifs, Stt!stat_jifs, Stt!Sum
<1>3. \A a \in Jifs : Stt!Sum(a, Stt!NoTics) = a
  BY DEF Jifs, Stt!stat_jifs, Stt!Sum, Stt!NoTics
<1> QED
  BY <1>1, <1>2, <1>3

\* What is added last may be added first.
LEMMA SumSwap ==
  ASSUME NEW a \in Jifs, NEW b \in Jifs, NEW c \in Jifs
  PROVE  /\ Stt!Sum(Stt!Sum(a, b), c) = Stt!Sum(Stt!Sum(a, c), b)
         /\ Stt!Sum(Stt!Sum(a, b), c) = Stt!Sum(a, Stt!Sum(b, c))
BY DEF Jifs, Stt!stat_jifs, Stt!Sum

\* The function that Total computes with, over sets that are no larger than n.
Summing(it, h, D) ==
  it = [s \in D |-> IF s = {} THEN Stt!NoTics ELSE Stt!Sum(it[s \ {Any(s)}], h[Any(s)])]
Small(S, n) == {t \in SUBSET S : Cardinality(t) <= n}

\* A finite set without one of its members.
LEMMA OneLess ==
  ASSUME NEW S, IsFiniteSet(S), NEW s \in SUBSET S, NEW x \in s
  PROVE  /\ IsFiniteSet(s) /\ IsFiniteSet(s \ {x}) /\ s \ {x} \in SUBSET S
         /\ Cardinality(s) \in Nat /\ Cardinality(s \ {x}) = Cardinality(s) - 1
<1>1. IsFiniteSet(s)
  BY FS_Subset
<1> QED
  BY <1>1, FS_RemoveElement, FS_CardinalityType

\* There is such a function.
LEMMA SummingExists ==
  ASSUME NEW h, NEW S, IsFiniteSet(S)
  PROVE  \E it : Summing(it, h, SUBSET S)
<1> DEFINE N == {n \in Nat : \E it : Summing(it, h, Small(S, n))}
<1>1. 0 \in N
  <2>1. Small(S, 0) \subseteq {{}}
    <3>1. ASSUME NEW t \in SUBSET S, Cardinality(t) <= 0 PROVE t = {}
      BY <3>1, FS_Subset, FS_CardinalityType, FS_EmptySet
    <3> QED
      BY <3>1 DEF Small
  <2> DEFINE z == [s \in Small(S, 0) |-> Stt!NoTics]
  <2>2. Summing(z, h, Small(S, 0))
    BY <2>1 DEF Summing
  <2> QED
    BY <2>2
<1>2. ASSUME NEW n \in Nat, n \in N PROVE n + 1 \in N
  <2>1. PICK g : Summing(g, h, Small(S, n))
    BY <1>2
  <2> DEFINE f == [s \in Small(S, n + 1) |->
                     IF s = {} THEN Stt!NoTics ELSE Stt!Sum(g[s \ {Any(s)}], h[Any(s)])]
  <2>2. ASSUME NEW s \in Small(S, n + 1), s # {}
        PROVE  f[s \ {Any(s)}] = g[s \ {Any(s)}]
    <3> DEFINE t == s \ {Any(s)}
    <3>1. Any(s) \in s
      BY <2>2 DEF Any
    <3>2. t \in Small(S, n) /\ t \in Small(S, n + 1)
      <4>1. s \in SUBSET S /\ Cardinality(s) <= n + 1
        BY <2>2 DEF Small
      <4>2. t \in SUBSET S /\ Cardinality(s) \in Nat /\ Cardinality(t) = Cardinality(s) - 1
        BY <3>1, <4>1, OneLess
      <4> HIDE DEF t
      <4> QED
        BY <4>1, <4>2 DEF Small
    <3> HIDE DEF t
    <3>3. f[t] = IF t = {} THEN Stt!NoTics ELSE Stt!Sum(g[t \ {Any(t)}], h[Any(t)])
      BY <3>2
    <3>4. g[t] = IF t = {} THEN Stt!NoTics ELSE Stt!Sum(g[t \ {Any(t)}], h[Any(t)])
      BY <2>1, <3>2 DEF Summing
    <3> QED
      BY <3>3, <3>4 DEF t
  <2>3. f = [s \in Small(S, n + 1) |->
               IF s = {} THEN Stt!NoTics ELSE Stt!Sum(f[s \ {Any(s)}], h[Any(s)])]
    BY <2>2
  <2> HIDE DEF f
  <2>4. Summing(f, h, Small(S, n + 1))
    BY <2>3 DEF Summing
  <2> QED
    BY <2>4
<1>3. Nat \subseteq N
  BY <1>1, <1>2, NatSteps
<1>4. Cardinality(S) \in Nat
  BY FS_CardinalityType
<1>5. Small(S, Cardinality(S)) = SUBSET S
  BY FS_Subset DEF Small
<1>6. \E it : Summing(it, h, Small(S, Cardinality(S)))
  BY <1>3, <1>4
<1> QED
  BY <1>5, <1>6

\* f is for S and g for T, a part of it.
Both(f, g, h, S, T) ==
  T \in SUBSET S /\ Summing(f, h, SUBSET S) /\ Summing(g, h, SUBSET T)

\* Functions for a set and for a part of it agree there.
LEMMA SummingAgree ==
  ASSUME NEW h, NEW S, IsFiniteSet(S), NEW T, NEW f, NEW g, Both(f, g, h, S, T)
  PROVE  f[T] = g[T]
<1> USE DEF Both
<1> DEFINE N == {n \in Nat : \A t \in SUBSET T : Cardinality(t) = n => f[t] = g[t]}
<1>0. IsFiniteSet(T) /\ Cardinality(T) \in Nat /\ T \in SUBSET T
  BY FS_Subset, FS_CardinalityType
<1>1. ASSUME NEW t \in SUBSET T
      PROVE  /\ f[t] = IF t = {} THEN Stt!NoTics ELSE Stt!Sum(f[t \ {Any(t)}], h[Any(t)])
             /\ g[t] = IF t = {} THEN Stt!NoTics ELSE Stt!Sum(g[t \ {Any(t)}], h[Any(t)])
  <2>1. t \in SUBSET S
    OBVIOUS
  <2> QED
    BY <2>1 DEF Summing
<1>2. 0 \in N
  <2>1. ASSUME NEW t \in SUBSET T, Cardinality(t) = 0 PROVE f[t] = g[t]
    <3>1. t = {}
      BY <1>0, <2>1, FS_Subset, FS_EmptySet
    <3> QED
      BY <1>1, <3>1
  <2> QED
    BY <2>1
<1>3. ASSUME NEW n \in Nat, n \in N PROVE n + 1 \in N
  <2>1. ASSUME NEW t \in SUBSET T, Cardinality(t) = n + 1 PROVE f[t] = g[t]
    <3>0. Cardinality({}) = 0 /\ n + 1 # 0
      BY FS_EmptySet
    <3>1. t # {}
      BY <2>1, <3>0
    <3>2. Any(t) \in t
      BY <3>1 DEF Any
    <3>3. t \ {Any(t)} \in SUBSET T /\ Cardinality(t \ {Any(t)}) = (n + 1) - 1
      BY <1>0, <2>1, <3>2, OneLess
    <3>4. f[t \ {Any(t)}] = g[t \ {Any(t)}]
      BY <1>3, <3>3
    <3> QED
      BY <1>1, <3>1, <3>4
  <2> QED
    BY <2>1
<1>4. Cardinality(T) \in N
  BY <1>0, <1>2, <1>3, NatSteps
<1> QED
  BY <1>0, <1>4

\* What Total is: nothing of nothing, and one more of the others.
LEMMA TotalSteps ==
  ASSUME NEW h, NEW S, IsFiniteSet(S)
  PROVE  Stt!Total(h, S) = IF S = {} THEN Stt!NoTics
                           ELSE Stt!Sum(Stt!Total(h, S \ {Any(S)}), h[Any(S)])
<1> DEFINE f == CHOOSE it : Summing(it, h, SUBSET S)
           T == S \ {Any(S)}
           g == CHOOSE it : Summing(it, h, SUBSET T)
<1>1. Summing(f, h, SUBSET S)
  BY SummingExists
<1>2. IsFiniteSet(T) /\ T \in SUBSET S
  BY FS_Subset
<1> HIDE DEF T
<1>3. Summing(g, h, SUBSET T)
  BY <1>2, SummingExists
<1>4. Stt!Total(h, S) = f[S]
  BY DEF Stt!Total, Stt!FoldSet, Stt!MapThenFoldSet, Summing, Any
<1>5. Stt!Total(h, T) = g[T]
  BY DEF Stt!Total, Stt!FoldSet, Stt!MapThenFoldSet, Summing, Any
<1> HIDE DEF f, g
<1>6. f[S] = IF S = {} THEN Stt!NoTics ELSE Stt!Sum(f[T], h[Any(S)])
  BY <1>1 DEF Summing, T
<1>7. f[T] = g[T]
  <2>1. Both(f, g, h, S, T)
    BY <1>1, <1>2, <1>3 DEF Both
  <2> QED
    BY <2>1, SummingAgree
<1> QED
  BY <1>4, <1>5, <1>6, <1>7 DEF T

\* Sets no larger than a finite set, by induction on their size: the total of
\* tics is tics, and any member may be taken out first.
LEMMA TotalFacts ==
  ASSUME NEW S, IsFiniteSet(S), NEW h, \A k \in S : h[k] \in Jifs
  PROVE  \A T \in SUBSET S :
           /\ Stt!Total(h, T) \in Jifs
           /\ \A x \in T : Stt!Total(h, T) = Stt!Sum(Stt!Total(h, T \ {x}), h[x])
<1> DEFINE Good(T) == /\ Stt!Total(h, T) \in Jifs
                      /\ \A x \in T : Stt!Total(h, T) = Stt!Sum(Stt!Total(h, T \ {x}), h[x])
           N == {n \in Nat : \A T \in SUBSET S : Cardinality(T) <= n => Good(T)}
<1>1. \A T \in SUBSET S : IsFiniteSet(T) /\ Cardinality(T) \in Nat
  BY FS_Subset, FS_CardinalityType
<1>2. 0 \in N
  <2>1. ASSUME NEW T \in SUBSET S, Cardinality(T) <= 0 PROVE Good(T)
    <3>1. T = {}
      BY <1>1, <2>1, FS_EmptySet
    <3>2. Stt!Total(h, T) = Stt!NoTics
      BY <1>1, <3>1, TotalSteps
    <3> QED
      BY <3>1, <3>2, SumFacts
  <2> QED
    BY <2>1
<1>3. ASSUME NEW n \in Nat, n \in N PROVE n + 1 \in N
  <2>1. ASSUME NEW T \in SUBSET S, Cardinality(T) = n + 1 PROVE Good(T)
    <3>0. Cardinality({}) = 0 /\ n + 1 # 0
      BY FS_EmptySet
    <3>1. T # {}
      BY <2>1, <3>0
    <3> DEFINE y == Any(T)
    <3>2. y \in T /\ y \in S
      BY <3>1 DEF Any
    <3>3. Stt!Total(h, T) = Stt!Sum(Stt!Total(h, T \ {y}), h[y])
      BY <1>1, <3>1, TotalSteps
    <3> HIDE DEF y
    <3>4. ASSUME NEW x \in T
          PROVE  T \ {x} \in SUBSET S /\ Cardinality(T \ {x}) = n /\ Good(T \ {x}) /\ h[x] \in Jifs
      <4>1. T \ {x} \in SUBSET S /\ Cardinality(T \ {x}) = (n + 1) - 1
        BY <2>1, OneLess
      <4>2. Cardinality(T \ {x}) = n /\ n <= n
        BY <4>1
      <4>3. Good(T \ {x})
        BY <1>3, <4>1, <4>2
      <4>4. h[x] \in Jifs
        OBVIOUS
      <4> HIDE DEF Good
      <4> QED
        BY <4>1, <4>2, <4>3, <4>4
    <3>5. Stt!Total(h, T) \in Jifs
      <4>1. Stt!Total(h, T \ {y}) \in Jifs /\ h[y] \in Jifs
        BY <3>2, <3>4
      <4>2. Stt!Sum(Stt!Total(h, T \ {y}), h[y]) \in Jifs
        BY <4>1, SumFacts
      <4> QED
        BY <3>3, <4>2
    <3>6. ASSUME NEW x \in T, x # y PROVE Stt!Total(h, T) = Stt!Sum(Stt!Total(h, T \ {x}), h[x])
      <4> DEFINE R == (T \ {x}) \ {y}
                 r == Stt!Total(h, R)
      <4>1. R = (T \ {y}) \ {x} /\ x \in T \ {y} /\ y \in T \ {x}
        BY <3>2, <3>6
      <4>2. Stt!Total(h, T \ {y}) = Stt!Sum(r, h[x])
        BY <3>2, <3>4, <4>1
      <4>3. Stt!Total(h, T \ {x}) = Stt!Sum(r, h[y])
        BY <3>4, <4>1
      <4>4. r \in Jifs
        <5>1. R \in SUBSET S /\ Cardinality(R) = n - 1
          <6>1. T \ {x} \in SUBSET S /\ Cardinality(T \ {x}) = n /\ y \in T \ {x}
            BY <3>4, <4>1
          <6> QED
            BY <6>1, OneLess
        <5>2. Cardinality(R) <= n
          BY <5>1
        <5> QED
          BY <1>3, <5>1, <5>2
      <4> HIDE DEF R, r
      <4>5. h[x] \in Jifs /\ h[y] \in Jifs
        BY <3>2, <3>4
      <4>6. Stt!Sum(Stt!Sum(r, h[x]), h[y]) = Stt!Sum(Stt!Sum(r, h[y]), h[x])
        BY <4>4, <4>5, SumSwap
      <4> QED
        BY <3>3, <4>2, <4>3, <4>6
    <3> QED
      BY <3>3, <3>5, <3>6
  <2>2. ASSUME NEW T \in SUBSET S, Cardinality(T) <= n + 1 PROVE Good(T)
    <3>1. Cardinality(T) <= n \/ Cardinality(T) = n + 1
      BY <1>1, <2>2
    <3> QED
      BY <1>3, <2>1, <3>1
  <2> QED
    BY <2>2
<1>4. Nat \subseteq N
  BY <1>2, <1>3, NatSteps
<1> QED
  BY <1>1, <1>4

\* Induction over the parts of a finite set.
LEMMA SetSteps ==
  ASSUME NEW S, IsFiniteSet(S), NEW F, {} \in F,
         \A T \in SUBSET S : \A x \in S \ T : T \in F => T \cup {x} \in F
  PROVE  SUBSET S \subseteq F
<1> DEFINE N == {n \in Nat : \A T \in SUBSET S : Cardinality(T) = n => T \in F}
<1>1. \A T \in SUBSET S : IsFiniteSet(T) /\ Cardinality(T) \in Nat
  BY FS_Subset, FS_CardinalityType
<1>2. 0 \in N
  BY <1>1, FS_EmptySet
<1>3. ASSUME NEW n \in Nat, n \in N PROVE n + 1 \in N
  <2>1. ASSUME NEW T \in SUBSET S, Cardinality(T) = n + 1 PROVE T \in F
    <3>0. Cardinality({}) = 0 /\ n + 1 # 0
      BY FS_EmptySet
    <3>1. PICK x \in T : TRUE
      BY <2>1, <3>0
    <3>2. T \ {x} \in SUBSET S /\ Cardinality(T \ {x}) = (n + 1) - 1
      BY <2>1, OneLess
    <3>3. T \ {x} \in F
      BY <1>3, <3>2
    <3>4. x \in S \ (T \ {x}) /\ (T \ {x}) \cup {x} = T
      OBVIOUS
    <3>5. (T \ {x}) \cup {x} \in F
      BY <3>2, <3>3, <3>4
    <3> QED
      BY <3>4, <3>5
  <2> QED
    BY <2>1
<1> QED
  BY <1>1, <1>2, <1>3, NatSteps

\* The total of two sets that have nothing in common.
LEMMA TotalUnion ==
  ASSUME NEW S, IsFiniteSet(S), NEW h, \A k \in S : h[k] \in Jifs,
         NEW A \in SUBSET S, NEW B \in SUBSET S, A \cap B = {}
  PROVE  Stt!Total(h, A \cup B) = Stt!Sum(Stt!Total(h, A), Stt!Total(h, B))
<1> DEFINE F == {T \in SUBSET S : A \cap T = {} =>
                   Stt!Total(h, A \cup T) = Stt!Sum(Stt!Total(h, A), Stt!Total(h, T))}
<1>1. {} \in F
  <2>1. Stt!Total(h, {}) = Stt!NoTics
    BY FS_EmptySet, TotalSteps
  <2>2. Stt!Total(h, A) \in Jifs /\ A \cup {} = A
    BY TotalFacts
  <2>3. Stt!Total(h, A \cup {}) = Stt!Sum(Stt!Total(h, A), Stt!Total(h, {}))
    BY <2>1, <2>2, SumFacts
  <2> QED
    BY <2>3
<1>2. ASSUME NEW T \in SUBSET S, NEW x \in S \ T, T \in F PROVE T \cup {x} \in F
  <2> SUFFICES ASSUME A \cap (T \cup {x}) = {}
               PROVE  Stt!Total(h, A \cup (T \cup {x}))
                        = Stt!Sum(Stt!Total(h, A), Stt!Total(h, T \cup {x}))
    OBVIOUS
  <2> DEFINE U == A \cup (T \cup {x})
             V == T \cup {x}
             a == Stt!Total(h, A)
             t == Stt!Total(h, T)
  <2>1. /\ U \in SUBSET S /\ V \in SUBSET S /\ U \ {x} = A \cup T /\ V \ {x} = T
        /\ x \in U /\ x \in V /\ A \cap T = {}
    BY <1>2
  <2>2. Stt!Total(h, A \cup T) = Stt!Sum(a, t)
    BY <1>2, <2>1
  <2> HIDE DEF U, V, F
  <2>3. Stt!Total(h, U) = Stt!Sum(Stt!Total(h, A \cup T), h[x])
    BY <2>1, TotalFacts
  <2>4. Stt!Total(h, V) = Stt!Sum(t, h[x])
    BY <2>1, TotalFacts
  <2>5. a \in Jifs /\ t \in Jifs /\ h[x] \in Jifs
    BY TotalFacts
  <2> HIDE DEF a, t
  <2>6. Stt!Sum(Stt!Sum(a, t), h[x]) = Stt!Sum(a, Stt!Sum(t, h[x]))
    BY <2>5, SumSwap
  <2>7. Stt!Total(h, U) = Stt!Sum(a, Stt!Total(h, V))
    BY <2>2, <2>3, <2>4, <2>6
  <2> QED
    BY <2>7 DEF U, V, a
<1>3. B \in F
  <2> HIDE DEF F
  <2>1. \A T \in SUBSET S : \A x \in S \ T : T \in F => T \cup {x} \in F
    BY <1>2
  <2>2. SUBSET S \subseteq F
    BY <1>1, <2>1, SetSteps
  <2> QED
    BY <2>2
<1> QED
  BY <1>3

\* Totals by node add up to the total of all that have one of the nodes.
LEMMA TotalNodes ==
  ASSUME NEW S, IsFiniteSet(S), NEW h, \A k \in S : h[k] \in Jifs,
         NEW M, IsFiniteSet(M), NEW node, NEW g,
         \A m \in M : g[m] = Stt!Total(h, {k \in S : node[k] = m})
  PROVE  Stt!Total(g, M) = Stt!Total(h, {k \in S : node[k] \in M})
<1> DEFINE On(T) == {k \in S : node[k] \in T}
           F == {T \in SUBSET M : Stt!Total(g, T) = Stt!Total(h, On(T))}
<1>0. ASSUME NEW m \in M PROVE g[m] \in Jifs
  <2> DEFINE K == {k \in S : node[k] = m}
  <2>1. K \in SUBSET S /\ g[m] = Stt!Total(h, K)
    OBVIOUS
  <2> HIDE DEF K
  <2> QED
    BY <2>1, TotalFacts
<1>1. {} \in F
  <2>1. On({}) = {}
    OBVIOUS
  <2>2. Stt!Total(h, {}) = Stt!NoTics /\ Stt!Total(g, {}) = Stt!NoTics
    BY FS_EmptySet, TotalSteps
  <2> QED
    BY <2>1, <2>2
<1>2. ASSUME NEW T \in SUBSET M, NEW x \in M \ T, T \in F PROVE T \cup {x} \in F
  <2> DEFINE U == T \cup {x}
             X == {k \in S : node[k] = x}
  <2>1. U \in SUBSET M /\ x \in U /\ U \ {x} = T
    OBVIOUS
  <2>2. On(U) = On(T) \cup X /\ On(T) \cap X = {} /\ On(T) \in SUBSET S /\ X \in SUBSET S
    BY <1>2
  <2>3. g[x] = Stt!Total(h, X)
    OBVIOUS
  <2>4. Stt!Total(g, T) = Stt!Total(h, On(T))
    BY <1>2
  <2> HIDE DEF U, X, On, F
  <2>5. Stt!Total(g, U) = Stt!Sum(Stt!Total(g, T), g[x])
    BY <1>0, <2>1, TotalFacts
  <2>6. Stt!Total(h, On(U)) = Stt!Sum(Stt!Total(h, On(T)), Stt!Total(h, X))
    BY <2>2, TotalUnion
  <2>7. Stt!Total(g, U) = Stt!Total(h, On(U))
    BY <2>3, <2>4, <2>5, <2>6
  <2> QED
    BY <2>1, <2>7 DEF F, U
<1>3. M \in F
  <2> HIDE DEF F
  <2>1. \A T \in SUBSET M : \A x \in M \ T : T \in F => T \cup {x} \in F
    BY <1>2
  <2>2. SUBSET M \subseteq F
    BY <1>1, <2>1, SetSteps
  <2> QED
    BY <2>2
<1> QED
  BY <1>3

--------------------------------------------------------------------------------
(* stat: the lines of the cpus.                                             *)

\* The size of a set is its size, whichever module says it.
LEMMA SameSize == \A S : Stt!Cardinality(S) = Cardinality(S)
BY DEF Stt!Cardinality, Cardinality

\* n members of T, rising.
Rising(s, T, n) == s \in [1 .. n -> T] /\ \A i, j \in 1 .. n : i < j => s[i] < s[j]

\* The members of a finite set of numbers can be put in order: the least one
\* before the others in order.
LEMMA RisingExists ==
  ASSUME NEW S \in SUBSET Nat, IsFiniteSet(S)
  PROVE  \E s : Rising(s, S, Cardinality(S))
<1> DEFINE N == {n \in Nat : \A T \in SUBSET S : Cardinality(T) = n => \E s : Rising(s, T, n)}
<1>1. 0 \in N
  <2>1. ASSUME NEW T \in SUBSET S PROVE Rising([i \in 1 .. 0 |-> 0], T, 0)
    BY DEF Rising
  <2> QED
    BY <2>1
<1>2. ASSUME NEW n \in Nat, n \in N PROVE n + 1 \in N
  <2>1. ASSUME NEW T \in SUBSET S, Cardinality(T) = n + 1 PROVE \E s : Rising(s, T, n + 1)
    <3>0. Cardinality({}) = 0 /\ n + 1 # 0
      BY FS_EmptySet
    <3>1. T # {} /\ T \in SUBSET Nat
      BY <2>1, <3>0
    <3>2. PICK m \in T : \A x \in T : m <= x
      BY <3>1, LeastNat
    <3> DEFINE R == T \ {m}
    <3>3. R \in SUBSET S /\ Cardinality(R) = (n + 1) - 1
      BY <2>1, OneLess
    <3>4. \A x \in R : x \in T /\ m < x
      BY <3>1, <3>2
    <3> HIDE DEF R
    <3>5. PICK r : Rising(r, R, n)
      BY <1>2, <3>3
    <3> DEFINE s == [k \in 1 .. n + 1 |-> IF k = 1 THEN m ELSE r[k - 1]]
    <3>6. \A k \in 1 .. n + 1 : k # 1 => k - 1 \in 1 .. n /\ s[k] = r[k - 1] /\ r[k - 1] \in R
      <4>1. \A k \in 1 .. n + 1 : k # 1 => k - 1 \in 1 .. n
        OBVIOUS
      <4> QED
        BY <3>5, <4>1 DEF Rising
    <3>7. s \in [1 .. n + 1 -> T]
      BY <3>2, <3>4, <3>6
    <3>8. 1 \in 1 .. n + 1 /\ s[1] = m
      OBVIOUS
    <3> HIDE DEF s
    <3>9. ASSUME NEW i \in 1 .. n + 1, NEW j \in 1 .. n + 1, i < j PROVE s[i] < s[j]
      <4>1. j # 1
        BY <3>9
      <4>2. CASE i = 1
        BY <3>4, <3>6, <3>8, <4>1, <4>2
      <4>3. CASE i # 1
        <5>1. i - 1 < j - 1
          BY <3>9
        <5>2. r[i - 1] < r[j - 1]
          BY <3>5, <3>6, <4>1, <4>3, <5>1 DEF Rising
        <5> QED
          BY <3>6, <4>1, <4>3, <5>2
      <4> QED
        BY <4>2, <4>3
    <3>10. Rising(s, T, n + 1)
      BY <3>7, <3>9 DEF Rising
    <3> QED
      BY <3>10
  <2> QED
    BY <2>1
<1>3. Cardinality(S) \in N
  BY <1>1, <1>2, NatSteps, FS_CardinalityType
<1> QED
  BY <1>3

\* The lines are those of the cpus there are, each once.
LEMMA LinesAre ==
  ASSUME NEW S \in SUBSET Nat, IsFiniteSet(S)
  PROVE  /\ Cardinality(S) \in Nat
         /\ Stt!Lines(S) \in [1 .. Cardinality(S) -> S]
         /\ \A i, j \in 1 .. Cardinality(S) : Stt!Lines(S)[i] = Stt!Lines(S)[j] => i = j
         /\ \A c \in S : \E i \in 1 .. Cardinality(S) : Stt!Lines(S)[i] = c
<1> DEFINE n == Cardinality(S)
           s == Stt!Lines(S)
<1>1. n \in Nat
  BY FS_CardinalityType
<1>2. Rising(s, S, n)
  <2>1. PICK r : Rising(r, S, n)
    BY RisingExists
  <2>2. r \in [1 .. n -> S] /\ \A i, j \in DOMAIN r : i < j => r[i] < r[j]
    BY <2>1 DEF Rising
  <2> DEFINE Up(x) == \A i, j \in DOMAIN x : i < j => x[i] < x[j]
  <2>4. s = CHOOSE x \in [1 .. n -> S] : Up(x)
    BY SameSize DEF Stt!Lines
  <2>5. r \in [1 .. n -> S] /\ Up(r)
    BY <2>2
  <2> HIDE DEF Up, s
  <2>6. s \in [1 .. n -> S] /\ Up(s)
    BY <2>4, <2>5
  <2>3. s \in [1 .. n -> S] /\ \A i, j \in DOMAIN s : i < j => s[i] < s[j]
    BY <2>6 DEF Up
  <2> HIDE DEF s
  <2> QED
    BY <2>3 DEF Rising
<1> HIDE DEF s
<1>3. \A i, j \in 1 .. n : s[i] = s[j] => i = j
  <2> SUFFICES ASSUME NEW i \in 1 .. n, NEW j \in 1 .. n, s[i] = s[j], i # j PROVE FALSE
    OBVIOUS
  <2>1. s[i] \in Nat /\ s[j] \in Nat
    BY <1>2 DEF Rising
  <2>2. i < j \/ j < i
    BY <1>1
  <2>3. s[i] < s[j] \/ s[j] < s[i]
    BY <1>2, <2>2 DEF Rising
  <2> QED
    BY <2>1, <2>3
<1>4. s \in Injection(1 .. n, S)
  BY <1>2, <1>3 DEF Rising, Injection, IsInjective
<1>5. Cardinality(1 .. n) = n
  BY <1>1, FS_Interval
<1>6. s \in Surjection(1 .. n, S)
  BY <1>4, <1>5, FS_Injection
<1>7. \A c \in S : \E i \in 1 .. n : s[i] = c
  BY <1>6 DEF Surjection
<1> QED
  BY <1>1, <1>2, <1>3, <1>7 DEF Rising, s

--------------------------------------------------------------------------------
(* stat: cores.                                                             *)

\* The largest of a set is the largest, whichever module says it.
LEMMA SameMax == \A s : Stt!Max(s) = Slab!Max(s)
BY DEF Stt!Max, Slab!Max

\* As for slabinfo.
LEMMA SttMaxOfSome ==
  ASSUME NEW k \in Nat, NEW s \in SUBSET (1 .. k + 1), s # {}
  PROVE  Stt!Max(s) \in s /\ (\A x \in s : x <= Stt!Max(s)) /\ s \ {Stt!Max(s)} \in SUBSET (1 .. k)
BY MaxOfSome, SameMax

\* As for slabinfo.
LEMMA SttMaxOfFirst ==
  ASSUME NEW k \in Nat, k > 0
  PROVE  Stt!Max(1 .. k) = k /\ (1 .. k) \ {k} = 1 .. (k - 1)
BY MaxOfFirst, SameMax

\* The function that FoldLeft of stat_core_add computes with.
Joining(it, base, seq, D) ==
  it = [s \in SUBSET D |->
          IF s = {} THEN base ELSE Stt!stat_core_add(it[s \ {Stt!Max(s)}], seq[Stt!Max(s)])]

AllJoined(base, seq) == Stt!FoldLeft(Stt!stat_core_add, base, seq)

\* There is such a function, as for Add.
LEMMA JoiningExists ==
  ASSUME NEW base, NEW seq
  PROVE  \A n \in Nat : \E it : Joining(it, base, seq, 1 .. n)
<1> DEFINE S == {k \in Nat : \E it : Joining(it, base, seq, 1 .. k)}
<1>1. 0 \in S
  <2> DEFINE z == [s \in SUBSET (1 .. 0) |-> base]
  <2>1. \A s \in SUBSET (1 .. 0) : s = {}
    OBVIOUS
  <2>2. Joining(z, base, seq, 1 .. 0)
    BY <2>1 DEF Joining
  <2> QED
    BY <2>2
<1>2. ASSUME NEW k \in Nat, k \in S PROVE k + 1 \in S
  <2>1. PICK g : Joining(g, base, seq, 1 .. k)
    BY <1>2
  <2> DEFINE h == [s \in SUBSET (1 .. k + 1) |->
                     IF s = {} THEN base ELSE Stt!stat_core_add(g[s \ {Stt!Max(s)}], seq[Stt!Max(s)])]
  <2>2. ASSUME NEW s \in SUBSET (1 .. k + 1), s # {}
        PROVE  h[s \ {Stt!Max(s)}] = g[s \ {Stt!Max(s)}]
    <3> DEFINE t == s \ {Stt!Max(s)}
    <3>1. t \in SUBSET (1 .. k)
      BY <2>2, SttMaxOfSome
    <3>2. t \in SUBSET (1 .. k + 1)
      BY <3>1
    <3> HIDE DEF t
    <3>3. h[t] = IF t = {} THEN base ELSE Stt!stat_core_add(g[t \ {Stt!Max(t)}], seq[Stt!Max(t)])
      BY <3>2
    <3>4. g[t] = IF t = {} THEN base ELSE Stt!stat_core_add(g[t \ {Stt!Max(t)}], seq[Stt!Max(t)])
      BY <2>1, <3>1 DEF Joining
    <3> QED
      BY <3>3, <3>4 DEF t
  <2>3. h = [s \in SUBSET (1 .. k + 1) |->
               IF s = {} THEN base ELSE Stt!stat_core_add(h[s \ {Stt!Max(s)}], seq[Stt!Max(s)])]
    BY <2>2
  <2> HIDE DEF h
  <2>4. Joining(h, base, seq, 1 .. k + 1)
    BY <2>3 DEF Joining
  <2> QED
    BY <2>4
<1> QED
  BY <1>1, <1>2, NatSteps

\* f has the cores after each line.
Building(f, n, base, seq) ==
  /\ f[0] = base /\ f[n] = AllJoined(base, seq)
  /\ \A k \in 1 .. n : f[k] = Stt!stat_core_add(f[k - 1], seq[k])

\* One cpu joins after the other.
LEMMA JoiningSteps ==
  ASSUME NEW base, NEW n \in Nat, NEW seq, DOMAIN seq = 1 .. n
  PROVE  \E f : Building(f, n, base, seq)
<1> DEFINE it == CHOOSE x : Joining(x, base, seq, 1 .. n)
           f == [k \in 0 .. n |-> it[1 .. k]]
<1>1. Joining(it, base, seq, 1 .. n)
  BY JoiningExists
<1>2. AllJoined(base, seq) = it[1 .. n]
  BY DEF AllJoined, Stt!FoldLeft, Stt!MapThenFoldSet, Joining
<1> HIDE DEF it
<1>3. f[0] = base /\ f[n] = it[1 .. n]
  <2>1. 1 .. 0 = {} /\ {} \in SUBSET (1 .. n) /\ 0 \in 0 .. n /\ n \in 0 .. n
    OBVIOUS
  <2>2. it[{}] = base
    BY <1>1, <2>1 DEF Joining
  <2> QED
    BY <2>1, <2>2
<1>4. ASSUME NEW k \in 1 .. n PROVE f[k] = Stt!stat_core_add(f[k - 1], seq[k])
  <2>1. 1 .. k \in SUBSET (1 .. n) /\ 1 .. k # {}
    <3>1. k \in 1 .. k
      OBVIOUS
    <3>2. \A j \in 1 .. k : j \in 1 .. n
      OBVIOUS
    <3> QED
      BY <3>1, <3>2
  <2>0. k \in 0 .. n /\ k - 1 \in 0 .. n
    OBVIOUS
  <2>2. Stt!Max(1 .. k) = k /\ (1 .. k) \ {k} = 1 .. (k - 1)
    BY SttMaxOfFirst
  <2>3. it[1 .. k] = Stt!stat_core_add(it[(1 .. k) \ {Stt!Max(1 .. k)}], seq[Stt!Max(1 .. k)])
    BY <1>1, <2>1 DEF Joining
  <2>4. it[1 .. k] = Stt!stat_core_add(it[1 .. (k - 1)], seq[k])
    BY <2>2, <2>3
  <2> QED
    BY <2>0, <2>4
<1> HIDE DEF f
<1> QED
  BY <1>2, <1>3, <1>4 DEF Building

CoreIds  == {CoreOf[c] : c \in Cpu}
CoreRecs == [id : CoreIds, type : Nat, threads : SUBSET Cpu]

\* The cores hold the cpus of A, each the ones that are its own.
Owns(list, A) == \A j \in 1 .. Len(list) : list[j].threads = {c \in A : CoreOf[c] = list[j].id}
Housed(list, A) == \A c \in A : \E j \in 1 .. Len(list) : list[j].id = CoreOf[c]
Joined(list, A) == list \in Seq(CoreRecs) /\ Owns(list, A) /\ Housed(list, A)

\* A record of a core with other threads.
LEMMA CoreThreads ==
  ASSUME NEW r \in CoreRecs, NEW T \in SUBSET Cpu
  PROVE  /\ r.id \in CoreIds /\ r.type \in Nat /\ r.threads \in SUBSET Cpu
         /\ [r EXCEPT !.threads = T] \in CoreRecs
         /\ [r EXCEPT !.threads = T].id = r.id /\ [r EXCEPT !.threads = T].threads = T
BY DEF CoreRecs

\* A record of a core of another type.
LEMMA CoreTypes ==
  ASSUME NEW r \in CoreRecs, NEW y \in Nat
  PROVE  /\ [r EXCEPT !.type = y] \in CoreRecs
         /\ [r EXCEPT !.type = y].id = r.id /\ [r EXCEPT !.type = y].threads = r.threads
         /\ [r EXCEPT !.type = y].type = y
BY DEF CoreRecs

\* A cpu joins its own core and no other.
LEMMA CoreAddJoins ==
  ASSUME NEW A \in SUBSET Cpu, NEW cpu \in Cpu, NEW list, Joined(list, A)
  PROVE  Joined(Stt!stat_core_add(list, cpu), A \cup {cpu})
<1> DEFINE new1 == Stt!stat_core_add(list, cpu)
           B == A \cup {cpu}
           n == Len(list)
<1>1. list \in Seq(CoreRecs) /\ n \in Nat /\ DOMAIN list = 1 .. n
  BY DEF Joined
<1>2. \A j \in 1 .. n : list[j] \in CoreRecs
  BY <1>1
<1>3. \A j \in 1 .. n : list[j].threads \cup {cpu} \in SUBSET Cpu
  BY <1>2 DEF CoreRecs
<1>4. CASE \E j \in 1 .. n : list[j].id = CoreOf[cpu]
  <2>1. new1 = [k \in 1 .. n |-> IF list[k].id = CoreOf[cpu]
                                  THEN [list[k] EXCEPT !.threads = list[k].threads \cup {cpu}]
                                  ELSE list[k]]
    BY <1>1, <1>4 DEF Stt!stat_core_add
  <2> HIDE DEF new1, n
  <2>2. ASSUME NEW k \in 1 .. n
        PROVE  /\ new1[k] \in CoreRecs /\ new1[k].id = list[k].id
               /\ new1[k].threads = IF list[k].id = CoreOf[cpu] THEN list[k].threads \cup {cpu}
                                    ELSE list[k].threads
    <3> DEFINE T == list[k].threads \cup {cpu}
               r == [list[k] EXCEPT !.threads = T]
    <3>1. list[k] \in CoreRecs /\ T \in SUBSET Cpu
      BY <1>2, <1>3
    <3>2. new1[k] = IF list[k].id = CoreOf[cpu] THEN r ELSE list[k]
      BY <2>1
    <3> HIDE DEF T
    <3>3. r \in CoreRecs /\ r.id = list[k].id /\ r.threads = T
      BY <3>1, CoreThreads
    <3> HIDE DEF r
    <3> QED
      BY <3>1, <3>2, <3>3 DEF T
  <2>3. new1 \in Seq(CoreRecs) /\ Len(new1) = n
    <3>1. new1 \in [1 .. n -> CoreRecs]
      BY <2>1, <2>2
    <3> QED
      BY <1>1, <3>1
  <2>4. Owns(new1, B)
    <3> SUFFICES ASSUME NEW j \in 1 .. n
                 PROVE  new1[j].threads = {c \in B : CoreOf[c] = new1[j].id}
      BY <2>3 DEF Owns
    <3>1. list[j].threads = {c \in A : CoreOf[c] = list[j].id}
      BY DEF Joined, Owns, n
    <3> QED
      BY <2>2, <3>1
  <2>5. Housed(new1, B)
    <3>1. \A c \in A : \E j \in 1 .. n : list[j].id = CoreOf[c]
      BY DEF Joined, Housed, n
    <3> QED
      BY <1>4, <2>2, <2>3, <3>1 DEF Housed, n
  <2> QED
    BY <2>3, <2>4, <2>5 DEF Joined, new1
<1>5. CASE ~ \E j \in 1 .. n : list[j].id = CoreOf[cpu]
  <2> DEFINE r == [id |-> CoreOf[cpu], type |-> 0, threads |-> {cpu}]
  <2>1. new1 = Append(list, r)
    BY <1>1, <1>5 DEF Stt!stat_core_add
  <2>2. r \in CoreRecs /\ r.id = CoreOf[cpu] /\ r.threads = {cpu}
    BY DEF CoreRecs, CoreIds
  <2> HIDE DEF r, new1, n
  <2>3. /\ new1 \in Seq(CoreRecs) /\ Len(new1) = n + 1 /\ new1[n + 1] = r
        /\ \A j \in 1 .. n : new1[j] = list[j]
    BY <1>1, <2>1, <2>2 DEF n
  <2>4. Owns(new1, B)
    <3> SUFFICES ASSUME NEW j \in 1 .. n + 1
                 PROVE  new1[j].threads = {c \in B : CoreOf[c] = new1[j].id}
      BY <2>3 DEF Owns
    <3>1. CASE j = n + 1
      <4>1. \A c \in A : CoreOf[c] # CoreOf[cpu]
        BY <1>5 DEF Joined, Housed, n
      <4> QED
        BY <2>2, <2>3, <3>1, <4>1
    <3>2. CASE j # n + 1
      <4>1. j \in 1 .. n
        BY <1>1, <3>2
      <4>2. list[j].threads = {c \in A : CoreOf[c] = list[j].id}
        BY <4>1 DEF Joined, Owns, n
      <4>3. list[j].id # CoreOf[cpu] /\ new1[j] = list[j]
        BY <1>5, <2>3, <4>1
      <4> QED
        BY <4>2, <4>3
    <3> QED
      BY <3>1, <3>2
  <2>5. Housed(new1, B)
    <3>1. \A c \in A : \E j \in 1 .. n : list[j].id = CoreOf[c]
      BY DEF Joined, Housed, n
    <3>2. n + 1 \in 1 .. n + 1 /\ \A j \in 1 .. n : j \in 1 .. n + 1
      BY <1>1
    <3>3. \A c \in B : \E j \in 1 .. n + 1 : new1[j].id = CoreOf[c]
      BY <2>2, <2>3, <3>1, <3>2
    <3> QED
      BY <2>3, <3>3 DEF Housed
  <2> QED
    BY <2>3, <2>4, <2>5 DEF Joined, new1
<1> QED
  BY <1>4, <1>5

\* Before the first joins no core has any.
LEMMA ResetJoined ==
  ASSUME NEW list \in Seq(CoreRecs)
  PROVE  Joined(Stt!stat_cores_reset(list), {})
<1> DEFINE n == Len(list)
           r == Stt!stat_cores_reset(list)
<1>1. n \in Nat /\ DOMAIN list = 1 .. n /\ \A j \in 1 .. n : list[j] \in CoreRecs
  OBVIOUS
<1>2. r = [k \in 1 .. n |-> [list[k] EXCEPT !.threads = {}]]
  BY <1>1 DEF Stt!stat_cores_reset
<1>3. {} \in SUBSET Cpu
  OBVIOUS
<1> HIDE DEF r, n
<1>4. \A k \in 1 .. n : r[k] \in CoreRecs /\ r[k].threads = {}
  <2> TAKE k \in 1 .. n
  <2>1. r[k] = [list[k] EXCEPT !.threads = {}] /\ list[k] \in CoreRecs
    BY <1>1, <1>2
  <2> QED
    BY <1>3, <2>1, CoreThreads
<1>5. r \in Seq(CoreRecs) /\ Len(r) = n
  <2>1. r \in [1 .. n -> CoreRecs]
    BY <1>2, <1>4
  <2> QED
    BY <1>1, <2>1
<1>6. Owns(r, {}) /\ Housed(r, {})
  BY <1>4, <1>5 DEF Owns, Housed
<1> QED
  BY <1>5, <1>6 DEF Joined, r

\* All the cpus of the file join.
LEMMA AllJoin ==
  ASSUME NEW n \in Nat, NEW seq \in [1 .. n -> Cpu], NEW list, Joined(list, {})
  PROVE  Joined(AllJoined(list, seq), {seq[i] : i \in 1 .. n})
<1>1. DOMAIN seq = 1 .. n
  OBVIOUS
<1>2. PICK f : Building(f, n, list, seq)
  BY <1>1, JoiningSteps
<1>3. f[0] = list /\ f[n] = AllJoined(list, seq)
  BY <1>2 DEF Building
<1>4. \A k \in 1 .. n : f[k] = Stt!stat_core_add(f[k - 1], seq[k])
  BY <1>2 DEF Building
<1> DEFINE Came(k) == {seq[i] : i \in 1 .. k}
           N == {k \in Nat : k > n \/ Joined(f[k], Came(k))}
<1>5. 0 \in N
  <2>1. Came(0) = {}
    OBVIOUS
  <2> HIDE DEF Came
  <2>2. Joined(f[0], Came(0))
    BY <1>3, <2>1
  <2> QED
    BY <2>2
<1>6. ASSUME NEW k \in Nat, k \in N PROVE k + 1 \in N
  <2>1. CASE k + 1 > n
    BY <2>1
  <2>2. CASE k + 1 <= n
    <3>1. k + 1 \in 1 .. n /\ (k + 1) - 1 = k /\ ~(k > n)
      BY <2>2
    <3>2. f[k + 1] = Stt!stat_core_add(f[k], seq[k + 1]) /\ seq[k + 1] \in Cpu
      BY <1>4, <3>1
    <3>3. Came(k) \in SUBSET Cpu /\ Came(k + 1) = Came(k) \cup {seq[k + 1]}
      <4>1. \A i \in 1 .. k : i \in 1 .. n
        BY <3>1
      <4>2. \A i \in 1 .. k + 1 : i \in 1 .. k \/ i = k + 1
        OBVIOUS
      <4>3. \A i \in 1 .. k : i \in 1 .. k + 1
        OBVIOUS
      <4>4. k + 1 \in 1 .. k + 1
        OBVIOUS
      <4> QED
        BY <4>1, <4>2, <4>3, <4>4
    <3>4. Joined(f[k], Came(k))
      BY <1>6, <3>1
    <3> HIDE DEF Came
    <3>5. Joined(f[k + 1], Came(k + 1))
      BY <3>2, <3>3, <3>4, CoreAddJoins
    <3> QED
      BY <3>5
  <2> QED
    BY <2>1, <2>2
<1>7. n \in N
  BY <1>5, <1>6, NatSteps
<1> HIDE DEF Came
<1>8. Joined(f[n], Came(n))
  BY <1>7
<1> QED
  BY <1>3, <1>8 DEF Came

\* A core with two threads is a P core.
Typed(list) == \A j \in 1 .. Len(list) : Cardinality(list[j].threads) = 2 => list[j].type = 2

\* Telling the types apart moves no cpu.
LEMMA ClassifyIs ==
  ASSUME NEW A, NEW list, Joined(list, A)
  PROVE  Joined(Stt!stat_cores_classify(list), A) /\ Typed(Stt!stat_cores_classify(list))
<1> DEFINE n == Len(list)
           r == Stt!stat_cores_classify(list)
           Two(k) == Cardinality(list[k].threads) = 2
           Type(k) == IF Two(k) THEN 2
                      ELSE IF Cardinality(list[k].threads) = 1 /\ \E j \in 1 .. n : Two(j) THEN 1
                      ELSE list[k].type
<1>1. list \in Seq(CoreRecs) /\ n \in Nat /\ DOMAIN list = 1 .. n
  BY DEF Joined
<1>2. r = [k \in 1 .. n |-> [list[k] EXCEPT !.type = Type(k)]]
  BY <1>1, SameSize DEF Stt!stat_cores_classify
<1>3. ASSUME NEW k \in 1 .. n
      PROVE  /\ r[k] \in CoreRecs /\ r[k].id = list[k].id /\ r[k].threads = list[k].threads
             /\ Two(k) => r[k].type = 2
  <2> HIDE DEF r, n, Two
  <2>1. list[k] \in CoreRecs
    BY <1>1 DEF n
  <2>2. Type(k) \in Nat /\ (Two(k) => Type(k) = 2)
    BY <2>1 DEF CoreRecs
  <2>3. r[k] = [list[k] EXCEPT !.type = Type(k)]
    BY <1>2
  <2> HIDE DEF Type
  <2> QED
    BY <2>1, <2>2, <2>3, CoreTypes
<1> HIDE DEF r, n, Type
<1>4. r \in Seq(CoreRecs) /\ Len(r) = n
  <2>1. r \in [1 .. n -> CoreRecs]
    BY <1>2, <1>3
  <2> QED
    BY <1>1, <2>1
<1>5. Owns(r, A) /\ Housed(r, A)
  BY <1>3, <1>4 DEF Joined, Owns, Housed, n
<1>6. Typed(r)
  BY <1>3, <1>4 DEF Typed
<1> QED
  BY <1>4, <1>5, <1>6 DEF Joined, r

\* With cpuinfo the cores are those of the cpus it lists; without it none has any.
LEMMA VerifyIs ==
  ASSUME cores \in Seq(CoreRecs), NEW listed \in SUBSET Cpu
  PROVE  LET list == Stt!stat_cores_verify(Stt!stat_cores_reset(cores), listed)
         IN  /\ list \in Seq(CoreRecs)
             /\ cpuinfo => Joined(list, listed) /\ Typed(list)
<1> DEFINE r == Stt!stat_cores_reset(cores)
           list == Stt!stat_cores_verify(r, listed)
           seq == Stt!Lines(listed)
           n == Cardinality(listed)
<1>1. Joined(r, {})
  BY ResetJoined
<1>2. CASE ~cpuinfo
  <2>1. list = r
    BY <1>2 DEF Stt!stat_cores_verify
  <2> QED
    BY <1>1, <1>2, <2>1 DEF Joined
<1>3. CASE cpuinfo
  <2> DEFINE full == AllJoined(r, seq)
  <2>1. list = Stt!stat_cores_classify(full)
    BY <1>3 DEF Stt!stat_cores_verify, AllJoined
  <2> HIDE DEF r, list
  <2>2. listed \in SUBSET Nat /\ IsFiniteSet(listed)
    BY StatAssumption, FS_Subset
  <2>3. n \in Nat /\ seq \in [1 .. n -> listed] /\ \A c \in listed : \E i \in 1 .. n : seq[i] = c
    BY <2>2, LinesAre
  <2> HIDE DEF seq, n
  <2>4. seq \in [1 .. n -> Cpu] /\ {seq[i] : i \in 1 .. n} = listed
    BY <2>3
  <2>5. Joined(full, listed)
    BY <1>1, <2>3, <2>4, AllJoin
  <2> HIDE DEF full
  <2>6. Joined(list, listed) /\ Typed(list)
    BY <2>1, <2>5, ClassifyIs
  <2> QED
    BY <2>6 DEF Joined, list, r
<1> QED
  BY <1>2, <1>3

CoreRefs == [id : CoreIds \cup {-1}, type : Nat]
Slots == [id : Nat, new : Jifs, old : Jifs, core : CoreRefs]

\* A slot of another core.
LEMMA SlotCore ==
  ASSUME NEW r \in Slots, NEW c \in CoreRefs
  PROVE  /\ [r EXCEPT !.core = c] \in Slots
         /\ [r EXCEPT !.core = c].id = r.id /\ [r EXCEPT !.core = c].core = c
         /\ [r EXCEPT !.core = c].new = r.new /\ [r EXCEPT !.core = c].old = r.old
BY DEF Slots

\* The core that a cpu is shown with.
CoreFor(cpu, list) ==
  LET has == {j \in DOMAIN list : cpu \in list[j].threads}
  IN  IF has = {} THEN Stt!NoCore
      ELSE [id |-> list[Stt!Min(has)].id, type |-> list[Stt!Min(has)].type]

\* It is a core that has the cpu.
LEMMA CoreForIs ==
  ASSUME NEW list \in Seq(CoreRecs), NEW cpu
  PROVE  /\ CoreFor(cpu, list) \in CoreRefs
         /\ \A A : (Joined(list, A) /\ Typed(list) /\ cpu \in A) =>
              /\ CoreFor(cpu, list).id = CoreOf[cpu]
              /\ Cardinality({c \in A : CoreOf[c] = CoreOf[cpu]}) = 2 =>
                   CoreFor(cpu, list).type = 2
<1> DEFINE n == Len(list)
           has == {j \in 1 .. n : cpu \in list[j].threads}
           m == Stt!Min(has)
<1>1. n \in Nat /\ DOMAIN list = 1 .. n /\ \A j \in 1 .. n : list[j] \in CoreRecs
  OBVIOUS
<1>2. CoreFor(cpu, list) = IF has = {} THEN Stt!NoCore
                           ELSE [id |-> list[m].id, type |-> list[m].type]
  BY <1>1 DEF CoreFor
<1>3. has # {} => m \in has
  <2> SUFFICES ASSUME has # {} PROVE m \in has
    OBVIOUS
  <2>1. has \in SUBSET Nat
    BY <1>1
  <2>2. \E x \in has : \A y \in has : x <= y
    BY <2>1, LeastNat
  <2> HIDE DEF has
  <2> QED
    BY <2>2 DEF Stt!Min
<1>4. CASE has = {}
  <2>1. CoreFor(cpu, list) \in CoreRefs
    BY <1>2, <1>4 DEF Stt!NoCore, CoreRefs
  <2>2. ASSUME NEW A, Joined(list, A), cpu \in A PROVE FALSE
    <3>1. PICK j \in 1 .. n : list[j].id = CoreOf[cpu]
      BY <2>2 DEF Joined, Housed
    <3>2. cpu \in list[j].threads
      BY <2>2, <3>1 DEF Joined, Owns
    <3> QED
      BY <1>4, <3>2
  <2> QED
    BY <2>1, <2>2
<1>5. CASE has # {}
  <2>1. /\ m \in 1 .. n /\ cpu \in list[m].threads /\ list[m] \in CoreRecs
        /\ CoreFor(cpu, list) = [id |-> list[m].id, type |-> list[m].type]
    BY <1>1, <1>2, <1>3, <1>5
  <2> HIDE DEF m, has
  <2>2. CoreFor(cpu, list) \in CoreRefs
    BY <2>1 DEF CoreRefs, CoreRecs
  <2>3. ASSUME NEW A, Joined(list, A), Typed(list), cpu \in A
        PROVE  /\ CoreFor(cpu, list).id = CoreOf[cpu]
               /\ Cardinality({c \in A : CoreOf[c] = CoreOf[cpu]}) = 2 =>
                    CoreFor(cpu, list).type = 2
    <3>1. list[m].threads = {c \in A : CoreOf[c] = list[m].id}
      BY <2>1, <2>3 DEF Joined, Owns
    <3>2. list[m].id = CoreOf[cpu]
      BY <2>1, <3>1
    <3>3. Cardinality(list[m].threads) = 2 => list[m].type = 2
      BY <2>1, <2>3 DEF Typed
    <3> QED
      BY <2>1, <3>1, <3>2, <3>3
  <2> QED
    BY <2>2, <2>3
<1> QED
  BY <1>4, <1>5

\* Every slot in use is linked to the core for its cpu, and keeps the rest.
LEMMA LinkIs ==
  ASSUME NEW sl \in Seq(Slots), NEW list \in Seq(CoreRecs), NEW n \in Nat
  PROVE  LET r == Stt!stat_cores_link(sl, n, list)
         IN  /\ r \in Seq(Slots) /\ Len(r) = Len(sl)
             /\ \A k \in 1 .. Len(sl) :
                  /\ r[k].id = sl[k].id /\ r[k].new = sl[k].new /\ r[k].old = sl[k].old
                  /\ k <= n => r[k].core = CoreFor(sl[k].id, list)
<1> DEFINE r == Stt!stat_cores_link(sl, n, list)
           N == Len(sl)
<1>1. N \in Nat /\ DOMAIN sl = 1 .. N /\ \A k \in 1 .. N : sl[k] \in Slots
  OBVIOUS
<1>2. r = [k \in 1 .. N |-> IF k > n THEN sl[k]
                            ELSE [sl[k] EXCEPT !.core = CoreFor(sl[k].id, list)]]
  BY <1>1 DEF Stt!stat_cores_link, CoreFor
<1> HIDE DEF r, N
<1>3. ASSUME NEW k \in 1 .. N
      PROVE  /\ r[k] \in Slots
             /\ r[k].id = sl[k].id /\ r[k].new = sl[k].new /\ r[k].old = sl[k].old
             /\ k <= n => r[k].core = CoreFor(sl[k].id, list)
  <2>1. sl[k] \in Slots /\ CoreFor(sl[k].id, list) \in CoreRefs
    BY <1>1, CoreForIs
  <2>2. CASE k > n
    BY <1>2, <2>1, <2>2
  <2>3. CASE ~(k > n)
    <3>1. r[k] = [sl[k] EXCEPT !.core = CoreFor(sl[k].id, list)]
      BY <1>2, <2>3
    <3> QED
      BY <2>1, <3>1, SlotCore
  <2> QED
    BY <2>2, <2>3
<1>4. r \in Seq(Slots) /\ Len(r) = N
  <2>1. r \in [1 .. N -> Slots]
    BY <1>2, <1>3
  <2> QED
    BY <1>1, <2>1
<1> QED
  BY <1>3, <1>4 DEF r, N

--------------------------------------------------------------------------------
(* stat: a read.                                                            *)

\* No change is negative.
Back(h) == h.old.user <= h.new.user /\ h.old.idle <= h.new.idle

\* The past of tics is never ahead of them.
LEMMA DeriveIs ==
  ASSUME NEW a \in Jifs, NEW b \in Jifs
  PROVE  LET d == Stt!stat_derive_unique(a, b)
         IN  d \in Jifs /\ d.user <= a.user /\ d.idle <= a.idle
BY DEF Jifs, Stt!stat_jifs, Stt!stat_derive_unique

\* A slot with a line shows that cpu and stays linked as it was.
LEMMA LineIs ==
  ASSUME NEW r \in Slots, NEW cpu \in Nat, tics[cpu] \in Jifs
  PROVE  LET l == Stt!Line(r, cpu)
         IN  l \in Slots /\ l.id = cpu /\ l.core = r.core /\ Back(l)
<1> DEFINE d == Stt!stat_derive_unique(tics[cpu], r.new)
           l == [r EXCEPT !.id = cpu, !.new = tics[cpu], !.old = d]
<1>1. r.new \in Jifs /\ r.core \in CoreRefs
  BY DEF Slots
<1>2. d \in Jifs /\ d.user <= tics[cpu].user /\ d.idle <= tics[cpu].idle
  BY <1>1, DeriveIs
<1>3. l = Stt!Line(r, cpu)
  BY DEF Stt!Line
<1> HIDE DEF d
<1>4. l \in Slots /\ l.id = cpu /\ l.core = r.core /\ l.new = tics[cpu] /\ l.old = d
  BY <1>1, <1>2 DEF Slots
<1> HIDE DEF l
<1> QED
  BY <1>2, <1>3, <1>4 DEF Back

\* The slot after the last line is still a slot.
LEMMA NoLineIs ==
  ASSUME NEW r \in Slots PROVE Stt!NoLine(r) \in Slots
BY DEF Stt!NoLine, Slots

\* There is a slot for every line and one more, the old ones first.
LEMMA RoomIs ==
  ASSUME slots \in Seq(Slots), NEW n \in Nat, NEW junk \in Junk
  PROVE  LET room == Stt!Room(n, junk)
         IN  /\ room \in Seq(Slots) /\ n < Len(room)
             /\ \A k \in 1 .. Len(slots) : room[k] = slots[k]
<1> DEFINE more == IF n < Len(slots) THEN 0
                   ELSE ((n - Len(slots)) \div NEWOLD_INCR + 1) * NEWOLD_INCR
           fresh == [Stt!hist_tic EXCEPT !.new = junk]
           b == [k \in 1 .. more |-> fresh]
<1>1. Stt!Room(n, junk) = slots \o b
  BY Zenon DEF Stt!Room
<1>2. Len(slots) \in Nat /\ NEWOLD_INCR \in Nat /\ NEWOLD_INCR > 0
  BY StatAssumption
<1>3. more \in Nat /\ n < Len(slots) + more
  <2>1. CASE n < Len(slots)
    BY <1>2, <2>1
  <2>2. CASE ~(n < Len(slots))
    <3> DEFINE w == n - Len(slots)
               q == w \div NEWOLD_INCR
    <3>1. w \in Nat
      BY <1>2, <2>2
    <3>2. more = (q + 1) * NEWOLD_INCR
      BY <2>2
    <3> HIDE DEF w
    <3>3. q \in Nat /\ w < (q + 1) * NEWOLD_INCR
      BY <1>2, <3>1
    <3>4. (q + 1) * NEWOLD_INCR \in Nat
      BY <1>2, <3>3
    <3> HIDE DEF q, more
    <3>5. more \in Nat /\ w < more
      BY <3>2, <3>3, <3>4
    <3> QED
      BY <1>2, <3>5 DEF w
  <2> QED
    BY <2>1, <2>2
<1> HIDE DEF more
<1>4. fresh \in Slots
  BY StatAssumption, SumFacts DEF Stt!hist_tic, Slots, Stt!NoCore, CoreRefs, Jifs, Stt!stat_jifs
<1> HIDE DEF fresh
<1>5. b \in Seq(Slots) /\ Len(b) = more
  <2>1. b \in [1 .. more -> Slots]
    BY <1>4
  <2> QED
    BY <1>3, <2>1
<1> HIDE DEF b
<1>6. /\ slots \o b \in Seq(Slots) /\ Len(slots \o b) = Len(slots) + more
      /\ \A k \in 1 .. Len(slots) : (slots \o b)[k] = slots[k]
  BY <1>2, <1>3, <1>5
<1> QED
  BY <1>1, <1>3, <1>6

\* The slots hold the lines of the last read, in tics that do not run back.
StatTypes ==
  /\ online \in SUBSET Cpu /\ tics \in [Cpu -> Jifs]
  /\ slots \in Seq(Slots) /\ n_inuse \in Nat /\ n_inuse <= Len(slots)
  /\ summary \in [new : Jifs, old : Jifs] /\ Back(summary)
  /\ \A k \in 1 .. n_inuse : Back(slots[k])
  /\ cores \in Seq(CoreRecs)

\* They are linked to the cores of their cpus.
CoresShown(sl, A, n) ==
  \A k \in 1 .. n :
    /\ sl[k].core.id = CoreOf[sl[k].id]
    /\ Cardinality({c \in A : CoreOf[c] = CoreOf[sl[k].id]}) = 2 => sl[k].core.type = 2

\* The slots in use are those of the cpus seen, and if their number has told all
\* there is to know the cores are right.
StatSeen ==
  /\ seen.last \in SUBSET Cpu /\ n_inuse = Cardinality(seen.last) /\ cpu_count_hwm = n_inuse
  /\ \A k \in 1 .. n_inuse : slots[k].id = Stt!Lines(seen.last)[k]
  /\ seen.sure => CoresShown(slots, seen.last, n_inuse)

\* The slots once every line has been put into one.
Filled(room, cpus, n) ==
  [k \in DOMAIN room |-> IF k <= n THEN Stt!Line(room[k], cpus[k])
                         ELSE IF k = n + 1 THEN Stt!NoLine(room[k]) ELSE room[k]]

\* They are slots, and the ones in use show their lines.
LEMMA FilledIs ==
  ASSUME tics \in [Cpu -> Jifs], NEW room \in Seq(Slots), NEW n \in Nat, n < Len(room),
         NEW cpus \in [1 .. n -> Cpu]
  PROVE  LET sl == Filled(room, cpus, n)
         IN  /\ sl \in Seq(Slots) /\ Len(sl) = Len(room)
             /\ \A k \in 1 .. n : sl[k].id = cpus[k] /\ sl[k].core = room[k].core /\ Back(sl[k])
<1> DEFINE sl == Filled(room, cpus, n)
           N == Len(room)
<1>1. N \in Nat /\ DOMAIN room = 1 .. N /\ \A k \in 1 .. N : room[k] \in Slots
  OBVIOUS
<1>2. sl = [k \in 1 .. N |-> IF k <= n THEN Stt!Line(room[k], cpus[k])
                             ELSE IF k = n + 1 THEN Stt!NoLine(room[k]) ELSE room[k]]
  BY <1>1 DEF Filled
<1>3. \A k \in 1 .. n : k \in 1 .. N /\ k <= n
  OBVIOUS
<1> HIDE DEF sl, N
<1>4. ASSUME NEW k \in 1 .. N, k <= n
      PROVE  /\ sl[k] \in Slots /\ sl[k].id = cpus[k] /\ sl[k].core = room[k].core
             /\ Back(sl[k])
  <2>1. k \in 1 .. n
    BY <1>1, <1>4
  <2>2. cpus[k] \in Cpu /\ cpus[k] \in Nat
    BY <2>1, StatAssumption
  <2>3. tics[cpus[k]] \in Jifs /\ room[k] \in Slots
    BY <1>1, <2>2
  <2>4. sl[k] = Stt!Line(room[k], cpus[k])
    BY <1>2, <1>4
  <2> QED
    BY <2>2, <2>3, <2>4, LineIs
<1>5. ASSUME NEW k \in 1 .. N, ~(k <= n) PROVE sl[k] \in Slots
  <2>1. room[k] \in Slots /\ Stt!NoLine(room[k]) \in Slots
    BY <1>1, NoLineIs
  <2>2. sl[k] = IF k = n + 1 THEN Stt!NoLine(room[k]) ELSE room[k]
    BY <1>2, <1>5
  <2> QED
    BY <2>1, <2>2
<1>6. sl \in Seq(Slots) /\ Len(sl) = N
  <2>1. \A k \in 1 .. N : sl[k] \in Slots
    BY <1>4, <1>5
  <2>2. sl \in [1 .. N -> Slots]
    BY <1>2, <2>1
  <2> QED
    BY <1>1, <2>2
<1>7. \A k \in 1 .. n : sl[k].id = cpus[k] /\ sl[k].core = room[k].core /\ Back(sl[k])
  BY <1>3, <1>4
<1> QED
  BY <1>6, <1>7 DEF sl, N

\* A read that goes well.
LEMMA ReadOk ==
  ASSUME StatTypes, StatSeen, NEW junk \in Junk, NEW listed \in SUBSET Cpu,
         Stt!stat_read_ok(junk, listed), UNCHANGED <<online, tics>>
  PROVE  StatTypes' /\ StatSeen'
<1> DEFINE cpus == Stt!Lines(online)
           n == Len(cpus)
           room == Stt!Room(n, junk)
           sl == Filled(room, cpus, n)
           list == IF Stt!Refresh(n) THEN Stt!stat_cores_verify(Stt!stat_cores_reset(cores), listed)
                   ELSE cores
           all == Stt!Total(tics, online)
<1>1. online \in SUBSET Nat /\ IsFiniteSet(online) /\ IsFiniteSet(Cpu) /\ online \in SUBSET Cpu
  BY StatAssumption, FS_Subset DEF StatTypes
<1>2. n = Cardinality(online) /\ n \in Nat /\ cpus \in [1 .. n -> online]
  <2>1. Cardinality(online) \in Nat /\ cpus \in [1 .. Cardinality(online) -> online]
    BY <1>1, LinesAre
  <2> HIDE DEF cpus
  <2>2. Len(cpus) = Cardinality(online)
    BY <2>1
  <2> QED
    BY <2>1, <2>2
<1>3. /\ summary' = [new |-> all, old |-> Stt!stat_derive_unique(all, summary.new)]
      /\ n_inuse' = n /\ cpu_count_hwm' = n /\ cores' = list
      /\ slots' = IF Stt!Refresh(n) THEN Stt!stat_cores_link(sl, n, list) ELSE sl
      /\ seen'.last = online
      /\ seen'.sure = (cpuinfo /\ IF online = seen.last THEN seen.sure
                                  ELSE n # Cardinality(seen.last) /\ listed = online)
  BY SameSize DEF Stt!stat_read_ok, Filled
<1> HIDE DEF n, cpus
<1>4. /\ room \in Seq(Slots) /\ n < Len(room) /\ \A k \in 1 .. Len(slots) : room[k] = slots[k]
  BY <1>2, RoomIs DEF StatTypes
<1> HIDE DEF room
<1>5. cpus \in [1 .. n -> Cpu]
  BY <1>1, <1>2
<1>6. /\ sl \in Seq(Slots) /\ Len(sl) = Len(room)
      /\ \A k \in 1 .. n : sl[k].id = cpus[k] /\ sl[k].core = room[k].core /\ Back(sl[k])
  BY <1>2, <1>4, <1>5, FilledIs DEF StatTypes
<1>7. /\ list \in Seq(CoreRecs)
      /\ Stt!Refresh(n) /\ cpuinfo => Joined(list, listed) /\ Typed(list)
  BY <1>1, VerifyIs DEF StatTypes
<1> HIDE DEF sl, list
<1> DEFINE lk == Stt!stat_cores_link(sl, n, list)
<1>8. /\ lk \in Seq(Slots) /\ Len(lk) = Len(sl)
      /\ \A k \in 1 .. Len(sl) :
           /\ lk[k].id = sl[k].id /\ lk[k].new = sl[k].new /\ lk[k].old = sl[k].old
           /\ k <= n => lk[k].core = CoreFor(sl[k].id, list)
  BY <1>2, <1>6, <1>7, LinkIs
<1> HIDE DEF lk
<1>9. \A k \in 1 .. n : k \in 1 .. Len(sl) /\ k <= n
  BY <1>2, <1>4, <1>6
<1>10. /\ slots' \in Seq(Slots) /\ n <= Len(slots')
       /\ \A k \in 1 .. n : slots'[k].id = cpus[k] /\ Back(slots'[k])
  <2>1. CASE Stt!Refresh(n)
    <3>1. slots' = lk
      BY <1>3, <2>1 DEF lk
    <3>2. \A k \in 1 .. n : lk[k].id = cpus[k] /\ Back(lk[k])
      BY <1>6, <1>8, <1>9 DEF Back
    <3> QED
      BY <1>2, <1>4, <1>6, <1>8, <3>1, <3>2
  <2>2. CASE ~Stt!Refresh(n)
    <3>1. slots' = sl
      BY <1>3, <2>2
    <3> QED
      BY <1>2, <1>4, <1>6, <3>1
  <2> QED
    BY <2>1, <2>2
<1>11. summary' \in [new : Jifs, old : Jifs] /\ Back(summary')
  <2> DEFINE d == Stt!stat_derive_unique(all, summary.new)
  <2>1. all \in Jifs
    <3>1. \A k \in online : tics[k] \in Jifs
      BY <1>1 DEF StatTypes
    <3>2. online \in SUBSET online
      OBVIOUS
    <3> QED
      BY <1>1, <3>1, <3>2, TotalFacts
  <2> HIDE DEF all
  <2>2. d \in Jifs /\ d.user <= all.user /\ d.idle <= all.idle
    BY <2>1, DeriveIs DEF StatTypes
  <2> HIDE DEF d
  <2>3. summary' = [new |-> all, old |-> d]
    BY <1>3 DEF d
  <2> QED
    BY <2>1, <2>2, <2>3 DEF Back
<1>12. StatTypes'
  <2>1. online' \in SUBSET Cpu /\ tics' \in [Cpu -> Jifs]
    BY DEF StatTypes
  <2> QED
    BY <1>2, <1>3, <1>7, <1>10, <1>11, <2>1 DEF StatTypes
<1>13. ASSUME seen'.sure PROVE CoresShown(slots', online, n)
  <2>1. CASE Stt!Refresh(n)
    <3>0. online # seen.last
      BY <1>2, <2>1 DEF Stt!Refresh, StatSeen
    <3>1. Joined(list, online) /\ Typed(list)
      BY <1>3, <1>7, <1>13, <2>1, <3>0
    <3>2. slots' = lk
      BY <1>3, <2>1 DEF lk
    <3>3. ASSUME NEW k \in 1 .. n
          PROVE  /\ lk[k].core.id = CoreOf[lk[k].id]
                 /\ Cardinality({c \in online : CoreOf[c] = CoreOf[lk[k].id]}) = 2
                      => lk[k].core.type = 2
      <4>1. lk[k].id = cpus[k] /\ lk[k].core = CoreFor(cpus[k], list) /\ cpus[k] \in online
        BY <1>2, <1>6, <1>8, <1>9
      <4> DEFINE c1 == cpus[k]
      <4>2. /\ CoreFor(c1, list).id = CoreOf[c1]
            /\ Cardinality({c \in online : CoreOf[c] = CoreOf[c1]}) = 2
                 => CoreFor(c1, list).type = 2
        <5>1. c1 \in online
          BY <4>1
        <5> HIDE DEF c1
        <5> QED
          BY <1>7, <3>1, <5>1, CoreForIs
      <4> QED
        BY <4>1, <4>2
    <3> QED
      BY <3>2, <3>3 DEF CoresShown
  <2>2. CASE ~Stt!Refresh(n)
    <3>1. n = n_inuse /\ n = Cardinality(seen.last)
      BY <2>2 DEF Stt!Refresh, StatSeen
    <3>2. online = seen.last /\ seen.sure
      BY <1>3, <1>13, <3>1
    <3>3. slots' = sl
      BY <1>3, <2>2
    <3>4. ASSUME NEW k \in 1 .. n PROVE sl[k].id = slots[k].id /\ sl[k].core = slots[k].core
      <4>1. slots[k].id = cpus[k]
        BY <3>1, <3>2 DEF StatSeen, cpus
      <4>2. k \in 1 .. Len(slots)
        BY <1>2, <3>1 DEF StatTypes
      <4> QED
        BY <1>4, <1>6, <4>1, <4>2
    <3>5. CoresShown(slots, online, n)
      BY <3>1, <3>2 DEF StatSeen
    <3> QED
      BY <3>3, <3>4, <3>5 DEF CoresShown
  <2> QED
    BY <2>1, <2>2
<1>14. StatSeen'
  BY <1>1, <1>2, <1>3, <1>10, <1>13 DEF StatSeen, cpus
<1> QED
  BY <1>12, <1>14

\* A read that fails.
LEMMA ReadBad ==
  ASSUME StatTypes, StatSeen, NEW r, Stt!stat_read_bad(r), UNCHANGED <<online, tics>>
  PROVE  StatTypes' /\ StatSeen'
<1>1. UNCHANGED <<slots, n_inuse, cores, cpu_count_hwm, seen>>
  BY DEF Stt!stat_read_bad
<1>2. summary' \in [new : Jifs, old : Jifs] /\ Back(summary')
  <2>1. \/ summary' = summary
        \/ summary' = [summary EXCEPT !.old = summary.new]
    BY DEF Stt!stat_read_bad
  <2>2. summary \in [new : Jifs, old : Jifs] /\ Back(summary)
    BY DEF StatTypes
  <2>3. CASE summary' = [summary EXCEPT !.old = summary.new]
    <3>1. summary'.new = summary.new /\ summary'.old = summary.new
      BY <2>2, <2>3
    <3>2. summary' \in [new : Jifs, old : Jifs]
      BY <2>2, <2>3
    <3>3. summary.new.user \in Nat /\ summary.new.idle \in Nat
      BY <2>2 DEF Jifs, Stt!stat_jifs
    <3> QED
      BY <3>1, <3>2, <3>3 DEF Back
  <2> QED
    BY <2>1, <2>2, <2>3
<1> QED
  BY <1>1, <1>2 DEF StatTypes, StatSeen, CoresShown, Back

--------------------------------------------------------------------------------
(* stat: the inductive invariant.                                           *)

\* Stacks there are were made for the items of the last reap.
StatMade == \A k \in Stt!Kinds : made[k] \in {<<>>, items}

StatInv == StatTypes /\ StatSeen /\ StatMade /\ Stt!NodesAddUp /\ Stt!ReapStacksOwn

\* After a call that shows no nodes there is nothing to add up.
LEMMA Unshown ==
  ASSUME out' \notin {"CPUS_ONLY", "NUMA_NODES_TOO"}
  PROVE  Stt!NodesAddUp' /\ Stt!ReapStacksOwn'
BY DEF Stt!NodesAddUp, Stt!ReapStacksOwn

\* A read, however it ends.
LEMMA ReadAny ==
  ASSUME StatTypes, StatSeen, NEW r \in Stt!Outcome, Stt!stat_read_failed(r),
         UNCHANGED <<online, tics>>
  PROVE  StatTypes' /\ StatSeen'
<1>1. CASE r = "ok"
  <2>1. PICK junk \in Junk, listed \in Stt!Listings : Stt!stat_read_ok(junk, listed)
    BY <1>1 DEF Stt!stat_read_failed
  <2>2. listed \in SUBSET Cpu
    BY DEF Stt!Listings, StatTypes
  <2> QED
    BY <2>1, <2>2, ReadOk
<1>2. CASE r # "ok"
  BY <1>2, ReadBad DEF Stt!stat_read_failed
<1> QED
  BY <1>1, <1>2

\* What a context holds at the start and after the last unref.
LEMMA EmptyStat ==
  /\ [k \in 1 .. NEWOLD_INCR |-> Stt!hist_tic] \in Seq(Slots)
  /\ 0 <= Len([k \in 1 .. NEWOLD_INCR |-> Stt!hist_tic])
  /\ [new |-> Stt!NoTics, old |-> Stt!NoTics] \in [new : Jifs, old : Jifs]
  /\ Back([new |-> Stt!NoTics, old |-> Stt!NoTics])
  /\ <<>> \in Seq(CoreRecs) /\ Cardinality({}) = 0 /\ 1 .. 0 = {} /\ 0 \in Nat
<1> DEFINE none == [k \in 1 .. NEWOLD_INCR |-> Stt!hist_tic]
<1>1. NEWOLD_INCR \in Nat
  BY StatAssumption
<1>2. Stt!hist_tic \in Slots
  BY SumFacts DEF Stt!hist_tic, Slots, Stt!NoCore, CoreRefs
<1>3. none \in Seq(Slots) /\ 0 <= Len(none)
  <2>1. none \in [1 .. NEWOLD_INCR -> Slots]
    BY <1>2
  <2> HIDE DEF none
  <2> QED
    BY <1>1, <2>1
<1>4. /\ [new |-> Stt!NoTics, old |-> Stt!NoTics] \in [new : Jifs, old : Jifs]
      /\ Back([new |-> Stt!NoTics, old |-> Stt!NoTics])
  BY SumFacts DEF Back, Stt!NoTics
<1>5. Cardinality({}) = 0
  BY FS_EmptySet
<1>6. <<>> \in Seq(CoreRecs) /\ 1 .. 0 = {} /\ 0 \in Nat
  OBVIOUS
<1> QED
  BY <1>3, <1>4, <1>5, <1>6

\* It holds at the start.
LEMMA StatInit == Stt!Init => StatInv
<1> SUFFICES ASSUME Stt!Init PROVE StatInv
  OBVIOUS
<1>1. tics \in [Cpu -> Jifs]
  BY StatAssumption DEF Stt!Init, Jifs, Stt!stat_jifs
<1>2. StatTypes
  BY <1>1, EmptyStat DEF Stt!Init, StatTypes
<1>3. StatSeen
  BY EmptyStat DEF Stt!Init, StatSeen
<1>4. StatMade
  BY DEF Stt!Init, StatMade, Stt!Unmade
<1> QED
  BY <1>2, <1>3, <1>4 DEF StatInv, Stt!Init, Stt!NodesAddUp, Stt!ReapStacksOwn

\* The sums of the nodes are the sums of the slots.
LEMMA NodesSum ==
  ASSUME StatTypes', StatSeen', nodes' = Stt!stat_make_numa_hist(slots', n_inuse')
  PROVE  Stt!NodesAddUp'
<1> DEFINE sl == slots'
           n == n_inuse'
           S == 1 .. n
           M == 0 .. MaxNode
           node == [k \in S |-> NodeOf[sl[k].id]]
           On(m) == {k \in S : node[k] = m}
           Some == {k \in S : NodeOf[sl[k].id] # -1}
<1>1. n \in Nat /\ sl \in Seq(Slots) /\ n <= Len(sl) /\ MaxNode \in Nat
  BY StatAssumption DEF StatTypes
<1>2. IsFiniteSet(S) /\ IsFiniteSet(M)
  BY <1>1, FS_Interval
<1>3. \A k \in S : node[k] \in -1 .. MaxNode
  <2>1. seen'.last \in SUBSET Cpu /\ n = Cardinality(seen'.last)
        /\ \A k \in S : sl[k].id = Stt!Lines(seen'.last)[k]
    BY DEF StatSeen
  <2>2. seen'.last \in SUBSET Nat /\ IsFiniteSet(seen'.last)
    BY <2>1, StatAssumption, FS_Subset
  <2>3. Stt!Lines(seen'.last) \in [S -> seen'.last]
    BY <2>1, <2>2, LinesAre
  <2>4. \A k \in S : sl[k].id \in Cpu
    BY <2>1, <2>3
  <2> QED
    BY <2>4, StatAssumption
<1>4. {k \in S : node[k] \in M} = Some
  BY <1>1, <1>3
<1>5. DOMAIN sl = 1 .. Len(sl) /\ \A k \in S : k \in DOMAIN sl /\ sl[k] \in Slots
  BY <1>1
<1>6. /\ \A k \in S : Stt!News(sl)[k] \in Jifs
      /\ \A k \in S : Stt!Olds(sl)[k] \in Jifs
  BY <1>5 DEF Stt!News, Stt!Olds, Slots
<1>7. nodes' = [m \in M |->
                  [new |-> Stt!Total(Stt!News(sl), On(m)), old |-> Stt!Total(Stt!Olds(sl), On(m)),
                   count |-> Cardinality(On(m))]]
  BY SameSize DEF Stt!stat_make_numa_hist
<1>8. DOMAIN nodes' = M
  BY <1>7
<1>9. /\ \A m \in M : Stt!News(nodes')[m] = Stt!Total(Stt!News(sl), On(m))
      /\ \A m \in M : Stt!Olds(nodes')[m] = Stt!Total(Stt!Olds(sl), On(m))
  <2> HIDE DEF sl, S, M, node, On
  <2> QED
    BY <1>7 DEF Stt!News, Stt!Olds
<1> HIDE DEF sl, S, M, node, Some
<1>10. Stt!Total(Stt!News(nodes'), M) = Stt!Total(Stt!News(sl), Some)
  BY <1>2, <1>4, <1>6, <1>9, TotalNodes
<1>11. Stt!Total(Stt!Olds(nodes'), M) = Stt!Total(Stt!Olds(sl), Some)
  BY <1>2, <1>4, <1>6, <1>9, TotalNodes
<1> QED
  BY <1>8, <1>10, <1>11 DEF Stt!NodesAddUp, Some, sl, S, n

\* reap: stacks for the items asked for, and nodes that add up.
LEMMA StatReaps ==
  ASSUME StatInv, NEW what \in {"CPUS_ONLY", "NUMA_NODES_TOO"}, NEW list, NEW r \in Stt!Outcome,
         Stt!procps_stat_reap(what, list, r)
  PROVE  StatInv'
<1> DEFINE m == Stt!stat_stacks_reconfig_maybe(list)
           kinds == IF what = "NUMA_NODES_TOO" THEN Stt!Kinds ELSE Stt!Kinds \ {"nodes"}
<1>1. items' = list /\ Stt!stat_read_failed(r) /\ UNCHANGED <<online, tics>>
  BY DEF Stt!procps_stat_reap, Stt!kernel
<1>2. StatTypes' /\ StatSeen'
  BY <1>1, ReadAny DEF StatInv
<1>3. \A k \in Stt!Kinds : m[k] \in {<<>>, list}
  BY DEF Stt!stat_stacks_reconfig_maybe, StatInv, StatMade, Stt!Unmade
<1>4. CASE r = "ok"
  <2>1. /\ made' = Stt!stat_stacks_fetch(m, kinds) /\ out' = what
        /\ what = "NUMA_NODES_TOO" => nodes' = Stt!stat_make_numa_hist(slots', n_inuse')
    BY <1>4 DEF Stt!procps_stat_reap
  <2> HIDE DEF m
  <2>2. \A k \in Stt!Kinds : made'[k] \in {<<>>, list} /\ (k \in kinds => made'[k] = list)
    BY <1>1, <1>3, <2>1 DEF Stt!stat_stacks_fetch
  <2>3. StatMade'
    BY <1>1, <2>2 DEF StatMade
  <2>4. Stt!ReapStacksOwn'
    <3>1. "summary" \in kinds /\ "cpus" \in kinds /\ (what = "NUMA_NODES_TOO" => "nodes" \in kinds)
      BY DEF Stt!Kinds
    <3>2. kinds \subseteq Stt!Kinds
      OBVIOUS
    <3> HIDE DEF kinds
    <3> QED
      BY <1>1, <2>1, <2>2, <3>1, <3>2 DEF Stt!ReapStacksOwn
  <2>5. Stt!NodesAddUp'
    <3>1. CASE what = "NUMA_NODES_TOO"
      BY <1>2, <2>1, <3>1, NodesSum
    <3>2. CASE what # "NUMA_NODES_TOO"
      BY <2>1, <3>2 DEF Stt!NodesAddUp
    <3> QED
      BY <3>1, <3>2
  <2> QED
    BY <1>2, <2>3, <2>4, <2>5 DEF StatInv
<1>5. CASE r # "ok"
  <2>1. made' = m /\ out' = "failed"
    BY <1>5 DEF Stt!procps_stat_reap
  <2>2. StatMade'
    BY <1>1, <1>3, <2>1 DEF StatMade
  <2> QED
    BY <1>2, <2>1, <2>2, Unshown DEF StatInv
<1> QED
  BY <1>4, <1>5

\* A step that leaves the context alone.
LEMMA StatHeld ==
  ASSUME StatInv, online' \in SUBSET Cpu, tics' \in [Cpu -> Jifs],
         UNCHANGED <<slots, n_inuse, summary, cores, cpu_count_hwm, seen, items, made>>
  PROVE  StatTypes' /\ StatSeen' /\ StatMade'
BY DEF StatInv, StatTypes, StatSeen, StatMade, CoresShown, Back

\* The other calls and what happens to the cpus.
LEMMA StatOthers ==
  ASSUME StatInv,
         \/ \E r \in {"ok", "error"} : Stt!procps_stat_new(r)
         \/ Stt!procps_stat_unref
         \/ \E r \in Stt!Outcome : Stt!procps_stat_select(r)
         \/ \E c \in Cpu, f \in {"user", "idle"} : Stt!Run(c, f)
         \/ \E c \in Cpu : Stt!Offline(c) \/ Stt!Online(c)
  PROVE  StatInv'
<1> USE DEF Stt!kernel, Stt!hist
<1>0. online \in SUBSET Cpu /\ tics \in [Cpu -> Jifs]
  BY DEF StatInv, StatTypes
<1>1. out' \notin {"CPUS_ONLY", "NUMA_NODES_TOO"}
  BY DEF Stt!procps_stat_new, Stt!procps_stat_unref, Stt!procps_stat_select, Stt!Run, Stt!Offline,
         Stt!Online, Stt!Event
<1>2. Stt!NodesAddUp' /\ Stt!ReapStacksOwn'
  BY <1>1, Unshown
<1> SUFFICES StatTypes' /\ StatSeen' /\ StatMade'
  BY <1>2 DEF StatInv
<1>3. ASSUME NEW r \in {"ok", "error"}, Stt!procps_stat_new(r)
      PROVE  StatTypes' /\ StatSeen' /\ StatMade'
  <2>1. UNCHANGED <<online, tics, items, made>>
    BY <1>3 DEF Stt!procps_stat_new
  <2>2. StatMade'
    BY <2>1 DEF StatInv, StatMade
  <2>3. CASE r = "ok"
    <3>1. Stt!stat_read_failed(r) /\ r \in Stt!Outcome
      BY <1>3, <2>3 DEF Stt!procps_stat_new, Stt!Outcome
    <3> QED
      BY <2>1, <2>2, <3>1, ReadAny DEF StatInv
  <2>4. CASE r # "ok"
    <3>1. UNCHANGED <<slots, n_inuse, summary, cores, cpu_count_hwm, seen>>
      BY <1>3, <2>4 DEF Stt!procps_stat_new
    <3> QED
      BY <1>0, <2>1, <3>1, StatHeld
  <2> QED
    BY <2>3, <2>4
<1>4. CASE Stt!procps_stat_unref
  <2>1. /\ slots' = [k \in 1 .. NEWOLD_INCR |-> Stt!hist_tic] /\ n_inuse' = 0
        /\ summary' = [new |-> Stt!NoTics, old |-> Stt!NoTics] /\ cores' = <<>>
        /\ cpu_count_hwm' = 0 /\ made' = Stt!Unmade
        /\ seen' = [last |-> {}, sure |-> FALSE] /\ UNCHANGED <<online, tics>>
    BY <1>4 DEF Stt!procps_stat_unref
  <2>2. StatTypes'
    BY <1>0, <2>1, EmptyStat DEF StatTypes
  <2>3. StatSeen'
    BY <2>1, EmptyStat DEF StatSeen
  <2>4. StatMade'
    BY <2>1 DEF StatMade, Stt!Unmade
  <2> QED
    BY <2>2, <2>3, <2>4
<1>5. ASSUME NEW r \in Stt!Outcome, Stt!procps_stat_select(r)
      PROVE  StatTypes' /\ StatSeen' /\ StatMade'
  <2>1. Stt!stat_read_failed(r) /\ UNCHANGED <<online, tics, items, made>>
    BY <1>5 DEF Stt!procps_stat_select
  <2>2. StatMade'
    BY <2>1 DEF StatInv, StatMade
  <2> QED
    BY <2>1, <2>2, ReadAny DEF StatInv
<1>6. ASSUME NEW c \in Cpu, NEW f \in {"user", "idle"}, Stt!Run(c, f)
      PROVE  StatTypes' /\ StatSeen' /\ StatMade'
  <2>1. /\ tics' = [tics EXCEPT ![c] = [tics[c] EXCEPT ![f] = tics[c][f] + 1]]
        /\ UNCHANGED <<online, slots, n_inuse, summary, cores, cpu_count_hwm, seen, items, made>>
    BY <1>6 DEF Stt!Run, Stt!Event
  <2>2. [tics[c] EXCEPT ![f] = tics[c][f] + 1] \in Jifs
    BY <1>0 DEF Jifs, Stt!stat_jifs
  <2>3. tics' \in [Cpu -> Jifs]
    BY <1>0, <2>1, <2>2
  <2> QED
    BY <1>0, <2>1, <2>3, StatHeld
<1>7. ASSUME NEW c \in Cpu, Stt!Offline(c) PROVE StatTypes' /\ StatSeen' /\ StatMade'
  <2>1. /\ online' = online \ {c}
        /\ UNCHANGED <<tics, slots, n_inuse, summary, cores, cpu_count_hwm, seen, items, made>>
    BY <1>7 DEF Stt!Offline, Stt!Event
  <2> QED
    BY <1>0, <2>1, StatHeld
<1>8. ASSUME NEW c \in Cpu, Stt!Online(c) PROVE StatTypes' /\ StatSeen' /\ StatMade'
  <2>1. /\ online' = online \cup {c}
        /\ UNCHANGED <<slots, n_inuse, summary, cores, cpu_count_hwm, seen, items, made>>
    BY <1>8 DEF Stt!Online, Stt!Event
  <2>2. PICK t \in 0 .. tics[c].idle : tics' = [tics EXCEPT ![c] = [tics[c] EXCEPT !.idle = t]]
    BY <1>8 DEF Stt!Online
  <2>3. [tics[c] EXCEPT !.idle = t] \in Jifs
    BY <1>0, <2>2 DEF Jifs, Stt!stat_jifs
  <2>4. tics' \in [Cpu -> Jifs] /\ online' \in SUBSET Cpu
    BY <1>0, <2>1, <2>2, <2>3
  <2> QED
    BY <2>1, <2>4, StatHeld
<1> QED
  BY <1>3, <1>4, <1>5, <1>6, <1>7, <1>8

\* Every step of stat keeps it.
LEMMA StatNext ==
  ASSUME StatInv, Stt!Next PROVE StatInv'
<1>1. ASSUME NEW what \in {"CPUS_ONLY", "NUMA_NODES_TOO"}, NEW list \in StatLists,
             NEW r \in Stt!Outcome, Stt!procps_stat_reap(what, list, r)
      PROVE  StatInv'
  BY <1>1, StatReaps
<1> QED
  BY <1>1, StatOthers DEF Stt!Next

\* A step that changes nothing of stat keeps it too.
LEMMA StatStutters ==
  ASSUME StatInv, UNCHANGED <<online, tics, slots, n_inuse, summary, cores, cpu_count_hwm, seen,
                              items, made, nodes, out>>
  PROVE  StatInv'
<1>1. StatTypes' /\ StatSeen' /\ StatMade'
  BY StatHeld DEF StatInv, StatTypes
<1>2. Stt!NodesAddUp' /\ Stt!ReapStacksOwn'
  BY DEF StatInv, Stt!NodesAddUp, Stt!ReapStacksOwn
<1> QED
  BY <1>1, <1>2 DEF StatInv

\* And it is what a caller relies on.
LEMMA StatShows ==
  ASSUME StatInv
  PROVE  Stt!DeltasNotNegative /\ Stt!CoresRight /\ Stt!NodesAddUp /\ Stt!ReapStacksOwn
<1>1. Stt!DeltasNotNegative
  BY DEF StatInv, StatTypes, Stt!DeltasNotNegative, Jifs, Back
<1>2. ASSUME seen.sure, NEW k \in 1 .. n_inuse
      PROVE  /\ slots[k].core.id = CoreOf[slots[k].id]
             /\ Stt!Cardinality({j \in 1 .. n_inuse : slots[j].core.id = slots[k].core.id}) = 2
                  => slots[k].core.type = 2
  <2> DEFINE A == seen.last
             n == n_inuse
             s == Stt!Lines(A)
             P == {j \in 1 .. n : slots[j].core.id = slots[k].core.id}
             Q == {c \in A : CoreOf[c] = CoreOf[slots[k].id]}
  <2>1. A \in SUBSET Nat /\ IsFiniteSet(A) /\ n = Cardinality(A)
    BY StatAssumption, FS_Subset DEF StatInv, StatSeen
  <2>2. /\ s \in [1 .. n -> A] /\ \A i, j \in 1 .. n : s[i] = s[j] => i = j
        /\ \A c \in A : \E i \in 1 .. n : s[i] = c
    BY <2>1, LinesAre
  <2>3. CoresShown(slots, A, n) /\ \A j \in 1 .. n : slots[j].id = s[j]
    BY <1>2 DEF StatInv, StatSeen
  <2>4. slots[k].core.id = CoreOf[slots[k].id]
    BY <2>3 DEF CoresShown
  <2> HIDE DEF A, n, s
  <2>5. P = {j \in 1 .. n : CoreOf[s[j]] = CoreOf[s[k]]} /\ Q = {c \in A : CoreOf[c] = CoreOf[s[k]]}
    <3>1. \A j \in 1 .. n : slots[j].core.id = CoreOf[s[j]]
      BY <2>3 DEF CoresShown
    <3>2. k \in 1 .. n /\ slots[k].id = s[k]
      BY <1>2, <2>3 DEF n
    <3> QED
      BY <3>1, <3>2
  <2> HIDE DEF P, Q
  <2> DEFINE b == [j \in P |-> s[j]]
  <2>6. b \in Bijection(P, Q)
    <3>1. b \in [P -> Q] /\ \A i, j \in P : b[i] = b[j] => i = j
      BY <2>2, <2>5
    <3>2. \A c \in Q : \E j \in P : b[j] = c
      BY <2>2, <2>5
    <3> HIDE DEF b
    <3> QED
      BY <3>1, <3>2 DEF Bijection, Injection, Surjection, IsInjective
  <2>7. IsFiniteSet(P)
    <3>1. P \subseteq 1 .. n /\ IsFiniteSet(1 .. n)
      BY <2>1, <2>5, FS_Interval, FS_CardinalityType
    <3> QED
      BY <3>1, FS_Subset
  <2>8. Cardinality(P) = Cardinality(Q)
    <3>1. ExistsBijection(P, Q)
      BY <2>6 DEF ExistsBijection
    <3> QED
      BY <2>7, <3>1, FS_Bijection
  <2>9. Cardinality(Q) = 2 => slots[k].core.type = 2
    BY <1>2, <2>3 DEF CoresShown, Q, n
  <2> QED
    BY <2>4, <2>8, <2>9, SameSize DEF P, n
<1>3. Stt!CoresRight
  BY <1>2 DEF Stt!CoresRight
<1> QED
  BY <1>1, <1>3 DEF StatInv

--------------------------------------------------------------------------------
(* The theorems.                                                            *)

\* Whichever file it is, its context keeps its invariant.
CInv ==
  /\ which = "vmstat" => VmF!FInv
  /\ which = "meminfo" => MemF!FInv /\ Fits(new)
  /\ which = "slabinfo" => SlabInv
  /\ which = "stat" => StatInv

\* A step that is none of any of the files leaves everything as it is.
LEMMA Stutters ==
  ASSUME UNCHANGED vars
  PROVE  /\ UNCHANGED VmF!vars /\ UNCHANGED MemF!vars /\ UNCHANGED which
         /\ (SlabInv => SlabInv') /\ (StatInv => StatInv')
<1>1. UNCHANGED <<which, text, secs, refcount, fd, new, old, items, stack, sav_secs, reads, out,
                  nodes, nodes_alloc, extents, anchor, results>>
  BY DEF vars, slabVars
<1>2. SlabInv => SlabInv'
  BY <1>1 DEF SlabInv, SlabBase, SlabReads, StacksOK, SlabReap, Covers, Apart, MadeFor
<1>3. StatInv => StatInv'
  <2>1. UNCHANGED <<online, tics, slots, n_inuse, summary, cores, cpu_count_hwm, seen, items, made,
                    nodes, out>>
    BY DEF vars, statVars
  <2> QED
    BY <2>1, StatStutters
<1> QED
  BY <1>1, <1>2, <1>3 DEF VmF!vars, VmF!kernel, VmF!hist, VmF!context,
                    MemF!vars, MemF!kernel, MemF!hist, MemF!context

\* It is an invariant.
LEMMA AlwaysCInv == Spec => []CInv
<1>1. Init => CInv
  <2> SUFFICES ASSUME Init PROVE CInv
    OBVIOUS
  <2>1. CASE which = "vmstat"
    BY <2>1, VmSteps, VmSensible, VmF!FInvInit DEF Init, CInv
  <2>2. CASE which = "meminfo"
    <3>1. MemF!Init
      BY <2>2, MemSteps DEF Init
    <3>2. new = MemF!Zero
      BY <3>1 DEF MemF!Init
    <3> QED
      BY <2>2, <3>1, <3>2, ParseFits, MemSensible, MemF!FInvInit DEF CInv
  <2>3. CASE which = "slabinfo"
    BY <2>3, SlabInit DEF Init, CInv
  <2>4. CASE which = "stat"
    BY <2>4, StatInit DEF Init, CInv
  <2> QED
    BY <2>1, <2>2, <2>3, <2>4 DEF Init
<1>2. CInv /\ [Next]_vars => CInv'
  <2> SUFFICES ASSUME CInv, [Next]_vars PROVE CInv'
    OBVIOUS
  <2>1. which' = which
    BY Stutters DEF Next
  <2>2. CASE which = "vmstat"
    <3>1. VmF!Next \/ UNCHANGED VmF!vars
      BY <2>2, VmSteps, Stutters DEF Next
    <3>2. VmF!FInv'
      BY <2>2, <3>1, VmSensible, VmF!FInvNext DEF CInv
    <3> QED
      BY <2>1, <2>2, <3>2 DEF CInv
  <2>3. CASE which = "meminfo"
    <3>1. MemF!Next \/ UNCHANGED MemF!vars
      BY <2>3, MemSteps, Stutters DEF Next
    <3>2. MemF!FInv' /\ Fits(new')
      BY <2>3, <3>1, MemSensible, MemF!FInvNext, FitsStays DEF CInv
    <3> QED
      BY <2>1, <2>3, <3>2 DEF CInv
  <2>4. CASE which = "slabinfo"
    <3>1. Slab!Next \/ UNCHANGED vars
      BY <2>4 DEF Next
    <3>2. SlabInv'
      BY <2>4, <3>1, SlabNext, Stutters DEF CInv
    <3> QED
      BY <2>1, <2>4, <3>2 DEF CInv
  <2>5. CASE which = "stat"
    <3>1. Stt!Next \/ UNCHANGED vars
      BY <2>5 DEF Next
    <3>2. StatInv'
      BY <2>5, <3>1, StatNext, Stutters DEF CInv
    <3> QED
      BY <2>1, <2>5, <3>2 DEF CInv
  <2>6. CASE which \notin {"vmstat", "meminfo", "slabinfo", "stat"}
    BY <2>1, <2>6 DEF CInv
  <2> QED
    BY <2>2, <2>3, <2>4, <2>5, <2>6
<1> QED
  BY <1>1, <1>2, PTL DEF Spec

\* A change that vmstat or meminfo answers spans the last two reads, whichever
\* of get and select made them and whether they went well.
THEOREM ChangesSpan == Spec => []DeltaSpansReads
<1>1. CInv => DeltaSpansReads
  <2>1. VmF!FInv => Vm!F!DeltaSpansReads
    BY VmF!FInvAnswers DEF VmF!DeltaSpansReads, Vm!F!DeltaSpansReads, VmF!Storable, Vm!F!Storable
  <2>2. MemF!FInv => Mem!F!DeltaSpansReads
    BY MemF!FInvAnswers DEF MemF!DeltaSpansReads, Mem!F!DeltaSpansReads,
       MemF!Storable, Mem!F!Storable
  <2> QED
    BY <2>1, <2>2 DEF CInv, DeltaSpansReads
<1> QED
  BY <1>1, AlwaysCInv, PTL

\* vmstat and meminfo answer what they are asked, get with numbers of this very
\* second unless a failed select has cleared them, and no part of memory that
\* meminfo derives is greater than the whole.
THEOREM FilesAnswer == Spec => []AnswersRight
<1>1. CInv => AnswersRight
  <2>1. VmF!FInv => Vm!F!AnswersRight
    BY VmF!FInvAnswers DEF VmF!AnswersRight, Vm!F!AnswersRight, VmF!TypeOK, Vm!F!TypeOK,
       VmF!GetIsRecent, Vm!F!GetIsRecent, VmF!SelectAnswers, Vm!F!SelectAnswers
  <2>2. MemF!FInv => Mem!F!AnswersRight
    BY MemF!FInvAnswers DEF MemF!AnswersRight, Mem!F!AnswersRight, MemF!TypeOK, Mem!F!TypeOK,
       MemF!GetIsRecent, Mem!F!GetIsRecent, MemF!SelectAnswers, Mem!F!SelectAnswers
  <2>3. Fits(new) => Mem!PartsFit
    BY DEF Fits, Mem!PartsFit
  <2> QED
    BY <2>1, <2>2, <2>3 DEF CInv, AnswersRight
<1> QED
  BY <1>1, AlwaysCInv, PTL

\* slabinfo's nodes fit their array however long the file grows, reap shows
\* every cache once in a stack made for the items asked for, sort loses none,
\* and the totals are those of the last read, also after one that stopped half
\* way.
THEOREM SlabsCorrect == Spec => []SlabsShown
<1>1. CInv => SlabsShown
  BY SlabShows DEF CInv, SlabsShown, NodesFit, ReapShowsAll, TotalsRight
<1> QED
  BY <1>1, AlwaysCInv, PTL

\* stat: no change of tics is negative, also when a slot is given the line of
\* another cpu or a cpu comes back with its idle time started over; a cpu is
\* shown with its own core unless as many cpus have come as gone between two
\* reads; the tics of the nodes add up to those of the cpus, for any number of
\* both; and all stacks of a reap are made for the items it was asked for.
THEOREM CpusCorrect == Spec => []CpusShown
<1>1. CInv => CpusShown
  BY StatShows DEF CInv, CpusShown, DeltasNotNegative, CoresRight, NodesAddUp, ReapStacksOwn
<1> QED
  BY <1>1, AlwaysCInv, PTL
================================================================================
