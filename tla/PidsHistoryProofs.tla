--------------------------- MODULE PidsHistoryProofs ---------------------------
(****************************************************************************)
(* Proofs about PidsHistory for every set of pids, every table size, every  *)
(* growth step and every bound: the arrays are never overrun, the chains    *)
(* thread exactly the records of their frame, the walk stays inside the     *)
(* saved frame, the tables implement TaskDelta, and the cpu of a task is    *)
(* accounted for once as long as its counters fit the members they go to.   *)
(****************************************************************************)
EXTENDS PidsHistory, WellFoundedInduction, TLAPS

--------------------------------------------------------------------------------
(* Facts about the operators.                                               *)

\* A hash value indexes the tables.
LEMMA HashRange ==
  ASSUME NEW k \in Pid \cup {0}
  PROVE  HASH_PID(k) \in 0..HHASH_SIZE - 1
BY HistoryAssumption DEF HASH_PID

\* Growing an array keeps the records it had and blanks the ones it adds.
LEMMA ResizedType ==
  ASSUME NEW m \in Nat, NEW n \in Nat, m <= n, NEW hist \in [0..m - 1 -> HST]
  PROVE  /\ Resized(hist, n) \in [0..n - 1 -> HST]
         /\ \A s \in 0..m - 1 : Resized(hist, n)[s] = hist[s]
<1>1. Blank \in HST
  BY HistoryAssumption DEF Blank, HST, Count
<1>2. DOMAIN hist = 0..m - 1
  OBVIOUS
<1>3. \A s \in 0..m - 1 : s \in 0..n - 1
  OBVIOUS
<1> QED
  BY <1>1, <1>2, <1>3 DEF Resized

\* The arrays only grow, and always past the slot about to be written.
LEMMA GrownSizeBounds ==
  ASSUME HHist_siz \in Nat, num_tasks \in Nat, num_tasks < HHist_siz
  PROVE  /\ GrownSize \in Nat
         /\ HHist_siz <= GrownSize
         /\ num_tasks + 1 < GrownSize
BY HistoryAssumption DEF GrownSize

--------------------------------------------------------------------------------
(* Types and sizes.                                                         *)

\* The slots in use, and the one being filled, lie inside the arrays.
Sized ==
  /\ num_tasks < HHist_siz
  /\ n_sav < HHist_siz
  /\ pc = "walk" => num_tasks + 1 < HHist_siz /\ tid \in Pid
  /\ pc = "walk" => PHist_new[num_tasks].pid = tid

\* What the first n slots of an array hold was written by pids_make_hist.
Written(hist, n) == \A s \in 0..n - 1 : hist[s].pid \in Pid

\* The inductive invariant: a frame's records, the tables over them and the
\* walk through the saved one.
IInv ==
  /\ TypeOK
  /\ Sized
  /\ Written(PHist_sav, n_sav)
  /\ Written(PHist_new, Filled)
  /\ HashChains
  /\ WalkInFrame

\* The empty tables.
LEMMA InitIInv == Init => IInv
<1> SUFFICES ASSUME Init PROVE IInv
  OBVIOUS
<1> USE HistoryAssumption DEF Init
<1>1. TypeOK
  <2>1. Blank \in HST
    BY DEF Blank, HST, Count
  <2>2. PHist_sav \in [0..HHist_siz - 1 -> HST] /\ PHist_new \in [0..HHist_siz - 1 -> HST]
    BY <2>1
  <2> QED
    BY <2>2 DEF TypeOK, Count, HHash_nul
<1>2. Sized
  BY DEF Sized
<1>3. Written(PHist_sav, n_sav) /\ Written(PHist_new, Filled)
  BY DEF Written, Filled
<1>4. HashChains
  BY DEF HashChains, Chained, IsNewest, HHash_nul, Filled
<1>5. WalkInFrame
  BY DEF WalkInFrame
<1> QED
  BY <1>1, <1>2, <1>3, <1>4, <1>5 DEF IInv

\* Growing the array the chains run through leaves them as they were.
LEMMA ChainedResized ==
  ASSUME NEW hash \in [0..HHASH_SIZE - 1 -> Int],
         NEW n \in Nat, NEW old, NEW new,
         \A s \in 0..n - 1 : new[s] = old[s],
         Chained(hash, old, n)
  PROVE  Chained(hash, new, n)
<1>1. \A b \in 0..HHASH_SIZE - 1 : IsNewest(hash[b], new, n, b)
  BY DEF Chained, IsNewest
<1>2. ASSUME NEW s \in 0..n - 1
      PROVE  IsNewest(new[s].lnk, new, s, HASH_PID(new[s].pid))
  <2>1. IsNewest(old[s].lnk, old, s, HASH_PID(old[s].pid))
    BY DEF Chained
  <2>2. new[s] = old[s] /\ \A t \in 0..s - 1 : t \in 0..n - 1 /\ new[t] = old[t]
    OBVIOUS
  <2> QED
    BY <2>1, <2>2 DEF IsNewest
<1> QED
  BY <1>1, <1>2 DEF Chained

\* pids_histput extends the chains by the slot after the last.
LEMMA ChainedPush ==
  ASSUME NEW hash \in [0..HHASH_SIZE - 1 -> Int],
         NEW n \in Nat, NEW m \in Nat, n < m,
         NEW hist \in [0..m - 1 -> HST],
         Chained(hash, hist, n),
         NEW new, 
         new = [hist EXCEPT ![n] = Linked(hist[n], hash[HASH_PID(hist[n].pid)])],
         NEW tab, tab = [hash EXCEPT ![HASH_PID(hist[n].pid)] = n]
  PROVE  Chained(tab, new, n + 1)
<1> DEFINE h == HASH_PID(hist[n].pid)
<1>1. n \in 0..m - 1 /\ hist[n].pid \in Pid \cup {0}
  BY DEF HST
<1>2. h \in 0..HHASH_SIZE - 1
  BY <1>1, HashRange
<1>3. \A s \in 0..n - 1 : new[s] = hist[s] /\ s \in 0..m - 1
  OBVIOUS
<1>4. new[n].lnk = hash[h] /\ new[n].pid = hist[n].pid
  BY <1>1 DEF Linked
<1>5. \A s \in 0..n : s \in 0..n - 1 \/ s = n
  OBVIOUS
<1>6. \A s \in 0..n : HASH_PID(new[s].pid) = HASH_PID(hist[s].pid)
  BY <1>3, <1>4, <1>5
<1>7. ASSUME NEW b \in 0..HHASH_SIZE - 1
      PROVE  IsNewest(tab[b], new, n + 1, b)
  <2>1. IsNewest(hash[b], hist, n, b)
    BY DEF Chained
  <2>2. (n + 1) - 1 = n
    OBVIOUS
  <2>3. CASE b = h
    <3>1. tab[b] = n
      BY <2>3, <1>2
    <3> QED
      BY <3>1, <2>2, <2>3, <1>4 DEF IsNewest
  <2>4. CASE b # h
    <3>1. tab[b] = hash[b]
      BY <2>4
    <3>2. HASH_PID(new[n].pid) # b
      BY <2>4, <1>4
    <3> HIDE DEF h
    <3> QED
      BY <3>1, <3>2, <2>1, <2>2, <1>5, <1>6 DEF IsNewest
  <2> QED
    BY <2>3, <2>4
<1>8. ASSUME NEW s \in 0..(n + 1) - 1
      PROVE  IsNewest(new[s].lnk, new, s, HASH_PID(new[s].pid))
  <2>1. CASE s = n
    <3>1. IsNewest(hash[h], hist, n, h)
      BY <1>2 DEF Chained
    <3>2. new[s].lnk = hash[h] /\ HASH_PID(new[s].pid) = h
      BY <2>1, <1>4
    <3> HIDE DEF h
    <3> QED
      BY <3>1, <3>2, <2>1, <1>3 DEF IsNewest
  <2>2. CASE s # n
    <3>1. s \in 0..n - 1
      BY <2>2
    <3>2. IsNewest(hist[s].lnk, hist, s, HASH_PID(hist[s].pid))
      BY <3>1 DEF Chained
    <3>3. \A t \in 0..s - 1 : t \in 0..n - 1
      BY <3>1
    <3> QED
      BY <3>1, <3>2, <3>3, <1>3 DEF IsNewest
  <2> QED
    BY <2>1, <2>2
<1> QED
  BY <1>7, <1>8 DEF Chained

--------------------------------------------------------------------------------
(* Every step keeps the invariant.                                          *)

\* The kernel's steps touch nothing of struct history_info.
LEMMA KernelStep == IInv /\ Kernel => IInv'
<1> SUFFICES ASSUME IInv, Kernel PROVE IInv'
  OBVIOUS
<1>1. PICK p \in Pid : Fork(p) \/ Run(p) \/ Exit(p)
  BY DEF Kernel
<1>2. UNCHANGED <<num_tasks, HHist_siz, PHist_sav, PHist_new, PHash_sav,
                  PHash_new, pc, tid, V, result, n_sav, reuse, reap>>
  BY <1>1 DEF Fork, Run, Exit, tables
<1>3. TypeOK'
  <2>1. alive' \subseteq Pid /\ born' \subseteq Pid /\ due' \subseteq Pid
    BY <1>1 DEF Fork, Run, Exit, IInv, TypeOK
  <2>2. tics' \in [Pid -> Count] /\ maj' \in [Pid -> Count] /\ credit' \in [Pid -> Nat]
    <3>0. tics \in [Pid -> Count] /\ maj \in [Pid -> Count] /\ credit \in [Pid -> Nat]
      BY DEF IInv, TypeOK
    <3>1. CASE Fork(p)
      <4>1. 0 \in Count
        BY HistoryAssumption DEF Count
      <4> QED
        BY <3>0, <3>1, <4>1 DEF Fork
    <3>2. CASE Run(p)
      <4>1. tics[p] < MaxCount => tics[p] + 1 \in Count
        BY <3>0, HistoryAssumption DEF Count
      <4>2. maj[p] < MaxFault => maj[p] + 1 \in Count
        BY <3>0, HistoryAssumption DEF Count
      <4>3. credit' = credit
        BY <3>2 DEF Run
      <4>4. CASE tics[p] < MaxCount /\ tics' = [tics EXCEPT ![p] = @ + 1] /\ UNCHANGED maj
        BY <4>1, <4>3, <4>4, <3>0
      <4>5. CASE maj[p] < MaxFault /\ maj' = [maj EXCEPT ![p] = @ + 1] /\ UNCHANGED tics
        BY <4>2, <4>3, <4>5, <3>0
      <4> QED
        BY <3>2, <4>4, <4>5 DEF Run
    <3>3. CASE Exit(p)
      BY <3>3 DEF Exit, IInv, TypeOK
    <3> QED
      BY <1>1, <3>1, <3>2, <3>3
  <2> QED
    BY <2>1, <2>2, <1>2 DEF IInv, TypeOK
<1>4. Sized' /\ Filled' = Filled
  BY <1>2 DEF IInv, Sized, Filled
<1>5. Written(PHist_sav, n_sav)' /\ Written(PHist_new, Filled)'
  BY <1>2, <1>4 DEF IInv, Written
<1>6. HashChains' /\ WalkInFrame'
  BY <1>2, <1>4 DEF IInv, HashChains, WalkInFrame, Chained, IsNewest
<1> QED
  BY <1>3, <1>4, <1>5, <1>6 DEF IInv

\* The toggle: the new frame becomes the saved one, an empty table is chained
\* whatever its array still holds.
LEMMA ToggleStep == IInv /\ pids_toggle_history => IInv'
<1> SUFFICES ASSUME IInv, pids_toggle_history PROVE IInv'
  OBVIOUS
<1> USE DEF pids_toggle_history
<1>0. Filled = num_tasks /\ Filled' = 0
  BY DEF Filled
<1>1. TypeOK'
  BY HistoryAssumption DEF IInv, TypeOK, HHash_nul, kernel
<1>2. Sized'
  BY DEF IInv, Sized, TypeOK
<1>3. Written(PHist_sav, n_sav)' /\ Written(PHist_new, Filled)'
  BY <1>0 DEF IInv, Written
<1>4. Chained(PHash_sav, PHist_sav, n_sav)'
  BY <1>0 DEF IInv, HashChains, Chained, IsNewest
<1>5. Chained(PHash_new, PHist_new, Filled)'
  BY <1>0 DEF Chained, IsNewest, HHash_nul
<1>6. HashChains' /\ WalkInFrame'
  BY <1>4, <1>5 DEF HashChains, WalkInFrame
<1> QED
  BY <1>1, <1>2, <1>3, <1>6 DEF IInv

\* The tally of a task up to the first look at the saved chain.
LEMMA MakeHistStep ==
  ASSUME NEW p \in Pid, IInv, pids_make_hist(p)
  PROVE  IInv'
<1> DEFINE rec == [pid |-> p, tics |-> tics[p], maj |-> maj[p], lnk |-> -1]
           grown == Resized(PHist_new, GrownSize)
           put == [grown EXCEPT ![num_tasks] = rec]
<1>1. /\ HHist_siz \in Nat /\ num_tasks \in Nat /\ n_sav \in Nat
      /\ num_tasks < HHist_siz /\ n_sav < HHist_siz
  BY DEF IInv, TypeOK, Sized
<1>2. /\ GrownSize \in Nat /\ HHist_siz <= GrownSize /\ num_tasks + 1 < GrownSize
  BY <1>1, GrownSizeBounds
<1>3. /\ grown \in [0..GrownSize - 1 -> HST]
      /\ \A s \in 0..HHist_siz - 1 : grown[s] = PHist_new[s]
  BY <1>1, <1>2, ResizedType DEF IInv, TypeOK
<1>4. /\ PHist_sav' \in [0..GrownSize - 1 -> HST]
      /\ \A s \in 0..HHist_siz - 1 : PHist_sav'[s] = PHist_sav[s]
  <2>1. PHist_sav' = Resized(PHist_sav, GrownSize)
    BY DEF pids_make_hist
  <2>2. PHist_sav \in [0..HHist_siz - 1 -> HST]
    BY DEF IInv, TypeOK
  <2> QED
    BY <1>1, <1>2, <2>1, <2>2, ResizedType
<1>5. rec \in HST
  BY DEF IInv, TypeOK, HST
<1> HIDE DEF rec, grown
<1>6. put \in [0..GrownSize - 1 -> HST] /\ put[num_tasks] = rec
  BY <1>1, <1>2, <1>3, <1>5
<1>7. \A s \in 0..num_tasks - 1 : put[s] = PHist_new[s]
  BY <1>1, <1>2, <1>3
<1>8. pids_histput(put, num_tasks)
  BY DEF pids_make_hist, rec, grown
<1> DEFINE b == HASH_PID(put[num_tasks].pid)
<1>9. /\ PHist_new' = [put EXCEPT ![num_tasks] = Linked(put[num_tasks], PHash_new[b])]
      /\ PHash_new' = [PHash_new EXCEPT ![b] = num_tasks]
  BY <1>8 DEF pids_histput
<1>10. /\ HHist_siz' = GrownSize /\ tid' = p /\ pc' = "walk" /\ pc = "read"
       /\ V' = PHash_sav[HASH_PID(p)] /\ PHash_sav' = PHash_sav
       /\ UNCHANGED <<kernel, num_tasks, result, n_sav, credit>> /\ due' = due \ {p}
  BY DEF pids_make_hist
<1>11. Filled = num_tasks /\ Filled' = num_tasks + 1
  BY <1>10 DEF Filled
<1>12. put[num_tasks].pid = p /\ b = HASH_PID(p) /\ b \in 0..HHASH_SIZE - 1
  BY <1>6, HashRange DEF rec
<1> HIDE DEF put
<1>13. PHash_sav \in [0..HHASH_SIZE - 1 -> Int] /\ PHash_new \in [0..HHASH_SIZE - 1 -> Int]
  BY DEF IInv, TypeOK
<1>14. Linked(put[num_tasks], PHash_new[b]) \in HST
  BY <1>1, <1>2, <1>6, <1>12, <1>13 DEF Linked, HST
<1> HIDE DEF b
<1>15. PHist_new' \in [0..GrownSize - 1 -> HST] /\ PHash_new' \in [0..HHASH_SIZE - 1 -> Int]
  <2>1. PHist_new' \in [0..GrownSize - 1 -> HST]
    BY <1>6, <1>9, <1>14
  <2>2. PHash_new' \in [0..HHASH_SIZE - 1 -> Int]
    <3>1. num_tasks \in Int
      BY <1>1
    <3>2. ASSUME NEW f \in [0..HHASH_SIZE - 1 -> Int], NEW i, NEW x \in Int
          PROVE  [f EXCEPT ![i] = x] \in [0..HHASH_SIZE - 1 -> Int]
      OBVIOUS
    <3> QED
      BY <3>1, <3>2, <1>9, <1>13
  <2> QED
    BY <2>1, <2>2
<1>16. TypeOK'
  <2>1. V' \in Int
    BY <1>10, <1>13, <1>12
  <2> QED
    BY <1>1, <1>2, <1>4, <1>10, <1>13, <1>15, <2>1 DEF IInv, TypeOK, kernel
<1>17. /\ PHist_new'[num_tasks].pid = p
       /\ \A s \in 0..num_tasks - 1 : PHist_new'[s] = PHist_new[s]
  BY <1>1, <1>2, <1>6, <1>7, <1>9, <1>12 DEF Linked
<1>18. Sized'
  BY <1>1, <1>2, <1>10, <1>17 DEF Sized
<1>19. Written(PHist_sav, n_sav)'
  BY <1>1, <1>4, <1>10 DEF IInv, Written
<1>20. Written(PHist_new, Filled)'
  BY <1>1, <1>11, <1>17 DEF IInv, Written
<1>21. Chained(PHash_sav, PHist_sav, n_sav)'
  <2>1. Chained(PHash_sav, PHist_sav, n_sav)
    BY DEF IInv, HashChains
  <2>2. \A s \in 0..n_sav - 1 : PHist_sav'[s] = PHist_sav[s]
    BY <1>1, <1>4
  <2>3. Chained(PHash_sav, PHist_sav', n_sav)
    BY <2>1, <2>2, <1>1, <1>13, ChainedResized
  <2> QED
    BY <2>3, <1>10
<1>22. Chained(PHash_new, PHist_new, Filled)'
  <2>1. Chained(PHash_new, PHist_new, num_tasks)
    BY <1>11 DEF IInv, HashChains
  <2>2. Chained(PHash_new, put, num_tasks)
    BY <2>1, <1>1, <1>7, <1>13, ChainedResized DEF put
  <2>3. num_tasks < GrownSize
    BY <1>1, <1>2
  <2>4. Chained(PHash_new', PHist_new', num_tasks + 1)
    BY <2>2, <2>3, <1>1, <1>2, <1>6, <1>9, <1>13, ChainedPush DEF b
  <2> QED
    BY <2>4, <1>11
<1>23. WalkInFrame'
  <2>1. IsNewest(V', PHist_sav', n_sav, HASH_PID(p))
    BY <1>10, <1>12, <1>21 DEF Chained
  <2>2. \A s \in 0..n_sav - 1 : PHist_sav'[s].pid = p => HASH_PID(PHist_sav'[s].pid) = HASH_PID(p)
    OBVIOUS
  <2> QED
    BY <2>1, <2>2, <1>1, <1>10 DEF WalkInFrame, IsNewest
<1> QED
  BY <1>16, <1>18, <1>19, <1>20, <1>21, <1>22, <1>23 DEF IInv, HashChains

\* One link further down the saved chain.
LEMMA WalkStep == IInv /\ pids_histget_next => IInv'
<1> SUFFICES ASSUME IInv, pids_histget_next PROVE IInv'
  OBVIOUS
<1>1. /\ pc = "walk" /\ pc' = "walk" /\ V > -1 /\ PHist_sav[V].pid # tid
      /\ V' = PHist_sav[V].lnk
      /\ UNCHANGED <<kernel, num_tasks, HHist_siz, PHist_sav, PHist_new, PHash_sav,
                     PHash_new, tid, result, n_sav, due, credit>>
  BY DEF pids_histget_next, tables
<1>2. V \in Int /\ V \in 0..n_sav - 1 /\ HASH_PID(PHist_sav[V].pid) = HASH_PID(tid)
  BY <1>1 DEF IInv, WalkInFrame, TypeOK
<1>3. IsNewest(V', PHist_sav, V, HASH_PID(tid))
  BY <1>1, <1>2 DEF IInv, HashChains, Chained
<1>4. V' \in Int
  BY <1>2, <1>3 DEF IsNewest
<1>5. TypeOK'
  BY <1>1, <1>4 DEF IInv, TypeOK, kernel
<1>6. WalkInFrame'
  <2>1. \A s \in 0..n_sav - 1 : s > V => PHist_sav[s].pid # tid
    BY <1>1 DEF IInv, WalkInFrame
  <2>2. \A s \in 0..n_sav - 1 : s > V \/ s = V \/ s \in 0..V - 1
    BY <1>2
  <2>3. n_sav \in Nat
    BY DEF IInv, TypeOK
  <2>4. V' \in -1..n_sav - 1 /\ (V' # -1 => HASH_PID(PHist_sav[V'].pid) = HASH_PID(tid))
    BY <1>2, <1>3, <2>3 DEF IsNewest
  <2>5. \A s \in 0..n_sav - 1 : s > V' => PHist_sav[s].pid # tid
    BY <1>1, <1>2, <1>3, <2>1, <2>2 DEF IsNewest
  <2> QED
    BY <1>1, <2>4, <2>5 DEF WalkInFrame
<1>7. Filled' = Filled /\ Sized'
  BY <1>1 DEF IInv, Sized, Filled
<1>8. Written(PHist_sav, n_sav)' /\ Written(PHist_new, Filled)' /\ HashChains'
  BY <1>1, <1>7 DEF IInv, Written, HashChains, Chained, IsNewest
<1> QED
  BY <1>5, <1>6, <1>7, <1>8 DEF IInv

\* The walk has ended and the slot is counted.
LEMMA DoneStep == IInv /\ pids_histget_done => IInv'
<1> SUFFICES ASSUME IInv, pids_histget_done PROVE IInv'
  OBVIOUS
<1>1. /\ pc = "walk" /\ pc' = "read" /\ num_tasks' = num_tasks + 1
      /\ tid' = 0 /\ V' = -1
      /\ UNCHANGED <<kernel, HHist_siz, PHist_sav, PHist_new, PHash_sav, PHash_new,
                     n_sav, due>>
  BY DEF pids_histget_done, deliver
<1>2. Filled' = Filled
  BY <1>1 DEF Filled
<1>3. TypeOK'
  <2> DEFINE rec == PHist_new[num_tasks]
             pcpu == (IF V > -1 THEN rec.tics - PHist_sav[V].tics ELSE rec.tics) % UINT_MOD
             delta == (IF V > -1 THEN rec.maj - PHist_sav[V].maj ELSE 0) % UINT_MOD
  <2>1. rec \in HST
    BY <1>1 DEF IInv, TypeOK, Sized
  <2>2. rec.tics \in Count /\ rec.maj \in Count
    BY <2>1 DEF HST
  <2>3. V > -1 => PHist_sav[V].tics \in Count /\ PHist_sav[V].maj \in Count
    <3>1. V > -1 => PHist_sav[V] \in HST
      BY <1>1 DEF IInv, TypeOK, WalkInFrame, Sized
    <3> QED
      BY <3>1 DEF HST
  <2>4. pcpu \in 0..UINT_MOD - 1 /\ delta \in 0..UINT_MOD - 1
    <3> HIDE DEF rec
    <3> QED
      BY <2>2, <2>3, HistoryAssumption DEF Count
  <2>5. result' = [tid |-> tid, tics |-> rec.tics, pcpu |-> pcpu, delta |-> delta]
    BY DEF pids_histget_done, deliver
  <2>6. credit' = IF reap /\ ~reuse THEN [credit EXCEPT ![tid] = @ + pcpu] ELSE credit
    BY DEF pids_histget_done, deliver
  <2> HIDE DEF rec, pcpu, delta
  <2>7. credit' \in [Pid -> Nat]
    <3>1. credit \in [Pid -> Nat] /\ tid \in Pid /\ pcpu \in Nat
      BY <1>1, <2>4, HistoryAssumption DEF IInv, TypeOK, Sized
    <3>2. credit[tid] + pcpu \in Nat
      BY <3>1
    <3> QED
      BY <3>1, <3>2, <2>6
  <2>8. result' \in [tid : Pid \cup {0}, tics : Count, pcpu : 0..UINT_MOD - 1,
                     delta : 0..UINT_MOD - 1]
    BY <2>2, <2>4, <2>5 DEF IInv, TypeOK
  <2> QED
    BY <1>1, <2>7, <2>8 DEF IInv, TypeOK, kernel
<1>4. Sized'
  BY <1>1 DEF IInv, Sized, TypeOK
<1>5. Written(PHist_sav, n_sav)' /\ Written(PHist_new, Filled)' /\ HashChains'
  BY <1>1, <1>2 DEF IInv, Written, HashChains, Chained, IsNewest
<1>6. WalkInFrame'
  BY <1>1 DEF WalkInFrame
<1> QED
  BY <1>3, <1>4, <1>5, <1>6 DEF IInv

\* The end of a fetch.
LEMMA EndStep == IInv /\ EndFetch => IInv'
<1> SUFFICES ASSUME IInv, EndFetch PROVE IInv'
  OBVIOUS
<1> USE DEF EndFetch, kernel, tables
<1>1. TypeOK'
  BY DEF IInv, TypeOK
<1>2. Filled' = Filled /\ Sized' /\ WalkInFrame'
  BY DEF IInv, Sized, Filled, WalkInFrame
<1>3. Written(PHist_sav, n_sav)' /\ Written(PHist_new, Filled)' /\ HashChains'
  BY <1>2 DEF IInv, Written, HashChains, Chained, IsNewest
<1> QED
  BY <1>1, <1>2, <1>3 DEF IInv

\* A step that changes nothing.
LEMMA StutterStep == IInv /\ UNCHANGED vars => IInv'
<1> SUFFICES ASSUME IInv, UNCHANGED vars PROVE IInv'
  OBVIOUS
<1> USE DEF vars, kernel, tables
<1>1. TypeOK' /\ Sized' /\ WalkInFrame' /\ Filled' = Filled
  BY DEF IInv, TypeOK, Sized, Filled, WalkInFrame
<1>2. Written(PHist_sav, n_sav)' /\ Written(PHist_new, Filled)' /\ HashChains'
  BY <1>1 DEF IInv, Written, HashChains, Chained, IsNewest
<1> QED
  BY <1>1, <1>2 DEF IInv

\* Every behaviour of the library and the kernel keeps the records of both
\* frames, the hash tables over them and the walk as IInv describes them.
THEOREM Invariance == Spec => []IInv
<1>1. IInv /\ [Next]_vars => IInv'
  BY KernelStep, ToggleStep, MakeHistStep, WalkStep, DoneStep, EndStep, StutterStep
     DEF Next, Library
<1> QED
  BY <1>1, InitIInv, PTL DEF Spec

\* Every variable keeps its type; in particular both arrays always hold
\* HHist_siz records.
THEOREM TypeCorrect == Spec => []TypeOK
BY Invariance, PTL DEF IInv

\* The two hash tables always thread exactly the records of their frames.
THEOREM ChainsCorrect == Spec => []HashChains
BY Invariance, PTL DEF IInv

\* pids_histget never leaves the records of the saved frame and never passes
\* the task it looks for.
THEOREM WalkSafe == Spec => []WalkInFrame
BY Invariance, PTL DEF IInv

--------------------------------------------------------------------------------
(* The tables implement TaskDelta.                                          *)

\* The slot chosen by LastSlot is the one no later slot of the task follows.
LEMMA LastSlotIs ==
  ASSUME NEW hist, NEW n \in Nat, NEW p, NEW v \in SlotsOf(hist, n, p),
         \A s \in SlotsOf(hist, n, p) : s <= v
  PROVE  LastSlot(hist, n, p) = v
<1>1. SlotsOf(hist, n, p) \subseteq Int
  BY DEF SlotsOf
<1>2. \A s \in SlotsOf(hist, n, p) :
        (\A t \in SlotsOf(hist, n, p) : t <= s) => s = v
  BY <1>1
<1> QED
  BY <1>2 DEF LastSlot

\* A task with a slot has a last one: among the slots counted backwards from n
\* one is least.
LEMMA LastSlotExists ==
  ASSUME NEW hist, NEW n \in Nat, NEW p, SlotsOf(hist, n, p) # {}
  PROVE  \E v \in SlotsOf(hist, n, p) : \A s \in SlotsOf(hist, n, p) : s <= v
<1> DEFINE T == {n - s : s \in SlotsOf(hist, n, p)}
<1>1. T \subseteq Nat /\ T # {}
  BY DEF SlotsOf
<1>2. PICK x \in T : \A y \in T : ~(<<y, x>> \in OpToRel(<, Nat))
  BY <1>1, NatLessThanWellFounded, WFMin
<1>3. \A y \in T : x <= y
  <2>1. \A y, z \in Nat : y < z => <<y, z>> \in OpToRel(<, Nat)
    BY Zenon DEF OpToRel
  <2>2. \A y \in T : ~(y < x)
    BY <1>1, <1>2, <2>1
  <2> HIDE DEF T
  <2> QED
    BY <1>1, <2>2
<1>4. PICK v \in SlotsOf(hist, n, p) : x = n - v
  OBVIOUS
<1>5. ASSUME NEW s \in SlotsOf(hist, n, p)
      PROVE  s <= v
  <2>1. n - s \in T
    OBVIOUS
  <2>2. n - v <= n - s
    BY <2>1, <1>3, <1>4
  <2> QED
    BY <2>2 DEF SlotsOf
<1> QED
  BY <1>5

\* A frame depends on the records counted in it and on nothing behind them.
LEMMA DecodeSame ==
  ASSUME NEW n \in Nat, NEW old, NEW new,
         \A s \in 0..n - 1 : new[s] = old[s]
  PROVE  Decode(new, n) = Decode(old, n)
<1>1. ASSUME NEW p \in Pid
      PROVE  /\ SlotsOf(new, n, p) = SlotsOf(old, n, p)
             /\ SlotsOf(old, n, p) # {} =>
                  new[LastSlot(new, n, p)] = old[LastSlot(old, n, p)]
  <2>1. SlotsOf(new, n, p) = SlotsOf(old, n, p)
    BY DEF SlotsOf
  <2>2. LastSlot(new, n, p) = LastSlot(old, n, p)
    BY <2>1 DEF LastSlot
  <2>3. SlotsOf(old, n, p) # {} => LastSlot(old, n, p) \in 0..n - 1
    <3>1. SUFFICES ASSUME SlotsOf(old, n, p) # {}
                   PROVE  LastSlot(old, n, p) \in 0..n - 1
      OBVIOUS
    <3>2. PICK v \in SlotsOf(old, n, p) : \A s \in SlotsOf(old, n, p) : s <= v
      BY <3>1, LastSlotExists
    <3>3. LastSlot(old, n, p) = v
      BY <3>2, LastSlotIs
    <3> QED
      BY <3>3 DEF SlotsOf
  <2> QED
    BY <2>1, <2>2, <2>3
<1> QED
  BY <1>1 DEF Decode
\* Counting one more record changes the frame at that record's task only.
LEMMA DecodePush ==
  ASSUME NEW n \in Nat, NEW hist, hist[n].pid \in Pid
  PROVE  Decode(hist, n + 1) =
           [Decode(hist, n) EXCEPT ![hist[n].pid] =
              [seen |-> TRUE, tics |-> hist[n].tics, maj |-> hist[n].maj]]
<1> DEFINE q == hist[n].pid
<1>1. \A s \in 0..(n + 1) - 1 : s = n \/ s \in 0..n - 1
  OBVIOUS
<1>2. /\ n \in SlotsOf(hist, n + 1, q)
      /\ \A s \in SlotsOf(hist, n + 1, q) : s <= n
  BY DEF SlotsOf
<1>3. LastSlot(hist, n + 1, q) = n /\ SlotsOf(hist, n + 1, q) # {}
  BY <1>2, LastSlotIs
<1>4. ASSUME NEW p \in Pid, p # q
      PROVE  /\ SlotsOf(hist, n + 1, p) = SlotsOf(hist, n, p)
             /\ LastSlot(hist, n + 1, p) = LastSlot(hist, n, p)
  <2>1. SlotsOf(hist, n + 1, p) = SlotsOf(hist, n, p)
    BY <1>1, <1>4 DEF SlotsOf
  <2> QED
    BY <2>1 DEF LastSlot
<1> HIDE DEF q
<1>5. \A p \in Pid : Decode(hist, n + 1)[p] =
         IF p = q THEN [seen |-> TRUE, tics |-> hist[n].tics, maj |-> hist[n].maj]
                  ELSE Decode(hist, n)[p]
  BY <1>3, <1>4 DEF Decode
<1>6. /\ Decode(hist, n + 1) = [p \in Pid |-> Decode(hist, n + 1)[p]]
      /\ Decode(hist, n) = [p \in Pid |-> Decode(hist, n)[p]]
  BY DEF Decode
<1> QED
  BY <1>5, <1>6 DEF q

\* Where the walk ends it has found the task's record of the frame before, or
\* there is none.
LEMMA WalkFindsRecord ==
  ASSUME IInv, pc = "walk", V > -1 => PHist_sav[V].pid = tid
  PROVE  Decode(PHist_sav, n_sav)[tid] =
           IF V > -1
             THEN [seen |-> TRUE, tics |-> PHist_sav[V].tics, maj |-> PHist_sav[V].maj]
             ELSE [seen |-> FALSE, tics |-> 0, maj |-> 0]
<1>1. /\ n_sav \in Nat /\ tid \in Pid /\ V \in -1..n_sav - 1
      /\ \A s \in 0..n_sav - 1 : s > V => PHist_sav[s].pid # tid
  BY DEF IInv, TypeOK, Sized, WalkInFrame
<1>2. CASE V > -1
  <2>1. /\ V \in SlotsOf(PHist_sav, n_sav, tid)
        /\ \A s \in SlotsOf(PHist_sav, n_sav, tid) : s <= V
    BY <1>1, <1>2 DEF SlotsOf
  <2>2. LastSlot(PHist_sav, n_sav, tid) = V
    BY <1>1, <2>1, LastSlotIs
  <2> QED
    BY <1>1, <1>2, <2>1, <2>2 DEF Decode
<1>3. CASE ~(V > -1)
  <2>1. SlotsOf(PHist_sav, n_sav, tid) = {}
    BY <1>1, <1>3 DEF SlotsOf
  <2> QED
    BY <1>1, <1>3, <2>1 DEF Decode
<1> QED
  BY <1>2, <1>3

\* The tally of a task leaves the records of both frames as they are and adds
\* one, of that task and of its cpu time at that moment.
LEMMA MakeHistRecords ==
  ASSUME NEW p \in Pid, IInv, pids_make_hist(p)
  PROVE  /\ \A s \in 0..n_sav - 1 : PHist_sav'[s] = PHist_sav[s]
         /\ \A s \in 0..num_tasks - 1 : PHist_new'[s] = PHist_new[s]
         /\ PHist_new'[num_tasks].pid = p
         /\ PHist_new'[num_tasks].tics = tics[p]
<1> DEFINE grown == Resized(PHist_new, GrownSize)
           rec == [pid |-> p, tics |-> tics[p], maj |-> maj[p], lnk |-> -1]
           put == [grown EXCEPT ![num_tasks] = rec]
<1>1. n_sav \in Nat /\ num_tasks \in Nat /\ num_tasks < HHist_siz /\ n_sav < HHist_siz
      /\ HHist_siz \in Nat
  BY DEF IInv, TypeOK, Sized
<1>2. GrownSize \in Nat /\ HHist_siz <= GrownSize /\ num_tasks \in 0..GrownSize - 1
  BY <1>1, GrownSizeBounds
<1>3. /\ \A s \in 0..HHist_siz - 1 : grown[s] = PHist_new[s]
      /\ \A s \in 0..HHist_siz - 1 : PHist_sav'[s] = PHist_sav[s]
      /\ grown \in [0..GrownSize - 1 -> HST]
  BY <1>1, <1>2, ResizedType DEF IInv, TypeOK, pids_make_hist
<1>4. PICK v : PHist_new' = [put EXCEPT ![num_tasks] = Linked(put[num_tasks], v)]
  BY Zenon DEF pids_make_hist, pids_histput
<1> HIDE DEF grown
<1>5. put[num_tasks] = rec /\ \A s \in 0..num_tasks - 1 : put[s] = grown[s]
  BY <1>1, <1>2, <1>3
<1>6. DOMAIN put = 0..GrownSize - 1
  BY <1>3
<1> HIDE DEF put
<1>7. /\ PHist_new'[num_tasks] = Linked(rec, v)
      /\ \A s \in 0..num_tasks - 1 : PHist_new'[s] = grown[s]
  BY <1>1, <1>2, <1>4, <1>5, <1>6
<1>8. /\ PHist_new'[num_tasks].pid = p
      /\ PHist_new'[num_tasks].tics = tics[p]
  BY <1>7 DEF Linked
<1> QED
  BY <1>1, <1>3, <1>7, <1>8

\* Delivering a proc_t is the abstract tally of its task.
LEMMA DoneRefines == IInv /\ pids_histget_done => Delta!Next
<1> SUFFICES ASSUME IInv, pids_histget_done PROVE Delta!Next
  OBVIOUS
<1> DEFINE rec == PHist_new[num_tasks]
           old == Decode(PHist_sav, n_sav)[tid]
<1>1. /\ pc = "walk" /\ tid \in Pid /\ num_tasks \in Nat
      /\ V > -1 => PHist_sav[V].pid = tid
      /\ rec.pid = tid /\ rec.tics \in Count /\ rec.maj \in Count
  BY DEF IInv, TypeOK, Sized, pids_histget_done, HST
<1>2. /\ num_tasks' = num_tasks + 1
      /\ UNCHANGED <<PHist_sav, PHist_new, n_sav>>
      /\ result' = [ tid   |-> tid,
                     tics  |-> rec.tics,
                     pcpu  |-> (IF V > -1 THEN rec.tics - PHist_sav[V].tics
                                          ELSE rec.tics) % UINT_MOD,
                     delta |-> (IF V > -1 THEN rec.maj - PHist_sav[V].maj
                                          ELSE 0) % UINT_MOD ]
  BY DEF pids_histget_done, deliver
<1>3. old = IF V > -1
              THEN [seen |-> TRUE, tics |-> PHist_sav[V].tics, maj |-> PHist_sav[V].maj]
              ELSE [seen |-> FALSE, tics |-> 0, maj |-> 0]
  BY <1>1, WalkFindsRecord
<1> HIDE DEF old
<1>4. result' = Delta!Reported(tid, rec.tics, rec.maj, old)
  <2>1. CASE V > -1
    BY <1>2, <1>3, <2>1 DEF Delta!Reported
  <2>2. CASE ~(V > -1)
    BY <1>2, <1>3, <2>2 DEF Delta!Reported
  <2> QED
    BY <2>1, <2>2
<1>5. Decode(PHist_new, num_tasks)' =
        [Decode(PHist_new, num_tasks) EXCEPT ![tid] = Delta!Rec(rec.tics, rec.maj)]
  BY <1>1, <1>2, DecodePush DEF Delta!Rec
<1>6. Decode(PHist_sav, n_sav)' = Decode(PHist_sav, n_sav)
  BY <1>2
<1>7. Delta!Tally(tid, rec.tics, rec.maj)
  BY <1>4, <1>5, <1>6 DEF Delta!Tally, old
<1> QED
  BY <1>1, <1>7 DEF Delta!Next

\* The tables implement the one-frame memory for every sequence of fetches:
\* what pids_make_hist stores is the difference to the task's latest record in
\* the frame before.
THEOREM Refinement == Spec => RefinesTaskDelta
<1>1. Init => Delta!Init
  <2> SUFFICES ASSUME Init PROVE Delta!Init
    OBVIOUS
  <2>1. /\ \A p \in Pid : SlotsOf(PHist_sav, n_sav, p) = {}
        /\ \A p \in Pid : SlotsOf(PHist_new, num_tasks, p) = {}
    BY DEF Init, SlotsOf
  <2> QED
    BY <2>1 DEF Init, Decode, Delta!Init, Delta!EmptyFrame, Delta!NoRec, Delta!Nothing
<1>2. ASSUME IInv, [Next]_vars PROVE [Delta!Next]_(Delta!vars)
  <2>1. n_sav \in Nat /\ num_tasks \in Nat /\ num_tasks < HHist_siz /\ n_sav < HHist_siz
        /\ HHist_siz \in Nat
    BY <1>2 DEF IInv, TypeOK, Sized
  <2>2. CASE UNCHANGED <<PHist_sav, PHist_new, num_tasks, n_sav, result>>
    BY <2>2 DEF Delta!vars
  <2>3. CASE pids_toggle_history
    <3>1. \A p \in Pid : SlotsOf(PHist_new', 0, p) = {}
      BY DEF SlotsOf
    <3>2. Decode(PHist_new, num_tasks)' = Delta!EmptyFrame
      BY <2>3, <3>1 DEF pids_toggle_history, Decode, Delta!EmptyFrame, Delta!NoRec
    <3>3. Decode(PHist_sav, n_sav)' = Decode(PHist_new, num_tasks)
      BY <2>3 DEF pids_toggle_history
    <3> QED
      BY <2>3, <3>2, <3>3 DEF pids_toggle_history, Delta!Next, Delta!NextFrame
  <2>4. ASSUME NEW p \in Pid, pids_make_hist(p) PROVE UNCHANGED Delta!vars
    <3>1. /\ \A s \in 0..n_sav - 1 : PHist_sav'[s] = PHist_sav[s]
          /\ \A s \in 0..num_tasks - 1 : PHist_new'[s] = PHist_new[s]
      BY <1>2, <2>4, MakeHistRecords
    <3>2. UNCHANGED <<num_tasks, n_sav, result>>
      BY <2>4 DEF pids_make_hist
    <3>3. /\ Decode(PHist_sav', n_sav) = Decode(PHist_sav, n_sav)
          /\ Decode(PHist_new', num_tasks) = Decode(PHist_new, num_tasks)
      BY <2>1, <3>1, DecodeSame
    <3> QED
      BY <3>2, <3>3 DEF Delta!vars
  <2>5. CASE pids_histget_done
    BY <1>2, <2>5, DoneRefines
  <2>6. CASE Kernel \/ pids_histget_next \/ EndFetch \/ UNCHANGED vars
    <3>1. UNCHANGED <<PHist_sav, PHist_new, num_tasks, n_sav, result>>
      BY <2>6 DEF Kernel, Fork, Run, Exit, pids_histget_next, EndFetch, vars, tables
    <3> QED
      BY <3>1, <2>2
  <2> QED
    BY <1>2, <2>3, <2>4, <2>5, <2>6 DEF Next, Library
<1> QED
  BY <1>1, <1>2, Invariance, PTL DEF Spec, RefinesTaskDelta, Delta!Spec

--------------------------------------------------------------------------------
(* No tic is lost or counted twice.                                         *)

\* Who is recorded has been started.
RecordsBorn ==
  /\ alive \subseteq born
  /\ \A s \in 0..n_sav - 1 : PHist_sav[s].pid \in born
  /\ \A s \in 0..Filled - 1 : PHist_new[s].pid \in born

\* Where no pid is used twice, a live task's records are not ahead of it, nor
\* the saved ones ahead of the one that is compared with them.
RecordsPast ==
  ~reuse =>
    /\ \A s \in 0..n_sav - 1 :
         PHist_sav[s].pid \in alive => PHist_sav[s].tics <= tics[PHist_sav[s].pid]
    /\ \A s \in 0..Filled - 1 :
         PHist_new[s].pid \in alive => PHist_new[s].tics <= tics[PHist_new[s].pid]
    /\ pc = "walk" =>
         \A s \in 0..n_sav - 1 :
           PHist_sav[s].pid = tid => PHist_sav[s].tics <= PHist_new[num_tasks].tics

\* A reap tallies a task once, and is over when nobody is due.
TalliedOnce ==
  reap => /\ pc = "walk" => \A s \in 0..num_tasks - 1 : PHist_new[s].pid # tid
          /\ pc = "idle" => due = {}

\* A live task that the saved frame holds is due until the new one holds it.
NoneMissed ==
  reap /\ ~reuse =>
    \A p \in alive : \/ p \in due
                     \/ \E s \in 0..Filled - 1 : PHist_new[s].pid = p
                     \/ \A s \in 0..n_sav - 1 : PHist_sav[s].pid # p

\* The inductive invariant behind CpuAccounted.
AInv == RecordsBorn /\ RecordsPast /\ TalliedOnce /\ NoneMissed /\ CpuAccounted

\* A task without a record in either frame has no cpu time tallied.
LEMMA NothingTallied ==
  ASSUME NEW p \in Pid, n_sav \in Nat, num_tasks \in Nat,
         \A s \in 0..n_sav - 1 : PHist_sav[s].pid # p,
         \A s \in 0..num_tasks - 1 : PHist_new[s].pid # p
  PROVE  LastTallied(p) = 0
<1>1. SlotsOf(PHist_sav, n_sav, p) = {} /\ SlotsOf(PHist_new, num_tasks, p) = {}
  BY DEF SlotsOf
<1> QED
  BY <1>1 DEF LastTallied, Decode

\* Nothing has been tallied.
LEMMA InitAInv == Init => AInv
<1> SUFFICES ASSUME Init PROVE AInv
  OBVIOUS
<1>1. RecordsBorn /\ RecordsPast /\ TalliedOnce /\ NoneMissed
  BY DEF Init, RecordsBorn, RecordsPast, TalliedOnce, NoneMissed, Filled
<1>2. CpuAccounted
  BY DEF Init, CpuAccounted
<1> QED
  BY <1>1, <1>2 DEF AInv

\* A task that starts has no record yet, one that runs gets further ahead of
\* its records, and one that exits is no longer accounted for.
LEMMA KernelAccounts == IInv /\ AInv /\ Kernel => AInv'
<1> SUFFICES ASSUME IInv, AInv, Kernel PROVE AInv'
  OBVIOUS
<1>1. PICK p \in Pid : Fork(p) \/ Run(p) \/ Exit(p)
  BY DEF Kernel
<1>2. UNCHANGED <<num_tasks, PHist_sav, PHist_new, pc, tid, n_sav, reuse, reap>>
  BY <1>1 DEF Fork, Run, Exit, tables
<1>3. /\ Filled' = Filled /\ n_sav \in Nat /\ num_tasks \in Nat /\ Filled \in Nat
      /\ num_tasks <= Filled
  BY <1>2 DEF IInv, TypeOK, Filled
<1>4. \A q : LastTallied(q)' = LastTallied(q)
  BY <1>2 DEF LastTallied
<1>5. /\ tics \in [Pid -> Count] /\ credit \in [Pid -> Nat] /\ alive \subseteq Pid
      /\ \A s \in 0..n_sav - 1 : PHist_sav[s].tics \in Int /\ PHist_sav[s].pid \in Pid
      /\ \A s \in 0..Filled - 1 : PHist_new[s].tics \in Int /\ PHist_new[s].pid \in Pid
  <2>1. \A s \in 0..n_sav - 1 : PHist_sav[s] \in HST
    BY <1>3 DEF IInv, TypeOK, Sized
  <2>2. \A s \in 0..Filled - 1 : PHist_new[s] \in HST
    BY <1>3 DEF IInv, TypeOK, Sized, Filled
  <2>3. \A r \in HST : r.tics \in Int
    BY HistoryAssumption DEF HST, Count
  <2>4. /\ \A s \in 0..n_sav - 1 : PHist_sav[s].pid \in Pid
        /\ \A s \in 0..Filled - 1 : PHist_new[s].pid \in Pid
    BY DEF IInv, Written
  <2> QED
    BY <2>1, <2>2, <2>3, <2>4 DEF IInv, TypeOK
<1>6. CASE Fork(p)
  <2>1. /\ p \notin alive /\ (reuse \/ p \notin born)
        /\ alive' = alive \cup {p} /\ born' = born \cup {p}
        /\ tics' = [tics EXCEPT ![p] = 0] /\ credit' = [credit EXCEPT ![p] = 0]
        /\ due' = due
    BY <1>6 DEF Fork
  <2>2. ~reuse => /\ \A s \in 0..n_sav - 1 : PHist_sav[s].pid # p
                  /\ \A s \in 0..Filled - 1 : PHist_new[s].pid # p
    BY <2>1 DEF AInv, RecordsBorn
  <2>3. RecordsBorn'
    BY <2>1, <1>2, <1>3 DEF AInv, RecordsBorn
  <2>4. RecordsPast'
    BY <2>1, <2>2, <1>2, <1>3, <1>5 DEF AInv, RecordsPast
  <2>5. TalliedOnce' /\ NoneMissed'
    BY <2>1, <2>2, <1>2, <1>3 DEF AInv, TalliedOnce, NoneMissed
  <2>6. CpuAccounted'
    <3> SUFFICES ASSUME reap, ~reuse, NEW q \in alive'
                 PROVE  credit'[q] = LastTallied(q)
      BY <1>2, <1>4 DEF CpuAccounted
    <3>1. CASE q = p
      <4>1. LastTallied(p) = 0
        BY <2>2, <1>3, NothingTallied
      <4> QED
        BY <3>1, <4>1, <2>1, <1>5
    <3>2. CASE q # p
      BY <3>2, <2>1, <1>5 DEF AInv, CpuAccounted
    <3> QED
      BY <3>1, <3>2
  <2> QED
    BY <2>3, <2>4, <2>5, <2>6 DEF AInv
<1>7. CASE Run(p)
  <2>1. /\ UNCHANGED <<alive, born, due, credit>>
        /\ \A q \in Pid : tics'[q] >= tics[q] /\ tics'[q] \in Int
    <3>1. UNCHANGED <<alive, born, due, credit>>
      BY <1>7 DEF Run
    <3>2. tics' = tics \/ tics' = [tics EXCEPT ![p] = @ + 1]
      BY <1>7 DEF Run
    <3>3. \A q \in Pid : tics[q] \in Int
      BY <1>5, HistoryAssumption DEF Count
    <3> QED
      BY <3>1, <3>2, <3>3, <1>5
  <2>2. RecordsBorn' /\ TalliedOnce' /\ NoneMissed'
    BY <2>1, <1>2, <1>3 DEF AInv, RecordsBorn, TalliedOnce, NoneMissed
  <2>3. RecordsPast'
    <3>1. \A q \in Pid : tics[q] \in Int
      BY <1>5, HistoryAssumption DEF Count
    <3> QED
      BY <2>1, <3>1, <1>2, <1>3, <1>5 DEF AInv, RecordsPast
  <2>4. CpuAccounted'
    BY <2>1, <1>2, <1>4 DEF AInv, CpuAccounted
  <2> QED
    BY <2>2, <2>3, <2>4 DEF AInv
<1>8. CASE Exit(p)
  <2>1. alive' = alive \ {p} /\ due' = due \ {p} /\ UNCHANGED <<born, tics, credit>>
    BY <1>8 DEF Exit
  <2>2. RecordsBorn' /\ RecordsPast' /\ TalliedOnce' /\ NoneMissed'
    BY <2>1, <1>2, <1>3 DEF AInv, RecordsBorn, RecordsPast, TalliedOnce, NoneMissed
  <2>3. CpuAccounted'
    BY <2>1, <1>2, <1>4 DEF AInv, CpuAccounted
  <2> QED
    BY <2>2, <2>3 DEF AInv
<1> QED
  BY <1>1, <1>6, <1>7, <1>8

\* At a toggle nobody is due, so that whom the new frame does not hold the
\* saved one does not hold either.
LEMMA ToggleAccounts == IInv /\ AInv /\ pids_toggle_history => AInv'
<1> SUFFICES ASSUME IInv, AInv, pids_toggle_history PROVE AInv'
  OBVIOUS
<1>1. /\ pc = "idle" /\ pc' = "read" /\ Filled = num_tasks /\ Filled' = 0
      /\ n_sav' = num_tasks /\ num_tasks' = 0 /\ num_tasks \in Nat /\ n_sav \in Nat
      /\ PHist_sav' = PHist_new /\ PHist_new' = PHist_sav
      /\ due' = IF reap THEN alive ELSE {}
      /\ UNCHANGED <<alive, born, tics, reuse, reap, credit>>
  BY DEF pids_toggle_history, Filled, kernel, IInv, TypeOK
<1>2. RecordsBorn' /\ RecordsPast' /\ TalliedOnce' /\ NoneMissed'
  BY <1>1 DEF AInv, RecordsBorn, RecordsPast, TalliedOnce, NoneMissed
<1>3. CpuAccounted'
  <2> SUFFICES ASSUME reap, ~reuse, NEW p \in alive
               PROVE  credit[p] = LastTallied(p)'
    BY <1>1 DEF CpuAccounted
  <2>1. p \in Pid /\ credit[p] = LastTallied(p)
    BY DEF AInv, CpuAccounted, IInv, TypeOK
  <2>2. Decode(PHist_new, num_tasks)'[p] = [seen |-> FALSE, tics |-> 0, maj |-> 0]
    <3>1. SlotsOf(PHist_new', 0, p) = {}
      BY DEF SlotsOf
    <3> QED
      BY <3>1, <2>1, <1>1 DEF Decode
  <2>3. Decode(PHist_sav, n_sav)' = Decode(PHist_new, num_tasks)
    BY <1>1
  <2>4. LastTallied(p)' = Decode(PHist_new, num_tasks)[p].tics
    BY <2>2, <2>3 DEF LastTallied
  <2>5. CASE \E s \in 0..num_tasks - 1 : PHist_new[s].pid = p
    <3>1. SlotsOf(PHist_new, num_tasks, p) # {}
      BY <2>5 DEF SlotsOf
    <3>2. Decode(PHist_new, num_tasks)[p].seen
      BY <2>1, <3>1 DEF Decode
    <3> QED
      BY <3>2, <2>1, <2>4 DEF LastTallied
  <2>6. CASE \A s \in 0..num_tasks - 1 : PHist_new[s].pid # p
    <3>1. \A s \in 0..n_sav - 1 : PHist_sav[s].pid # p
      BY <1>1, <2>6 DEF AInv, NoneMissed, TalliedOnce
    <3>2. LastTallied(p) = 0
      BY <3>1, <2>1, <2>6, <1>1, NothingTallied
    <3>3. SlotsOf(PHist_new, num_tasks, p) = {}
      BY <2>6 DEF SlotsOf
    <3>4. Decode(PHist_new, num_tasks)[p].tics = 0
      BY <2>1, <3>3 DEF Decode
    <3> QED
      BY <3>2, <3>4, <2>1, <2>4
  <2> QED
    BY <2>5, <2>6
<1> QED
  BY <1>2, <1>3 DEF AInv

\* A tally adds a record that does not count yet.
LEMMA MakeHistAccounts ==
  ASSUME NEW p \in Pid, IInv, AInv, pids_make_hist(p)
  PROVE  AInv'
<1>1. /\ pc = "read" /\ pc' = "walk" /\ p \in alive /\ tid' = p
      /\ reap => SlotsOf(PHist_new, num_tasks, p) = {}
      /\ due' = due \ {p}
      /\ UNCHANGED <<alive, born, tics, reuse, reap, num_tasks, n_sav, credit>>
  BY DEF pids_make_hist, kernel
<1>2. /\ \A s \in 0..n_sav - 1 : PHist_sav'[s] = PHist_sav[s]
      /\ \A s \in 0..num_tasks - 1 : PHist_new'[s] = PHist_new[s]
      /\ PHist_new'[num_tasks].pid = p /\ PHist_new'[num_tasks].tics = tics[p]
  BY MakeHistRecords
<1>3. /\ Filled = num_tasks /\ Filled' = num_tasks + 1
      /\ num_tasks \in Nat /\ n_sav \in Nat /\ tics[p] \in Int
      /\ \A s \in 0..(num_tasks + 1) - 1 : s = num_tasks \/ s \in 0..num_tasks - 1
  BY <1>1, HistoryAssumption DEF Filled, IInv, TypeOK, Count
<1>4. RecordsBorn'
  BY <1>1, <1>2, <1>3 DEF AInv, RecordsBorn
<1>5. RecordsPast'
  BY <1>1, <1>2, <1>3 DEF AInv, RecordsPast
<1>6. TalliedOnce'
  BY <1>1, <1>2, <1>3 DEF TalliedOnce, SlotsOf
<1>7. NoneMissed'
  <2> SUFFICES ASSUME reap, ~reuse, NEW q \in alive
               PROVE  \/ q \in due \ {p}
                      \/ \E s \in 0..num_tasks : PHist_new'[s].pid = q
                      \/ \A s \in 0..n_sav - 1 : PHist_sav'[s].pid # q
    BY <1>1, <1>3 DEF NoneMissed
  <2>1. CASE q = p
    BY <2>1, <1>2, <1>3
  <2>2. CASE q # p
    BY <2>2, <1>1, <1>2, <1>3 DEF AInv, NoneMissed
  <2> QED
    BY <2>1, <2>2
<1>8. CpuAccounted'
  <2>1. /\ Decode(PHist_sav', n_sav) = Decode(PHist_sav, n_sav)
        /\ Decode(PHist_new', num_tasks) = Decode(PHist_new, num_tasks)
    BY <1>2, <1>3, DecodeSame
  <2>2. \A q : LastTallied(q)' = LastTallied(q)
    BY <1>1, <2>1 DEF LastTallied
  <2> QED
    BY <1>1, <2>2 DEF AInv, CpuAccounted
<1> QED
  BY <1>4, <1>5, <1>6, <1>7, <1>8 DEF AInv

\* What a delivered proc_t adds is the difference to what was tallied last.
LEMMA DoneAccounts ==
  ASSUME MaxCount < UINT_MOD, IInv, AInv, pids_histget_done
  PROVE  AInv'
<1> DEFINE rec == PHist_new[num_tasks]
           pcpu == (IF V > -1 THEN rec.tics - PHist_sav[V].tics ELSE rec.tics) % UINT_MOD
<1>1. /\ pc = "walk" /\ pc' = "read" /\ num_tasks' = num_tasks + 1
      /\ V > -1 => PHist_sav[V].pid = tid
      /\ credit' = IF reap /\ ~reuse THEN [credit EXCEPT ![tid] = @ + pcpu] ELSE credit
      /\ UNCHANGED <<alive, born, tics, reuse, reap, PHist_sav, PHist_new, n_sav, due>>
  BY DEF pids_histget_done, deliver, kernel
<1>2. Filled' = Filled /\ Filled = num_tasks + 1
  BY <1>1 DEF Filled
<1>3. RecordsBorn' /\ RecordsPast' /\ TalliedOnce' /\ NoneMissed'
  BY <1>1, <1>2 DEF AInv, RecordsBorn, RecordsPast, TalliedOnce, NoneMissed
<1>4. /\ num_tasks \in Nat /\ n_sav \in Nat /\ tid \in Pid /\ rec \in HST /\ rec.pid = tid
      /\ credit \in [Pid -> Nat] /\ V \in -1..n_sav - 1
      /\ V > -1 => PHist_sav[V] \in HST
  BY <1>1 DEF IInv, TypeOK, Sized, WalkInFrame
<1>5. CpuAccounted'
  <2> SUFFICES ASSUME reap, ~reuse, NEW q \in alive
               PROVE  credit'[q] = LastTallied(q)'
    BY <1>1 DEF CpuAccounted
  <2>1. q \in Pid /\ credit[q] = LastTallied(q)
    BY DEF AInv, CpuAccounted, IInv, TypeOK
  <2>2. Decode(PHist_new, num_tasks)' =
          [Decode(PHist_new, num_tasks) EXCEPT ![tid] =
             [seen |-> TRUE, tics |-> rec.tics, maj |-> rec.maj]]
    BY <1>1, <1>4, DecodePush
  <2>3. Decode(PHist_sav, n_sav)' = Decode(PHist_sav, n_sav)
    BY <1>1
  <2>4. CASE q # tid
    <3>1. Decode(PHist_new, num_tasks)'[q] = Decode(PHist_new, num_tasks)[q]
      BY <2>1, <2>2, <2>4 DEF Decode
    <3>2. LastTallied(q)' = LastTallied(q)
      BY <3>1, <2>3 DEF LastTallied
    <3>3. credit'[q] = credit[q]
      BY <1>1, <1>4, <2>4
    <3> QED
      BY <2>1, <3>2, <3>3
  <2>5. CASE q = tid
    <3> DEFINE old == IF V > -1 THEN PHist_sav[V].tics ELSE 0
    <3>1. LastTallied(tid) = old
      <4>1. SlotsOf(PHist_new, num_tasks, tid) = {}
        BY <1>1 DEF AInv, TalliedOnce, SlotsOf
      <4>2. ~Decode(PHist_new, num_tasks)[tid].seen
        BY <4>1, <1>4 DEF Decode
      <4>3. Decode(PHist_sav, n_sav)[tid].tics = old
        BY <1>1, WalkFindsRecord
      <4> QED
        BY <4>2, <4>3 DEF LastTallied
    <3>2. LastTallied(q)' = rec.tics
      <4>1. Decode(PHist_new, num_tasks)'[tid] =
              [seen |-> TRUE, tics |-> rec.tics, maj |-> rec.maj]
        BY <1>4, <2>2 DEF Decode
      <4> QED
        BY <4>1, <2>5 DEF LastTallied
    <3>3. rec.tics \in 0..MaxCount /\ old \in 0..MaxCount /\ old <= rec.tics
      <4>1. \A r \in HST : r.tics \in 0..MaxCount
        BY DEF HST, Count
      <4>2. V > -1 => PHist_sav[V].tics <= rec.tics
        BY <1>1, <1>4 DEF AInv, RecordsPast
      <4> HIDE DEF rec
      <4> QED
        BY <4>1, <4>2, <1>4, HistoryAssumption
    <3>4. pcpu = rec.tics - old
      <4>1. pcpu = (rec.tics - old) % UINT_MOD
        <5>1. rec.tics - 0 = rec.tics
          BY <3>3, HistoryAssumption
        <5> QED
          BY <5>1
      <4> HIDE DEF rec, old, pcpu
      <4>2. rec.tics - old \in 0..UINT_MOD - 1
        BY <3>3, HistoryAssumption
      <4> QED
        BY <4>1, <4>2, HistoryAssumption
    <3>5. credit'[tid] = credit[tid] + pcpu
      BY <1>1, <1>4
    <3> HIDE DEF rec, old, pcpu
    <3> QED
      BY <2>1, <2>5, <3>1, <3>2, <3>3, <3>4, <3>5, HistoryAssumption
  <2> QED
    BY <2>4, <2>5
<1> QED
  BY <1>3, <1>5 DEF AInv

\* The steps that leave the records, the tasks and what was reported alone.
LEMMA OtherAccounts ==
  ASSUME IInv, AInv, pids_histget_next \/ EndFetch \/ UNCHANGED vars
  PROVE  AInv'
<1>1. UNCHANGED <<alive, born, tics, reuse, reap, num_tasks, PHist_sav, PHist_new, tid,
                  n_sav, due, credit>>
  BY DEF pids_histget_next, EndFetch, vars, kernel, tables
<1>2. \/ pc' = pc
      \/ pc = "read" /\ pc' = "idle" /\ (reap => due = {})
  BY DEF pids_histget_next, EndFetch, vars
<1>3. Filled' = Filled
  BY <1>1, <1>2 DEF Filled
<1>4. RecordsBorn' /\ RecordsPast' /\ TalliedOnce' /\ NoneMissed'
  BY <1>1, <1>2, <1>3 DEF AInv, RecordsBorn, RecordsPast, TalliedOnce, NoneMissed
<1>5. CpuAccounted'
  BY <1>1 DEF AInv, CpuAccounted, LastTallied
<1> QED
  BY <1>4, <1>5 DEF AInv

\* With counters that fit an unsigned int, what pids_make_hist reports for a
\* live task over all reaps adds up to the cpu time it had when last read.
THEOREM CpuCorrect ==
  ASSUME MaxCount < UINT_MOD
  PROVE  Spec => []CpuAccounted
<1>1. IInv /\ AInv /\ [Next]_vars => AInv'
  BY KernelAccounts, ToggleAccounts, MakeHistAccounts, DoneAccounts, OtherAccounts
     DEF Next, Library
<1>2. AInv => CpuAccounted
  BY DEF AInv
<1> QED
  BY <1>1, <1>2, InitAInv, Invariance, PTL DEF Spec
================================================================================
