------------------------------ MODULE PidsHistory ------------------------------
(****************************************************************************)
(* The history support of libproc2's <pids> API (library/pids.c).  Two      *)
(* arrays of HST_t records and two hash tables alternate as 'sav' (the      *)
(* frame before) and 'new' (the frame being gathered).  A table head and a  *)
(* record's lnk are indices into the array, -1 ends a chain.  Every fetch   *)
(* toggles the pair, then every task read is entered in the new one and     *)
(* looked up in the saved one to turn its counters into deltas.             *)
(*                                                                          *)
(* The kernel runs alongside: tasks use cpu, take faults, exit and start    *)
(* between any two steps of a fetch.  The walk down a hash chain takes one  *)
(* step per link, so that what it visits can be spoken of.                  *)
(*                                                                          *)
(* Left out: the min_flt counter, which is treated as maj_flt is.           *)
(****************************************************************************)
EXTENDS Integers

CONSTANTS
  Pid,            \* task identifiers, positive
  HHASH_SIZE,     \* buckets of a hash table (4096, a power of two)
  NEWOLD_INIT,    \* records allocated at 'new' time (1024)
  NEWOLD_GROW,    \* records added when the arrays are full (128)
  UINT_MOD,       \* modulus of unsigned int (2^32)
  MaxCount,       \* bound on a task's cpu counter
  MaxFault,       \* bound on a task's major fault counter
  MaxFrame        \* bound on the tasks tallied in one frame

ASSUME HistoryAssumption ==
  /\ Pid \subseteq Nat \ {0}
  /\ HHASH_SIZE \in Nat \ {0}
  /\ NEWOLD_INIT \in Nat \ {0}
  /\ NEWOLD_GROW \in Nat \ {0}
  /\ UINT_MOD \in Nat \ {0}
  /\ MaxCount \in Nat
  /\ MaxFault \in 0..MaxCount
  /\ MaxFrame \in Nat

VARIABLES
  alive, born, tics, maj,    \* the kernel: live tasks, pids used, counters
  reuse,                     \* the kernel may hand out a pid a second time
  reap,                      \* every frame is a reap(), which misses no task
                             \* that lives through it; else a select(), which
                             \* may leave tasks out or name one twice
  num_tasks,                 \* tasks tallied in the frame, the next free slot
  HHist_siz,                 \* records each array is said to hold
  PHist_sav, PHist_new,      \* the arrays of HST_t records
  PHash_sav, PHash_new,      \* the hash tables
  pc,                        \* "idle", "read" within a fetch, "walk" within
                             \* pids_histget
  tid, V,                    \* the task looked up and the walk's position
  result,                    \* what pids_make_hist left in the last proc_t
  n_sav,                     \* history: num_tasks of the saved frame
  due,                       \* history, of a reap: live since the toggle and
                             \* not yet tallied
  credit                     \* history, of a reap: cpu reported for a task
                             \* since it began

kernel  == <<alive, born, tics, maj, reuse, reap>>
tables  == <<num_tasks, HHist_siz, PHist_sav, PHist_new, PHash_sav, PHash_new>>
vars    == <<kernel, tables, pc, tid, V, result, n_sav, due, credit>>

Count == 0..MaxCount

\* A record nobody has written: calloc'd, or the tail a realloc added.
Blank == [pid |-> 0, tics |-> 0, maj |-> 0, lnk |-> -1]

HST == [pid : Pid \cup {0}, tics : Count, maj : Count, lnk : Int]

\* K & (HHASH_SIZE - 1), the size being a power of two.
HASH_PID(k) == k % HHASH_SIZE

HHash_nul == [b \in 0..HHASH_SIZE - 1 |-> -1]

--------------------------------------------------------------------------------
(* The abstract frames the tables stand for.                                *)

\* The slot of p entered last among the first n, where there is one.
SlotsOf(hist, n, p) == {s \in 0..n - 1 : hist[s].pid = p}

LastSlot(hist, n, p) ==
  CHOOSE s \in SlotsOf(hist, n, p) : \A t \in SlotsOf(hist, n, p) : t <= s

Decode(hist, n) ==
  [p \in Pid |-> IF SlotsOf(hist, n, p) = {}
                   THEN [seen |-> FALSE, tics |-> 0, maj |-> 0]
                   ELSE [seen |-> TRUE,
                         tics |-> hist[LastSlot(hist, n, p)].tics,
                         maj  |-> hist[LastSlot(hist, n, p)].maj]]

Delta == INSTANCE TaskDelta WITH prev <- Decode(PHist_sav, n_sav),
                                 cur  <- Decode(PHist_new, num_tasks)

--------------------------------------------------------------------------------
(* The kernel.                                                              *)

Fork(p) ==
  /\ p \notin alive
  /\ reuse \/ p \notin born
  /\ alive' = alive \cup {p}
  /\ born' = born \cup {p}
  /\ tics' = [tics EXCEPT ![p] = 0]
  /\ maj' = [maj EXCEPT ![p] = 0]
  /\ credit' = [credit EXCEPT ![p] = 0]
  /\ UNCHANGED <<reuse, reap, tables, pc, tid, V, result, n_sav, due>>

Run(p) ==
  /\ p \in alive
  /\ \/ /\ tics[p] < MaxCount
        /\ tics' = [tics EXCEPT ![p] = @ + 1]
        /\ UNCHANGED maj
     \/ /\ maj[p] < MaxFault
        /\ maj' = [maj EXCEPT ![p] = @ + 1]
        /\ UNCHANGED tics
  /\ UNCHANGED <<alive, born, reuse, reap, tables, pc, tid, V, result, n_sav, due,
                credit>>

Exit(p) ==
  /\ p \in alive
  /\ alive' = alive \ {p}
  /\ due' = due \ {p}
  /\ UNCHANGED <<born, tics, maj, reuse, reap, tables, pc, tid, V, result, n_sav,
                credit>>

--------------------------------------------------------------------------------
(* The library.                                                             *)

\* Clearing the wrong table, as a toggle that ran its memcpy first would.
pids_toggle_history_clears_saved ==
  /\ pc = "idle"
  /\ PHist_sav' = PHist_new
  /\ PHist_new' = PHist_sav
  /\ PHash_sav' = HHash_nul
  /\ PHash_new' = PHash_sav
  /\ num_tasks' = 0
  /\ n_sav' = num_tasks
  /\ due' = IF reap THEN alive ELSE {}
  /\ pc' = "read"
  /\ UNCHANGED <<kernel, HHist_siz, tid, V, result, credit>>

\* The table that becomes 'new' keeps the heads of two frames ago.
pids_toggle_history_not_cleared ==
  /\ pc = "idle"
  /\ PHist_sav' = PHist_new
  /\ PHist_new' = PHist_sav
  /\ PHash_sav' = PHash_new
  /\ PHash_new' = PHash_sav
  /\ num_tasks' = 0
  /\ n_sav' = num_tasks
  /\ due' = IF reap THEN alive ELSE {}
  /\ pc' = "read"
  /\ UNCHANGED <<kernel, HHist_siz, tid, V, result, credit>>

\* pids_toggle_history, at the start of every fetch.
pids_toggle_history ==
  /\ pc = "idle"
  /\ PHist_sav' = PHist_new
  /\ PHist_new' = PHist_sav
  /\ PHash_sav' = PHash_new
  /\ PHash_new' = HHash_nul
  /\ num_tasks' = 0
  /\ n_sav' = num_tasks
  /\ due' = IF reap THEN alive ELSE {}
  /\ pc' = "read"
  /\ UNCHANGED <<kernel, HHist_siz, tid, V, result, credit>>

\* Both arrays are grown together once the slot after this one is the last.
GrownSize ==
  IF num_tasks + 1 >= HHist_siz THEN HHist_siz + NEWOLD_GROW ELSE HHist_siz

\* The realloc forgotten: the size is raised, the array stays.
Resized_forgotten(hist, n) == hist

Resized(hist, n) ==
  [s \in 0..n - 1 |-> IF s \in DOMAIN hist THEN hist[s] ELSE Blank]

\* The record r with its lnk assigned.
Linked(r, v) == [pid |-> r.pid, tics |-> r.tics, maj |-> r.maj, lnk |-> v]

\* A record linked to itself: lnk assigned after the table head was.
pids_histput_swapped(hist, slot) ==
  /\ PHist_new' = [hist EXCEPT ![slot] = Linked(hist[slot], slot)]
  /\ PHash_new' = [PHash_new EXCEPT ![HASH_PID(hist[slot].pid)] = slot]

\* pids_histput: push the slot on the front of its chain in the new table.
pids_histput(hist, slot) ==
  LET b == HASH_PID(hist[slot].pid)
  IN  /\ PHist_new' = [hist EXCEPT ![slot] = Linked(hist[slot], PHash_new[b])]
      /\ PHash_new' = [PHash_new EXCEPT ![b] = slot]

\* pids_make_hist as far as the call of pids_histget: grow, fill the slot,
\* enter it and start down the saved chain.
pids_make_hist(p) ==
  /\ pc = "read"
  /\ p \in alive
  /\ num_tasks < MaxFrame
  /\ reap => SlotsOf(PHist_new, num_tasks, p) = {}
  /\ HHist_siz' = GrownSize
  /\ PHist_sav' = Resized(PHist_sav, GrownSize)
  /\ pids_histput([Resized(PHist_new, GrownSize) EXCEPT ![num_tasks] =
                     [pid |-> p, tics |-> tics[p], maj |-> maj[p], lnk |-> -1]],
                  num_tasks)
  /\ tid' = p
  /\ V' = PHash_sav[HASH_PID(p)]
  /\ pc' = "walk"
  /\ due' = due \ {p}
  /\ UNCHANGED <<kernel, num_tasks, PHash_sav, result, n_sav, credit>>

\* pids_histget's loop: not this record, follow its link.
pids_histget_next ==
  /\ pc = "walk"
  /\ V > -1
  /\ PHist_sav[V].pid # tid
  /\ V' = PHist_sav[V].lnk
  /\ UNCHANGED <<kernel, tables, pc, tid, result, n_sav, due, credit>>

\* The rest of pids_make_hist once the walk returned a record or NULL: the
\* proc_t gets its deltas and the slot is counted.
deliver(found) ==
  LET rec == PHist_new[num_tasks]
      pcpu == (IF found THEN rec.tics - PHist_sav[V].tics ELSE rec.tics)
                % UINT_MOD
  IN  /\ result' = [ tid   |-> tid,
                     tics  |-> rec.tics,
                     pcpu  |-> pcpu,
                     delta |-> (IF found THEN rec.maj - PHist_sav[V].maj
                                         ELSE 0) % UINT_MOD ]
      /\ credit' = IF reap /\ ~reuse THEN [credit EXCEPT ![tid] = @ + pcpu] ELSE credit
      /\ num_tasks' = num_tasks + 1
      /\ pc' = "read"
      /\ tid' = 0 /\ V' = -1
      /\ UNCHANGED <<kernel, HHist_siz, PHist_sav, PHist_new, PHash_sav,
                     PHash_new, n_sav, due>>

\* The first record of the chain taken without looking at its pid.
pids_histget_done_any ==
  /\ pc = "walk"
  /\ deliver(V > -1)

pids_histget_done ==
  /\ pc = "walk"
  /\ V > -1 => PHist_sav[V].pid = tid
  /\ deliver(V > -1)

\* The scan is over (or the fetch failed): back to the caller.
EndFetch ==
  /\ pc = "read"
  /\ reap => due = {}
  /\ pc' = "idle"
  /\ UNCHANGED <<kernel, tables, tid, V, result, n_sav, due, credit>>

--------------------------------------------------------------------------------

\* procps_pids_new and pids_config_history; no task has started yet.
Init ==
  /\ alive = {} /\ born = {} /\ reuse \in BOOLEAN /\ reap \in BOOLEAN
  /\ tics = [p \in Pid |-> 0]
  /\ maj = [p \in Pid |-> 0]
  /\ num_tasks = 0
  /\ HHist_siz = NEWOLD_INIT
  /\ PHist_sav = [s \in 0..NEWOLD_INIT - 1 |-> Blank]
  /\ PHist_new = [s \in 0..NEWOLD_INIT - 1 |-> Blank]
  /\ PHash_sav = HHash_nul
  /\ PHash_new = HHash_nul
  /\ pc = "idle"
  /\ tid = 0 /\ V = -1
  /\ result = [tid |-> 0, tics |-> 0, pcpu |-> 0, delta |-> 0]
  /\ n_sav = 0
  /\ due = {}
  /\ credit = [p \in Pid |-> 0]

Kernel == \E p \in Pid : Fork(p) \/ Run(p) \/ Exit(p)

Library ==
  \/ pids_toggle_history
  \/ \E p \in Pid : pids_make_hist(p)
  \/ pids_histget_next
  \/ pids_histget_done
  \/ EndFetch

Next == Kernel \/ Library

Spec == Init /\ [][Next]_vars

\* A C loop goes round again: the walk never pauses for ever.
FairSpec == Spec /\ WF_vars(pids_histget_next \/ pids_histget_done)

--------------------------------------------------------------------------------
(* Properties.                                                              *)

\* Slots of the new array that hold this frame's records, the one being
\* looked up included.
Filled == IF pc = "walk" THEN num_tasks + 1 ELSE num_tasks

\* v is the latest of the first n slots that belong to bucket b, or -1.
IsNewest(v, hist, n, b) ==
  \/ /\ v = -1
     /\ \A s \in 0..n - 1 : HASH_PID(hist[s].pid) # b
  \/ /\ v \in 0..n - 1
     /\ HASH_PID(hist[v].pid) = b
     /\ \A s \in 0..n - 1 : HASH_PID(hist[s].pid) = b => s <= v

\* The first n records, threaded newest first through one table.
Chained(hash, hist, n) ==
  /\ \A b \in 0..HHASH_SIZE - 1 : IsNewest(hash[b], hist, n, b)
  /\ \A s \in 0..n - 1 : IsNewest(hist[s].lnk, hist, s, HASH_PID(hist[s].pid))

\* Every variable keeps its type: slots and sizes of struct history_info stay
\* within the arrays that pids_make_hist grows.
TypeOK ==
  /\ alive \subseteq Pid /\ born \subseteq Pid /\ due \subseteq Pid
  /\ reuse \in BOOLEAN /\ reap \in BOOLEAN
  /\ tics \in [Pid -> Count] /\ maj \in [Pid -> Count]
  /\ HHist_siz \in Nat /\ num_tasks \in Nat /\ n_sav \in Nat
  /\ PHist_sav \in [0..HHist_siz - 1 -> HST]
  /\ PHist_new \in [0..HHist_siz - 1 -> HST]
  /\ PHash_sav \in [0..HHASH_SIZE - 1 -> Int]
  /\ PHash_new \in [0..HHASH_SIZE - 1 -> Int]
  /\ pc \in {"idle", "read", "walk"}
  /\ tid \in Pid \cup {0} /\ V \in Int
  /\ result \in [tid : Pid \cup {0}, tics : Count, pcpu : 0..UINT_MOD - 1,
                 delta : 0..UINT_MOD - 1]
  /\ credit \in [Pid -> Nat]

\* Both hash tables thread exactly the records of their frame, newest first,
\* with no cycle and nothing left over from two frames ago, whatever growing
\* and toggling pids_make_hist and pids_toggle_history have done.
HashChains ==
  /\ Chained(PHash_sav, PHist_sav, n_sav)
  /\ Chained(PHash_new, PHist_new, Filled)

\* pids_histget only ever reads a record the saved frame wrote, in the bucket
\* of the task it looks for, and has passed over no record of that task.
WalkInFrame ==
  pc = "walk" =>
    /\ V \in -1..n_sav - 1
    /\ V # -1 => HASH_PID(PHist_sav[V].pid) = HASH_PID(tid)
    /\ \A s \in 0..n_sav - 1 : s > V => PHist_sav[s].pid # tid

\* The tables implement the one-frame memory of TaskDelta: the deltas that
\* pids_make_hist stores are those against the task's latest record in the
\* frame before, collisions, growth and duplicate records notwithstanding.
RefinesTaskDelta == Delta!Spec

\* The cpu time of p's latest record, zero when neither frame holds one.
LastTallied(p) ==
  LET new == Decode(PHist_new, num_tasks)[p]
      sav == Decode(PHist_sav, n_sav)[p]
  IN  IF new.seen THEN new.tics ELSE sav.tics

\* When every frame is a reap() and no pid is used twice, the pcpu values
\* reported for a live task over all frames add up to the cpu time it had
\* used when last read: pids_make_hist neither loses a tic nor counts one
\* twice, although tasks start and exit in the middle of frames.
CpuAccounted ==
  reap /\ ~reuse => \A p \in alive : credit[p] = LastTallied(p)

\* The loop of pids_histget ends: no chain bends back on itself.
WalkEnds == pc = "walk" ~> pc = "read"
================================================================================
