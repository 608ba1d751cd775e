----------------------------- MODULE ReadProcProofs ----------------------------
(****************************************************************************)
(* Proofs about ReadProc for every set of tasks, every way they belong to   *)
(* processes and users, every set of scans and of modes, while tasks start  *)
(* and exit between any two system calls of the library.                    *)
(*                                                                          *)
(* The invariant has a part for all scans (GInv: types, and one scan of     *)
(* threads at a time) and one for each scan (Good), which is stated of the  *)
(* values of the scan alone.  Each step of the library is then a fact about *)
(* values, the lemmas "Every step of a scan keeps it good", and the step    *)
(* lemmas at the end only say which values change.                          *)
(****************************************************************************)
EXTENDS ReadProc, SequenceTheorems, TLAPS

Tid0 == Tid \cup {0}

Uids == UNION {m.uids : m \in Modes}

\* Every PROCTAB there can be.
ProcTab ==
  [ open : BOOLEAN, threads : BOOLEAN, pids : Seq(Tid), listed : SUBSET Tid,
    uids : SUBSET Uids, pos : Tid0, pidfd : Tid0, taskfd : Tid0,
    taskdir : Tid0, taskpos : Tid0, taskdir_user : Tid0, fds : Nat ]

Proc == [tid : Tid0, tgid : Tid0, cmd : Tid0]

\* A PROCTAB holds open the descriptors that it names.
FdsOpen(P) == Held(P.pidfd) + Held(P.taskfd) <= P.fds

LostOf(P) == P.fds - Held(P.pidfd) - Held(P.taskfd)

\* The tasks in a list.
Elems(l) == {l[i] : i \in 1 .. Len(l)}

\* What a caller asked for, and where the tasks of a process are read.
SameMode(Q, P) ==
  Q.open = P.open /\ Q.threads = P.threads /\ Q.listed = P.listed /\ Q.uids = P.uids

SameDir(Q, P) ==
  Q.taskdir = P.taskdir /\ Q.taskpos = P.taskpos /\ Q.taskdir_user = P.taskdir_user

--------------------------------------------------------------------------------
(* The PROCTAB after each of its updates.                                   *)

\* The updates of a PROCTAB.
AtPid(P, t, fd) ==
  [P EXCEPT !.pos = t, !.taskfd = 0, !.pidfd = fd,
            !.fds = P.fds - Held(P.pidfd) - Held(P.taskfd) + Held(fd)]

AtNoPid(P) ==
  [P EXCEPT !.pidfd = 0, !.taskfd = 0, !.fds = P.fds - Held(P.pidfd) - Held(P.taskfd)]

AtListed(P, fd) ==
  [P EXCEPT !.pids = Tail(P.pids), !.pidfd = fd, !.fds = P.fds + Held(fd)]

AtNoTid(P, dir, pos, user) ==
  [P EXCEPT !.taskdir = dir, !.taskpos = pos, !.taskdir_user = user]

AtTid(P, dir, t, user, fdt) ==
  [P EXCEPT !.taskdir = dir, !.taskpos = t, !.taskdir_user = user,
            !.taskfd = fdt, !.fds = P.fds - Held(P.taskfd) + Held(fdt)]

\* A descriptor is one or none.
LEMMA HeldIs ==
  /\ \A fd : Held(fd) \in 0 .. 1
  /\ Held(0) = 0
BY DEF Held

\* The values that members take have their types.
LEMMA Tid0Has ==
  Tid \subseteq Tid0 /\ 0 \in Tid0 /\ 0 \notin Tid /\ Tid0 \subseteq Nat
BY ReadProcAssumption DEF Tid0

\* simple_nextpid at process t.
LEMMA NextPidTab ==
  ASSUME NEW P \in ProcTab, FdsOpen(P), NEW t \in Tid, NEW fd \in {0, t}, NEW Q,
         Q = AtPid(P, t, fd)
  PROVE  /\ Q \in ProcTab /\ FdsOpen(Q) /\ SameMode(Q, P) /\ SameDir(Q, P)
         /\ Q.pids = P.pids /\ Q.pos = t /\ Q.taskfd = 0 /\ Q.pidfd = fd
         /\ LostOf(Q) = LostOf(P)
<1>1. P.fds \in Nat /\ Held(P.pidfd) \in 0 .. 1 /\ Held(P.taskfd) \in 0 .. 1 /\ Held(fd) \in 0 .. 1
      /\ Held(0) = 0 /\ t \in Tid0 /\ 0 \in Tid0 /\ fd \in Tid0
  BY HeldIs, Tid0Has DEF ProcTab
<1>2. PICK u \in Nat : u = P.fds - Held(P.pidfd) - Held(P.taskfd) + Held(fd)
  BY <1>1 DEF FdsOpen
<1>3. Q = [P EXCEPT !.pos = t, !.taskfd = 0, !.pidfd = fd, !.fds = u]
  BY <1>2 DEF AtPid
<1>4. Q \in ProcTab
  BY <1>1, <1>3 DEF ProcTab
<1>5. SameMode(Q, P) /\ SameDir(Q, P)
  BY <1>3 DEF ProcTab, SameMode, SameDir
<1>6. Q.pids = P.pids /\ Q.pos = t /\ Q.taskfd = 0 /\ Q.pidfd = fd /\ Q.fds = u
  BY <1>3 DEF ProcTab
<1>7. FdsOpen(Q) /\ LostOf(Q) = LostOf(P)
  BY <1>1, <1>2, <1>6 DEF FdsOpen, LostOf
<1> QED
  BY <1>4, <1>5, <1>6, <1>7

\* simple_nextpid at the end.
LEMMA NoPidTab ==
  ASSUME NEW P \in ProcTab, FdsOpen(P), NEW Q,
         Q = AtNoPid(P)
  PROVE  /\ Q \in ProcTab /\ FdsOpen(Q) /\ SameMode(Q, P) /\ SameDir(Q, P)
         /\ Q.pids = P.pids /\ Q.pos = P.pos /\ Q.taskfd = 0 /\ Q.pidfd = 0
         /\ LostOf(Q) = LostOf(P)
<1>1. P.fds \in Nat /\ Held(P.pidfd) \in 0 .. 1 /\ Held(P.taskfd) \in 0 .. 1
      /\ Held(0) = 0 /\ 0 \in Tid0
  BY HeldIs, Tid0Has DEF ProcTab
<1>2. PICK u \in Nat : u = P.fds - Held(P.pidfd) - Held(P.taskfd)
  BY <1>1 DEF FdsOpen
<1>3. Q = [P EXCEPT !.pidfd = 0, !.taskfd = 0, !.fds = u]
  BY <1>2 DEF AtNoPid
<1>4. Q \in ProcTab
  BY <1>1, <1>3 DEF ProcTab
<1>5. SameMode(Q, P) /\ SameDir(Q, P)
  BY <1>3 DEF ProcTab, SameMode, SameDir
<1>6. Q.pids = P.pids /\ Q.pos = P.pos /\ Q.taskfd = 0 /\ Q.pidfd = 0 /\ Q.fds = u
  BY <1>3 DEF ProcTab
<1>7. FdsOpen(Q) /\ LostOf(Q) = LostOf(P)
  BY <1>1, <1>2, <1>6 DEF FdsOpen, LostOf
<1> QED
  BY <1>4, <1>5, <1>6, <1>7

\* listed_nextpid: the descriptor before is not closed.
LEMMA ListedTab ==
  ASSUME NEW P \in ProcTab, FdsOpen(P), NEW fd \in Tid0, P.pids # <<>>, NEW Q,
         Q = AtListed(P, fd)
  PROVE  /\ Q \in ProcTab /\ FdsOpen(Q) /\ SameMode(Q, P) /\ SameDir(Q, P)
         /\ Q.pids = Tail(P.pids) /\ Q.pos = P.pos /\ Q.taskfd = P.taskfd /\ Q.pidfd = fd
<1>1. P.fds \in Nat /\ Held(P.pidfd) \in 0 .. 1 /\ Held(P.taskfd) \in 0 .. 1 /\ Held(fd) \in 0 .. 1
  BY HeldIs DEF ProcTab
<1>2. PICK u \in Nat : u = P.fds + Held(fd)
  BY <1>1
<1>3. PICK l \in Seq(Tid) : l = Tail(P.pids)
  <2>1. P.pids \in Seq(Tid)
    BY DEF ProcTab
  <2>2. Tail(P.pids) \in Seq(Tid)
    BY <2>1, HeadTailProperties
  <2> QED
    BY <2>2
<1>4. Q = [P EXCEPT !.pids = l, !.pidfd = fd, !.fds = u]
  BY <1>2, <1>3 DEF AtListed
<1>5. Q \in ProcTab
  BY <1>4 DEF ProcTab
<1>6. SameMode(Q, P) /\ SameDir(Q, P)
  BY <1>4 DEF ProcTab, SameMode, SameDir
<1>7. Q.pids = l /\ Q.pos = P.pos /\ Q.taskfd = P.taskfd /\ Q.pidfd = fd /\ Q.fds = u
  BY <1>4 DEF ProcTab
<1>8. FdsOpen(Q)
  BY <1>1, <1>2, <1>7 DEF FdsOpen
<1> QED
  BY <1>3, <1>5, <1>6, <1>7, <1>8

\* simple_nexttid at the end of the stream, or without one.
LEMMA NoTidTab ==
  ASSUME NEW P \in ProcTab, FdsOpen(P), NEW dir \in Tid0, NEW pos \in Tid0,
         NEW user \in Tid0, NEW Q,
         Q = AtNoTid(P, dir, pos, user)
  PROVE  /\ Q \in ProcTab /\ FdsOpen(Q) /\ SameMode(Q, P)
         /\ Q.pids = P.pids /\ Q.pos = P.pos /\ Q.taskfd = P.taskfd /\ Q.pidfd = P.pidfd
         /\ Q.taskdir = dir /\ Q.taskpos = pos /\ Q.taskdir_user = user
         /\ LostOf(Q) = LostOf(P)
<1>1. Q \in ProcTab
  BY DEF AtNoTid, ProcTab
<1>2. SameMode(Q, P)
  BY DEF AtNoTid, ProcTab, SameMode
<1>3. /\ Q.pids = P.pids /\ Q.pos = P.pos /\ Q.taskfd = P.taskfd /\ Q.pidfd = P.pidfd
      /\ Q.fds = P.fds /\ Q.taskdir = dir /\ Q.taskpos = pos /\ Q.taskdir_user = user
  BY DEF AtNoTid, ProcTab
<1> QED
  BY <1>1, <1>2, <1>3 DEF FdsOpen, LostOf

\* simple_nexttid at task t.
LEMMA NextTidTab ==
  ASSUME NEW P \in ProcTab, FdsOpen(P), NEW dir \in Tid0, NEW t \in Tid0,
         NEW user \in Tid0, NEW fdt \in Tid0, NEW Q,
         Q = AtTid(P, dir, t, user, fdt)
  PROVE  /\ Q \in ProcTab /\ FdsOpen(Q) /\ SameMode(Q, P)
         /\ Q.pids = P.pids /\ Q.pos = P.pos /\ Q.taskfd = fdt /\ Q.pidfd = P.pidfd
         /\ Q.taskdir = dir /\ Q.taskpos = t /\ Q.taskdir_user = user
         /\ LostOf(Q) = LostOf(P)
<1>1. P.fds \in Nat /\ Held(P.pidfd) \in 0 .. 1 /\ Held(P.taskfd) \in 0 .. 1 /\ Held(fdt) \in 0 .. 1
  BY HeldIs DEF ProcTab
<1>2. PICK u \in Nat : u = P.fds - Held(P.taskfd) + Held(fdt)
  BY <1>1 DEF FdsOpen
<1>3. Q = [P EXCEPT !.taskdir = dir, !.taskpos = t, !.taskdir_user = user,
                    !.taskfd = fdt, !.fds = u]
  BY <1>2 DEF AtTid
<1>4. Q \in ProcTab
  BY <1>3 DEF ProcTab
<1>5. SameMode(Q, P)
  BY <1>3 DEF ProcTab, SameMode
<1>6. /\ Q.pids = P.pids /\ Q.pos = P.pos /\ Q.taskfd = fdt /\ Q.pidfd = P.pidfd /\ Q.fds = u
      /\ Q.taskdir = dir /\ Q.taskpos = t /\ Q.taskdir_user = user
  BY <1>3 DEF ProcTab
<1>7. FdsOpen(Q) /\ LostOf(Q) = LostOf(P)
  BY <1>1, <1>2, <1>6 DEF FdsOpen, LostOf
<1> QED
  BY <1>4, <1>5, <1>6, <1>7

\* A PROCTAB as openproc makes it and closeproc leaves it.
IsNew(Q, op, th, l, us, fds) ==
  /\ Q \in ProcTab /\ FdsOpen(Q)
  /\ Q.open = op /\ Q.threads = th /\ Q.pids = l /\ Q.uids = us
  /\ Q.listed = Elems(l)
  /\ Q.pos = 0 /\ Q.pidfd = 0 /\ Q.taskfd = 0 /\ Q.taskdir = 0
  /\ Q.taskdir_user = 0 /\ LostOf(Q) = fds

\* Tab makes such a PROCTAB.
LEMMA NewTab ==
  ASSUME NEW op \in BOOLEAN, NEW th \in BOOLEAN, NEW l \in Seq(Tid),
         NEW us \in SUBSET Uids, NEW fds \in Nat
  PROVE  IsNew(Tab(op, th, l, us, fds), op, th, l, us, fds)
<1> SUFFICES ASSUME NEW Q, Q = Tab(op, th, l, us, fds)
             PROVE  IsNew(Q, op, th, l, us, fds)
  OBVIOUS
<1>1. 0 \in Tid0
  BY Tid0Has
<1>2. Elems(l) \in SUBSET Tid
  BY DEF Elems
<1>3. Q = [ open |-> op, threads |-> th, pids |-> l, listed |-> Elems(l),
            uids |-> us, pos |-> 0, pidfd |-> 0, taskfd |-> 0,
            taskdir |-> 0, taskpos |-> 0, taskdir_user |-> 0, fds |-> fds ]
  BY DEF Tab, Elems
<1>4. Q \in ProcTab
  BY <1>1, <1>2, <1>3 DEF ProcTab
<1>5. Q.open = op /\ Q.threads = th /\ Q.pids = l /\ Q.uids = us /\ Q.listed = Elems(l)
  BY <1>3
<1>6. /\ Q.pos = 0 /\ Q.pidfd = 0 /\ Q.taskfd = 0 /\ Q.taskdir = 0
      /\ Q.taskdir_user = 0 /\ Q.fds = fds
  BY <1>3
<1>7. FdsOpen(Q) /\ LostOf(Q) = fds
  BY <1>6, HeldIs DEF FdsOpen, LostOf
<1> QED
  BY <1>4, <1>5, <1>6, <1>7 DEF IsNew

\* openproc's PROCTAB.
LEMMA OpenNew ==
  ASSUME NEW m \in Modes, NEW fds \in Nat
  PROVE  IsNew(Tab(TRUE, m.threads, m.pids, m.uids, fds),
               TRUE, m.threads, m.pids, m.uids, fds)
<1>1. m.threads \in BOOLEAN /\ m.pids \in Seq(Tid) /\ m.uids \in SUBSET Uids
  BY ReadProcAssumption DEF Uids
<1>2. TRUE \in BOOLEAN
  OBVIOUS
<1> QED
  BY <1>1, <1>2, NewTab, Zenon

\* The same, member by member.
LEMMA OpenTab ==
  ASSUME NEW m \in Modes, NEW fds \in Nat, NEW Q,
         Q = Tab(TRUE, m.threads, m.pids, m.uids, fds)
  PROVE  /\ Q \in ProcTab /\ FdsOpen(Q)
         /\ Q.open = TRUE /\ Q.threads = m.threads /\ Q.pids = m.pids /\ Q.uids = m.uids
         /\ Q.listed = Elems(m.pids)
         /\ Q.pos = 0 /\ Q.pidfd = 0 /\ Q.taskfd = 0 /\ Q.taskdir = 0
         /\ Q.taskdir_user = 0 /\ LostOf(Q) = fds
<1>1. IsNew(Tab(TRUE, m.threads, m.pids, m.uids, fds), TRUE, m.threads, m.pids, m.uids, fds)
  BY OpenNew, Zenon
<1> QED
  BY <1>1 DEF IsNew

\* closeproc's PROCTAB, member by member.
LEMMA CloseTab ==
  ASSUME NEW fds \in Nat, NEW Q, Q = Closed(fds)
  PROVE  /\ Q \in ProcTab /\ FdsOpen(Q)
         /\ Q.open = FALSE /\ Q.threads = FALSE /\ Q.pids = <<>> /\ Q.uids = {}
         /\ Q.listed = {} /\ Q.pos = 0 /\ Q.pidfd = 0 /\ Q.taskfd = 0 /\ Q.taskdir = 0
         /\ Q.taskdir_user = 0 /\ LostOf(Q) = fds
<1>1. <<>> \in Seq(Tid) /\ {} \in SUBSET Uids /\ Elems(<<>>) = {}
  BY DEF Elems
<1>2. FALSE \in BOOLEAN
  OBVIOUS
<1>3. Q = Tab(FALSE, FALSE, <<>>, {}, fds)
  BY DEF Closed
<1>4. IsNew(Q, FALSE, FALSE, <<>>, {}, fds)
  BY <1>1, <1>2, <1>3, NewTab, Zenon
<1> QED
  BY <1>1, <1>4 DEF IsNew

--------------------------------------------------------------------------------
(* The inductive invariant, first what all scans share.                     *)

\* One scan of threads is open at a time.
OneThreadScan ==
  \A s, o \in Scan : PT[s].open /\ PT[s].threads /\ PT[o].open /\ PT[o].threads => s = o

\* While tasks are read readeither knows a process.
SkelKnown ==
  new_p # NULL \/ pc \in {"taskfinder", "taskreader"} \/ (pc = "fill" /\ PT[cur].threads)
    => skel_p \in Tid

\* Types, stronger than TypeOK.
Types ==
  /\ live \subseteq known /\ known \subseteq Tid
  /\ \A t \in live : TgidOf[t] \in live
  /\ \A t \in known : TgidOf[t] \in known
  /\ PT \in [Scan -> ProcTab]
  /\ \A s \in Scan : FdsOpen(PT[s])
  /\ x \in [Scan -> Proc]
  /\ skel_p \in Tid0 /\ new_p \in Scan \cup {NULL} /\ canary \in Tid0
  /\ pc \in {"idle", "finder", "reader", "fill", "taskfinder", "taskreader", "undefined"}
  /\ cur \in Scan
  /\ steady \in [Scan -> SUBSET live]
  /\ out \in [Scan -> Seq(Tid0)]
  /\ ended \in [Scan -> BOOLEAN]

\* The library reads in a scan that is open, and tasks in one of threads.
Where ==
  /\ pc # "idle" => PT[cur].open
  /\ pc = "reader" => ~PT[cur].threads
  /\ pc \in {"taskfinder", "taskreader", "undefined"} => PT[cur].threads

GInv == Types /\ OneThreadScan /\ SkelKnown /\ Where

--------------------------------------------------------------------------------
(* What the steps of a scan do to its PROCTAB.                              *)

\* Only the PROCTAB of the scan at hand changes, and it keeps its mode.
LEMMA OthersKept ==
  ASSUME Types, NEW s \in Scan, NEW Q \in ProcTab, FdsOpen(Q), PT' = [PT EXCEPT ![s] = Q]
  PROVE  /\ PT' \in [Scan -> ProcTab] /\ PT'[s] = Q
         /\ \A o \in Scan : o # s => PT'[o] = PT[o]
         /\ \A o \in Scan : FdsOpen(PT'[o])
BY DEF Types

\* simple_nextpid: all it does to the PROCTABs, and what else it does.
LEMMA NextPidSheet ==
  ASSUME Types, simple_nextpid
  PROVE  LET P == PT[cur]
             Q == PT'[cur]
         IN  /\ pc = "finder" /\ P.listed = {}
             /\ PT' \in [Scan -> ProcTab] /\ \A o \in Scan : o # cur => PT'[o] = PT[o]
             /\ \A o \in Scan : FdsOpen(PT'[o])
             /\ SameMode(Q, P) /\ SameDir(Q, P) /\ Q.pids = P.pids /\ LostOf(Q) = LostOf(P)
             /\ Q.taskfd = 0
             /\ \/ \E t \in Leaders : /\ Entry(cur, Leaders, P.pos, t) /\ found(t, t)
                                      /\ Q.pos = t /\ Q.pidfd = Opened(t)
                \/ AtEnd(cur, Leaders, P.pos) /\ returnNULL /\ Q.pos = P.pos /\ Q.pidfd = 0
<1> DEFINE P == PT[cur]
           fds == P.fds - Held(P.pidfd) - Held(P.taskfd)
<1>1. P \in ProcTab /\ FdsOpen(P) /\ pc = "finder" /\ P.listed = {} /\ cur \in Scan
      /\ PT \in [Scan -> ProcTab]
  BY DEF Types, simple_nextpid
<1>2. CASE \E t \in Leaders :
             /\ Entry(cur, Leaders, P.pos, t)
             /\ PT' = [PT EXCEPT ![cur].pos = t, ![cur].taskfd = 0, ![cur].pidfd = Opened(t),
                                 ![cur].fds = fds + Held(Opened(t))]
             /\ found(t, t)
  <2>1. PICK t \in Leaders :
             /\ Entry(cur, Leaders, P.pos, t)
             /\ PT' = [PT EXCEPT ![cur].pos = t, ![cur].taskfd = 0, ![cur].pidfd = Opened(t),
                                 ![cur].fds = fds + Held(Opened(t))]
             /\ found(t, t)
    BY <1>2
  <2> DEFINE Q == AtPid(P, t, Opened(t))
  <2>2. PT' = [PT EXCEPT ![cur] = Q]
    BY <1>1, <2>1 DEF AtPid
  <2>3. t \in Tid /\ Opened(t) \in {0, t}
    BY DEF Leaders, Opened
  <2>4. /\ Q \in ProcTab /\ FdsOpen(Q) /\ SameMode(Q, P) /\ SameDir(Q, P)
        /\ Q.pids = P.pids /\ Q.pos = t /\ Q.taskfd = 0 /\ Q.pidfd = Opened(t)
        /\ LostOf(Q) = LostOf(P)
    BY <1>1, <2>3, NextPidTab
  <2> HIDE DEF Q
  <2> QED
    BY <1>1, <2>1, <2>2, <2>4, OthersKept
<1>3. CASE /\ AtEnd(cur, Leaders, P.pos)
           /\ PT' = [PT EXCEPT ![cur].pidfd = 0, ![cur].taskfd = 0, ![cur].fds = fds]
           /\ returnNULL
  <2> DEFINE Q == AtNoPid(P)
  <2>1. PT' = [PT EXCEPT ![cur] = Q]
    BY <1>1, <1>3 DEF AtNoPid
  <2>2. /\ Q \in ProcTab /\ FdsOpen(Q) /\ SameMode(Q, P) /\ SameDir(Q, P)
        /\ Q.pids = P.pids /\ Q.pos = P.pos /\ Q.taskfd = 0 /\ Q.pidfd = 0
        /\ LostOf(Q) = LostOf(P)
    BY <1>1, NoPidTab
  <2> HIDE DEF Q
  <2> QED
    BY <1>1, <1>3, <2>1, <2>2, OthersKept
<1> QED
  BY <1>2, <1>3 DEF simple_nextpid

\* The same for listed_nextpid.
LEMMA ListedSheet ==
  ASSUME Types, listed_nextpid
  PROVE  LET P == PT[cur]
             Q == PT'[cur]
             t == Head(P.pids)
         IN  /\ pc = "finder" /\ P.listed # {}
             /\ PT' \in [Scan -> ProcTab] /\ \A o \in Scan : o # cur => PT'[o] = PT[o]
             /\ \A o \in Scan : FdsOpen(PT'[o])
             /\ SameMode(Q, P) /\ SameDir(Q, P) /\ Q.taskfd = P.taskfd /\ Q.pos = P.pos
             /\ \/ P.pids = <<>> /\ PT' = PT /\ returnNULL
                \/ /\ P.pids # <<>> /\ Q.pids = Tail(P.pids) /\ Q.pidfd = Opened(t) /\ t \in Tid
                   /\ found(t, IF t \in live THEN TgidOf[t] ELSE t)
<1> DEFINE P == PT[cur]
           t == Head(P.pids)
<1>1. P \in ProcTab /\ FdsOpen(P) /\ pc = "finder" /\ P.listed # {} /\ cur \in Scan
      /\ PT \in [Scan -> ProcTab]
  BY DEF Types, listed_nextpid
<1>2. CASE P.pids = <<>>
  BY <1>1, <1>2 DEF listed_nextpid, Types, SameMode, SameDir
<1>3. CASE P.pids # <<>>
  <2> DEFINE Q == AtListed(P, Opened(t))
  <2>1. /\ PT' = [PT EXCEPT ![cur].pids = Tail(PT[cur].pids), ![cur].pidfd = Opened(t),
                            ![cur].fds = PT[cur].fds + Held(Opened(t))]
        /\ found(t, IF t \in live THEN TgidOf[t] ELSE t)
    BY <1>3 DEF listed_nextpid
  <2>2. PT' = [PT EXCEPT ![cur] = Q]
    BY <1>1, <2>1 DEF AtListed
  <2>3. t \in Tid
    <3>1. P.pids \in Seq(Tid)
      BY <1>1 DEF ProcTab
    <3> QED
      BY <3>1, <1>3, HeadTailProperties
  <2>4. Opened(t) \in Tid0
    BY <2>3, Tid0Has DEF Opened
  <2> HIDE DEF t
  <2>5. /\ Q \in ProcTab /\ FdsOpen(Q) /\ SameMode(Q, P) /\ SameDir(Q, P)
        /\ Q.pids = Tail(P.pids) /\ Q.pos = P.pos /\ Q.taskfd = P.taskfd /\ Q.pidfd = Opened(t)
    BY <1>1, <1>3, <2>4, ListedTab
  <2> HIDE DEF Q
  <2> QED
    BY <1>1, <1>3, <2>1, <2>2, <2>3, <2>5, OthersKept DEF t
<1> QED
  BY <1>2, <1>3

\* The stream, position and user that simple_nexttid goes on with.
TidDir ==
  IF PT[cur].taskdir_user = skel_p THEN PT[cur].taskdir
  ELSE IF PT[cur].pidfd \in live THEN TgidOf[PT[cur].pidfd] ELSE 0

TidPos == IF PT[cur].taskdir_user = skel_p THEN PT[cur].taskpos ELSE 0

TidUser == IF PT[cur].taskdir_user # skel_p /\ TidDir = 0 THEN PT[cur].taskdir_user ELSE skel_p

TidFd(t) == IF PT[cur].pidfd \in live THEN Opened(t) ELSE 0

\* These are tasks or 0, and the descriptor is of the task or none.
LEMMA TidTypes ==
  ASSUME Types
  PROVE  TidDir \in Tid0 /\ TidPos \in Tid0 /\ TidUser \in Tid0 /\ \A t \in Tid : TidFd(t) \in {0, t}
<1>1. PT[cur].taskdir_user \in Tid0 /\ PT[cur].taskdir \in Tid0 /\ PT[cur].taskpos \in Tid0
  BY DEF Types, ProcTab
<1>2. skel_p \in Tid0 /\ live \subseteq Tid /\ \A t \in Tid : TgidOf[t] \in Tid0
  BY Tid0Has, ReadProcAssumption DEF Types
<1> QED
  BY <1>1, <1>2, Tid0Has DEF TidDir, TidPos, TidUser, TidFd, Opened

\* The same for simple_nexttid.
LEMMA NextTidSheet ==
  ASSUME Types, simple_nexttid
  PROVE  LET P == PT[cur]
             Q == PT'[cur]
         IN  /\ pc = "taskfinder"
             /\ UNCHANGED <<kernel, skel_p, canary, cur, ghosts>>
             /\ PT' \in [Scan -> ProcTab] /\ \A o \in Scan : o # cur => PT'[o] = PT[o]
             /\ \A o \in Scan : FdsOpen(PT'[o])
             /\ SameMode(Q, P) /\ Q.pids = P.pids /\ Q.pos = P.pos /\ Q.pidfd = P.pidfd
             /\ LostOf(Q) = LostOf(P)
             /\ \/ /\ \/ P.taskdir_user # skel_p /\ TidDir = 0
                      \/ TidDir # 0 /\ AtEnd(cur, TasksOf(TidDir), TidPos)
                   /\ Q.taskdir = TidDir /\ Q.taskpos = TidPos /\ Q.taskdir_user = TidUser
                   /\ Q.taskfd = P.taskfd
                   /\ new_p' = NULL /\ pc' = "finder" /\ x' = x
                \/ \E t \in TasksOf(TidDir) :
                     /\ TidDir # 0 /\ Entry(cur, TasksOf(TidDir), TidPos, t)
                     /\ Q.taskdir = TidDir /\ Q.taskpos = t /\ Q.taskdir_user = TidUser
                     /\ Q.taskfd = TidFd(t)
                     /\ x' = [x EXCEPT ![cur].tid = t, ![cur].tgid = skel_p]
                     /\ new_p' = new_p /\ pc' = "taskreader"
                \/ /\ P.taskdir_user = skel_p /\ TidDir = 0 /\ PT' = PT
                   /\ pc' = "undefined" /\ x' = x /\ new_p' = new_p
<1> DEFINE P == PT[cur]
           fresh == P.taskdir_user # skel_p
           nextProc == /\ PT' = [PT EXCEPT ![cur].taskdir = TidDir, ![cur].taskpos = TidPos,
                                           ![cur].taskdir_user = TidUser]
                       /\ new_p' = NULL /\ pc' = "finder" /\ UNCHANGED x
           entry(t) == /\ TidDir # 0 /\ Entry(cur, TasksOf(TidDir), TidPos, t)
                       /\ x' = [x EXCEPT ![cur].tid = t, ![cur].tgid = skel_p]
                       /\ PT' = [PT EXCEPT ![cur].taskdir = TidDir, ![cur].taskpos = t,
                                           ![cur].taskdir_user = TidUser, ![cur].taskfd = TidFd(t),
                                           ![cur].fds = PT[cur].fds - Held(PT[cur].taskfd)
                                                          + Held(TidFd(t))]
                       /\ pc' = "taskreader" /\ UNCHANGED new_p
<1>1. P \in ProcTab /\ FdsOpen(P) /\ cur \in Scan /\ PT \in [Scan -> ProcTab]
  BY DEF Types
<1>2. pc = "taskfinder" /\ UNCHANGED <<kernel, skel_p, canary, cur, ghosts>>
  BY DEF simple_nexttid
<1>3. \/ fresh /\ TidDir = 0 /\ nextProc
      \/ TidDir # 0 /\ AtEnd(cur, TasksOf(TidDir), TidPos) /\ nextProc
      \/ \E t \in TasksOf(TidDir) : entry(t)
      \/ ~fresh /\ TidDir = 0 /\ pc' = "undefined" /\ UNCHANGED <<PT, x, new_p>>
  <2>1. TidDir = IF ~fresh THEN P.taskdir ELSE IF P.pidfd \in live THEN TgidOf[P.pidfd] ELSE 0
    BY DEF TidDir
  <2>2. TidPos = IF fresh THEN 0 ELSE P.taskpos
    BY DEF TidPos
  <2>3. TidUser = taskdir_user_of(fresh, TidDir)
    BY DEF TidUser, taskdir_user_of
  <2>4. fresh = TaskdirStale
    BY DEF TaskdirStale
  <2> QED
    BY <2>1, <2>2, <2>3, <2>4 DEF simple_nexttid, TidFd
<1>4. TidDir \in Tid0 /\ TidPos \in Tid0 /\ TidUser \in Tid0
  BY TidTypes
<1>5. ASSUME nextProc
      PROVE  LET Q == PT'[cur]
             IN  /\ PT' \in [Scan -> ProcTab] /\ \A o \in Scan : o # cur => PT'[o] = PT[o]
                 /\ \A o \in Scan : FdsOpen(PT'[o])
                 /\ SameMode(Q, P) /\ Q.pids = P.pids /\ Q.pos = P.pos /\ Q.pidfd = P.pidfd
                 /\ LostOf(Q) = LostOf(P)
                 /\ Q.taskdir = TidDir /\ Q.taskpos = TidPos /\ Q.taskdir_user = TidUser
                 /\ Q.taskfd = P.taskfd
  <2> DEFINE Q == AtNoTid(P, TidDir, TidPos, TidUser)
  <2>1. PT' = [PT EXCEPT ![cur] = Q]
    BY <1>1, <1>5 DEF AtNoTid
  <2>2. /\ Q \in ProcTab /\ FdsOpen(Q) /\ SameMode(Q, P)
        /\ Q.pids = P.pids /\ Q.pos = P.pos /\ Q.taskfd = P.taskfd /\ Q.pidfd = P.pidfd
        /\ Q.taskdir = TidDir /\ Q.taskpos = TidPos /\ Q.taskdir_user = TidUser
        /\ LostOf(Q) = LostOf(P)
    BY <1>1, <1>4, NoTidTab
  <2> HIDE DEF Q
  <2> QED
    BY <1>1, <2>1, <2>2, OthersKept
<1>6. ASSUME NEW t \in TasksOf(TidDir), entry(t)
      PROVE  LET Q == PT'[cur]
             IN  /\ PT' \in [Scan -> ProcTab] /\ \A o \in Scan : o # cur => PT'[o] = PT[o]
                 /\ \A o \in Scan : FdsOpen(PT'[o])
                 /\ SameMode(Q, P) /\ Q.pids = P.pids /\ Q.pos = P.pos /\ Q.pidfd = P.pidfd
                 /\ LostOf(Q) = LostOf(P)
                 /\ Q.taskdir = TidDir /\ Q.taskpos = t /\ Q.taskdir_user = TidUser
                 /\ Q.taskfd = TidFd(t)
  <2> DEFINE Q == AtTid(P, TidDir, t, TidUser, TidFd(t))
  <2>1. PT' = [PT EXCEPT ![cur] = Q]
    BY <1>1, <1>6 DEF AtTid
  <2>2. t \in Tid0 /\ TidFd(t) \in Tid0
    BY TidTypes, Tid0Has DEF TasksOf
  <2>3. /\ Q \in ProcTab /\ FdsOpen(Q) /\ SameMode(Q, P)
        /\ Q.pids = P.pids /\ Q.pos = P.pos /\ Q.taskfd = TidFd(t) /\ Q.pidfd = P.pidfd
        /\ Q.taskdir = TidDir /\ Q.taskpos = t /\ Q.taskdir_user = TidUser
        /\ LostOf(Q) = LostOf(P)
    BY <1>1, <1>4, <2>2, NextTidTab
  <2> HIDE DEF Q
  <2> QED
    BY <1>1, <2>1, <2>3, OthersKept
<1>7. CASE UNCHANGED <<PT, x, new_p>>
  <2>1. PT' = PT /\ PT' \in [Scan -> ProcTab] /\ \A o \in Scan : FdsOpen(PT'[o])
    BY <1>7 DEF Types
  <2>2. SameMode(PT'[cur], P) /\ LostOf(PT'[cur]) = LostOf(P)
    BY <2>1 DEF SameMode
  <2>3. CASE nextProc
    BY <1>2, <1>3, <1>5, <1>7, <2>1, <2>2, <2>3
  <2> QED
    BY <1>2, <1>3, <1>5, <1>6, <1>7, <2>1, <2>2, <2>3
<1> HIDE DEF fresh
<1> QED
  BY <1>2, <1>3, <1>5, <1>6, <1>7 DEF fresh

\* The proc_t of the scan at hand when a process or task is found, and when its
\* name is read.
LEMMA ProcFound ==
  ASSUME Types, NEW t \in Tid0, NEW g \in Tid0,
         x' = [x EXCEPT ![cur].tid = t, ![cur].tgid = g]
  PROVE  /\ x' \in [Scan -> Proc] /\ \A o \in Scan : o # cur => x'[o] = x[o]
         /\ x'[cur].tid = t /\ x'[cur].cmd = x[cur].cmd
BY DEF Types, Proc

\* stat2proc fills in the name only.
LEMMA ProcNamed ==
  ASSUME Types, NEW t \in Tid, x' = [x EXCEPT ![cur].cmd = stat2proc(@, t)]
  PROVE  /\ x' \in [Scan -> Proc] /\ \A o \in Scan : o # cur => x'[o] = x[o]
         /\ x'[cur].tid = x[cur].tid
         /\ x'[cur].cmd = IF x[cur].cmd = 0 THEN t ELSE x[cur].cmd
<1>1. x[cur].cmd \in Tid0 /\ t \in Tid0 /\ cur \in Scan /\ x \in [Scan -> Proc]
  BY Tid0Has DEF Types, Proc
<1>2. PICK c \in Tid0 : c = IF x[cur].cmd = 0 THEN t ELSE x[cur].cmd
  BY <1>1
<1>3. x' = [x EXCEPT ![cur].cmd = c]
  BY <1>2 DEF stat2proc
<1> QED
  BY <1>1, <1>2, <1>3 DEF Proc

\* free_acquired and the end of a read replace the proc_t of one scan.
LEMMA ProcCleared ==
  ASSUME Types, NEW s \in Scan, NEW p \in Proc, x' = [x EXCEPT ![s] = p]
  PROVE  x' \in [Scan -> Proc] /\ x'[s] = p /\ \A o \in Scan : o # s => x'[o] = x[o]
BY DEF Types

\* A cleared proc_t names no task and has no command.
LEMMA AcquiredIs ==
  Acquired \in Proc /\ Acquired.tid = 0 /\ Acquired.cmd = 0
BY Tid0Has DEF Acquired, Proc

--------------------------------------------------------------------------------
(* Types are kept.                                                          *)

\* The initial state.
LEMMA InitGInv ==
  Init => GInv
<1> SUFFICES ASSUME Init PROVE GInv
  OBVIOUS
<1> DEFINE C == Closed(0)
<1>1. C \in ProcTab /\ FdsOpen(C) /\ C.open = FALSE
  BY CloseTab
<1> HIDE DEF C
<1>2. PT = [s \in Scan |-> C]
  BY DEF Init, C
<1>3. PT \in [Scan -> ProcTab] /\ \A s \in Scan : FdsOpen(PT[s])
  BY <1>1, <1>2
<1>4. OneThreadScan
  BY <1>1, <1>2 DEF OneThreadScan
<1>5. x \in [Scan -> Proc]
  BY AcquiredIs DEF Init
<1>6. steady \in [Scan -> SUBSET live] /\ out \in [Scan -> Seq(Tid0)] /\ ended \in [Scan -> BOOLEAN]
  BY DEF Init
<1>7. Types
  BY <1>3, <1>5, <1>6, Tid0Has, ReadProcAssumption DEF Init, Types
<1> QED
  BY <1>4, <1>7 DEF GInv, Init, SkelKnown, Where

\* Tasks that start or exit leave the library's state as it is, and a thread is
\* never left without its process.
LEMMA KernelTypes ==
  ASSUME GInv, NEW t \in Tid, Start(t) \/ Exit(t)
  PROVE  GInv'
<1>1. UNCHANGED <<PT, x, skel_p, new_p, canary, pc, cur, out, ended>>
  BY DEF Start, Exit, statics, ghosts
<1>2. OneThreadScan' /\ SkelKnown' /\ Where'
  BY <1>1 DEF GInv, OneThreadScan, SkelKnown, Where
<1>3. \A u \in Tid : TgidOf[u] \in Tid /\ TgidOf[TgidOf[u]] = TgidOf[u]
  BY ReadProcAssumption
<1>4. /\ live' \subseteq known' /\ known' \subseteq Tid
      /\ \A u \in live' : TgidOf[u] \in live'
      /\ \A u \in known' : TgidOf[u] \in known'
      /\ steady' \in [Scan -> SUBSET live']
  <2>1. CASE Start(t)
    BY <2>1, <1>3 DEF Start, GInv, Types, ghosts
  <2>2. CASE Exit(t)
    <3> DEFINE gone == IF TgidOf[t] = t THEN TasksOf(t) ELSE {t}
    <3>1. live' = live \ gone /\ known' = known
          /\ steady' = [s \in Scan |-> steady[s] \ gone]
      BY <2>2 DEF Exit
    <3>2. \A u \in Tid : TgidOf[u] \in gone => u \in gone
      BY <1>3 DEF TasksOf
    <3>3. steady \in [Scan -> SUBSET live] /\ live \subseteq Tid /\ live \subseteq known
      BY DEF GInv, Types
    <3> HIDE DEF gone
    <3>4. \A u \in live' : TgidOf[u] \in live'
      BY <3>1, <3>2, <3>3 DEF GInv, Types
    <3> QED
      BY <3>1, <3>3, <3>4 DEF GInv, Types
  <2> QED
    BY <2>1, <2>2
<1>5. Types'
  BY <1>1, <1>4 DEF GInv, Types
<1> QED
  BY <1>2, <1>5 DEF GInv

\* openproc: it is the only scan of threads if it is one.
LEMMA OpenTypes ==
  ASSUME GInv, NEW s \in Scan, NEW m \in Modes, openproc(s, m)
  PROVE  GInv'
<1>1. /\ pc = "idle" /\ ~PT[s].open /\ UNCHANGED <<kernel, x, statics, pc, cur>>
      /\ PT' = [PT EXCEPT ![s] = Tab(TRUE, m.threads, m.pids, m.uids, PT[s].fds)]
      /\ m.threads => \A o \in Scan : ~(PT[o].open /\ PT[o].threads)
      /\ steady' = [steady EXCEPT ![s] = live]
      /\ out' = [out EXCEPT ![s] = <<>>]
      /\ ended' = [ended EXCEPT ![s] = FALSE]
  BY DEF openproc
<1> DEFINE Q == Tab(TRUE, m.threads, m.pids, m.uids, PT[s].fds)
<1>2. Q \in ProcTab /\ FdsOpen(Q) /\ Q.threads = m.threads
  <2>1. PT[s].fds \in Nat
    BY DEF GInv, Types, ProcTab
  <2>2. Q = Tab(TRUE, m.threads, m.pids, m.uids, PT[s].fds)
    OBVIOUS
  <2> HIDE DEF Q
  <2> QED
    BY <2>1, <2>2, OpenTab, Zenon
<1> HIDE DEF Q
<1>3. /\ PT' \in [Scan -> ProcTab] /\ PT'[s] = Q
      /\ \A o \in Scan : o # s => PT'[o] = PT[o]
      /\ \A o \in Scan : FdsOpen(PT'[o])
  BY <1>1, <1>2, OthersKept DEF GInv, Q
<1>4. Types'
  <2>1. /\ steady' \in [Scan -> SUBSET live] /\ out' \in [Scan -> Seq(Tid0)]
        /\ ended' \in [Scan -> BOOLEAN]
    BY <1>1 DEF GInv, Types
  <2> QED
    BY <1>1, <1>3, <2>1 DEF GInv, Types, kernel, statics
<1>5. OneThreadScan'
  BY <1>1, <1>2, <1>3 DEF GInv, OneThreadScan
<1>6. SkelKnown' /\ Where'
  BY <1>1 DEF GInv, SkelKnown, Where, statics
<1> QED
  BY <1>4, <1>5, <1>6 DEF GInv

\* closeproc.
LEMMA CloseTypes ==
  ASSUME GInv, NEW s \in Scan, closeproc(s)
  PROVE  GInv'
<1>1. /\ pc = "idle" /\ UNCHANGED <<kernel, x, statics, pc, cur, opens, ended>>
      /\ PT' = [PT EXCEPT ![s] = Closed(PT[s].fds)]
      /\ steady' = [steady EXCEPT ![s] = {}]
      /\ out' = [out EXCEPT ![s] = <<>>]
  BY DEF closeproc
<1> DEFINE Q == Closed(PT[s].fds)
<1>2. Q \in ProcTab /\ FdsOpen(Q) /\ Q.open = FALSE
  <2>1. PT[s].fds \in Nat
    BY DEF GInv, Types, ProcTab
  <2> QED
    BY <2>1, CloseTab
<1> HIDE DEF Q
<1>3. /\ PT' \in [Scan -> ProcTab] /\ PT'[s] = Q
      /\ \A o \in Scan : o # s => PT'[o] = PT[o]
      /\ \A o \in Scan : FdsOpen(PT'[o])
  BY <1>1, <1>2, OthersKept DEF GInv, Q
<1>4. Types'
  BY <1>1, <1>3 DEF GInv, Types, kernel, statics
<1>5. OneThreadScan'
  BY <1>1, <1>2, <1>3 DEF GInv, OneThreadScan
<1>6. SkelKnown' /\ Where'
  BY <1>1 DEF GInv, SkelKnown, Where, statics
<1> QED
  BY <1>4, <1>5, <1>6 DEF GInv

\* The beginning of readproc and readeither.
LEMMA CallTypes ==
  ASSUME GInv, NEW s \in Scan, readproc(s) \/ readeither(s)
  PROVE  GInv'
<1>1. /\ pc = "idle" /\ PT[s].open /\ cur' = s /\ x' = [x EXCEPT ![s] = Acquired]
      /\ UNCHANGED <<kernel, PT, skel_p, canary, opens, steady, out, ended>>
  BY DEF readproc, readeither, MayRead, statics
<1>2. /\ pc' \in {"finder", "taskfinder"} /\ new_p' \in {new_p, NULL}
      /\ pc' = "taskfinder" => new_p # NULL /\ PT[s].threads
  BY DEF readproc, readeither, statics
<1>3. Types'
  <2>1. x' \in [Scan -> Proc]
    BY <1>1, ProcCleared, AcquiredIs DEF GInv
  <2> QED
    BY <1>1, <1>2, <2>1 DEF GInv, Types, kernel
<1>4. SkelKnown' /\ Where' /\ OneThreadScan'
  BY <1>1, <1>2 DEF GInv, SkelKnown, Where, OneThreadScan
<1> QED
  BY <1>3, <1>4 DEF GInv

\* The process finders, whether they find one or return NULL.
LEMMA FoundTypes ==
  ASSUME GInv, PT' \in [Scan -> ProcTab], \A o \in Scan : o # cur => PT'[o] = PT[o],
         \A o \in Scan : FdsOpen(PT'[o]), SameMode(PT'[cur], PT[cur]), PT[cur].open,
         pc = "finder",
         NEW t, NEW g, (t \in Tid /\ g \in Tid /\ found(t, g)) \/ returnNULL
  PROVE  GInv'
<1>1. UNCHANGED <<live, known, canary, cur, new_p, steady, out>>
  BY DEF found, returnNULL, kernel, statics, ghosts
<1>2. OneThreadScan'
  BY <1>1 DEF GInv, OneThreadScan, SameMode, Types
<1>3. CASE t \in Tid /\ g \in Tid /\ found(t, g) /\ PT[cur].threads
  <2>1. skel_p' = g /\ pc' = "taskfinder" /\ x' = x /\ ended' = ended
    BY <1>3 DEF found, ghosts
  <2>2. Types'
    BY <1>1, <1>3, <2>1, Tid0Has DEF GInv, Types
  <2>3. SkelKnown' /\ Where'
    BY <1>1, <1>3, <2>1 DEF SkelKnown, Where, SameMode
  <2> QED
    BY <1>2, <2>2, <2>3 DEF GInv
<1>4. CASE t \in Tid /\ g \in Tid /\ found(t, g) /\ ~PT[cur].threads
  <2>1. /\ x' = [x EXCEPT ![cur].tid = t, ![cur].tgid = g]
        /\ pc' = "reader" /\ skel_p' = skel_p /\ ended' = ended
    BY <1>4 DEF found, statics, ghosts
  <2>2. x' \in [Scan -> Proc]
    BY <1>4, <2>1, ProcFound, Tid0Has DEF GInv
  <2>3. Types'
    BY <1>1, <2>1, <2>2 DEF GInv, Types
  <2>4. SkelKnown' /\ Where'
    BY <1>1, <1>4, <2>1 DEF GInv, SkelKnown, Where, SameMode
  <2> QED
    BY <1>2, <2>3, <2>4 DEF GInv
<1>5. CASE returnNULL
  <2>1. /\ x' = x /\ pc' = "idle" /\ skel_p' = skel_p
        /\ ended' = [ended EXCEPT ![cur] = TRUE]
    BY <1>5 DEF returnNULL, statics
  <2>2. Types'
    BY <1>1, <2>1 DEF GInv, Types
  <2>3. SkelKnown' /\ Where'
    BY <1>1, <2>1 DEF GInv, SkelKnown, Where
  <2> QED
    BY <1>2, <2>2, <2>3 DEF GInv
<1> QED
  BY <1>3, <1>4, <1>5

\* simple_nextpid and listed_nextpid are such finders.
LEMMA FinderTypes ==
  ASSUME GInv, simple_nextpid \/ listed_nextpid
  PROVE  GInv'
<1>1. /\ pc = "finder" /\ PT' \in [Scan -> ProcTab]
      /\ \A o \in Scan : o # cur => PT'[o] = PT[o]
      /\ \A o \in Scan : FdsOpen(PT'[o])
      /\ SameMode(PT'[cur], PT[cur])
  BY NextPidSheet, ListedSheet DEF GInv
<1>2. (\E t, g \in Tid : found(t, g)) \/ returnNULL
  <2>1. CASE simple_nextpid
    BY <2>1, NextPidSheet DEF GInv, Leaders
  <2>2. CASE listed_nextpid
    <3>1. \A t \in Tid : (IF t \in live THEN TgidOf[t] ELSE t) \in Tid
      BY ReadProcAssumption
    <3> QED
      BY <2>2, <3>1, ListedSheet DEF GInv
  <2> QED
    BY <2>1, <2>2
<1>3. PT[cur].open
  BY <1>1 DEF GInv, Where
<1> QED
  BY <1>1, <1>2, <1>3, FoundTypes

\* simple_readproc and simple_readtask.
LEMMA ReadTypes ==
  ASSUME GInv, simple_readproc \/ simple_readtask
  PROVE  GInv'
<1>1. /\ UNCHANGED <<live, known, PT, skel_p, canary, cur, steady, out, ended>>
      /\ new_p' \in {new_p, NULL}
  BY DEF simple_readproc, simple_readtask, kernel, statics, ghosts
<1>2. pc \in {"reader", "taskreader"} /\ pc' \in {"finder", "fill"}
  BY DEF simple_readproc, simple_readtask
<1>3. x' \in [Scan -> Proc]
  <2>1. x[cur] \in Proc /\ cur \in Scan /\ live \subseteq Tid
    BY DEF GInv, Types
  <2>2. ASSUME NEW p \in Proc, x' = [x EXCEPT ![cur] = p] PROVE x' \in [Scan -> Proc]
    BY <2>1, <2>2, ProcCleared DEF GInv
  <2>3. ASSUME NEW t \in live, x' = [x EXCEPT ![cur].cmd = stat2proc(@, t)]
        PROVE  x' \in [Scan -> Proc]
    BY <2>1, <2>3, ProcNamed DEF GInv
  <2>4. \/ x' = [x EXCEPT ![cur] = x[cur]]
        \/ x' = [x EXCEPT ![cur] = Acquired]
        \/ \E t \in live : x' = [x EXCEPT ![cur].cmd = stat2proc(@, t)]
    BY DEF simple_readproc, simple_readtask
  <2> QED
    BY <2>1, <2>2, <2>3, <2>4, AcquiredIs
<1>4. Types'
  BY <1>1, <1>2, <1>3 DEF GInv, Types
<1>5. OneThreadScan' /\ Where'
  BY <1>1, <1>2 DEF GInv, OneThreadScan, Where
<1>6. SkelKnown'
  BY <1>1, <1>2 DEF GInv, SkelKnown, Where
<1> QED
  BY <1>4, <1>5, <1>6 DEF GInv

\* simple_nexttid.
LEMMA NextTidTypes ==
  ASSUME GInv, simple_nexttid
  PROVE  GInv'
<1>1. /\ pc = "taskfinder" /\ PT[cur].open /\ PT[cur].threads
      /\ UNCHANGED <<kernel, skel_p, canary, cur, ghosts>>
      /\ PT' \in [Scan -> ProcTab] /\ \A o \in Scan : o # cur => PT'[o] = PT[o]
      /\ \A o \in Scan : FdsOpen(PT'[o])
      /\ SameMode(PT'[cur], PT[cur])
  BY NextTidSheet DEF GInv, Where
<1>2. /\ pc' \in {"finder", "taskreader", "undefined"} /\ new_p' \in {new_p, NULL}
      /\ \/ x' = x
         \/ \E t \in TasksOf(TidDir) : x' = [x EXCEPT ![cur].tid = t, ![cur].tgid = skel_p]
  BY NextTidSheet DEF GInv
<1>3. x' \in [Scan -> Proc]
  <2>1. skel_p \in Tid0 /\ \A t \in TasksOf(TidDir) : t \in Tid0
    BY Tid0Has DEF GInv, Types, TasksOf
  <2> QED
    BY <1>2, <2>1, ProcFound DEF GInv, Types
<1>4. Types'
  BY <1>1, <1>2, <1>3 DEF GInv, Types, kernel, ghosts
<1>5. OneThreadScan' /\ Where'
  BY <1>1, <1>2 DEF GInv, OneThreadScan, Where, SameMode, Types
<1>6. SkelKnown'
  BY <1>1, <1>2 DEF GInv, SkelKnown
<1> QED
  BY <1>4, <1>5, <1>6 DEF GInv

\* The return to the caller.
LEMMA FillTypes ==
  ASSUME GInv, fill_return
  PROVE  GInv'
<1>1. /\ UNCHANGED <<live, known, PT, x, skel_p, cur, opens, steady, ended>>
      /\ pc = "fill" /\ pc' = "idle"
      /\ out' = [out EXCEPT ![cur] = Append(out[cur], x[cur].tid)]
  BY DEF fill_return, kernel
<1>2. /\ new_p' \in {new_p, cur} /\ canary' \in {canary, x[cur].tid}
      /\ new_p' # NULL => new_p # NULL \/ PT[cur].threads
  BY DEF fill_return
<1>3. x[cur].tid \in Tid0 /\ cur \in Scan
  BY DEF GInv, Types, Proc
<1>4. out' \in [Scan -> Seq(Tid0)]
  BY <1>1, <1>3 DEF GInv, Types
<1>5. Types'
  BY <1>1, <1>2, <1>3, <1>4 DEF GInv, Types
<1>6. OneThreadScan' /\ Where' /\ SkelKnown'
  BY <1>1, <1>2 DEF GInv, OneThreadScan, Where, SkelKnown
<1> QED
  BY <1>5, <1>6 DEF GInv

\* GInv is inductive.
LEMMA NextGInv ==
  GInv /\ [Next]_vars => GInv'
<1> SUFFICES ASSUME GInv, [Next]_vars PROVE GInv'
  OBVIOUS
<1>1. CASE UNCHANGED vars
  BY <1>1 DEF vars, kernel, statics, ghosts, GInv, Types, OneThreadScan, Where, SkelKnown
<1>2. CASE Kernel
  BY <1>2, KernelTypes DEF Kernel
<1>3. CASE Caller
  BY <1>3, OpenTypes, CloseTypes, CallTypes DEF Caller
<1>4. CASE Step
  BY <1>4, FinderTypes, ReadTypes, NextTidTypes, FillTypes DEF Step
<1> QED
  BY <1>1, <1>2, <1>3, <1>4 DEF Next

--------------------------------------------------------------------------------
(* The inductive invariant of a scan: P is its PROCTAB, X its proc_t, 'at'  *)
(* where the library is with it, 'ret' what it has returned, 'std' who has  *)
(* lived since it was opened, 'end' whether it returned NULL, 'sk' and 'np' *)
(* the process readeither knows and whether new_p is set.                   *)

\* Lists that name no task twice and, for a scan of threads, come back to no
\* process after another one.
Apart(threads, l) ==
  \A i, j \in 1 .. Len(l) :
    i < j => /\ l[i] # l[j]
             /\ threads /\ j # i + 1 => TgidOf[l[i]] # TgidOf[l[j]]

ListsApart == \A m \in Modes : Apart(m.threads, m.pids)

\* No process comes up twice.
Sound(P) == P.listed = {} \/ ListsApart

\* The tasks still to be found, and the processes they belong to, all and
\* without the next.
Ahead(P) == IF P.listed = {} THEN {t \in Leaders : P.pos < t} ELSE Elems(P.pids)

AheadG(P) == {TgidOf[t] : t \in Ahead(P)}

LaterG(P) ==
  IF P.listed = {} THEN AheadG(P) ELSE {TgidOf[P.pids[i]] : i \in 2 .. Len(P.pids)}

\* The processes asked for.
Wanted(P) ==
  {t \in (IF P.listed = {} THEN Leaders ELSE P.listed) :
     t \notin Hidden /\ (P.uids # {} => UidOf[t] \in P.uids)}

\* What a proc_t and a PROCTAB have in common at each place.
Marked(P, X, at, ret) ==
  /\ at = "reader" => X.tid \in Tid /\ P.pidfd \in {0, X.tid}
  /\ at = "taskreader" => X.tid \in Tid /\ P.taskfd \in {0, X.tid}
  /\ at \in {"finder", "reader", "taskfinder", "taskreader"} => X.cmd = 0
  /\ at = "fill" => X.tid \in Tid /\ X.cmd = X.tid
  /\ at = "undefined" => ~Sound(P)
  /\ ~P.open => P.pidfd = 0 /\ P.taskfd = 0 /\ P.uids = {}
  /\ ListsApart => Apart(P.threads, P.pids)
  /\ ret \subseteq Tid

\* A scan of processes has returned all of its users' that are not ahead or at
\* hand, and nobody who is.
ProcsFound(P, X, at, ret, std, end) ==
  P.open /\ ~P.threads =>
    /\ \A t \in ret : P.uids # {} => UidOf[t] \in P.uids
    /\ at = "fill" => (P.uids # {} => UidOf[X.tid] \in P.uids)
    /\ \A t \in std \cap Wanted(P) :
         \/ t \in ret
         \/ ~end /\ t \in Ahead(P)
         \/ ~end /\ at \in {"reader", "fill"} /\ P.pidfd = t /\ X.tid = t
    /\ Sound(P) => /\ ret \cap Ahead(P) = {}
                   /\ at \in {"reader", "fill"} => X.tid \notin ret \cup Ahead(P)

\* The stream of tasks is of a process that does not come up again, and what
\* was returned comes before its position or is of processes that do not either.
StreamKnown(P, ret) ==
  /\ P.taskdir_user \in Leaders \cup {0} /\ P.taskdir_user \notin LaterG(P)
  /\ P.taskdir \in {0, P.taskdir_user}
  /\ P.taskdir = 0 => P.taskdir_user \notin AheadG(P)
  /\ \A t \in ret : IF TgidOf[t] = P.taskdir_user /\ P.taskdir # 0
                      THEN t <= P.taskpos ELSE TgidOf[t] \notin AheadG(P)

\* The process readeither knows is that of the descriptor, or left over from an
\* earlier scan; a stream that could not be opened is not taken for its own.
ProcessKnown(P, ret, sk) ==
  \/ P.pidfd = 0 /\ P.taskdir_user = 0
  \/ /\ TgidOf[sk] \notin LaterG(P)
     /\ sk # P.taskdir_user => P.taskdir_user \notin AheadG(P)
     /\ P.taskdir = 0 => sk # P.taskdir_user
     /\ P.pidfd # 0 => /\ TgidOf[P.pidfd] = sk
                       /\ sk # P.taskdir_user => \A t \in ret : TgidOf[t] # sk

\* The task at hand is at the position of the stream, past all returned of its process.
TaskKnown(P, X, ret, sk) ==
  /\ X.tid = P.taskpos /\ TgidOf[X.tid] = P.taskdir_user
  /\ P.taskdir = P.taskdir_user /\ sk = P.taskdir_user
  /\ \A t \in ret : TgidOf[t] = P.taskdir_user => t < P.taskpos

Reading(at, np) == np # NULL \/ at \in {"taskfinder", "taskreader", "fill"}

ThreadsFound(P, X, at, ret, sk, np) ==
  P.open /\ P.threads /\ Sound(P) =>
    /\ StreamKnown(P, ret)
    /\ at = "finder" => np = NULL
    /\ Reading(at, np) => sk \in Tid /\ ProcessKnown(P, ret, sk)
    /\ at \in {"taskreader", "fill"} => TaskKnown(P, X, ret, sk)

\* Process g is being read: its tasks up to the position have been returned.
InProcess(P, at, ret, sk, np, kn, g) ==
  /\ Reading(at, np) /\ at # "finder"
  /\ sk = g /\ P.pidfd = g
  /\ P.taskdir_user = g =>
       \A t \in TasksOf(g) \cap kn :
         t \in ret \/ P.taskpos < t \/ (at \in {"taskreader", "fill"} /\ t = P.taskpos)
  /\ at = "taskreader" => P.taskfd = P.taskpos /\ P.taskpos \in TasksOf(g) \cap kn

\* Where no thread came or went all are returned, or the process is ahead or
\* being read.
QuietFound(P, at, ret, std, end, sk, np, kn) ==
  P.open /\ P.threads /\ P.listed = {} =>
    \A g \in (Leaders \ Hidden) \cap kn :
      TasksOf(g) \cap kn \subseteq std =>
        \/ TasksOf(g) \cap kn \subseteq ret
        \/ ~end /\ P.pos < g
        \/ ~end /\ InProcess(P, at, ret, sk, np, kn, g)

Good(P, X, at, ret, std, end, sk, np, kn) ==
  /\ Marked(P, X, at, ret)
  /\ ProcsFound(P, X, at, ret, std, end)
  /\ ThreadsFound(P, X, at, ret, sk, np)
  /\ QuietFound(P, at, ret, std, end, sk, np, kn)

\* The step from P to Q has found t.
Pops(P, Q, t, std) ==
  /\ SameMode(Q, P) /\ SameDir(Q, P)
  /\ Q.pidfd \in {0, t} /\ (t \in std => Q.pidfd = t)
  /\ t \in Tid /\ t \in Ahead(P) /\ Ahead(Q) \subseteq Ahead(P)
  /\ \A w \in std \cap Wanted(P) : w \in Ahead(P) => w = t \/ w \in Ahead(Q)
  /\ P.listed = {} => /\ Q.pos = t /\ t \in Leaders /\ P.pos < t
                      /\ \A q \in Leaders \cap std : P.pos < q => q = t \/ t < q
  /\ Sound(P) => t \notin Ahead(Q)
  /\ P.threads /\ Sound(P) => /\ AheadG(Q) \subseteq LaterG(P)
                              /\ LaterG(Q) \subseteq LaterG(P)
                              /\ TgidOf[t] \notin LaterG(Q)

\* The positions of a list without its head.
LEMMA TailIs ==
  ASSUME NEW l \in Seq(Tid), l # <<>>
  PROVE  /\ Len(l) \in Nat /\ Len(l) >= 1 /\ Len(Tail(l)) = Len(l) - 1 /\ Head(l) = l[1]
         /\ \A i \in 1 .. Len(l) - 1 : Tail(l)[i] = l[i + 1]
         /\ Tail(l) \in Seq(Tid)
BY HeadTailProperties

\* A list that names no task twice and no process again after another one does
\* so without its head, which it does not name again.
LEMMA TailApart ==
  ASSUME NEW l \in Seq(Tid), l # <<>>, NEW th \in BOOLEAN, Apart(th, l)
  PROVE  /\ Apart(th, Tail(l)) /\ Head(l) \notin Elems(Tail(l))
         /\ th => \A i \in 2 .. Len(Tail(l)) : TgidOf[Tail(l)[i]] # TgidOf[Head(l)]
<1>1. /\ Len(l) \in Nat /\ Len(l) >= 1 /\ Len(Tail(l)) = Len(l) - 1 /\ Head(l) = l[1]
      /\ \A i \in 1 .. Len(l) - 1 : Tail(l)[i] = l[i + 1]
  BY TailIs
<1>2. Apart(th, Tail(l))
  <2> SUFFICES ASSUME NEW i \in 1 .. Len(l) - 1, NEW j \in 1 .. Len(l) - 1, i < j
               PROVE  /\ Tail(l)[i] # Tail(l)[j]
                      /\ th /\ j # i + 1 => TgidOf[Tail(l)[i]] # TgidOf[Tail(l)[j]]
    BY <1>1 DEF Apart
  <2>1. i + 1 \in 1 .. Len(l) /\ j + 1 \in 1 .. Len(l) /\ i + 1 < j + 1
        /\ (j # i + 1 => j + 1 # (i + 1) + 1)
    BY <1>1
  <2>2. Tail(l)[i] = l[i + 1] /\ Tail(l)[j] = l[j + 1]
    BY <1>1
  <2> QED
    BY <2>1, <2>2 DEF Apart
<1>3. \A i \in 1 .. Len(l) - 1 :
        /\ l[1] # l[i + 1]
        /\ th /\ i # 1 => TgidOf[l[1]] # TgidOf[l[i + 1]]
  <2> SUFFICES ASSUME NEW i \in 1 .. Len(l) - 1
               PROVE  /\ l[1] # l[i + 1]
                      /\ th /\ i # 1 => TgidOf[l[1]] # TgidOf[l[i + 1]]
    OBVIOUS
  <2>1. 1 \in 1 .. Len(l) /\ i + 1 \in 1 .. Len(l) /\ 1 < i + 1 /\ (i # 1 => i + 1 # 1 + 1)
    BY <1>1
  <2> QED
    BY <2>1 DEF Apart
<1>4. Head(l) \notin Elems(Tail(l))
  BY <1>1, <1>3 DEF Elems
<1>5. th => \A i \in 2 .. Len(Tail(l)) : TgidOf[Tail(l)[i]] # TgidOf[Head(l)]
  BY <1>1, <1>3
<1> QED
  BY <1>2, <1>4, <1>5

\* listed_nextpid takes the next of the list.
LEMMA ListedPops ==
  ASSUME NEW P \in ProcTab, NEW Q \in ProcTab, SameMode(Q, P), SameDir(Q, P),
         P.listed # {}, P.pids # <<>>, Q.pids = Tail(P.pids),
         ListsApart => Apart(P.threads, P.pids), NEW std,
         Q.pidfd \in {0, Head(P.pids)}, Head(P.pids) \in std => Q.pidfd = Head(P.pids)
  PROVE  Pops(P, Q, Head(P.pids), std)
<1> DEFINE l == P.pids
           t == Head(l)
<1>1. l \in Seq(Tid) /\ P.threads \in BOOLEAN /\ l # <<>>
  BY DEF ProcTab
<1>2. /\ Len(l) \in Nat /\ Len(l) >= 1 /\ Len(Tail(l)) = Len(l) - 1 /\ Head(l) = l[1]
      /\ \A i \in 1 .. Len(l) - 1 : Tail(l)[i] = l[i + 1]
  BY <1>1, TailIs
<1>3. Ahead(P) = Elems(l) /\ Ahead(Q) = Elems(Tail(l))
  BY DEF Ahead, SameMode
<1>4. t \in Tid
  BY <1>1, <1>2
<1>5. t \in Elems(l) /\ Elems(Tail(l)) \subseteq Elems(l)
  BY <1>2 DEF Elems
<1>6. \A w \in Elems(l) : w = t \/ w \in Elems(Tail(l))
  <2> SUFFICES ASSUME NEW i \in 1 .. Len(l), i # 1 PROVE l[i] \in Elems(Tail(l))
    BY <1>2 DEF Elems
  <2>1. i - 1 \in 1 .. Len(l) - 1 /\ (i - 1) + 1 = i
    BY <1>2
  <2>2. Tail(l)[i - 1] = l[i]
    BY <1>2, <2>1
  <2> QED
    BY <1>2, <2>1, <2>2 DEF Elems
<1>7. Sound(P) => t \notin Elems(Tail(l))
  BY <1>1, TailApart DEF Sound
<1>8. LaterG(P) = {TgidOf[l[i]] : i \in 2 .. Len(l)}
  BY DEF LaterG
<1>9. LaterG(Q) = {TgidOf[Tail(l)[i]] : i \in 2 .. Len(l) - 1}
  BY <1>2 DEF LaterG, SameMode
<1>10. AheadG(Q) \subseteq LaterG(P)
  <2> SUFFICES ASSUME NEW i \in 1 .. Len(l) - 1 PROVE TgidOf[Tail(l)[i]] \in LaterG(P)
    BY <1>2, <1>3 DEF AheadG, Elems
  <2>1. Tail(l)[i] = l[i + 1] /\ i + 1 \in 2 .. Len(l)
    BY <1>2
  <2> QED
    BY <1>8, <2>1
<1>11. LaterG(Q) \subseteq LaterG(P)
  <2> SUFFICES ASSUME NEW i \in 2 .. Len(l) - 1 PROVE TgidOf[Tail(l)[i]] \in LaterG(P)
    BY <1>9
  <2>1. Tail(l)[i] = l[i + 1] /\ i + 1 \in 2 .. Len(l)
    BY <1>2
  <2> QED
    BY <1>8, <2>1
<1>12. P.threads /\ Sound(P) => TgidOf[t] \notin LaterG(Q)
  BY <1>1, <1>2, <1>9, TailApart DEF Sound
<1> HIDE DEF l, t
<1> QED
  BY <1>3, <1>4, <1>5, <1>6, <1>7, <1>10, <1>11, <1>12 DEF Pops, l, t

\* simple_nextpid takes the next of /proc.
LEMMA NextPidPops ==
  ASSUME NEW P \in ProcTab, NEW Q \in ProcTab, SameMode(Q, P), SameDir(Q, P),
         P.listed = {}, NEW t \in Leaders, P.pos < t, Q.pos = t, NEW std,
         \A q \in Leaders \cap std : ~(P.pos < q /\ q < t),
         Q.pidfd \in {0, t}, t \in std => Q.pidfd = t
  PROVE  Pops(P, Q, t, std)
<1>1. t \in Tid /\ \A u \in Leaders : u \in Nat /\ TgidOf[u] = u
  BY ReadProcAssumption DEF Leaders
<1>2. P.pos \in Nat
  <2>1. P.pos \in Tid0
    BY DEF ProcTab
  <2> QED
    BY <2>1, Tid0Has
<1>3. Ahead(P) = {u \in Leaders : P.pos < u} /\ Ahead(Q) = {u \in Leaders : t < u}
  BY DEF Ahead, SameMode
<1>4. t \in Ahead(P) /\ Ahead(Q) \subseteq Ahead(P) /\ t \notin Ahead(Q)
  BY <1>1, <1>2, <1>3
<1>5. AheadG(P) = Ahead(P) /\ AheadG(Q) = Ahead(Q)
  BY <1>1, <1>3 DEF AheadG
<1>6. LaterG(P) = AheadG(P) /\ LaterG(Q) = AheadG(Q)
  BY DEF LaterG, SameMode
<1>7. \A w \in std \cap Wanted(P) : w \in Ahead(P) => w = t \/ w \in Ahead(Q)
  <2> SUFFICES ASSUME NEW w \in std \cap Leaders, P.pos < w, w # t PROVE t < w
    BY <1>3 DEF Wanted
  <2> QED
    BY <1>1, <1>2
<1>8. TgidOf[t] = t
  BY <1>1
<1>9. \A q \in Leaders \cap std : P.pos < q => q = t \/ t < q
  BY <1>1, <1>2
<1> QED
  BY <1>1, <1>4, <1>5, <1>6, <1>7, <1>8, <1>9 DEF Pops

--------------------------------------------------------------------------------
(* Every step of a scan keeps it good.                                      *)

\* A process is found in a scan of processes.
LEMMA PopProc ==
  ASSUME NEW P, NEW Q, NEW X, NEW Y, NEW ret, NEW std, NEW end, NEW sk, NEW np, NEW kn,
         NEW t, Good(P, X, "finder", ret, std, end, sk, np, kn), Pops(P, Q, t, std),
         P.open, ~P.threads, ListsApart => Apart(Q.threads, Q.pids),
         Y.tid = t, Y.cmd = X.cmd
  PROVE  Good(Q, Y, "reader", ret, std, end, sk, np, kn)
<1>1. Q.open = P.open /\ Q.threads = P.threads /\ Q.listed = P.listed /\ Q.uids = P.uids
  BY DEF Pops, SameMode
<1>2. Marked(Q, Y, "reader", ret)
  BY <1>1 DEF Good, Marked, Pops
<1>3. ProcsFound(Q, Y, "reader", ret, std, end)
  <2>1. Wanted(Q) = Wanted(P) /\ (Sound(Q) <=> Sound(P))
    BY <1>1 DEF Wanted, Sound
  <2>2. \A w \in std \cap Wanted(P) : \/ w \in ret
                                      \/ ~end /\ w \in Ahead(Q)
                                      \/ ~end /\ Q.pidfd = w /\ Y.tid = w
    BY DEF Good, ProcsFound, Pops
  <2>3. Sound(P) => ret \cap Ahead(Q) = {} /\ Y.tid \notin ret \cup Ahead(Q)
    BY DEF Good, ProcsFound, Pops
  <2>4. \A w \in ret : Q.uids # {} => UidOf[w] \in Q.uids
    BY <1>1 DEF Good, ProcsFound
  <2> QED
    BY <2>1, <2>2, <2>3, <2>4 DEF ProcsFound
<1> QED
  BY <1>1, <1>2, <1>3 DEF Good, ThreadsFound, QuietFound

\* A process is found in a scan of threads.
LEMMA PopThread ==
  ASSUME NEW P, NEW Q, NEW X, NEW ret, NEW std, NEW end, NEW sk, NEW np, NEW kn,
         NEW t, NEW g, Good(P, X, "finder", ret, std, end, sk, np, kn), Pops(P, Q, t, std),
         P.open, P.threads, ListsApart => Apart(Q.threads, Q.pids),
         g \in {t, TgidOf[t]}, Q.pidfd # 0 => g = TgidOf[t]
  PROVE  Good(Q, X, "taskfinder", ret, std, end, g, np, kn)
<1>1. /\ Q.open = P.open /\ Q.threads = P.threads /\ Q.listed = P.listed /\ Q.uids = P.uids
      /\ SameDir(Q, P) /\ t \in Tid /\ Q.pidfd \in {0, t}
  BY DEF Pops, SameMode
<1>2. Sound(Q) <=> Sound(P)
  BY <1>1 DEF Sound
<1>3. Marked(Q, X, "taskfinder", ret)
  BY <1>1 DEF Good, Marked
<1>4. /\ TgidOf[t] \in Tid /\ TgidOf[TgidOf[t]] = TgidOf[t] /\ TgidOf[t] \in AheadG(P)
      /\ AheadG(Q) \subseteq AheadG(P) /\ 0 \notin Tid
  BY <1>1, ReadProcAssumption DEF Pops, AheadG
<1>5. ASSUME Sound(P)
      PROVE  StreamKnown(Q, ret) /\ ProcessKnown(Q, ret, g) /\ g \in Tid
  <2>1. StreamKnown(P, ret)
    BY <1>5 DEF Good, ThreadsFound
  <2>2. AheadG(Q) \subseteq LaterG(P) /\ LaterG(Q) \subseteq LaterG(P) /\ TgidOf[t] \notin LaterG(Q)
    BY <1>5 DEF Pops
  <2>3. StreamKnown(Q, ret)
    BY <1>1, <1>4, <2>1, <2>2 DEF StreamKnown, SameDir
  <2>4. TgidOf[g] \notin LaterG(Q)
    BY <1>4, <2>2
  <2>5. Q.taskdir_user \notin AheadG(Q)
    BY <1>1, <2>1, <2>2 DEF StreamKnown, SameDir
  <2>6. Q.taskdir = 0 => g # Q.taskdir_user
    <3> SUFFICES ASSUME P.taskdir = 0, g = P.taskdir_user PROVE FALSE
      BY <1>1 DEF SameDir
    <3>1. g \in Leaders
      BY <1>1, <1>4, <2>1 DEF StreamKnown
    <3>2. g = TgidOf[t]
      BY <1>4, <3>1 DEF Leaders
    <3> QED
      BY <1>4, <2>1, <3>2 DEF StreamKnown
  <2>7. Q.pidfd # 0 => /\ TgidOf[Q.pidfd] = g
                       /\ g # Q.taskdir_user => \A r \in ret : TgidOf[r] # g
    BY <1>1, <1>4, <2>1 DEF StreamKnown, SameDir
  <2> QED
    BY <1>1, <1>4, <2>3, <2>4, <2>5, <2>6, <2>7 DEF ProcessKnown
<1>6. ThreadsFound(Q, X, "taskfinder", ret, g, np)
  BY <1>2, <1>5 DEF ThreadsFound
<1>7. QuietFound(Q, "taskfinder", ret, std, end, g, np, kn)
  <2> SUFFICES ASSUME P.listed = {}, NEW h \in (Leaders \ Hidden) \cap kn,
                      TasksOf(h) \cap kn \subseteq std
               PROVE  \/ TasksOf(h) \cap kn \subseteq ret
                      \/ ~end /\ Q.pos < h
                      \/ ~end /\ InProcess(Q, "taskfinder", ret, g, np, kn, h)
    BY <1>1 DEF QuietFound
  <2>1. Sound(P) /\ np = NULL
    BY DEF Sound, Good, ThreadsFound
  <2>2. TasksOf(h) \cap kn \subseteq ret \/ (~end /\ P.pos < h)
    BY <2>1, <1>1 DEF Good, QuietFound, InProcess
  <2>3. h \in Leaders \cap std /\ h \in Tid
    BY DEF TasksOf, Leaders
  <2>4. Q.pos = t /\ (P.pos < h => h = t \/ t < h)
    BY <2>3 DEF Pops
  <2>5. CASE h = t
    <3>1. Q.pidfd = t /\ g = t
      BY <1>1, <1>4, <2>3, <2>5 DEF Pops, Leaders
    <3>2. Q.taskdir_user # t
      BY <1>1, <1>4, <2>1, <2>3, <2>5, <1>5 DEF StreamKnown, Pops, SameDir, Leaders, Good, ThreadsFound, LaterG
    <3> QED
      BY <2>2, <2>5, <3>1, <3>2 DEF InProcess, Reading
  <2> QED
    BY <2>2, <2>4, <2>5
<1>8. ProcsFound(Q, X, "taskfinder", ret, std, end)
  BY <1>1 DEF ProcsFound
<1> QED
  BY <1>3, <1>6, <1>7, <1>8 DEF Good

\* The scan ends with NULL: nobody who has lived through it is ahead.
LEMMA ScanEnds ==
  ASSUME NEW P, NEW Q, NEW X, NEW ret, NEW std, NEW end, NEW end2, NEW sk, NEW np, NEW kn,
         Good(P, X, "finder", ret, std, end, sk, np, kn),
         SameMode(Q, P), SameDir(Q, P), Q.pids = P.pids, Q.pos = P.pos, P.open,
         std \cap Ahead(P) = {}
  PROVE  Good(Q, X, "idle", ret, std, end2, sk, np, kn)
<1>1. /\ Q.open = P.open /\ Q.threads = P.threads /\ Q.listed = P.listed /\ Q.uids = P.uids
      /\ Q.pids = P.pids /\ Q.pos = P.pos
  BY DEF SameMode
<1>2. /\ Sound(Q) <=> Sound(P)
      /\ Ahead(Q) = Ahead(P) /\ AheadG(Q) = AheadG(P) /\ LaterG(Q) = LaterG(P)
      /\ Wanted(Q) = Wanted(P)
  BY <1>1 DEF Sound, Ahead, AheadG, LaterG, Wanted
<1>3. Marked(Q, X, "idle", ret)
  BY <1>1 DEF Good, Marked
<1>4. ProcsFound(Q, X, "idle", ret, std, end2)
  BY <1>1, <1>2 DEF Good, ProcsFound
<1>5. ThreadsFound(Q, X, "idle", ret, sk, np)
  BY <1>1, <1>2 DEF Good, ThreadsFound, StreamKnown, SameDir, Reading
<1>6. QuietFound(Q, "idle", ret, std, end2, sk, np, kn)
  <2> SUFFICES ASSUME P.threads, P.listed = {}, NEW g \in (Leaders \ Hidden) \cap kn,
                      TasksOf(g) \cap kn \subseteq std
               PROVE  TasksOf(g) \cap kn \subseteq ret
    BY <1>1 DEF QuietFound
  <2>1. g \in std
    BY DEF TasksOf, Leaders
  <2>2. ~(P.pos < g)
    BY <2>1 DEF Ahead
  <2> QED
    BY <2>2 DEF Good, QuietFound, InProcess
<1> QED
  BY <1>3, <1>4, <1>5, <1>6 DEF Good

\* The process at hand is skipped: it is gone, or was not asked for.
LEMMA SkipProc ==
  ASSUME NEW P, NEW X, NEW Y, NEW ret, NEW std, NEW end, NEW sk, NEW np, NEW kn,
         Good(P, X, "reader", ret, std, end, sk, np, kn),
         ~P.threads, Y.cmd = 0, P.pidfd \notin std \cap Wanted(P)
  PROVE  Good(P, Y, "finder", ret, std, end, sk, np, kn)
<1>1. Marked(P, Y, "finder", ret)
  BY DEF Good, Marked
<1>2. ProcsFound(P, Y, "finder", ret, std, end)
  BY DEF Good, ProcsFound
<1> QED
  BY <1>1, <1>2 DEF Good, ThreadsFound, QuietFound

\* The process at hand is there and asked for.
LEMMA ReadProc1 ==
  ASSUME NEW P, NEW X, NEW Y, NEW ret, NEW std, NEW end, NEW sk, NEW np, NEW kn,
         Good(P, X, "reader", ret, std, end, sk, np, kn),
         ~P.threads, P.pidfd \in Tid, P.uids # {} => UidOf[P.pidfd] \in P.uids,
         Y.tid = X.tid, Y.cmd = P.pidfd
  PROVE  Good(P, Y, "fill", ret, std, end, sk, np, kn)
<1>1. P.pidfd = X.tid /\ X.tid \in Tid
  BY Tid0Has DEF Good, Marked
<1>2. Marked(P, Y, "fill", ret)
  BY <1>1 DEF Good, Marked
<1>3. ProcsFound(P, Y, "fill", ret, std, end)
  BY <1>1 DEF Good, ProcsFound
<1> QED
  BY <1>2, <1>3 DEF Good, ThreadsFound, QuietFound

\* The process is returned.
LEMMA ReturnProc ==
  ASSUME NEW P, NEW X, NEW ret, NEW std, NEW end, NEW sk, NEW np, NEW kn,
         Good(P, X, "fill", ret, std, end, sk, np, kn), P.open, ~P.threads
  PROVE  /\ Good(P, X, "idle", ret \cup {X.tid}, std, end, sk, np, kn)
         /\ Sound(P) => X.tid \notin ret
<1>1. X.tid \in Tid
  BY DEF Good, Marked
<1>2. Marked(P, X, "idle", ret \cup {X.tid})
  BY <1>1 DEF Good, Marked
<1>3. ProcsFound(P, X, "idle", ret \cup {X.tid}, std, end)
  BY DEF Good, ProcsFound
<1>4. Sound(P) => X.tid \notin ret
  BY DEF Good, ProcsFound
<1> QED
  BY <1>2, <1>3, <1>4 DEF Good, ThreadsFound, QuietFound

\* The task is returned, and readeither will go on with its process.
LEMMA ReturnTask ==
  ASSUME NEW P \in ProcTab, NEW X, NEW ret, NEW std, NEW end, NEW sk, NEW np, NEW np2, NEW kn,
         Good(P, X, "fill", ret, std, end, sk, np, kn), P.open, P.threads, np2 # NULL
  PROVE  /\ Good(P, X, "idle", ret \cup {X.tid}, std, end, sk, np2, kn)
         /\ Sound(P) => X.tid \notin ret
<1> DEFINE ret2 == ret \cup {X.tid}
<1>1. X.tid \in Tid /\ ret \subseteq Tid
  BY DEF Good, Marked
<1>2. Marked(P, X, "idle", ret2)
  BY <1>1 DEF Good, Marked
<1>3. ProcsFound(P, X, "idle", ret2, std, end)
  BY DEF ProcsFound
<1>4. P.taskpos \in Nat /\ \A t \in ret2 : t \in Nat
  <2>1. P.taskpos \in Tid0
    BY DEF ProcTab
  <2> QED
    BY <1>1, <2>1, Tid0Has
<1>5. ASSUME Sound(P)
      PROVE  /\ StreamKnown(P, ret2) /\ ProcessKnown(P, ret2, sk) /\ X.tid \notin ret
             /\ sk \in Tid
  <2>1. StreamKnown(P, ret) /\ ProcessKnown(P, ret, sk) /\ TaskKnown(P, X, ret, sk) /\ sk \in Tid
    BY <1>5 DEF Good, ThreadsFound, Reading
  <2>2. X.tid = P.taskpos /\ TgidOf[X.tid] = P.taskdir_user /\ P.taskdir = P.taskdir_user
        /\ sk = P.taskdir_user /\ P.taskdir # 0
    <3>1. TgidOf[X.tid] \in Tid /\ 0 \notin Tid
      BY <1>1, ReadProcAssumption
    <3> QED
      BY <2>1, <3>1 DEF TaskKnown
  <2>3. StreamKnown(P, ret2)
    BY <1>4, <2>1, <2>2 DEF StreamKnown
  <2>4. ProcessKnown(P, ret2, sk)
    BY <2>1, <2>2 DEF ProcessKnown
  <2>5. X.tid \notin ret
    BY <1>4, <2>1, <2>2 DEF TaskKnown
  <2> QED
    BY <2>1, <2>3, <2>4, <2>5
<1>6. ThreadsFound(P, X, "idle", ret2, sk, np2)
  BY <1>5 DEF ThreadsFound
<1>7. QuietFound(P, "idle", ret2, std, end, sk, np2, kn)
  <2> SUFFICES ASSUME P.listed = {}, NEW g \in (Leaders \ Hidden) \cap kn,
                      TasksOf(g) \cap kn \subseteq std
               PROVE  \/ TasksOf(g) \cap kn \subseteq ret2
                      \/ ~end /\ P.pos < g
                      \/ ~end /\ InProcess(P, "idle", ret2, sk, np2, kn, g)
    BY DEF QuietFound
  <2>1. Sound(P)
    BY DEF Sound
  <2>2. X.tid = P.taskpos
    BY <2>1 DEF Good, ThreadsFound, TaskKnown
  <2>3. InProcess(P, "fill", ret, sk, np, kn, g) => InProcess(P, "idle", ret2, sk, np2, kn, g)
    BY <2>2 DEF InProcess, Reading
  <2> QED
    BY <2>3 DEF Good, QuietFound
<1> QED
  BY <1>2, <1>3, <1>5, <1>6, <1>7 DEF Good

\* A call begins with the next process.
LEMMA CallNext ==
  ASSUME NEW P, NEW X, NEW Y, NEW ret, NEW std, NEW end, NEW sk, NEW np, NEW np2, NEW kn,
         Good(P, X, "idle", ret, std, end, sk, np, kn), P.open,
         P.threads => np = NULL /\ np2 = NULL, Y.cmd = 0
  PROVE  Good(P, Y, "finder", ret, std, end, sk, np2, kn)
<1>1. Marked(P, Y, "finder", ret)
  BY DEF Good, Marked
<1>2. ProcsFound(P, Y, "finder", ret, std, end)
  BY DEF Good, ProcsFound
<1>3. ThreadsFound(P, Y, "finder", ret, sk, np2)
  BY DEF Good, ThreadsFound, Reading
<1>4. QuietFound(P, "finder", ret, std, end, sk, np2, kn)
  BY DEF Good, QuietFound, InProcess, Reading
<1> QED
  BY <1>1, <1>2, <1>3, <1>4 DEF Good

\* A call goes on with the process of the call before.
LEMMA CallOn ==
  ASSUME NEW P, NEW X, NEW Y, NEW ret, NEW std, NEW end, NEW sk, NEW np, NEW np2, NEW kn,
         Good(P, X, "idle", ret, std, end, sk, np, kn), P.open, P.threads, np # NULL,
         Y.cmd = 0
  PROVE  Good(P, Y, "taskfinder", ret, std, end, sk, np2, kn)
<1>1. Marked(P, Y, "taskfinder", ret)
  BY DEF Good, Marked
<1>2. ProcsFound(P, Y, "taskfinder", ret, std, end)
  BY DEF ProcsFound
<1>3. ThreadsFound(P, Y, "taskfinder", ret, sk, np2)
  BY DEF Good, ThreadsFound, Reading
<1>4. QuietFound(P, "taskfinder", ret, std, end, sk, np2, kn)
  BY DEF Good, QuietFound, InProcess, Reading
<1> QED
  BY <1>1, <1>2, <1>3, <1>4 DEF Good

\* The stream that simple_nexttid reads and its position in it.
DirOf(P, sk, lv) ==
  IF P.taskdir_user = sk THEN P.taskdir
  ELSE IF P.pidfd \in lv THEN TgidOf[P.pidfd] ELSE 0

PosOf(P, sk) == IF P.taskdir_user = sk THEN P.taskpos ELSE 0

\* The stream simple_nexttid reads is that of the process readeither knows, and
\* all of its tasks that were returned are behind.
LEMMA StreamOn ==
  ASSUME NEW P \in ProcTab, NEW Q \in ProcTab, NEW ret, NEW sk, NEW lv,
         lv \subseteq Tid, ret \subseteq Tid, sk \in Tid,
         StreamKnown(P, ret), ProcessKnown(P, ret, sk), DirOf(P, sk, lv) # 0,
         SameMode(Q, P), Q.pids = P.pids, Q.pos = P.pos, Q.pidfd = P.pidfd,
         Q.taskdir = DirOf(P, sk, lv), Q.taskdir_user = sk, PosOf(P, sk) <= Q.taskpos
  PROVE  /\ DirOf(P, sk, lv) = sk
         /\ \A r \in ret : TgidOf[r] = sk => r <= PosOf(P, sk)
         /\ StreamKnown(Q, ret) /\ ProcessKnown(Q, ret, sk)
<1>1. /\ Q.open = P.open /\ Q.threads = P.threads /\ Q.listed = P.listed /\ Q.uids = P.uids
      /\ Q.pids = P.pids /\ Q.pos = P.pos
  BY DEF SameMode
<1>2. Ahead(Q) = Ahead(P) /\ AheadG(Q) = AheadG(P) /\ LaterG(Q) = LaterG(P)
  BY <1>1 DEF Ahead, AheadG, LaterG
<1>3. /\ P.taskpos \in Nat /\ Q.taskpos \in Nat /\ \A r \in ret : r \in Nat /\ r # 0
  <2>1. P.taskpos \in Tid0 /\ Q.taskpos \in Tid0
    BY DEF ProcTab
  <2> QED
    BY <2>1, Tid0Has
<1>4. 0 \notin Tid /\ \A t \in Tid : TgidOf[t] \in Tid /\ TgidOf[TgidOf[t]] = TgidOf[t]
  BY ReadProcAssumption
<1>5. CASE P.taskdir_user = sk
  <2>1. DirOf(P, sk, lv) = P.taskdir /\ PosOf(P, sk) = P.taskpos
    BY <1>5 DEF DirOf, PosOf
  <2>2. P.taskdir = sk
    BY <1>5, <2>1 DEF StreamKnown
  <2>3. \A r \in ret : TgidOf[r] = sk => r <= P.taskpos
    BY <1>5, <2>1 DEF StreamKnown
  <2>4. StreamKnown(Q, ret)
    <3>1. ASSUME NEW r \in ret
          PROVE  IF TgidOf[r] = sk THEN r <= Q.taskpos ELSE TgidOf[r] \notin AheadG(P)
      BY <1>3, <1>5, <2>1, <2>3 DEF StreamKnown
    <3> QED
      BY <1>2, <1>4, <1>5, <2>1, <2>2, <3>1 DEF StreamKnown
  <2>5. ProcessKnown(Q, ret, sk)
    BY <1>2, <1>4, <1>5, <2>1, <2>2 DEF ProcessKnown
  <2> QED
    BY <2>1, <2>2, <2>3, <2>4, <2>5
<1>6. CASE P.taskdir_user # sk
  <2>1. P.pidfd \in lv /\ DirOf(P, sk, lv) = TgidOf[P.pidfd] /\ PosOf(P, sk) = 0 /\ P.pidfd # 0
    BY <1>4, <1>6 DEF DirOf, PosOf
  <2>2. /\ TgidOf[sk] \notin LaterG(P) /\ P.taskdir_user \notin AheadG(P)
        /\ TgidOf[P.pidfd] = sk /\ \A t \in ret : TgidOf[t] # sk
    BY <1>6, <2>1 DEF ProcessKnown
  <2>3. TgidOf[sk] = sk /\ sk \in Leaders
    BY <1>4, <2>1, <2>2 DEF Leaders
  <2>4. StreamKnown(Q, ret)
    BY <1>2, <1>4, <2>1, <2>2, <2>3 DEF StreamKnown
  <2>5. ProcessKnown(Q, ret, sk)
    BY <1>2, <1>4, <2>1, <2>2, <2>3 DEF ProcessKnown
  <2> QED
    BY <2>1, <2>2, <2>4, <2>5
<1> QED
  BY <1>5, <1>6

\* simple_nexttid finds no further task: the process is gone, or all of its
\* tasks that live have been found.
LEMMA NoTask ==
  ASSUME NEW P \in ProcTab, NEW Q \in ProcTab, NEW X, NEW ret, NEW std, NEW end, NEW sk,
         NEW np, NEW np2, NEW kn, NEW lv, lv \subseteq Tid, std \subseteq lv,
         Good(P, X, "taskfinder", ret, std, end, sk, np, kn), P.open, P.threads, np2 = NULL,
         SameMode(Q, P), Q.pids = P.pids, Q.pos = P.pos, Q.pidfd = P.pidfd,
         Q.taskdir = DirOf(P, sk, lv), Q.taskpos = PosOf(P, sk),
         \/ /\ P.taskdir_user # sk /\ DirOf(P, sk, lv) = 0
            /\ Q.taskdir_user = P.taskdir_user
         \/ /\ DirOf(P, sk, lv) # 0 /\ Q.taskdir_user = sk
            /\ \A q \in TasksOf(DirOf(P, sk, lv)) \cap std : q <= PosOf(P, sk)
  PROVE  Good(Q, X, "finder", ret, std, end, sk, np2, kn)
<1> DEFINE dir == DirOf(P, sk, lv)
           pos == PosOf(P, sk)
<1>1. /\ Q.open = P.open /\ Q.threads = P.threads /\ Q.listed = P.listed /\ Q.uids = P.uids
      /\ Q.pids = P.pids /\ Q.pos = P.pos
  BY DEF SameMode
<1>2. /\ Ahead(Q) = Ahead(P) /\ AheadG(Q) = AheadG(P) /\ LaterG(Q) = LaterG(P)
      /\ Sound(Q) <=> Sound(P)
  BY <1>1 DEF Ahead, AheadG, LaterG, Sound
<1>3. Marked(Q, X, "finder", ret) /\ ret \subseteq Tid
  BY <1>1 DEF Good, Marked
<1>4. /\ 0 \notin Tid /\ \A t \in Tid : TgidOf[t] \in Tid /\ TgidOf[TgidOf[t]] = TgidOf[t]
      /\ \A t \in Tid : t \in Nat /\ 0 < t
  BY ReadProcAssumption
<1>5. pos \in Nat
  <2>1. P.taskpos \in Tid0
    BY DEF ProcTab
  <2> QED
    BY <2>1, Tid0Has DEF PosOf
<1>6. ASSUME Sound(P)
      PROVE  /\ StreamKnown(P, ret) /\ ProcessKnown(P, ret, sk) /\ sk \in Tid
             /\ StreamKnown(Q, ret) /\ (dir # 0 => dir = sk)
  <2>1. StreamKnown(P, ret) /\ ProcessKnown(P, ret, sk) /\ sk \in Tid
    BY <1>6 DEF Good, ThreadsFound, Reading
  <2>2. CASE P.taskdir_user # sk /\ dir = 0 /\ Q.taskdir_user = P.taskdir_user
    <3>1. 0 \notin AheadG(P)
      <4>1. \A t \in Ahead(P) : t \in Tid
        <5>1. P.pids \in Seq(Tid)
          BY DEF ProcTab
        <5> QED
          BY <5>1 DEF Ahead, Elems, Leaders
      <4> QED
        BY <1>4, <4>1 DEF AheadG
    <3>2. P.taskdir_user \notin AheadG(P)
      BY <2>1, <2>2, <3>1 DEF ProcessKnown
    <3> QED
      BY <1>2, <2>1, <2>2, <3>2 DEF StreamKnown
  <2>3. CASE dir # 0 /\ Q.taskdir_user = sk
    BY <1>3, <1>5, <2>1, <2>3, StreamOn
  <2> QED
    BY <2>1, <2>2, <2>3
<1>7. ThreadsFound(Q, X, "finder", ret, sk, np2)
  BY <1>2, <1>6 DEF ThreadsFound, Reading
<1>8. QuietFound(Q, "finder", ret, std, end, sk, np2, kn)
  <2> SUFFICES ASSUME P.listed = {}, NEW g \in (Leaders \ Hidden) \cap kn,
                      TasksOf(g) \cap kn \subseteq std,
                      InProcess(P, "taskfinder", ret, sk, np, kn, g)
               PROVE  TasksOf(g) \cap kn \subseteq ret
    BY <1>1 DEF QuietFound, Good
  <2>1. Sound(P)
    BY DEF Sound
  <2>2. g \in Tid /\ g \in std /\ g \in TasksOf(g) \cap kn /\ g \in lv /\ TgidOf[g] = g
    BY DEF TasksOf, Leaders
  <2>3. sk = g /\ P.pidfd = g
    BY DEF InProcess
  <2>4. dir # 0 /\ dir = g /\ \A q \in TasksOf(g) \cap std : q <= pos
    BY <1>4, <1>6, <2>1, <2>2, <2>3 DEF DirOf
  <2>5. P.taskdir_user = g /\ pos = P.taskpos
    BY <1>4, <2>2, <2>3, <2>4 DEF PosOf
  <2>6. \A t \in TasksOf(g) \cap kn : t \in Nat /\ t <= pos
    BY <1>4, <2>4 DEF TasksOf
  <2> QED
    BY <1>5, <2>5, <2>6 DEF InProcess
<1>9. ProcsFound(Q, X, "finder", ret, std, end)
  BY <1>1 DEF ProcsFound
<1> QED
  BY <1>3, <1>7, <1>8, <1>9 DEF Good

\* simple_nexttid finds task t.
LEMMA NextTask ==
  ASSUME NEW P \in ProcTab, NEW Q \in ProcTab, NEW X, NEW Y, NEW ret, NEW std, NEW end, NEW sk,
         NEW np, NEW kn, NEW lv, lv \subseteq Tid, std \subseteq lv, NEW t, t \in Tid \cap kn,
         Good(P, X, "taskfinder", ret, std, end, sk, np, kn), P.open, P.threads,
         SameMode(Q, P), Q.pids = P.pids, Q.pos = P.pos, Q.pidfd = P.pidfd,
         Q.taskdir = DirOf(P, sk, lv), Q.taskpos = t, Q.taskdir_user = sk,
         DirOf(P, sk, lv) # 0, t \in TasksOf(DirOf(P, sk, lv)), PosOf(P, sk) < t,
         \A q \in TasksOf(DirOf(P, sk, lv)) \cap std : ~(PosOf(P, sk) < q /\ q < t),
         Q.taskfd \in {0, t}, P.pidfd \in lv /\ t \in lv => Q.taskfd = t,
         Y.tid = t, Y.cmd = X.cmd
  PROVE  Good(Q, Y, "taskreader", ret, std, end, sk, np, kn)
<1> DEFINE dir == DirOf(P, sk, lv)
           pos == PosOf(P, sk)
<1>1. /\ Q.open = P.open /\ Q.threads = P.threads /\ Q.listed = P.listed /\ Q.uids = P.uids
      /\ Q.pids = P.pids /\ Q.pos = P.pos
  BY DEF SameMode
<1>2. Sound(Q) <=> Sound(P)
  BY <1>1 DEF Sound
<1>3. Marked(Q, Y, "taskreader", ret) /\ ret \subseteq Tid
  BY <1>1 DEF Good, Marked
<1>4. /\ 0 \notin Tid /\ \A u \in Tid : u \in Nat /\ 0 < u
  BY ReadProcAssumption
<1>5. pos \in Nat /\ t \in Nat /\ pos <= t /\ TgidOf[t] = dir
  <2>1. P.taskpos \in Tid0
    BY DEF ProcTab
  <2>2. pos \in Nat
    BY <2>1, Tid0Has DEF PosOf
  <2>3. t \in Nat /\ pos < t
    BY <1>4
  <2>4. TgidOf[t] = dir
    BY DEF TasksOf
  <2> HIDE DEF pos, dir
  <2> QED
    BY <2>2, <2>3, <2>4
<1>6. ASSUME Sound(P)
      PROVE  /\ StreamKnown(Q, ret) /\ ProcessKnown(Q, ret, sk) /\ sk \in Tid /\ dir = sk
             /\ TaskKnown(Q, Y, ret, sk)
  <2>1. StreamKnown(P, ret) /\ ProcessKnown(P, ret, sk) /\ sk \in Tid
    BY <1>6 DEF Good, ThreadsFound, Reading
  <2>2. /\ dir = sk /\ \A r \in ret : TgidOf[r] = sk => r <= pos
        /\ StreamKnown(Q, ret) /\ ProcessKnown(Q, ret, sk)
    <3>1. PosOf(P, sk) <= Q.taskpos
      BY <1>5
    <3> QED
      BY <1>3, <2>1, <3>1, StreamOn
  <2>3. \A r \in ret : TgidOf[r] = sk => r < t
    BY <1>3, <1>4, <1>5, <2>2
  <2> QED
    BY <1>5, <2>1, <2>2, <2>3 DEF TaskKnown
<1>7. ThreadsFound(Q, Y, "taskreader", ret, sk, np)
  BY <1>2, <1>6 DEF ThreadsFound
<1>8. QuietFound(Q, "taskreader", ret, std, end, sk, np, kn)
  <2> SUFFICES ASSUME P.listed = {}, NEW g \in (Leaders \ Hidden) \cap kn,
                      TasksOf(g) \cap kn \subseteq std,
                      InProcess(P, "taskfinder", ret, sk, np, kn, g)
               PROVE  InProcess(Q, "taskreader", ret, sk, np, kn, g)
    BY <1>1 DEF QuietFound, Good
  <2>1. Sound(P)
    BY DEF Sound
  <2>2. sk = g /\ P.pidfd = g /\ dir = g
    BY <1>6, <2>1 DEF InProcess
  <2>3. g \in lv /\ t \in TasksOf(g) \cap kn /\ t \in lv
    BY <2>2 DEF TasksOf, Leaders
  <2>4. ASSUME NEW u \in TasksOf(g) \cap kn
        PROVE  u \in ret \/ t < u \/ u = t
    <3>1. u \in Nat /\ 0 < u /\ u \in std
      BY <1>4 DEF TasksOf
    <3>2. u \in ret \/ pos < u
      BY <2>2, <3>1 DEF InProcess, PosOf
    <3> QED
      BY <1>5, <2>2, <3>1, <3>2
  <2> QED
    BY <2>2, <2>3, <2>4 DEF InProcess, Reading
<1>9. ProcsFound(Q, Y, "taskreader", ret, std, end)
  BY <1>1 DEF ProcsFound
<1> QED
  BY <1>3, <1>7, <1>8, <1>9 DEF Good

\* Where no process comes up twice no stream is read that was not opened.
LEMMA NoStream ==
  ASSUME NEW P, NEW X, NEW ret, NEW std, NEW end, NEW sk, NEW np, NEW kn, NEW lv,
         Good(P, X, "taskfinder", ret, std, end, sk, np, kn), P.open, P.threads,
         P.taskdir_user = sk, DirOf(P, sk, lv) = 0
  PROVE  Good(P, X, "undefined", ret, std, end, sk, np, kn)
<1>1. ~Sound(P)
  <2> SUFFICES ASSUME Sound(P) PROVE FALSE
    OBVIOUS
  <2>1. ProcessKnown(P, ret, sk) /\ sk \in Tid
    BY DEF Good, ThreadsFound, Reading
  <2>2. P.taskdir = 0
    BY DEF DirOf
  <2> QED
    BY <2>1, <2>2, Tid0Has DEF ProcessKnown
<1>2. P.listed # {}
  BY <1>1 DEF Sound
<1>3. Marked(P, X, "undefined", ret)
  BY <1>1 DEF Good, Marked
<1> QED
  BY <1>1, <1>2, <1>3 DEF Good, ProcsFound, ThreadsFound, QuietFound

\* The task at hand is gone or hidden: readeither goes on to the next process.
LEMMA SkipTask ==
  ASSUME NEW P, NEW X, NEW Y, NEW ret, NEW std, NEW end, NEW sk, NEW np, NEW np2, NEW kn,
         Good(P, X, "taskreader", ret, std, end, sk, np, kn), P.open, P.threads, np2 = NULL,
         Y.cmd = 0, P.taskfd \notin std \ Hidden
  PROVE  Good(P, Y, "finder", ret, std, end, sk, np2, kn)
<1>1. Marked(P, Y, "finder", ret)
  BY DEF Good, Marked
<1>2. ThreadsFound(P, Y, "finder", ret, sk, np2)
  BY DEF Good, ThreadsFound, Reading
<1>3. QuietFound(P, "finder", ret, std, end, sk, np2, kn)
  <2> SUFFICES ASSUME P.listed = {}, NEW g \in (Leaders \ Hidden) \cap kn,
                      TasksOf(g) \cap kn \subseteq std,
                      InProcess(P, "taskreader", ret, sk, np, kn, g)
               PROVE  FALSE
    BY DEF QuietFound, Good
  <2>1. P.taskfd \in TasksOf(g) \cap kn
    BY DEF InProcess
  <2>2. P.taskfd \in std /\ P.taskfd \in Tid /\ TgidOf[P.taskfd] = g
    BY <2>1 DEF TasksOf
  <2> QED
    BY <2>2, ReadProcAssumption
<1> QED
  BY <1>1, <1>2, <1>3 DEF Good, ProcsFound

\* The task at hand is there.
LEMMA ReadTask1 ==
  ASSUME NEW P, NEW X, NEW Y, NEW ret, NEW std, NEW end, NEW sk, NEW np, NEW kn,
         Good(P, X, "taskreader", ret, std, end, sk, np, kn), P.open, P.threads,
         P.taskfd \in Tid, Y.tid = X.tid, Y.cmd = P.taskfd
  PROVE  Good(P, Y, "fill", ret, std, end, sk, np, kn)
<1>1. P.taskfd = X.tid /\ X.tid \in Tid
  BY Tid0Has DEF Good, Marked
<1>2. Marked(P, Y, "fill", ret)
  BY <1>1 DEF Good, Marked
<1>3. ThreadsFound(P, Y, "fill", ret, sk, np)
  BY DEF Good, ThreadsFound, Reading, TaskKnown
<1>4. QuietFound(P, "fill", ret, std, end, sk, np, kn)
  BY DEF Good, QuietFound, InProcess, Reading
<1> QED
  BY <1>2, <1>3, <1>4 DEF Good, ProcsFound

\* Tasks start and exit beside a scan.
LEMMA KernelGood ==
  ASSUME NEW P, NEW X, NEW at, NEW ret, NEW std, NEW std2, NEW end, NEW sk, NEW np,
         NEW kn, NEW kn2, Good(P, X, at, ret, std, end, sk, np, kn),
         std2 \subseteq std, std \subseteq kn, kn \subseteq kn2
  PROVE  Good(P, X, at, ret, std2, end, sk, np, kn2)
<1>1. ProcsFound(P, X, at, ret, std2, end)
  BY DEF Good, ProcsFound
<1>2. QuietFound(P, at, ret, std2, end, sk, np, kn2)
  <2> SUFFICES ASSUME P.open, P.threads, P.listed = {}, NEW g \in (Leaders \ Hidden) \cap kn2,
                      TasksOf(g) \cap kn2 \subseteq std2
               PROVE  \/ TasksOf(g) \cap kn2 \subseteq ret
                      \/ ~end /\ P.pos < g
                      \/ ~end /\ InProcess(P, at, ret, sk, np, kn2, g)
    BY DEF QuietFound
  <2>1. TasksOf(g) \cap kn2 = TasksOf(g) \cap kn /\ TasksOf(g) \cap kn \subseteq std /\ g \in kn
    BY DEF TasksOf, Leaders
  <2>2. InProcess(P, at, ret, sk, np, kn, g) => InProcess(P, at, ret, sk, np, kn2, g)
    BY <2>1 DEF InProcess
  <2> QED
    BY <2>1, <2>2 DEF Good, QuietFound
<1> QED
  BY <1>1, <1>2 DEF Good

\* A scan that has just been opened.
LEMMA OpenGood ==
  ASSUME NEW Q \in ProcTab, NEW X, NEW ret, NEW std, NEW end, NEW sk, NEW np, NEW kn,
         Q.open, Q.pos = 0, Q.pidfd = 0, Q.taskdir = 0, Q.taskdir_user = 0,
         Q.listed = Elems(Q.pids), ListsApart => Apart(Q.threads, Q.pids),
         np # NULL => sk \in Tid, ~end, ret = {}
  PROVE  Good(Q, X, "idle", ret, std, end, sk, np, kn)
<1>1. Marked(Q, X, "idle", ret)
  BY DEF Marked
<1>2. \A t \in Tid : 0 < t /\ TgidOf[t] \in Tid /\ t # 0
  BY ReadProcAssumption
<1>3. ProcsFound(Q, X, "idle", ret, std, end)
  <2>1. \A t \in Wanted(Q) : t \in Ahead(Q)
    BY <1>2 DEF Wanted, Ahead, Leaders
  <2> QED
    BY <2>1 DEF ProcsFound
<1>4. 0 \notin AheadG(Q) /\ 0 \notin LaterG(Q)
  <2>1. Q.pids \in Seq(Tid)
    BY DEF ProcTab
  <2>2. \A t \in Ahead(Q) : t \in Tid
    BY <2>1 DEF Ahead, Elems, Leaders
  <2>3. 0 \notin AheadG(Q)
    BY <1>2, <2>2 DEF AheadG
  <2>4. \A i \in 2 .. Len(Q.pids) : Q.pids[i] \in Tid
    BY <2>1
  <2> QED
    BY <1>2, <2>3, <2>4 DEF LaterG
<1>5. ThreadsFound(Q, X, "idle", ret, sk, np)
  BY <1>4 DEF ThreadsFound, StreamKnown, ProcessKnown, Reading
<1>6. QuietFound(Q, "idle", ret, std, end, sk, np, kn)
  BY <1>2 DEF QuietFound, Leaders
<1> QED
  BY <1>1, <1>3, <1>5, <1>6 DEF Good

\* A scan that is closed.
LEMMA CloseGood ==
  ASSUME NEW Q, NEW X, NEW ret, NEW std, NEW end, NEW sk, NEW np, NEW kn,
         ~Q.open, Q.pidfd = 0, Q.taskfd = 0, Q.uids = {}, Q.pids = <<>>, ret = {}
  PROVE  Good(Q, X, "idle", ret, std, end, sk, np, kn)
<1>1. Apart(Q.threads, Q.pids)
  BY DEF Apart
<1>2. Marked(Q, X, "idle", ret)
  BY <1>1 DEF Marked
<1> QED
  BY <1>2 DEF Good, ProcsFound, ThreadsFound, QuietFound

\* readeither's statics are nothing to a scan of processes.
LEMMA StaticsGood ==
  ASSUME NEW P, NEW X, NEW ret, NEW std, NEW end, NEW sk, NEW np, NEW sk2, NEW np2, NEW kn,
         Good(P, X, "idle", ret, std, end, sk, np, kn), ~(P.open /\ P.threads)
  PROVE  Good(P, X, "idle", ret, std, end, sk2, np2, kn)
BY DEF Good, ThreadsFound, QuietFound

--------------------------------------------------------------------------------
(* The inductive invariant of the system.                                   *)

\* Where the library is with scan s.
Here(s) == IF cur = s THEN pc ELSE "idle"

SInv(s) ==
  Good(PT[s], x[s], Here(s), Returned(s), steady[s], ended[s], skel_p, new_p, known)

\* Nothing is returned twice.
Once(l) == \A i, j \in 1 .. Len(l) : l[i] = l[j] => i = j

NoDup(s) == Sound(PT[s]) => Once(out[s])

\* A fetch is read no further than its end, where simple_nextpid has closed the
\* two descriptors.
FetchEnds(s) ==
  s # "get" /\ PT[s].open /\ ended[s] =>
    /\ Here(s) = "idle"
    /\ PT[s].listed = {} => PT[s].pidfd = 0 /\ PT[s].taskfd = 0

All(s) == SInv(s) /\ NoDup(s) /\ FetchEnds(s)

IInv == GInv /\ \A s \in Scan : All(s)

\* One more is returned.
LEMMA AppendOnce ==
  ASSUME NEW l \in Seq(Tid0), NEW t \in Tid0
  PROVE  /\ Elems(Append(l, t)) = Elems(l) \cup {t}
         /\ Once(l) /\ t \notin Elems(l) => Once(Append(l, t))
<1>1. Len(l) \in Nat /\ Len(Append(l, t)) = Len(l) + 1
      /\ \A i \in 1 .. Len(l) : Append(l, t)[i] = l[i]
      /\ Append(l, t)[Len(l) + 1] = t
  BY AppendProperties
<1>2. \A i \in 1 .. Len(l) + 1 : i \in 1 .. Len(l) \/ i = Len(l) + 1
  BY <1>1
<1>3. Elems(Append(l, t)) = Elems(l) \cup {t}
  BY <1>1, <1>2 DEF Elems
<1>4. Once(l) /\ t \notin Elems(l) => Once(Append(l, t))
  BY <1>1, <1>2 DEF Once, Elems
<1> QED
  BY <1>3, <1>4

\* A scan whose own state a step leaves alone, while the library is not with it.
LEMMA Untouched ==
  ASSUME NEW o \in Scan, All(o), Here(o) = "idle", Here(o)' = "idle",
         PT'[o] = PT[o], x'[o] = x[o], out'[o] = out[o], steady'[o] = steady[o],
         ended'[o] = ended[o], known' = known,
         ~(PT[o].open /\ PT[o].threads) \/ (skel_p' = skel_p /\ new_p' = new_p)
  PROVE  All(o)'
<1>1. Returned(o)' = Returned(o)
  BY DEF Returned
<1>2. Good(PT[o], x[o], "idle", Returned(o), steady[o], ended[o], skel_p, new_p, known)
  BY DEF All, SInv
<1>3. Good(PT[o], x[o], "idle", Returned(o), steady[o], ended[o], skel_p', new_p', known)
  BY <1>2, StaticsGood
<1>4. SInv(o)'
  BY <1>1, <1>3 DEF SInv
<1>5. NoDup(o)' /\ FetchEnds(o)'
  BY DEF All, NoDup, FetchEnds, Sound
<1> QED
  BY <1>4, <1>5 DEF All

\* The same for the steps of the library: only a scan of threads touches the
\* statics, and there is one.
LEMMA OthersUntouched ==
  ASSUME IInv, NEW o \in Scan, o # cur, cur' = cur,
         PT'[o] = PT[o], x'[o] = x[o], out'[o] = out[o], steady'[o] = steady[o],
         ended'[o] = ended[o], known' = known,
         (PT[cur].open /\ PT[cur].threads) \/ (skel_p' = skel_p /\ new_p' = new_p)
  PROVE  All(o)'
<1>1. Here(o) = "idle" /\ Here(o)' = "idle" /\ All(o)
  BY DEF Here, IInv
<1>2. ~(PT[o].open /\ PT[o].threads) \/ (skel_p' = skel_p /\ new_p' = new_p)
  BY DEF IInv, GInv, OneThreadScan, Types
<1> QED
  BY <1>1, <1>2, Untouched

--------------------------------------------------------------------------------
(* Every step keeps the invariant.                                          *)

\* Initially all scans are closed.
LEMMA InitIInv ==
  Init => IInv
<1> SUFFICES ASSUME Init, NEW s \in Scan PROVE All(s)
  BY InitGInv DEF IInv
<1> DEFINE C == Closed(0)
<1>1. /\ C.open = FALSE /\ C.pidfd = 0 /\ C.taskfd = 0 /\ C.uids = {} /\ C.pids = <<>>
  BY CloseTab
<1>2. PT[s] = C /\ out[s] = <<>> /\ pc = "idle"
  BY DEF Init
<1> HIDE DEF C
<1>3. Returned(s) = {} /\ Here(s) = "idle" /\ Once(out[s])
  BY <1>2 DEF Returned, Here, Once
<1>4. SInv(s)
  BY <1>1, <1>2, <1>3, CloseGood DEF SInv
<1> QED
  BY <1>1, <1>2, <1>3, <1>4 DEF All, NoDup, FetchEnds

\* The kernel.
LEMMA KernelKeeps ==
  ASSUME IInv, NEW t \in Tid, Start(t) \/ Exit(t), NEW s \in Scan
  PROVE  All(s)'
<1>1. UNCHANGED <<PT, x, skel_p, new_p, pc, cur, out, ended>>
  BY DEF Start, Exit, statics, ghosts
<1>2. steady'[s] \subseteq steady[s] /\ steady[s] \subseteq known /\ known \subseteq known'
  <2>1. steady \in [Scan -> SUBSET live] /\ live \subseteq known
    BY DEF IInv, GInv, Types
  <2> QED
    BY <2>1 DEF Start, Exit, ghosts
<1>3. Returned(s)' = Returned(s) /\ Here(s)' = Here(s)
  BY <1>1 DEF Returned, Here
<1>4. Good(PT[s], x[s], Here(s), Returned(s), steady[s], ended[s], skel_p, new_p, known)
  BY DEF IInv, All, SInv
<1>5. Good(PT[s], x[s], Here(s), Returned(s), steady'[s], ended[s], skel_p, new_p, known')
  BY <1>2, <1>4, KernelGood
<1>6. SInv(s)'
  BY <1>1, <1>3, <1>5 DEF SInv
<1>7. NoDup(s)' /\ FetchEnds(s)'
  BY <1>1, <1>3 DEF IInv, All, NoDup, FetchEnds
<1> QED
  BY <1>6, <1>7 DEF All

\* openproc.
LEMMA OpenKeeps ==
  ASSUME IInv, NEW s \in Scan, NEW m \in Modes, openproc(s, m), NEW o \in Scan
  PROVE  All(o)'
<1>1. /\ pc = "idle" /\ pc' = "idle" /\ cur' = cur /\ x' = x /\ known' = known
      /\ skel_p' = skel_p /\ new_p' = new_p
      /\ PT' = [PT EXCEPT ![s] = Tab(TRUE, m.threads, m.pids, m.uids, PT[s].fds)]
      /\ out' = [out EXCEPT ![s] = <<>>]
      /\ ended' = [ended EXCEPT ![s] = FALSE]
      /\ steady' = [steady EXCEPT ![s] = live]
  BY DEF openproc, kernel, statics
<1> DEFINE Q == Tab(TRUE, m.threads, m.pids, m.uids, PT[s].fds)
<1>2. /\ Q \in ProcTab /\ Q.open = TRUE /\ Q.threads = m.threads /\ Q.pids = m.pids
      /\ Q.uids = m.uids /\ Q.listed = Elems(m.pids) /\ Q.pos = 0 /\ Q.pidfd = 0
      /\ Q.taskdir = 0 /\ Q.taskdir_user = 0
  <2>1. PT[s].fds \in Nat
    BY DEF IInv, GInv, Types, ProcTab
  <2>2. IsNew(Q, TRUE, m.threads, m.pids, m.uids, PT[s].fds)
    BY <2>1, OpenNew, Zenon
  <2> HIDE DEF Q
  <2> QED
    BY <2>2 DEF IsNew
<1> HIDE DEF Q
<1>3. /\ PT'[s] = Q /\ out'[s] = <<>> /\ ended'[s] = FALSE
      /\ \A r \in Scan : r # s => /\ PT'[r] = PT[r] /\ out'[r] = out[r]
                                  /\ ended'[r] = ended[r] /\ steady'[r] = steady[r]
  BY <1>1 DEF IInv, GInv, Types, Q
<1>4. Here(o) = "idle" /\ Here(o)' = "idle"
  BY <1>1 DEF Here
<1>5. CASE o # s
  BY <1>1, <1>3, <1>4, <1>5, Untouched DEF IInv
<1>6. CASE o = s
  <2>1. Returned(s)' = {} /\ Once(out'[s])
    BY <1>3 DEF Returned, Once
  <2>2. ListsApart => Apart(Q.threads, Q.pids)
    BY <1>2 DEF ListsApart
  <2>4. new_p # NULL => skel_p \in Tid
    BY DEF IInv, GInv, SkelKnown
  <2>5. Q.listed = Elems(Q.pids) /\ Q.open /\ ~ended'[s]
    BY <1>2, <1>3
  <2>6. Good(Q, x[s], "idle", Returned(s)', steady'[s], ended'[s], skel_p, new_p, known)
    BY <1>2, <2>1, <2>2, <2>4, <2>5, OpenGood
  <2>7. SInv(s)'
    BY <1>1, <1>3, <1>4, <1>6, <2>6 DEF SInv
  <2> QED
    BY <1>3, <1>6, <2>1, <2>7 DEF All, NoDup, FetchEnds
<1> QED
  BY <1>5, <1>6

\* closeproc.
LEMMA CloseKeeps ==
  ASSUME IInv, NEW s \in Scan, closeproc(s), NEW o \in Scan
  PROVE  All(o)'
<1>1. /\ pc = "idle" /\ pc' = "idle" /\ cur' = cur /\ x' = x /\ known' = known
      /\ skel_p' = skel_p /\ new_p' = new_p /\ ended' = ended
      /\ PT' = [PT EXCEPT ![s] = Closed(PT[s].fds)]
      /\ out' = [out EXCEPT ![s] = <<>>]
      /\ steady' = [steady EXCEPT ![s] = {}]
  BY DEF closeproc, kernel, statics
<1> DEFINE Q == Closed(PT[s].fds)
<1>2. Q.open = FALSE /\ Q.pidfd = 0 /\ Q.taskfd = 0 /\ Q.uids = {} /\ Q.pids = <<>>
  <2>1. PT[s].fds \in Nat
    BY DEF IInv, GInv, Types, ProcTab
  <2> QED
    BY <2>1, CloseTab
<1> HIDE DEF Q
<1>3. /\ PT'[s] = Q /\ out'[s] = <<>>
      /\ \A r \in Scan : r # s => /\ PT'[r] = PT[r] /\ out'[r] = out[r]
                                  /\ steady'[r] = steady[r]
  BY <1>1 DEF IInv, GInv, Types, Q
<1>4. Here(o) = "idle" /\ Here(o)' = "idle"
  BY <1>1 DEF Here
<1>5. CASE o # s
  BY <1>1, <1>3, <1>4, <1>5, Untouched DEF IInv
<1>6. CASE o = s
  <2>1. Returned(s)' = {} /\ Once(out'[s])
    BY <1>3 DEF Returned, Once
  <2>2. Good(Q, x[s], "idle", Returned(s)', steady'[s], ended'[s], skel_p, new_p, known)
    BY <1>2, <2>1, CloseGood
  <2>3. SInv(s)'
    BY <1>1, <1>3, <1>4, <1>6, <2>2 DEF SInv
  <2> QED
    BY <1>2, <1>3, <1>6, <2>1, <2>3 DEF All, NoDup, FetchEnds
<1> QED
  BY <1>5, <1>6

\* readproc and readeither.
LEMMA CallKeeps ==
  ASSUME IInv, NEW s \in Scan, readproc(s) \/ readeither(s), NEW o \in Scan
  PROVE  All(o)'
<1>1. /\ pc = "idle" /\ PT[s].open /\ cur' = s /\ x' = [x EXCEPT ![s] = Acquired]
      /\ PT' = PT /\ skel_p' = skel_p /\ known' = known /\ steady' = steady
      /\ out' = out /\ ended' = ended /\ (ended[s] => s = "get")
  BY DEF readproc, readeither, MayRead, kernel, statics
<1>2. \/ ~PT[s].threads /\ new_p' = new_p /\ pc' = "finder"
      \/ PT[s].threads /\ new_p = NULL /\ new_p' = NULL /\ pc' = "finder"
      \/ PT[s].threads /\ new_p # NULL /\ pc' = "taskfinder"
  BY DEF readproc, readeither, statics
<1>3. x'[s] = Acquired /\ Acquired.cmd = 0 /\ \A r \in Scan : r # s => x'[r] = x[r]
  BY <1>1, ProcCleared, AcquiredIs DEF IInv, GInv
<1>4. Here(o) = "idle" /\ Here(s) = "idle" /\ Here(s)' = pc' /\ (o # s => Here(o)' = "idle")
  BY <1>1 DEF Here
<1>5. CASE o # s
  <2>1. ~(PT[o].open /\ PT[o].threads) \/ new_p' = new_p
    BY <1>1, <1>2, <1>5 DEF IInv, GInv, OneThreadScan
  <2> QED
    BY <1>1, <1>3, <1>4, <1>5, <2>1, Untouched DEF IInv
<1>6. CASE o = s
  <2>1. Good(PT[s], x[s], "idle", Returned(s), steady[s], ended[s], skel_p, new_p, known)
    BY <1>4 DEF IInv, All, SInv
  <2>2. Good(PT[s], x'[s], pc', Returned(s), steady[s], ended[s], skel_p, new_p', known)
    BY <1>1, <1>2, <1>3, <2>1, CallNext, CallOn
  <2>3. Returned(s)' = Returned(s)
    BY <1>1 DEF Returned
  <2>4. SInv(s)'
    BY <1>1, <1>4, <2>2, <2>3 DEF SInv
  <2> QED
    BY <1>1, <1>6, <2>4 DEF IInv, All, NoDup, FetchEnds
<1> QED
  BY <1>5, <1>6

\* fill_return.
LEMMA FillKeeps ==
  ASSUME IInv, fill_return, NEW o \in Scan
  PROVE  All(o)'
<1>1. /\ pc = "fill" /\ pc' = "idle" /\ cur' = cur /\ x' = x /\ PT' = PT /\ skel_p' = skel_p
      /\ known' = known /\ steady' = steady /\ ended' = ended
      /\ out' = [out EXCEPT ![cur] = Append(out[cur], x[cur].tid)]
      /\ new_p' = IF PT[cur].threads /\ new_p = NULL THEN cur ELSE new_p
  BY DEF fill_return, kernel
<1>2. cur \in Scan /\ PT[cur] \in ProcTab /\ PT[cur].open /\ x[cur].tid \in Tid0
      /\ out \in [Scan -> Seq(Tid0)] /\ out[cur] \in Seq(Tid0)
  BY <1>1 DEF IInv, GInv, Types, Where, Proc
<1>3. /\ out'[cur] = Append(out[cur], x[cur].tid)
      /\ \A r \in Scan : r # cur => out'[r] = out[r]
  BY <1>1, <1>2
<1>4. CASE o # cur
  BY <1>1, <1>2, <1>3, <1>4, OthersUntouched
<1>5. CASE o = cur
  <2> DEFINE ret == Returned(cur)
  <2>1. ret = Elems(out[cur]) /\ Returned(cur)' = Elems(out'[cur])
    BY <1>1 DEF Returned, Elems
  <2>2. /\ Returned(cur)' = ret \cup {x[cur].tid}
        /\ Once(out[cur]) /\ x[cur].tid \notin ret => Once(out'[cur])
    BY <1>2, <1>3, <2>1, AppendOnce
  <2>3. Good(PT[cur], x[cur], "fill", ret, steady[cur], ended[cur], skel_p, new_p, known)
    BY <1>1, <1>2 DEF IInv, All, SInv, Here
  <2>4. new_p' # NULL \/ ~PT[cur].threads
    BY <1>1, <1>2, ReadProcAssumption
  <2> HIDE DEF ret
  <2>5. /\ Good(PT[cur], x[cur], "idle", ret \cup {x[cur].tid}, steady[cur], ended[cur],
                skel_p, new_p', known)
        /\ Sound(PT[cur]) => x[cur].tid \notin ret
    <3>1. CASE PT[cur].threads
      BY <1>2, <2>3, <2>4, <3>1, ReturnTask
    <3>2. CASE ~PT[cur].threads
      <4>1. new_p' = new_p
        BY <1>1, <3>2
      <4> QED
        BY <1>2, <2>3, <3>2, <4>1, ReturnProc
    <3> QED
      BY <3>1, <3>2
  <2>6. SInv(cur)'
    BY <1>1, <1>2, <2>2, <2>5 DEF SInv, Here
  <2>7. NoDup(cur)'
    BY <1>1, <1>2, <2>2, <2>5 DEF IInv, All, NoDup
  <2>8. FetchEnds(cur)'
    BY <1>1, <1>2 DEF IInv, All, FetchEnds, Here
  <2> QED
    BY <1>1, <1>5, <2>6, <2>7, <2>8 DEF All
<1> QED
  BY <1>4, <1>5

\* A process is found for the scan at hand, or the scan ends.
LEMMA FoundKeeps ==
  ASSUME IInv, pc = "finder", NEW t \in Tid, NEW g \in {t, TgidOf[t]}, found(t, g),
         PT' \in [Scan -> ProcTab], \A o \in Scan : o # cur => PT'[o] = PT[o],
         Pops(PT[cur], PT'[cur], t, steady[cur]),
         ListsApart => Apart(PT'[cur].threads, PT'[cur].pids),
         PT'[cur].pidfd # 0 => g = TgidOf[t], NEW o \in Scan
  PROVE  All(o)'
<1>1. /\ cur' = cur /\ known' = known /\ steady' = steady /\ out' = out /\ ended' = ended
      /\ new_p' = new_p /\ cur \in Scan /\ PT[cur].open
  BY DEF found, kernel, ghosts, statics, IInv, GInv, Types, Where
<1>2. SameMode(PT'[cur], PT[cur])
  BY DEF Pops
<1>3. Returned(cur)' = Returned(cur)
  BY <1>1 DEF Returned
<1>4. Good(PT[cur], x[cur], "finder", Returned(cur), steady[cur], ended[cur], skel_p, new_p, known)
  BY <1>1 DEF IInv, All, SInv, Here
<1>5. NoDup(cur)' /\ FetchEnds(cur)'
  <2>1. NoDup(cur)'
    BY <1>1, <1>2 DEF IInv, All, NoDup, Sound, SameMode
  <2>2. FetchEnds(cur)'
    BY <1>1, <1>2 DEF IInv, All, FetchEnds, Here, SameMode
  <2> QED
    BY <2>1, <2>2
<1>6. CASE PT[cur].threads
  <2>1. skel_p' = g /\ pc' = "taskfinder" /\ x' = x
    BY <1>6 DEF found
  <2>2. Good(PT'[cur], x[cur], "taskfinder", Returned(cur), steady[cur], ended[cur], g, new_p, known)
    BY <1>1, <1>4, <1>6, PopThread
  <2>3. SInv(cur)'
    BY <1>1, <1>3, <2>1, <2>2 DEF SInv, Here
  <2>4. o # cur => All(o)'
    BY <1>1, <1>6, <2>1, OthersUntouched
  <2> QED
    BY <1>1, <1>5, <2>3, <2>4 DEF All
<1>7. CASE ~PT[cur].threads
  <2>1. x' = [x EXCEPT ![cur].tid = t, ![cur].tgid = g] /\ pc' = "reader" /\ skel_p' = skel_p
    BY <1>7 DEF found, statics
  <2>2. g \in Tid0 /\ t \in Tid0
    BY ReadProcAssumption, Tid0Has
  <2>3. x'[cur].tid = t /\ x'[cur].cmd = x[cur].cmd /\ \A r \in Scan : r # cur => x'[r] = x[r]
    BY <2>1, <2>2, ProcFound DEF IInv, GInv
  <2>4. Good(PT'[cur], x'[cur], "reader", Returned(cur), steady[cur], ended[cur], skel_p, new_p, known)
    BY <1>1, <1>4, <1>7, <2>3, PopProc
  <2>5. SInv(cur)'
    BY <1>1, <1>3, <2>1, <2>4 DEF SInv, Here
  <2>6. o # cur => All(o)'
    BY <1>1, <2>1, <2>3, OthersUntouched
  <2> QED
    BY <1>1, <1>5, <2>5, <2>6 DEF All
<1> QED
  BY <1>6, <1>7

\* The scan at hand ends.
LEMMA EndKeeps ==
  ASSUME IInv, pc = "finder", returnNULL,
         PT' \in [Scan -> ProcTab], \A o \in Scan : o # cur => PT'[o] = PT[o],
         SameMode(PT'[cur], PT[cur]), SameDir(PT'[cur], PT[cur]),
         PT'[cur].pids = PT[cur].pids, PT'[cur].pos = PT[cur].pos,
         steady[cur] \cap Ahead(PT[cur]) = {},
         PT[cur].listed = {} => PT'[cur].pidfd = 0 /\ PT'[cur].taskfd = 0, NEW o \in Scan
  PROVE  All(o)'
<1>1. /\ cur' = cur /\ known' = known /\ steady' = steady /\ out' = out /\ x' = x
      /\ skel_p' = skel_p /\ new_p' = new_p /\ pc' = "idle" /\ cur \in Scan /\ PT[cur].open
      /\ ended' = [ended EXCEPT ![cur] = TRUE]
  BY DEF returnNULL, kernel, statics, IInv, GInv, Types, Where
<1>2. ended'[cur] = TRUE /\ \A r \in Scan : r # cur => ended'[r] = ended[r]
  BY <1>1 DEF IInv, GInv, Types
<1>3. Returned(cur)' = Returned(cur)
  BY <1>1 DEF Returned
<1>4. Good(PT[cur], x[cur], "finder", Returned(cur), steady[cur], ended[cur], skel_p, new_p, known)
  BY <1>1 DEF IInv, All, SInv, Here
<1>5. Good(PT'[cur], x[cur], "idle", Returned(cur), steady[cur], ended'[cur], skel_p, new_p, known)
  BY <1>1, <1>4, ScanEnds
<1>6. SInv(cur)'
  BY <1>1, <1>3, <1>5 DEF SInv, Here
<1>7. NoDup(cur)'
  BY <1>1 DEF IInv, All, NoDup, Sound, SameMode
<1>8. FetchEnds(cur)'
  BY <1>1 DEF FetchEnds, Here, SameMode
<1>9. o # cur => All(o)'
  BY <1>1, <1>2, OthersUntouched
<1> QED
  BY <1>1, <1>6, <1>7, <1>8, <1>9 DEF All

\* simple_nextpid.
LEMMA NextPidKeeps ==
  ASSUME IInv, simple_nextpid, NEW o \in Scan
  PROVE  All(o)'
<1> DEFINE P == PT[cur]
           Q == PT'[cur]
<1>1. /\ pc = "finder" /\ P.listed = {} /\ cur \in Scan
      /\ PT' \in [Scan -> ProcTab] /\ \A r \in Scan : r # cur => PT'[r] = PT[r]
      /\ SameMode(Q, P) /\ SameDir(Q, P) /\ Q.pids = P.pids /\ Q.taskfd = 0
  BY NextPidSheet DEF IInv, GInv, Types
<1>2. P \in ProcTab /\ Q \in ProcTab /\ steady[cur] \subseteq live /\ live \subseteq Tid
  BY <1>1 DEF IInv, GInv, Types
<1>3. ListsApart => Apart(Q.threads, Q.pids)
  BY <1>1 DEF SameMode, IInv, All, SInv, Good, Marked
<1>4. CASE \E t \in Leaders : /\ Entry(cur, Leaders, P.pos, t) /\ found(t, t)
                              /\ Q.pos = t /\ Q.pidfd = Opened(t)
  <2>1. PICK t \in Leaders : /\ Entry(cur, Leaders, P.pos, t) /\ found(t, t)
                             /\ Q.pos = t /\ Q.pidfd = Opened(t)
    BY <1>4
  <2>2. /\ P.pos < t /\ \A q \in Leaders \cap steady[cur] : ~(P.pos < q /\ q < t)
    BY <2>1 DEF Entry
  <2>3. Q.pidfd \in {0, t} /\ (t \in steady[cur] => Q.pidfd = t)
    BY <1>2, <2>1 DEF Opened
  <2>4. Pops(P, Q, t, steady[cur])
    BY <1>1, <1>2, <2>1, <2>2, <2>3, NextPidPops
  <2>5. t \in Tid /\ t \in {t, TgidOf[t]} /\ t = TgidOf[t]
    BY DEF Leaders
  <2> QED
    BY <1>1, <1>3, <2>1, <2>4, <2>5, FoundKeeps
<1>5. CASE AtEnd(cur, Leaders, P.pos) /\ returnNULL /\ Q.pos = P.pos /\ Q.pidfd = 0
  <2>1. P.pos \in Nat /\ \A q \in Leaders : q \in Nat
    <3>1. P.pos \in Tid0
      BY <1>2 DEF ProcTab
    <3> QED
      BY <3>1, Tid0Has DEF Leaders
  <2>2. steady[cur] \cap Ahead(P) = {}
    BY <1>1, <1>5, <2>1 DEF Ahead, AtEnd
  <2> QED
    BY <1>1, <1>5, <2>2, EndKeeps
<1> QED
  BY <1>4, <1>5, NextPidSheet DEF IInv, GInv

\* listed_nextpid.
LEMMA ListedKeeps ==
  ASSUME IInv, listed_nextpid, NEW o \in Scan
  PROVE  All(o)'
<1> DEFINE P == PT[cur]
           Q == PT'[cur]
           t == Head(P.pids)
           g == IF t \in live THEN TgidOf[t] ELSE t
<1>1. /\ pc = "finder" /\ P.listed # {} /\ cur \in Scan
      /\ PT' \in [Scan -> ProcTab] /\ \A r \in Scan : r # cur => PT'[r] = PT[r]
      /\ SameMode(Q, P) /\ SameDir(Q, P) /\ Q.pos = P.pos
  BY ListedSheet DEF IInv, GInv, Types
<1>2. P \in ProcTab /\ Q \in ProcTab /\ steady[cur] \subseteq live /\ live \subseteq Tid
  BY <1>1 DEF IInv, GInv, Types
<1>3. ListsApart => Apart(P.threads, P.pids)
  BY <1>1 DEF IInv, All, SInv, Good, Marked
<1>4. CASE P.pids = <<>> /\ PT' = PT /\ returnNULL
  <2>1. steady[cur] \cap Ahead(P) = {}
    BY <1>1, <1>4 DEF Ahead, Elems
  <2> QED
    BY <1>1, <1>4, <2>1, EndKeeps
<1>5. CASE /\ P.pids # <<>> /\ Q.pids = Tail(P.pids) /\ Q.pidfd = Opened(t) /\ t \in Tid
           /\ found(t, g)
  <2> HIDE DEF t
  <2>1. Q.pidfd \in {0, t} /\ (t \in steady[cur] => Q.pidfd = t)
    BY <1>2, <1>5 DEF Opened
  <2>2. Pops(P, Q, t, steady[cur])
    BY <1>1, <1>2, <1>3, <1>5, <2>1, ListedPops DEF t
  <2>3. ListsApart => Apart(Q.threads, Q.pids)
    <3>1. P.threads \in BOOLEAN /\ P.pids \in Seq(Tid)
      BY <1>2 DEF ProcTab
    <3>2. Q.threads = P.threads
      BY <1>1 DEF SameMode
    <3> QED
      BY <1>3, <1>5, <3>1, <3>2, TailApart
  <2>4. g \in {t, TgidOf[t]} /\ (Q.pidfd # 0 => g = TgidOf[t])
    BY <1>5 DEF Opened
  <2> HIDE DEF g
  <2> QED
    BY <1>1, <1>5, <2>2, <2>3, <2>4, FoundKeeps
<1> QED
  BY <1>4, <1>5, ListedSheet DEF IInv, GInv

\* simple_readproc.
LEMMA ReadprocKeeps ==
  ASSUME IInv, simple_readproc, NEW o \in Scan
  PROVE  All(o)'
<1> DEFINE P == PT[cur]
           fd == P.pidfd
<1>1. /\ pc = "reader" /\ cur \in Scan /\ PT[cur].open /\ ~PT[cur].threads
      /\ PT' = PT /\ cur' = cur /\ known' = known /\ steady' = steady /\ out' = out
      /\ ended' = ended /\ skel_p' = skel_p /\ new_p' = new_p
      /\ steady[cur] \subseteq live /\ live \subseteq Tid
  BY DEF simple_readproc, kernel, statics, ghosts, IInv, GInv, Types, Where
<1>2. Good(P, x[cur], "reader", Returned(cur), steady[cur], ended[cur], skel_p, new_p, known)
  BY <1>1 DEF IInv, All, SInv, Here
<1>3. x[cur].cmd = 0 /\ x[cur] \in Proc
  BY <1>1, <1>2 DEF Good, Marked, IInv, GInv, Types
<1>4. ASSUME Good(P, x'[cur], pc', Returned(cur), steady[cur], ended[cur], skel_p, new_p, known),
             \A r \in Scan : r # cur => x'[r] = x[r]
      PROVE  All(o)'
  <2>1. Returned(cur)' = Returned(cur)
    BY <1>1 DEF Returned
  <2>2. SInv(cur)'
    BY <1>1, <1>4, <2>1 DEF SInv, Here
  <2>3. NoDup(cur)' /\ FetchEnds(cur)'
    BY <1>1 DEF IInv, All, NoDup, FetchEnds, Here
  <2>4. o # cur => All(o)'
    BY <1>1, <1>4, OthersUntouched
  <2> QED
    BY <1>1, <2>2, <2>3, <2>4 DEF All
<1>5. ASSUME NEW p \in {x[cur], Acquired}, x' = [x EXCEPT ![cur] = p], pc' = "finder",
             fd \notin live \/ ~OwnedOk(fd) \/ fd \in Hidden
      PROVE  All(o)'
  <2>1. p \in Proc /\ p.cmd = 0
    BY <1>3, AcquiredIs
  <2>2. x'[cur] = p /\ \A r \in Scan : r # cur => x'[r] = x[r]
    BY <1>1, <1>5, <2>1, ProcCleared DEF IInv, GInv
  <2>3. fd \notin steady[cur] \cap Wanted(P)
    BY <1>1, <1>5 DEF Wanted, OwnedOk
  <2>4. Good(P, x'[cur], "finder", Returned(cur), steady[cur], ended[cur], skel_p, new_p, known)
    BY <1>1, <1>2, <2>1, <2>2, <2>3, SkipProc
  <2> QED
    BY <1>4, <1>5, <2>2, <2>4
<1>6. CASE /\ fd \in live /\ OwnedOk(fd) /\ fd \notin Hidden
           /\ x' = [x EXCEPT ![cur].cmd = stat2proc(@, fd)]
           /\ pc' = "fill"
  <2>1. fd \in Tid /\ (P.uids # {} => UidOf[fd] \in P.uids)
    BY <1>1, <1>6 DEF OwnedOk
  <2>2. x'[cur].tid = x[cur].tid /\ x'[cur].cmd = fd /\ \A r \in Scan : r # cur => x'[r] = x[r]
    BY <1>3, <1>6, <2>1, ProcNamed DEF IInv, GInv
  <2>3. Good(P, x'[cur], "fill", Returned(cur), steady[cur], ended[cur], skel_p, new_p, known)
    BY <1>1, <1>2, <2>1, <2>2, ReadProc1
  <2> QED
    BY <1>4, <1>6, <2>2, <2>3
<1>7. \/ /\ fd \in live /\ OwnedOk(fd) /\ fd \notin Hidden
         /\ x' = [x EXCEPT ![cur].cmd = stat2proc(@, fd)]
         /\ pc' = "fill"
      \/ /\ fd \notin live \/ ~OwnedOk(fd) \/ fd \in Hidden
         /\ \E p \in {x[cur], Acquired} : x' = [x EXCEPT ![cur] = p]
         /\ pc' = "finder"
  BY DEF simple_readproc
<1> HIDE DEF fd
<1> QED
  BY <1>5, <1>6, <1>7

\* simple_nexttid.
LEMMA NextTidKeeps ==
  ASSUME IInv, simple_nexttid, NEW o \in Scan
  PROVE  All(o)'
<1> DEFINE P == PT[cur]
           Q == PT'[cur]
           dir == DirOf(P, skel_p, live)
           pos == PosOf(P, skel_p)
<1>1. /\ pc = "taskfinder" /\ cur \in Scan /\ P.open /\ P.threads
      /\ cur' = cur /\ known' = known /\ steady' = steady /\ out' = out
      /\ ended' = ended /\ skel_p' = skel_p
      /\ PT' \in [Scan -> ProcTab] /\ \A r \in Scan : r # cur => PT'[r] = PT[r]
      /\ SameMode(Q, P) /\ Q.pids = P.pids /\ Q.pos = P.pos /\ Q.pidfd = P.pidfd
  BY NextTidSheet DEF IInv, GInv, Types, Where, kernel, ghosts
<1>2. P \in ProcTab /\ Q \in ProcTab /\ steady[cur] \subseteq live /\ live \subseteq Tid
  BY <1>1 DEF IInv, GInv, Types
<1>3. TidDir = dir /\ TidPos = pos
  BY DEF TidDir, TidPos, DirOf, PosOf
<1>4. Good(P, x[cur], "taskfinder", Returned(cur), steady[cur], ended[cur], skel_p, new_p, known)
  BY <1>1 DEF IInv, All, SInv, Here
<1>5. ASSUME Good(Q, x'[cur], pc', Returned(cur), steady[cur], ended[cur], skel_p, new_p', known),
             \A r \in Scan : r # cur => x'[r] = x[r]
      PROVE  All(o)'
  <2>1. Returned(cur)' = Returned(cur)
    BY <1>1 DEF Returned
  <2>2. SInv(cur)'
    BY <1>1, <1>5, <2>1 DEF SInv, Here
  <2>3. NoDup(cur)'
    BY <1>1 DEF IInv, All, NoDup, Sound, SameMode
  <2>4. FetchEnds(cur)'
    BY <1>1 DEF IInv, All, FetchEnds, Here, SameMode
  <2>5. o # cur => All(o)'
    BY <1>1, <1>5, OthersUntouched
  <2> QED
    BY <1>1, <2>2, <2>3, <2>4, <2>5 DEF All
<1> HIDE DEF dir, pos
<1>6. CASE /\ \/ P.taskdir_user # skel_p /\ TidDir = 0
              \/ TidDir # 0 /\ AtEnd(cur, TasksOf(TidDir), TidPos)
           /\ Q.taskdir = TidDir /\ Q.taskpos = TidPos /\ Q.taskdir_user = TidUser
           /\ new_p' = NULL /\ pc' = "finder" /\ x' = x
  <2>1. \/ /\ P.taskdir_user # skel_p /\ dir = 0 /\ Q.taskdir_user = P.taskdir_user
        \/ /\ dir # 0 /\ Q.taskdir_user = skel_p
           /\ \A q \in TasksOf(dir) \cap steady[cur] : q <= pos
    BY <1>3, <1>6 DEF AtEnd, TidUser
  <2>2. Q.taskdir = dir /\ Q.taskpos = pos
    BY <1>3, <1>6
  <2>3. Good(Q, x[cur], "finder", Returned(cur), steady[cur], ended[cur], skel_p, new_p', known)
    BY <1>1, <1>2, <1>4, <1>6, <2>1, <2>2, NoTask DEF dir, pos
  <2> QED
    BY <1>5, <1>6, <2>3
<1>7. CASE \E t \in TasksOf(TidDir) :
             /\ TidDir # 0 /\ Entry(cur, TasksOf(TidDir), TidPos, t)
             /\ Q.taskdir = TidDir /\ Q.taskpos = t /\ Q.taskdir_user = TidUser
             /\ Q.taskfd = TidFd(t)
             /\ x' = [x EXCEPT ![cur].tid = t, ![cur].tgid = skel_p]
             /\ new_p' = new_p /\ pc' = "taskreader"
  <2>1. PICK t \in TasksOf(dir) :
             /\ dir # 0 /\ Entry(cur, TasksOf(dir), pos, t)
             /\ Q.taskdir = dir /\ Q.taskpos = t /\ Q.taskdir_user = TidUser
             /\ Q.taskfd = TidFd(t)
             /\ x' = [x EXCEPT ![cur].tid = t, ![cur].tgid = skel_p]
             /\ new_p' = new_p /\ pc' = "taskreader"
    BY <1>3, <1>7
  <2>2. t \in Tid /\ t \in known /\ pos < t
        /\ \A q \in TasksOf(dir) \cap steady[cur] : ~(pos < q /\ q < t)
    BY <2>1 DEF Entry, TasksOf
  <2>3. Q.taskdir_user = skel_p
    BY <1>3, <2>1 DEF TidUser
  <2>4. Q.taskfd \in {0, t} /\ (P.pidfd \in live /\ t \in live => Q.taskfd = t)
    BY <2>1 DEF TidFd, Opened
  <2>5. x'[cur].tid = t /\ x'[cur].cmd = x[cur].cmd /\ \A r \in Scan : r # cur => x'[r] = x[r]
    <3>1. t \in Tid0 /\ skel_p \in Tid0
      BY <2>2, Tid0Has DEF IInv, GInv, Types
    <3> QED
      BY <2>1, <3>1, ProcFound DEF IInv, GInv
  <2>6. Good(Q, x'[cur], "taskreader", Returned(cur), steady[cur], ended[cur], skel_p, new_p, known)
    <3>1. /\ t \in Tid \cap known /\ Q.taskdir = DirOf(P, skel_p, live)
          /\ DirOf(P, skel_p, live) # 0 /\ t \in TasksOf(DirOf(P, skel_p, live))
          /\ PosOf(P, skel_p) < t
          /\ \A q \in TasksOf(DirOf(P, skel_p, live)) \cap steady[cur] :
               ~(PosOf(P, skel_p) < q /\ q < t)
      BY <2>1, <2>2 DEF dir, pos
    <3>2. Q.taskpos = t
      BY <2>1
    <3> HIDE DEF P, Q
    <3> QED
      BY <1>1, <1>2, <1>4, <2>3, <2>4, <2>5, <3>1, <3>2, NextTask
  <2> QED
    BY <1>5, <2>1, <2>5, <2>6
<1>8. CASE /\ P.taskdir_user = skel_p /\ TidDir = 0 /\ PT' = PT
           /\ pc' = "undefined" /\ x' = x /\ new_p' = new_p
  <2>1. Good(P, x[cur], "undefined", Returned(cur), steady[cur], ended[cur], skel_p, new_p, known)
    BY <1>1, <1>3, <1>4, <1>8, NoStream DEF dir
  <2> QED
    BY <1>5, <1>8, <2>1
<1> QED
  BY <1>6, <1>7, <1>8, NextTidSheet DEF IInv, GInv

\* simple_readtask.
LEMMA ReadtaskKeeps ==
  ASSUME IInv, simple_readtask, NEW o \in Scan
  PROVE  All(o)'
<1> DEFINE P == PT[cur]
           fd == P.taskfd
<1>1. /\ pc = "taskreader" /\ cur \in Scan /\ PT[cur].open /\ PT[cur].threads
      /\ PT' = PT /\ cur' = cur /\ known' = known /\ steady' = steady /\ out' = out
      /\ ended' = ended /\ skel_p' = skel_p
      /\ steady[cur] \subseteq live /\ live \subseteq Tid
  BY DEF simple_readtask, kernel, ghosts, IInv, GInv, Types, Where
<1>2. Good(P, x[cur], "taskreader", Returned(cur), steady[cur], ended[cur], skel_p, new_p, known)
  BY <1>1 DEF IInv, All, SInv, Here
<1>3. x[cur].cmd = 0 /\ x[cur] \in Proc
  BY <1>1, <1>2 DEF Good, Marked, IInv, GInv, Types
<1>4. ASSUME Good(P, x'[cur], pc', Returned(cur), steady[cur], ended[cur], skel_p, new_p', known),
             \A r \in Scan : r # cur => x'[r] = x[r]
      PROVE  All(o)'
  <2>1. Returned(cur)' = Returned(cur)
    BY <1>1 DEF Returned
  <2>2. SInv(cur)'
    BY <1>1, <1>4, <2>1 DEF SInv, Here
  <2>3. NoDup(cur)' /\ FetchEnds(cur)'
    BY <1>1 DEF IInv, All, NoDup, FetchEnds, Here
  <2>4. o # cur => All(o)'
    BY <1>1, <1>4, OthersUntouched
  <2> QED
    BY <1>1, <2>2, <2>3, <2>4 DEF All
<1>5. ASSUME NEW p \in {x[cur], Acquired}, x' = [x EXCEPT ![cur] = p], pc' = "finder",
             new_p' = NULL, fd \notin live \/ fd \in Hidden
      PROVE  All(o)'
  <2>1. p \in Proc /\ p.cmd = 0
    BY <1>3, AcquiredIs
  <2>2. x'[cur] = p /\ \A r \in Scan : r # cur => x'[r] = x[r]
    BY <1>1, <1>5, <2>1, ProcCleared DEF IInv, GInv
  <2>3. fd \notin steady[cur] \ Hidden
    BY <1>1, <1>5
  <2>4. Good(P, x'[cur], "finder", Returned(cur), steady[cur], ended[cur], skel_p, new_p', known)
    BY <1>1, <1>2, <1>5, <2>1, <2>2, <2>3, SkipTask
  <2> QED
    BY <1>4, <1>5, <2>2, <2>4
<1>6. CASE /\ fd \in live /\ fd \notin Hidden
           /\ x' = [x EXCEPT ![cur].cmd = stat2proc(@, fd)]
           /\ pc' = "fill" /\ new_p' = new_p
  <2>1. fd \in Tid
    BY <1>1, <1>6
  <2>2. x'[cur].tid = x[cur].tid /\ x'[cur].cmd = fd /\ \A r \in Scan : r # cur => x'[r] = x[r]
    BY <1>3, <1>6, <2>1, ProcNamed DEF IInv, GInv
  <2>3. Good(P, x'[cur], "fill", Returned(cur), steady[cur], ended[cur], skel_p, new_p, known)
    BY <1>1, <1>2, <2>1, <2>2, ReadTask1
  <2> QED
    BY <1>4, <1>6, <2>2, <2>3
<1>7. \/ /\ fd \in live /\ fd \notin Hidden
         /\ x' = [x EXCEPT ![cur].cmd = stat2proc(@, fd)]
         /\ pc' = "fill" /\ new_p' = new_p
      \/ /\ fd \notin live \/ fd \in Hidden
         /\ \E p \in {x[cur], Acquired} : x' = [x EXCEPT ![cur] = p]
         /\ pc' = "finder" /\ new_p' = NULL
  BY DEF simple_readtask
<1> HIDE DEF fd
<1> QED
  BY <1>5, <1>6, <1>7

\* IInv is inductive.
LEMMA NextIInv ==
  IInv /\ [Next]_vars => IInv'
<1> SUFFICES ASSUME IInv, [Next]_vars PROVE IInv'
  OBVIOUS
<1>1. GInv'
  BY NextGInv DEF IInv
<1>2. ASSUME NEW o \in Scan PROVE All(o)'
  <2>1. CASE UNCHANGED vars
    <3>1. Returned(o)' = Returned(o) /\ Here(o)' = Here(o)
      BY <2>1 DEF vars, ghosts, Returned, Here
    <3> QED
      BY <2>1, <3>1 DEF vars, kernel, statics, ghosts, IInv, All, SInv, NoDup, FetchEnds
  <2>2. CASE Kernel
    BY <2>2, KernelKeeps DEF Kernel
  <2>3. CASE Caller
    BY <2>3, OpenKeeps, CloseKeeps, CallKeeps DEF Caller
  <2>4. CASE Step
    BY <2>4, NextPidKeeps, ListedKeeps, ReadprocKeeps, NextTidKeeps, ReadtaskKeeps, FillKeeps
       DEF Step
  <2> QED
    BY <2>1, <2>2, <2>3, <2>4 DEF Next
<1> QED
  BY <1>1, <1>2 DEF IInv

\* IInv holds throughout.
LEMMA AlwaysIInv ==
  Spec => []IInv
BY InitIInv, NextIInv, PTL DEF Spec

--------------------------------------------------------------------------------
(* The theorems.                                                            *)

\* readproc and readeither keep every variable in its type and read no stream
\* that was not opened, whatever the kernel does between any two of their system
\* calls, as long as the lists callers pass name no task twice and, for a scan of
\* threads, no process again after another one.
THEOREM ScansSound ==
  ASSUME ListsApart
  PROVE  Spec => []ScanSound
<1>1. IInv => ScanSound
  <2> SUFFICES ASSUME IInv PROVE ScanSound
    OBVIOUS
  <2>1. StreamOpen
    <3>1. cur \in Scan
      BY DEF IInv, GInv, Types
    <3>2. Marked(PT[cur], x[cur], pc, Returned(cur))
      BY <3>1 DEF IInv, All, SInv, Here, Good
    <3> QED
      BY <3>2 DEF StreamOpen, Marked, Sound
  <2>2. Types
    BY DEF IInv, GInv
  <2>3. ASSUME NEW s \in Scan
        PROVE  /\ PT[s].open \in BOOLEAN
               /\ {PT[s].pidfd, PT[s].taskfd, PT[s].taskdir, PT[s].taskdir_user}
                    \subseteq Tid \cup {0}
               /\ PT[s].fds \in Nat
               /\ x[s] \in [tid : Tid \cup {0}, tgid : Tid \cup {0}, cmd : Tid \cup {0}]
               /\ steady[s] \subseteq live
    <3>1. PT[s] \in ProcTab /\ x[s] \in Proc /\ steady[s] \subseteq live
      BY <2>2 DEF Types
    <3>2. /\ PT[s].open \in BOOLEAN /\ PT[s].fds \in Nat
          /\ PT[s].pidfd \in Tid0 /\ PT[s].taskfd \in Tid0 /\ PT[s].taskdir \in Tid0
          /\ PT[s].taskdir_user \in Tid0
      BY <3>1 DEF ProcTab
    <3> QED
      BY <3>1, <3>2 DEF Proc, Tid0
  <2>4. TypeOK
    BY <2>2, <2>3 DEF TypeOK, Types, Tid0
  <2> QED
    BY <2>1, <2>4 DEF ScanSound
<1> QED
  BY <1>1, AlwaysIInv, PTL

\* What a scan returns is right, under the same condition on lists: when a scan
\* of processes has ended everybody asked for who lived through it was returned
\* and nobody of a user that was not asked for, no scan returned anybody twice,
\* and no proc_t has the command of another task.
THEOREM ScansAnswer ==
  ASSUME ListsApart
  PROVE  Spec => []ScanAnswers
<1>1. IInv => ScanAnswers
  <2> SUFFICES ASSUME IInv PROVE ScanAnswers
    OBVIOUS
  <2>1. ASSUME NEW s \in Scan
        PROVE  /\ Sound(PT[s]) /\ Marked(PT[s], x[s], Here(s), Returned(s))
               /\ ProcsFound(PT[s], x[s], Here(s), Returned(s), steady[s], ended[s])
               /\ Once(out[s])
    BY DEF IInv, All, SInv, Good, NoDup, Sound
  <2>2. CompleteScan
    <3> SUFFICES ASSUME NEW s \in Scan, PT[s].open, ended[s], ~PT[s].threads
                 PROVE  steady[s] \cap Wanted(PT[s]) \subseteq Returned(s)
      BY DEF CompleteScan, Wanted
    <3> QED
      BY <2>1 DEF ProcsFound
  <2>3. NoDuplicate
    BY <2>1 DEF NoDuplicate, Once
  <2>4. UidMatch
    <3> SUFFICES ASSUME NEW s \in Scan, PT[s].uids # {}, ~PT[s].threads, NEW t \in Returned(s)
                 PROVE  UidOf[t] \in PT[s].uids
      BY DEF UidMatch
    <3> QED
      BY <2>1 DEF Marked, ProcsFound
  <2>5. CmdIsOwn
    <3>1. cur \in Scan
      BY DEF IInv, GInv, Types
    <3> QED
      BY <2>1, <3>1 DEF CmdIsOwn, Marked, Here
  <2> QED
    BY <2>2, <2>3, <2>4, <2>5 DEF ScanAnswers
<1> QED
  BY <1>1, AlwaysIInv, PTL

\* A process none of whose threads starts or exits has all of them returned when
\* readeither returns NULL, whatever the other processes do.
THEOREM QuietComplete ==
  Spec => []QuietProcessComplete
<1>1. IInv => QuietProcessComplete
  <2> SUFFICES ASSUME IInv, NEW s \in Scan, PT[s].open, ended[s], PT[s].threads,
                      PT[s].listed = {}, NEW g \in Leaders \ Hidden,
                      TasksOf(g) \cap known \subseteq steady[s]
               PROVE  TasksOf(g) \cap known \subseteq Returned(s)
    BY DEF QuietProcessComplete
  <2>1. QuietFound(PT[s], Here(s), Returned(s), steady[s], ended[s], skel_p, new_p, known)
    BY DEF IInv, All, SInv, Good
  <2>2. CASE g \in known
    BY <2>1, <2>2 DEF QuietFound
  <2>3. CASE g \notin known
    <3>1. TasksOf(g) \cap known = {}
      BY <2>3 DEF TasksOf, IInv, GInv, Types
    <3> QED
      BY <3>1
  <2> QED
    BY <2>2, <2>3
<1> QED
  BY <1>1, AlwaysIInv, PTL

\* No step of readproc, readeither, openproc or closeproc loses a descriptor,
\* except in a scan of a list and when a get scan is closed.
THEOREM DescriptorsHeld ==
  Spec => FdsHeld
<1> DEFINE Kept == \A s \in Scan :
                     \/ Lost(s)' = Lost(s)
                     \/ PT[s].listed # {}
                     \/ s = "get" /\ PT[s].open /\ ~PT[s].open'
<1>1. IInv /\ [Next]_vars => [Kept]_vars
  <2> SUFFICES ASSUME IInv, Next, NEW s \in Scan, PT[s].listed = {},
                      ~(s = "get" /\ PT[s].open /\ ~PT[s].open')
               PROVE  LostOf(PT'[s]) = LostOf(PT[s])
    BY DEF Lost, LostOf
  <2>1. PT \in [Scan -> ProcTab] /\ PT[s].fds \in Nat /\ cur \in Scan
    BY DEF IInv, GInv, Types, ProcTab
  <2>2. CASE PT' = PT
    BY <2>2
  <2>3. ASSUME NEW r \in Scan, NEW m \in Modes, openproc(r, m)
        PROVE  LostOf(PT'[s]) = LostOf(PT[s])
    <3>1. ~PT[r].open /\ PT' = [PT EXCEPT ![r] = Tab(TRUE, m.threads, m.pids, m.uids, PT[r].fds)]
      BY <2>3 DEF openproc
    <3>2. CASE r # s
      BY <2>1, <3>1, <3>2
    <3>3. CASE r = s
      <4> DEFINE Q == Tab(TRUE, m.threads, m.pids, m.uids, PT[s].fds)
      <4>1. IsNew(Q, TRUE, m.threads, m.pids, m.uids, PT[s].fds)
        BY <2>1, OpenNew, Zenon
      <4> HIDE DEF Q
      <4>2. PT'[s] = Q
        BY <2>1, <3>1, <3>3 DEF Q
      <4>3. PT[s].pidfd = 0 /\ PT[s].taskfd = 0
        BY <3>1, <3>3 DEF IInv, All, SInv, Good, Marked
      <4> QED
        BY <2>1, <4>1, <4>2, <4>3, HeldIs DEF LostOf, IsNew
    <3> QED
      BY <3>2, <3>3
  <2>4. ASSUME NEW r \in Scan, closeproc(r)
        PROVE  LostOf(PT'[s]) = LostOf(PT[s])
    <3>1. /\ PT[r].open /\ (ended[r] \/ r = "get")
          /\ PT' = [PT EXCEPT ![r] = Closed(PT[r].fds)]
      BY <2>4 DEF closeproc
    <3>2. CASE r # s
      BY <2>1, <3>1, <3>2
    <3>3. CASE r = s
      <4> DEFINE Q == Closed(PT[s].fds)
      <4>1. LostOf(Q) = PT[s].fds /\ Q.open = FALSE
        BY <2>1, CloseTab
      <4> HIDE DEF Q
      <4>2. PT'[s] = Q
        BY <2>1, <3>1, <3>3 DEF Q
      <4>3. PT[s].pidfd = 0 /\ PT[s].taskfd = 0
        BY <3>1, <3>3, <4>1, <4>2 DEF IInv, All, FetchEnds
      <4> QED
        BY <2>1, <4>1, <4>2, <4>3, HeldIs DEF LostOf
    <3> QED
      BY <3>2, <3>3
  <2>5. CASE simple_nextpid
    BY <2>5, NextPidSheet DEF IInv, GInv
  <2>6. CASE listed_nextpid
    <3>1. PT[cur].listed # {} /\ \A o \in Scan : o # cur => PT'[o] = PT[o]
      BY <2>6, ListedSheet DEF IInv, GInv
    <3> QED
      BY <3>1
  <2>7. CASE simple_nexttid
    BY <2>7, NextTidSheet DEF IInv, GInv
  <2>8. PT' = PT \/ (\E r \in Scan : closeproc(r) \/ \E m \in Modes : openproc(r, m))
        \/ simple_nextpid \/ listed_nextpid \/ simple_nexttid
    BY DEF Next, Kernel, Caller, Step, Start, Exit, readproc, readeither, simple_readproc,
           simple_readtask, fill_return
  <2> QED
    BY <2>2, <2>3, <2>4, <2>5, <2>6, <2>7, <2>8
<1> QED
  BY <1>1, AlwaysIInv, PTL DEF Spec, FdsHeld, Kept
================================================================================
