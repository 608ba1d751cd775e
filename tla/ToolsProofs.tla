------------------------------ MODULE ToolsProofs ------------------------------
(****************************************************************************)
(* Theorems about two of the tools: pgrep, pkill and pidwait, for any       *)
(* processes that start and exit under them, any command lines and any      *)
(* number of descriptors; then sysctl and the streams of procio that it     *)
(* reads and writes parameters through, for any tree of parameters, any     *)
(* configuration files and any command lines.                               *)
(*                                                                          *)
(* The invariant IInv of pgrep has a part for each thing that is kept: who  *)
(* runs (KernelOK), where each program is (StageOK), the matches            *)
(* (MatchesOK, SavedOK), the signals sent (SentOK) and the processes        *)
(* watched (WaitOK).  The ancestors of -A are a recursive function and any  *)
(* set will do.  PInv is the invariant of a stream, SInv that of sysctl.    *)
(****************************************************************************)
EXTENDS Pgrep, Sysctl, ProcIO, WellFoundedInduction, FiniteSetTheorems, TLAPS

--------------------------------------------------------------------------------
(* The inductive invariant.                                                 *)

\* Running processes have been started and hold different pids.
KernelOK ==
  /\ running \subseteq used /\ used \subseteq Proc /\ Self \in running
  /\ \A p, q \in running : PidOf[p] = PidOf[q] => p = q

\* Which program is where, and what its options exclude once they are parsed.
StageOK ==
  /\ argv.prog \in {"pgrep", "pkill", "pidwait"}
  /\ pc \in {"parse", "scan", "pgrep", "pkill", "send", "pidwait", "done"}
  /\ pc = "pgrep" => argv.prog = "pgrep"
  /\ pc \in {"pkill", "send"} => argv.prog = "pkill"
  /\ pc = "pidwait" => argv.prog = "pidwait"
  /\ pc # "done" => status = -1
  /\ status \in {-1, 0, EXIT_FAILURE, EXIT_USAGE, EXIT_FATAL}
  /\ pc = "scan" => ~Conflict(argv.flags)
  /\ mrelease_failed \in BOOLEAN /\ (mrelease_failed => "m" \in argv.flags)

Match == [num : Nat, str : Proc \cup {0}, who : Proc]

\* The scan has read processes in the order of their pids, and a match holds
\* the pid of a process it has read, one match for each pid.
MatchesOK ==
  /\ pos \in Nat /\ cmdoutput \in Proc \cup {0}
  /\ read \subseteq used /\ \A p \in read : PidOf[p] <= pos
  /\ list \in Seq(Match)
  /\ \A k \in DOMAIN list : list[k].who \in read /\ list[k].num = PidOf[list[k].who]
  /\ \A j, k \in DOMAIN list : list[j].num = list[k].num => j = k
  /\ pc = "parse" => read = {} /\ list = <<>>

\* -n and -o: what is saved is of the match, or what any process is ahead of.
SavedOK ==
  pc = "scan" /\ argv.flags \cap {"n", "o"} # {} =>
    \/ /\ list = <<>> /\ Candidates = {}
       /\ saved_start = IF "n" \in argv.flags THEN 0 ELSE ULLONG_MAX
       /\ saved_pid = IF "o" \in argv.flags THEN INT_MAX ELSE 0
    \/ /\ Len(list) = 1 /\ list[1].who \in Candidates
       /\ saved_start = Attr[list[1].who].start
       /\ saved_pid = PidOf[list[1].who]

\* w is exactly once in a sequence of signals.
Once(sent, w) ==
  \E n \in DOMAIN sent : sent[n] = w /\ \A m \in DOMAIN sent : sent[m] = w => m = n

\* Only pkill sends, and nothing before the scan has ended.
SentTyped ==
  /\ i \in Nat \ {0} /\ pidfd \in Proc \cup {0}
  /\ signalled \in Seq(Proc) /\ kill_count = Len(signalled)
  /\ argv.prog # "pkill" => signalled = <<>>
  /\ pc \in {"parse", "scan"} => i = 1 /\ signalled = <<>>

\* The descriptor pins the match itself unless that has gone.
Pinned ==
  pc = "send" =>
    /\ i <= Len(list)
    /\ "m" \in argv.flags => pidfd # 0
    /\ pidfd # 0 => /\ fds > 0 /\ PidOf[pidfd] = list[i].num
                    /\ list[i].who \in running => pidfd = list[i].who

\* Only holders of the pids of matches already passed have been signalled.
SentPassed ==
  \A n \in DOMAIN signalled :
    \E j \in DOMAIN list : j < i /\ PidOf[signalled[n]] = list[j].num

\* The matches passed that still run have been signalled once.
SentOnce ==
  argv.prog = "pkill" =>
    \A k \in DOMAIN list :
      k < i /\ list[k].who \in running /\ Attr[list[k].who].mine =>
        Once(signalled, list[k].who)

\* All have been passed when pkill ends, unless -m gave up.
SentAll ==
  pc = "done" /\ argv.prog = "pkill" /\ "m" \notin argv.flags => i > Len(list)

SentOK == SentTyped /\ Pinned /\ SentPassed /\ SentOnce /\ SentAll

\* Whom pidwait watches and who has been reported; a descriptor is open for
\* each of them.
WaitOK ==
  /\ fds \in 0 .. MaxFd
  /\ polled \subseteq used /\ waited \subseteq polled /\ waited \cap running = {}
  /\ Cardinality(polled) <= fds /\ wait_count = Cardinality(waited)
  /\ argv.prog # "pidwait" => polled = {}
  /\ pc \in {"parse", "scan"} => polled = {}
  /\ pc = "done" /\ argv.prog = "pidwait" => waited = polled

IInv ==
  /\ KernelOK /\ StageOK /\ MatchesOK /\ NameIsOwn
  /\ pc = "scan" /\ "A" \notin argv.flags => ancestors = {}
  /\ SelectionRight /\ SavedOK /\ SentOK /\ WaitOK /\ StatusRight

--------------------------------------------------------------------------------
(* Sets of at most one process.                                             *)

\* The member of a set of one.
LEMMA OnlyOfOne == Only({}) = 0 /\ \A p : Only({p}) = p
<1>1. Only({}) = 0
  BY DEF Only
<1>2. ASSUME NEW p PROVE Only({p}) = p
  <2>1. (CHOOSE q \in {p} : TRUE) = p
    OBVIOUS
  <2>2. {p} # {}
    OBVIOUS
  <2> QED BY <2>1, <2>2 DEF Only
<1> QED BY <1>1, <1>2

\* pkill's history of signals grows by nobody or by the one who was hit.
LEMMA SeqOfOne == SetToSeq({}) = <<>> /\ \A p : SetToSeq({p}) = <<p>>
<1>1. SetToSeq({}) = <<>>
  <2>1. Cardinality({}) = 0
    BY FS_EmptySet
  <2>2. SetToSeq({}) = CHOOSE f \in [1 .. 0 -> {}] : IsInjective(f)
    BY <2>1 DEF SetToSeq
  <2>3. <<>> \in [1 .. 0 -> {}] /\ IsInjective(<<>>)
    BY DEF IsInjective
  <2>4. \A f \in [1 .. 0 -> {}] : f = <<>>
    OBVIOUS
  <2> QED BY <2>2, <2>3, <2>4
<1>2. ASSUME NEW p PROVE SetToSeq({p}) = <<p>>
  <2>1. Cardinality({p}) = 1
    BY FS_Singleton
  <2>2. SetToSeq({p}) = CHOOSE f \in [1 .. 1 -> {p}] : IsInjective(f)
    BY <2>1 DEF SetToSeq
  <2>3. <<p>> \in [1 .. 1 -> {p}] /\ IsInjective(<<p>>)
    BY DEF IsInjective
  <2>4. ASSUME NEW f \in [1 .. 1 -> {p}] PROVE f = <<p>>
    <3>1. 1 \in 1 .. 1 /\ f[1] = p /\ <<p>>[1] = p
      OBVIOUS
    <3>2. <<p>> \in [1 .. 1 -> {p}]
      OBVIOUS
    <3> QED BY <3>1, <3>2
  <2> QED BY <2>2, <2>3, <2>4
<1> QED BY <1>1, <1>2

\* A pid has one holder at a time.
LEMMA OneHolder ==
  ASSUME KernelOK, NEW pid
  PROVE  Holder(pid) = {} \/ \E p \in running : PidOf[p] = pid /\ Holder(pid) = {p}
<1>1. CASE \E p \in running : PidOf[p] = pid
  <2>1. PICK p \in running : PidOf[p] = pid
    BY <1>1
  <2>2. \A q \in running : PidOf[q] = pid => q = p
    BY <2>1 DEF KernelOK
  <2>3. Holder(pid) = {p}
    BY <2>1, <2>2 DEF Holder
  <2> QED BY <2>1, <2>3
<1>2. CASE ~ \E p \in running : PidOf[p] = pid
  BY <1>2 DEF Holder
<1> QED BY <1>1, <1>2

\* A match that still runs is the holder of its pid.
LEMMA RunningMatch ==
  ASSUME KernelOK, MatchesOK, NEW k \in DOMAIN list, list[k].who \in running
  PROVE  Holder(list[k].num) = {list[k].who}
<1>1. list[k].num = PidOf[list[k].who]
  BY DEF MatchesOK
<1>2. \A q \in running : PidOf[q] = list[k].num => q = list[k].who
  BY <1>1 DEF KernelOK
<1> QED BY <1>1, <1>2 DEF Holder

\* pidfd_open takes a descriptor for one process or for nobody.
LEMMA OpenedOne ==
  ASSUME KernelOK, NEW pid, fds \in 0 .. MaxFd
  PROVE  /\ Opened(pid) = {} \/ (fds < MaxFd /\ \E p \in running : PidOf[p] = pid /\ Opened(pid) = {p})
         /\ Opened(pid) \subseteq Holder(pid)
         /\ IsFiniteSet(Opened(pid)) /\ Cardinality(Opened(pid)) \in 0 .. 1
         /\ fds + Cardinality(Opened(pid)) \in 0 .. MaxFd
<1> MaxFd \in Nat
  BY PgrepAssumption
<1>1. Opened(pid) = {} \/ (fds < MaxFd /\ \E p \in running : PidOf[p] = pid /\ Opened(pid) = {p})
  BY OneHolder DEF Opened
<1>2. Opened(pid) \subseteq Holder(pid)
  BY DEF Opened
<1>3. CASE Opened(pid) = {}
  <2>1. IsFiniteSet(Opened(pid)) /\ Cardinality(Opened(pid)) = 0
    BY <1>3, FS_EmptySet
  <2> QED BY <1>1, <1>2, <2>1
<1>4. CASE fds < MaxFd /\ \E p \in running : PidOf[p] = pid /\ Opened(pid) = {p}
  <2>1. IsFiniteSet(Opened(pid)) /\ Cardinality(Opened(pid)) = 1
    BY <1>4, FS_Singleton
  <2> QED BY <1>1, <1>2, <1>4, <2>1
<1> QED BY <1>1, <1>3, <1>4
--------------------------------------------------------------------------------
(* The first state, the kernel, and the stages of the program.              *)

\* Of -n, -o and -v one may be given.
LEMMA NoConflict ==
  ASSUME NEW flags, ~Conflict(flags)
  PROVE  \A a, b \in {"n", "o", "v"} : a \in flags /\ b \in flags => a = b
<1> SUFFICES ASSUME NEW a \in {"n", "o", "v"}, NEW b \in {"n", "o", "v"},
                    a \in flags, b \in flags, a # b
             PROVE  FALSE
  OBVIOUS
<1>1. IsFiniteSet({"n", "o", "v"})
  <2>1. IsFiniteSet({"n"} \cup {"o"})
    BY FS_Singleton, FS_AddElement
  <2>2. IsFiniteSet(({"n"} \cup {"o"}) \cup {"v"})
    BY <2>1, FS_AddElement
  <2>3. {"n", "o", "v"} = ({"n"} \cup {"o"}) \cup {"v"}
    OBVIOUS
  <2> QED BY <2>2, <2>3
<1>2. IsFiniteSet(flags \cap {"n", "o", "v"})
  BY <1>1, FS_Subset
<1>3. IsFiniteSet({a}) /\ Cardinality({a}) = 1
  BY FS_Singleton
<1>4. Cardinality({a} \cup {b}) = 2
  BY <1>3, FS_AddElement
<1>5. {a} \cup {b} \in SUBSET (flags \cap {"n", "o", "v"})
  OBVIOUS
<1>6. Cardinality({a} \cup {b}) <= Cardinality(flags \cap {"n", "o", "v"})
  BY <1>2, <1>5, FS_Subset
<1>7. Cardinality(flags \cap {"n", "o", "v"}) \in Nat
  BY <1>2, FS_CardinalityType
<1> QED BY <1>4, <1>6, <1>7 DEF Conflict

\* The invariant holds before the options are read.
LEMMA Initially == Init => IInv
<1> SUFFICES ASSUME Init PROVE IInv
  OBVIOUS
<1> USE PgrepAssumption DEF Init
<1>1. KernelOK
  BY DEF KernelOK
<1>2. StageOK
  BY DEF StageOK
<1>3. MatchesOK
  <2>1. list \in Seq(Match)
    OBVIOUS
  <2> QED BY <2>1 DEF MatchesOK
<1>4. NameIsOwn /\ SelectionRight /\ SavedOK
  BY DEF NameIsOwn, SelectionRight, SavedOK
<1>5. SentOK
  BY DEF SentOK, SentTyped, Pinned, SentPassed, SentOnce, SentAll
<1>6. WaitOK
  BY FS_EmptySet DEF WaitOK
<1>7. StatusRight
  BY DEF StatusRight
<1> QED BY <1>1, <1>2, <1>3, <1>4, <1>5, <1>6, <1>7 DEF IInv

\* Nothing happens once the program has ended.
LEMMA DoneIsLast ==
  ASSUME [Next]_vars, pc = "done"
  PROVE  UNCHANGED vars
BY DEF Next, Kernel, Program, parse_opts, select_procs, select_procs_end, output,
       pkill_open, pkill_send, pkill_end, pidwait_open, pidwait_wait, pidwait_end

\* The kernel alone changes who runs; nobody who has exited runs again.
LEMMA KernelKept ==
  ASSUME IInv, [Next]_vars
  PROVE  /\ KernelOK'
         /\ used \subseteq used'
         /\ running' \cap used \subseteq running
<1> USE PgrepAssumption DEF IInv, KernelOK
<1>1. ASSUME NEW p \in Proc, Exit(p)
      PROVE  KernelOK' /\ used \subseteq used' /\ running' \cap used \subseteq running
  BY <1>1 DEF Exit
<1>2. ASSUME NEW p \in Proc, Start(p)
      PROVE  KernelOK' /\ used \subseteq used' /\ running' \cap used \subseteq running
  BY <1>2 DEF Start
<1>3. ASSUME UNCHANGED kernel
      PROVE  KernelOK' /\ used \subseteq used' /\ running' \cap used \subseteq running
  BY <1>3 DEF kernel
<1>4. Program => UNCHANGED kernel
  BY DEF Program, parse_opts, select_procs, select_procs_end, output,
         pkill_open, pkill_send, pkill_end, pidwait_open, pidwait_wait, pidwait_end
<1>5. UNCHANGED vars => UNCHANGED kernel
  BY DEF vars
<1> QED BY <1>1, <1>2, <1>3, <1>4, <1>5 DEF Next, Kernel

\* A step of the kernel is no step of the program.
LEMMA KernelApart ==
  ASSUME Kernel \/ UNCHANGED vars
  PROVE  UNCHANGED <<argv, pc, scan, signals, status>>
BY DEF Kernel, Exit, Start, vars
\* The options either end the program, for want of a pid in the pid file with
\* a failure and otherwise with the status for wrong use or for a reference
\* process that cannot be, or let it scan.
LEMMA ParseOutcome ==
  ASSUME parse_opts
  PROVE  /\ pc = "parse"
         /\ \/ pc' = "done" /\ status' \in {EXIT_USAGE, EXIT_FATAL}
            \/ pc' = "done" /\ status' = EXIT_FAILURE /\ argv.pidfile # NOFILE
            \/ pc' = "scan" /\ status' = status /\ ~Conflict(argv.flags)
BY DEF parse_opts, exit

\* The stages follow each other as in main.
LEMMA StageKept ==
  ASSUME IInv, [Next]_vars
  PROVE  StageOK'
<1> USE DEF IInv, StageOK, EXIT_FAILURE, EXIT_USAGE, EXIT_FATAL
<1>1. CASE Kernel \/ UNCHANGED vars
  BY <1>1, KernelApart DEF signals, Conflict
<1>2. CASE parse_opts
  <2>1. argv' = argv /\ mrelease_failed' = mrelease_failed
    BY <1>2 DEF parse_opts, signals
  <2> QED BY <1>2, <2>1, ParseOutcome DEF Conflict
<1>3. ASSUME NEW p \in Proc, select_procs(p) PROVE StageOK'
  BY <1>3 DEF select_procs, signals, Conflict
<1>4. CASE select_procs_end
  BY <1>4 DEF select_procs_end, signals, Conflict
<1>5. CASE output
  BY <1>5 DEF output, exit, Status, signals
<1>6. CASE pkill_open
  BY <1>6 DEF pkill_open, exit
<1>7. CASE pkill_send
  <2>1. mrelease_failed' \in BOOLEAN /\ (mrelease_failed' => "m" \in argv.flags)
    BY <1>7 DEF pkill_send
  <2> QED BY <1>7, <2>1 DEF pkill_send
<1>8. CASE pkill_end
  BY <1>8 DEF pkill_end, exit, Status, signals
<1>9. CASE pidwait_open
  BY <1>9 DEF pidwait_open
<1>10. ASSUME NEW events \in SUBSET Proc, pidwait_wait(events) PROVE StageOK'
  BY <1>10 DEF pidwait_wait
<1>11. CASE pidwait_end
  BY <1>11 DEF pidwait_end, exit, Status, signals
<1> QED BY <1>1, <1>2, <1>3, <1>4, <1>5, <1>6, <1>7, <1>8, <1>9, <1>10, <1>11
        DEF Next, Program

\* Only the scan changes the list; no step leads back to it or to the options.
LEMMA ListFixed ==
  ASSUME IInv, [Next]_vars
  PROVE  \/ parse_opts
         \/ \E p \in Proc : select_procs(p)
         \/ /\ UNCHANGED <<argv, scan>>
            /\ pc' \in {"parse", "scan"} => pc' = pc
<1>1. CASE Kernel \/ UNCHANGED vars
  BY <1>1, KernelApart
<1>2. CASE select_procs_end
  BY <1>2 DEF select_procs_end, IInv, StageOK
<1>3. CASE output \/ pkill_open \/ pkill_send \/ pkill_end
  BY <1>3 DEF output, pkill_open, pkill_send, pkill_end, exit
<1>4. CASE pidwait_open \/ (\E events \in SUBSET Proc : pidwait_wait(events)) \/ pidwait_end
  BY <1>4 DEF pidwait_open, pidwait_wait, pidwait_end, exit
<1> QED BY <1>1, <1>2, <1>3, <1>4 DEF Next, Program
--------------------------------------------------------------------------------
(* The list of matches.                                                     *)

Ignored(p) == p = Self \/ ("A" \in argv.flags /\ PidOf[p] \in ancestors)

One == argv.flags \cap {"n", "o"} # {}

Chosen(p) == ~Ignored(p) /\ Wanted(p) /\ NotBehind(p) /\ WinsTie(p)

Elem(p) == [num |-> PidOf[p], str |-> IF Copies(p) THEN p ELSE cmdoutput, who |-> p]

\* What a turn of the loop does with a process it takes.
Taken(p) ==
  /\ list' = IF One THEN <<Elem(p)>> ELSE Append(list, Elem(p))
  /\ saved_start' = IF One THEN Attr[p].start ELSE saved_start
  /\ saved_pid' = IF One THEN PidOf[p] ELSE saved_pid

\* A turn of the loop, in these words.
LEMMA Turn ==
  ASSUME NEW p \in Proc, select_procs(p)
  PROVE  /\ pc = "scan" /\ pc' = pc /\ InScan(p)
         /\ UNCHANGED <<running, used, argv, lists, ancestors, nsp, signals, status>>
         /\ pos' = PidOf[p] /\ read' = read \cup {p}
         /\ cmdoutput' \in {p, cmdoutput}
         /\ Chosen(p) => Taken(p)
         /\ ~Chosen(p) => UNCHANGED <<list, saved_start, saved_pid>>
<1>1. /\ pc = "scan" /\ pc' = pc /\ InScan(p)
      /\ UNCHANGED <<running, used, argv, lists, ancestors, nsp, signals, status>>
      /\ pos' = PidOf[p] /\ read' = read \cup {p}
  BY DEF select_procs, kernel
<1>2. CASE Ignored(p)
  <2>1. UNCHANGED <<cmdoutput, list, saved_start, saved_pid>>
    BY <1>2 DEF select_procs, Ignored
  <2>2. ~Chosen(p)
    BY <1>2 DEF Chosen
  <2> QED BY <1>1, <2>1, <2>2
<1>3. CASE ~Ignored(p)
  <2>1. cmdoutput' = IF Copies(p) THEN p ELSE cmdoutput
    BY <1>3 DEF select_procs, Ignored
  <2>2. CASE Wanted(p) /\ NotBehind(p) /\ WinsTie(p)
    <3>1. Taken(p)
      BY <1>3, <2>2 DEF select_procs, Ignored, Taken, Elem, One
    <3>2. Chosen(p)
      BY <1>3, <2>2 DEF Chosen
    <3> QED BY <1>1, <2>1, <3>1, <3>2
  <2>3. CASE ~(Wanted(p) /\ NotBehind(p) /\ WinsTie(p))
    <3>1. UNCHANGED <<list, saved_start, saved_pid>>
      BY <1>3, <2>3 DEF select_procs, Ignored
    <3>2. ~Chosen(p)
      BY <2>3 DEF Chosen
    <3> QED BY <1>1, <2>1, <3>1, <3>2
  <2> QED BY <2>2, <2>3
<1> QED BY <1>2, <1>3

\* The process a turn reads runs and has a pid beyond all that were read.
LEMMA NewInScan ==
  ASSUME KernelOK, MatchesOK, NEW p \in Proc, InScan(p)
  PROVE  /\ p \in used /\ p \notin read
         /\ PidOf[p] \in Nat /\ PidOf[p] > pos
         /\ \A q \in read : PidOf[q] \in Nat /\ PidOf[q] < PidOf[p]
         /\ \A k \in DOMAIN list : list[k].num < PidOf[p]
<1>1. \A q \in Proc : PidOf[q] \in Nat
  BY PgrepAssumption
<1>2. p \in used /\ PidOf[p] > pos /\ pos \in Nat
  BY DEF KernelOK, MatchesOK, InScan
<1>3. \A q \in read : PidOf[q] \in Nat /\ PidOf[q] <= pos
  BY <1>1 DEF KernelOK, MatchesOK
<1>4. \A q \in read : PidOf[q] < PidOf[p]
  BY <1>1, <1>2, <1>3
<1>5. \A k \in DOMAIN list : list[k].num < PidOf[p]
  BY <1>4 DEF MatchesOK
<1> QED BY <1>1, <1>2, <1>3, <1>4, <1>5

\* Members of a list that a match was added to.
LEMMA Added ==
  ASSUME NEW S, NEW l \in Seq(S), NEW e \in S
  PROVE  /\ Append(l, e) \in Seq(S) /\ DOMAIN Append(l, e) = 1 .. Len(l) + 1
         /\ Len(Append(l, e)) = Len(l) + 1
         /\ Append(l, e)[Len(l) + 1] = e
         /\ \A k \in DOMAIN l : Append(l, e)[k] = l[k]
         /\ DOMAIN l = 1 .. Len(l) /\ Len(l) \in Nat
OBVIOUS

\* A list of one match.
LEMMA Single ==
  ASSUME NEW S, NEW e \in S
  PROVE  <<e>> \in Seq(S) /\ DOMAIN <<e>> = {1} /\ Len(<<e>>) = 1 /\ <<e>>[1] = e
OBVIOUS
\* A taken process gives a well-formed match.
LEMMA ElemOK ==
  ASSUME MatchesOK, NEW p \in Proc, PidOf[p] \in Nat
  PROVE  /\ Elem(p) \in Match /\ Elem(p).num = PidOf[p] /\ Elem(p).who = p
         /\ Copies(p) => Elem(p).str = p
<1>1. cmdoutput \in Proc \cup {0}
  BY DEF MatchesOK
<1>2. (IF Copies(p) THEN p ELSE cmdoutput) \in Proc \cup {0}
  BY <1>1
<1> QED BY <1>2 DEF Elem, Match

\* The list after a turn: the matches it had, and the new one, or that alone.
LEMMA ListAfterTurn ==
  ASSUME IInv, NEW p \in Proc, select_procs(p)
  PROVE  /\ list' \in Seq(Match)
         /\ \A k \in DOMAIN list' :
              \/ k \in DOMAIN list /\ list'[k] = list[k]
              \/ Chosen(p) /\ list'[k] = Elem(p) /\ (One \/ k = Len(list) + 1)
         /\ One /\ Chosen(p) => DOMAIN list' = {1}
<1>1. MatchesOK /\ KernelOK
  BY DEF IInv
<1>2. PidOf[p] \in Nat
  BY <1>1, Turn, NewInScan
<1>3. Elem(p) \in Match
  BY <1>1, <1>2, ElemOK
<1>4. list \in Seq(Match)
  BY <1>1 DEF MatchesOK
<1>5. CASE ~Chosen(p)
  BY <1>4, <1>5, Turn
<1>6. CASE Chosen(p) /\ One
  <2>1. list' = <<Elem(p)>>
    BY <1>6, Turn DEF Taken
  <2>2. list' \in Seq(Match) /\ DOMAIN list' = {1} /\ list'[1] = Elem(p)
    BY <1>3, <2>1, Single
  <2> QED BY <1>6, <2>2
<1>7. CASE Chosen(p) /\ ~One
  <2>1. list' = Append(list, Elem(p))
    BY <1>7, Turn DEF Taken
  <2>2. /\ list' \in Seq(Match) /\ DOMAIN list' = 1 .. Len(list) + 1
        /\ list'[Len(list) + 1] = Elem(p) /\ \A k \in DOMAIN list : list'[k] = list[k]
        /\ DOMAIN list = 1 .. Len(list) /\ Len(list) \in Nat
    BY <1>3, <1>4, <2>1, Added
  <2>3. \A k \in 1 .. Len(list) + 1 : k \in 1 .. Len(list) \/ k = Len(list) + 1
    BY <2>2
  <2> QED BY <1>7, <2>2, <2>3
<1> QED BY <1>5, <1>6, <1>7

\* Matches are processes that were read, one for each pid.
LEMMA ListKept ==
  ASSUME IInv, [Next]_vars
  PROVE  MatchesOK'
<1>1. MatchesOK /\ KernelOK /\ used \subseteq used'
  BY KernelKept DEF IInv
<1>2. CASE parse_opts
  <2>1. /\ UNCHANGED <<pos, cmdoutput, list, read>>
        /\ pc' # "parse"
    BY <1>2, ParseOutcome DEF parse_opts
  <2> QED BY <1>1, <2>1 DEF MatchesOK
<1>3. ASSUME NEW p \in Proc, select_procs(p) PROVE MatchesOK'
  <2>1. /\ p \in used /\ PidOf[p] \in Nat /\ PidOf[p] > pos
        /\ \A q \in read : PidOf[q] \in Nat /\ PidOf[q] < PidOf[p]
        /\ \A k \in DOMAIN list : list[k].num < PidOf[p]
    BY <1>1, <1>3, Turn, NewInScan
  <2>2. Elem(p).num = PidOf[p] /\ Elem(p).who = p
    BY <1>1, <2>1, ElemOK
  <2>3. /\ pos' = PidOf[p] /\ read' = read \cup {p} /\ cmdoutput' \in {p, cmdoutput}
        /\ pc' = "scan" /\ used' = used
    BY <1>3, Turn
  <2>4. pos' \in Nat /\ cmdoutput' \in Proc \cup {0}
    BY <1>1, <2>1, <2>3 DEF MatchesOK
  <2>5. read' \subseteq used' /\ \A q \in read' : PidOf[q] <= pos'
    BY <1>1, <2>1, <2>3 DEF MatchesOK
  <2>6. list' \in Seq(Match)
    BY <1>3, ListAfterTurn
  <2>7. \A k \in DOMAIN list' : list'[k].who \in read' /\ list'[k].num = PidOf[list'[k].who]
    BY <1>1, <1>3, <2>2, <2>3, ListAfterTurn DEF MatchesOK
  <2>8. ASSUME NEW j \in DOMAIN list', NEW k \in DOMAIN list', list'[j].num = list'[k].num
        PROVE  j = k
    <3>1. \A n \in DOMAIN list' :
            \/ n \in DOMAIN list /\ list'[n] = list[n]
            \/ Chosen(p) /\ list'[n] = Elem(p) /\ (One \/ n = Len(list) + 1)
      BY <1>3, ListAfterTurn
    <3>2. CASE One /\ Chosen(p)
      BY <1>3, <3>2, ListAfterTurn
    <3>3. CASE ~(One /\ Chosen(p))
      <4>1. \A n \in DOMAIN list : list[n].num \in Nat
        BY <1>1, <2>1 DEF MatchesOK
      <4>2. \A n \in DOMAIN list' :
              \/ n \in DOMAIN list /\ list'[n].num = list[n].num
              \/ n = Len(list) + 1 /\ list'[n].num = PidOf[p]
        BY <2>2, <3>1, <3>3
      <4>3. CASE j \in DOMAIN list /\ list'[j].num = list[j].num
        <5>1. list'[k].num # PidOf[p]
          BY <2>1, <2>8, <4>1, <4>3
        <5>2. k \in DOMAIN list /\ list'[k].num = list[k].num
          BY <4>2, <5>1
        <5> QED BY <1>1, <2>8, <4>3, <5>2 DEF MatchesOK
      <4>4. CASE j = Len(list) + 1 /\ list'[j].num = PidOf[p]
        <5>1. ~(k \in DOMAIN list /\ list'[k].num = list[k].num)
          BY <2>1, <2>8, <4>1, <4>4
        <5> QED BY <4>2, <4>4, <5>1
      <4> QED BY <4>2, <4>3, <4>4
    <3> QED BY <3>2, <3>3
  <2> QED BY <2>3, <2>4, <2>5, <2>6, <2>7, <2>8 DEF MatchesOK
<1>4. CASE UNCHANGED <<argv, scan>> /\ (pc' \in {"parse", "scan"} => pc' = pc)
  <2>1. UNCHANGED <<pos, cmdoutput, list, read>> /\ (pc' = "parse" => pc = "parse")
    BY <1>4 DEF scan
  <2> QED BY <1>1, <2>1 DEF MatchesOK
<1> QED BY <1>2, <1>3, <1>4, ListFixed

\* A match keeps its own name.
LEMMA NameKept ==
  ASSUME IInv, [Next]_vars
  PROVE  NameIsOwn'
<1>1. MatchesOK /\ KernelOK /\ NameIsOwn
  BY DEF IInv
<1>2. CASE parse_opts
  BY <1>1, <1>2 DEF parse_opts, NameIsOwn
<1>3. ASSUME NEW p \in Proc, select_procs(p) PROVE NameIsOwn'
  <2>1. SUFFICES ASSUME argv.flags \cap {"l", "a", "Q"} # {}
                          \/ (argv.patterns = 1 /\ "v" \notin argv.flags),
                        NEW k \in DOMAIN list'
                 PROVE  list'[k].str = list'[k].who
    <3>1. argv' = argv
      BY <1>3, Turn
    <3> QED BY <3>1 DEF NameIsOwn
  <2>2. CASE k \in DOMAIN list /\ list'[k] = list[k]
    BY <1>1, <2>1, <2>2 DEF NameIsOwn
  <2>3. CASE Chosen(p) /\ list'[k] = Elem(p)
    <3>1. Copies(p)
      BY <2>1, <2>3 DEF Copies, Chosen, Wanted
    <3>2. PidOf[p] \in Nat
      BY <1>1, <1>3, Turn, NewInScan
    <3> QED BY <1>1, <2>3, <3>1, <3>2, ElemOK
  <2> QED BY <1>3, <2>2, <2>3, ListAfterTurn
<1>4. CASE UNCHANGED <<argv, scan>>
  BY <1>1, <1>4 DEF NameIsOwn, scan
<1> QED BY <1>2, <1>3, <1>4, ListFixed

\* Without -A nobody is left out as an ancestor.
LEMMA AncestorsKept ==
  ASSUME IInv, [Next]_vars
  PROVE  (pc = "scan" /\ "A" \notin argv.flags => ancestors = {})'
<1>1. pc = "scan" /\ "A" \notin argv.flags => ancestors = {}
  BY DEF IInv
<1>2. CASE parse_opts
  BY <1>2 DEF parse_opts
<1>3. ASSUME NEW p \in Proc, select_procs(p)
      PROVE  (pc = "scan" /\ "A" \notin argv.flags => ancestors = {})'
  BY <1>1, <1>3, Turn
<1>4. CASE UNCHANGED <<argv, scan>> /\ (pc' \in {"parse", "scan"} => pc' = pc)
  BY <1>1, <1>4 DEF scan
<1> QED BY <1>2, <1>3, <1>4, ListFixed
--------------------------------------------------------------------------------
(* The selection is the one asked for.                                      *)

Who == {list[k].who : k \in DOMAIN list}

NewestOf(C) == {p \in C : \A q \in C : Later(p, q)}

OldestOf(C) == {p \in C : \A q \in C : Later(q, p)}

Newest == NewestOf(Candidates)

Oldest == OldestOf(Candidates)

\* What SelectionRight says of the three kinds of command lines.
LEMMA SelectionCases ==
  ASSUME ~("n" \in argv.flags /\ "o" \in argv.flags)
  PROVE  SelectionRight <=>
           (pc = "scan" => /\ Len(list) = Cardinality(Who)
                           /\ "n" \in argv.flags => Who = Newest
                           /\ "o" \in argv.flags => Who = Oldest
                           /\ ~One => Who = Candidates)
<1>1. One <=> "n" \in argv.flags \/ "o" \in argv.flags
  BY DEF One
<1>2. CASE "n" \in argv.flags
  BY <1>1, <1>2 DEF SelectionRight, Who, Newest, NewestOf
<1>3. CASE "o" \in argv.flags
  BY <1>1, <1>3 DEF SelectionRight, Who, Oldest, OldestOf
<1>4. CASE "n" \notin argv.flags /\ "o" \notin argv.flags
  BY <1>1, <1>4 DEF SelectionRight, Who
<1> QED BY <1>2, <1>3, <1>4

\* What a process is asked for does not change while the scan goes on.
LEMMA WantedFixed ==
  ASSUME UNCHANGED <<argv, lists, nsp>>, NEW p
  PROVE  Wanted(p)' <=> Wanted(p)
BY DEF Wanted, Criteria, Regex, match_ns, match_runstates

\* A turn adds the process to the candidates if the options ask for it.
LEMMA CandidatesAfterTurn ==
  ASSUME IInv, NEW p \in Proc, select_procs(p)
  PROVE  /\ ~Ignored(p) /\ Wanted(p) => Candidates' = Candidates \cup {p}
         /\ ~(~Ignored(p) /\ Wanted(p)) => Candidates' = Candidates
<1>1. /\ pc = "scan" /\ read' = read \cup {p}
      /\ UNCHANGED <<argv, lists, nsp, ancestors>>
  BY Turn
<1>2. \A q : Wanted(q)' <=> Wanted(q)
  BY <1>1, WantedFixed
<1>3. Ignored(p) <=> p = Self \/ PidOf[p] \in ancestors
  BY <1>1 DEF IInv, Ignored
<1>4. Candidates' = {q \in (read \cup {p}) \ {Self} : Wanted(q) /\ PidOf[q] \notin ancestors}
  BY <1>1, <1>2 DEF Candidates
<1> QED BY <1>3, <1>4 DEF Candidates

\* Candidates have been read, so they are known processes with smaller pids.
LEMMA CandidatesRead ==
  ASSUME IInv
  PROVE  /\ Candidates \subseteq read /\ read \subseteq Proc
         /\ \A q \in Proc : PidOf[q] \in 1 .. INT_MAX /\ Attr[q].start \in 0 .. ULLONG_MAX
         /\ INT_MAX \in Nat /\ ULLONG_MAX \in Nat
BY PgrepAssumption DEF IInv, MatchesOK, KernelOK, Candidates

\* Without -n and -o a turn keeps the list equal to the candidates.
LEMMA AllKept ==
  ASSUME IInv, NEW p \in Proc, select_procs(p), ~One
  PROVE  Who' = Candidates' /\ Len(list') = Cardinality(Who')
<1>1. ~("n" \in argv.flags /\ "o" \in argv.flags)
  BY DEF One
<1>2. pc = "scan" /\ SelectionRight
  BY Turn DEF IInv
<1>3. Who = Candidates /\ Len(list) = Cardinality(Who)
  BY <1>1, <1>2, SelectionCases
<1>4. Chosen(p) <=> ~Ignored(p) /\ Wanted(p)
  BY DEF Chosen, NotBehind, WinsTie, One
<1>5. CASE ~Chosen(p)
  <2>1. list' = list
    BY <1>5, Turn
  <2>2. Who' = Who
    BY <2>1 DEF Who
  <2> QED BY <1>3, <1>4, <1>5, <2>1, <2>2, CandidatesAfterTurn
<1>6. CASE Chosen(p)
  <2>1. MatchesOK /\ KernelOK
    BY DEF IInv
  <2>2. p \notin read /\ PidOf[p] \in Nat
    BY <2>1, Turn, NewInScan
  <2>3. Elem(p) \in Match /\ Elem(p).who = p /\ list \in Seq(Match)
    BY <2>1, <2>2, ElemOK DEF MatchesOK
  <2>4. list' = Append(list, Elem(p))
    BY <1>6, Turn DEF Taken
  <2>5. /\ DOMAIN list' = 1 .. Len(list) + 1 /\ Len(list') = Len(list) + 1
        /\ list'[Len(list) + 1] = Elem(p) /\ \A k \in DOMAIN list : list'[k] = list[k]
        /\ DOMAIN list = 1 .. Len(list) /\ Len(list) \in Nat
    BY <2>3, <2>4, Added
  <2>6. Who' = {list'[k].who : k \in DOMAIN list'}
    BY DEF Who
  <2>7. DOMAIN list' = DOMAIN list \cup {Len(list) + 1}
    BY <2>5
  <2>8. Who' = Who \cup {p}
    <3>1. Who' = {list'[k].who : k \in DOMAIN list} \cup {list'[Len(list) + 1].who}
      BY <2>6, <2>7
    <3>2. {list'[k].who : k \in DOMAIN list} = Who
      BY <2>5 DEF Who
    <3> QED BY <2>3, <2>5, <3>1, <3>2
  <2>9. p \notin Who /\ Who \subseteq Proc
    BY <1>3, <2>2, CandidatesRead
  <2>10. IsFiniteSet(Who)
    BY <2>9, PgrepAssumption, FS_Subset
  <2>11. Cardinality(Who') = Cardinality(Who) + 1
    BY <2>8, <2>9, <2>10, FS_AddElement
  <2> QED BY <1>3, <1>4, <1>6, <2>5, <2>8, <2>11, CandidatesAfterTurn
<1> QED BY <1>5, <1>6
\* Later is a total order of processes with different pids.
LEMMA LaterOrder ==
  ASSUME NEW p \in Proc, NEW q \in Proc, NEW r \in Proc
  PROVE  /\ Later(p, p)
         /\ Later(p, q) \/ Later(q, p)
         /\ Later(p, q) /\ Later(q, r) => Later(p, r)
         /\ PidOf[p] # PidOf[q] => ~(Later(p, q) /\ Later(q, p))
<1>1. /\ PidOf[p] \in Int /\ PidOf[q] \in Int /\ PidOf[r] \in Int
      /\ Attr[p].start \in Int /\ Attr[q].start \in Int /\ Attr[r].start \in Int
  BY PgrepAssumption
<1> QED BY <1>1 DEF Later

\* The newest of one process more.
LEMMA NewestOfMore ==
  ASSUME NEW C \in SUBSET Proc, NEW p \in Proc, NEW w \in C,
         NewestOf(C) = {w}, PidOf[p] # PidOf[w]
  PROVE  /\ Later(p, w) => NewestOf(C \cup {p}) = {p}
         /\ ~Later(p, w) => NewestOf(C \cup {p}) = {w}
<1>1. \A q \in C : Later(w, q)
  BY DEF NewestOf
<1>2. \A x \in C : (\A q \in C : Later(x, q)) => x = w
  BY DEF NewestOf
<1>3. CASE Later(p, w)
  <2>1. ~Later(w, p)
    BY <1>3, LaterOrder
  <2>2. \A q \in C \cup {p} : Later(p, q)
    BY <1>1, <1>3, LaterOrder
  <2>3. ASSUME NEW x \in C, Later(x, p) PROVE FALSE
    BY <1>1, <2>1, <2>3, LaterOrder
  <2> QED BY <1>3, <2>2, <2>3 DEF NewestOf
<1>4. CASE ~Later(p, w)
  <2>1. Later(w, p)
    BY <1>4, LaterOrder
  <2> QED BY <1>1, <1>2, <1>4, <2>1 DEF NewestOf
<1> QED BY <1>3, <1>4

\* The oldest of one process more.
LEMMA OldestOfMore ==
  ASSUME NEW C \in SUBSET Proc, NEW p \in Proc, NEW w \in C,
         OldestOf(C) = {w}, PidOf[p] # PidOf[w]
  PROVE  /\ Later(w, p) => OldestOf(C \cup {p}) = {p}
         /\ ~Later(w, p) => OldestOf(C \cup {p}) = {w}
<1>1. \A q \in C : Later(q, w)
  BY DEF OldestOf
<1>2. \A x \in C : (\A q \in C : Later(q, x)) => x = w
  BY DEF OldestOf
<1>3. CASE Later(w, p)
  <2>1. ~Later(p, w)
    BY <1>3, LaterOrder
  <2>2. \A q \in C \cup {p} : Later(q, p)
    BY <1>1, <1>3, LaterOrder
  <2>3. ASSUME NEW x \in C, Later(p, x) PROVE FALSE
    BY <1>1, <2>1, <2>3, LaterOrder
  <2> QED BY <1>3, <2>2, <2>3 DEF OldestOf
<1>4. CASE ~Later(w, p)
  <2>1. Later(p, w)
    BY <1>4, LaterOrder
  <2> QED BY <1>1, <1>2, <1>4, <2>1 DEF OldestOf
<1> QED BY <1>3, <1>4

\* One process is the newest and the oldest of itself.
LEMMA AloneIsBest ==
  ASSUME NEW p \in Proc
  PROVE  /\ NewestOf({} \cup {p}) = {p}
         /\ OldestOf({} \cup {p}) = {p}
BY LaterOrder DEF NewestOf, OldestOf

\* With -n or -o a turn takes the process exactly if it is ahead of the match.
LEMMA Ahead ==
  ASSUME IInv, pc = "scan", One, NEW p \in Proc, ~Ignored(p), Wanted(p),
         ~("n" \in argv.flags /\ "o" \in argv.flags)
  PROVE  /\ list = <<>> => Chosen(p)
         /\ list # <<>> /\ "n" \in argv.flags => (Chosen(p) <=> Later(p, list[1].who))
         /\ list # <<>> /\ "o" \in argv.flags => (Chosen(p) <=> Later(list[1].who, p))
<1>1. /\ PidOf[p] \in 1 .. INT_MAX /\ Attr[p].start \in 0 .. ULLONG_MAX
      /\ INT_MAX \in Nat /\ ULLONG_MAX \in Nat
  BY CandidatesRead
<1>2. Chosen(p) <=> NotBehind(p) /\ WinsTie(p)
  BY DEF Chosen
<1>3. "n" \in argv.flags \/ "o" \in argv.flags
  BY DEF One
<1>4. \/ /\ list = <<>>
         /\ saved_start = IF "n" \in argv.flags THEN 0 ELSE ULLONG_MAX
         /\ saved_pid = IF "o" \in argv.flags THEN INT_MAX ELSE 0
      \/ /\ Len(list) = 1 /\ list[1].who \in Candidates
         /\ saved_start = Attr[list[1].who].start
         /\ saved_pid = PidOf[list[1].who]
  BY DEF IInv, SavedOK, One
<1>5. CASE list = <<>>
  <2>1. Len(list) = 0
    BY <1>5
  <2>2. /\ saved_start = IF "n" \in argv.flags THEN 0 ELSE ULLONG_MAX
        /\ saved_pid = IF "o" \in argv.flags THEN INT_MAX ELSE 0
    BY <1>4, <2>1
  <2>3. CASE "n" \in argv.flags
    BY <1>1, <1>2, <1>5, <2>2, <2>3 DEF NotBehind, WinsTie
  <2>4. CASE "o" \in argv.flags
    BY <1>1, <1>2, <1>5, <2>2, <2>4 DEF NotBehind, WinsTie
  <2> QED BY <1>3, <2>3, <2>4, <1>5
<1>6. CASE list # <<>>
  <2>1. /\ list[1].who \in Proc /\ saved_start = Attr[list[1].who].start
        /\ saved_pid = PidOf[list[1].who]
    BY <1>4, <1>6, CandidatesRead
  <2>2. PidOf[list[1].who] \in Nat /\ Attr[list[1].who].start \in Nat
    BY <2>1, CandidatesRead
  <2>3. CASE "n" \in argv.flags
    BY <1>1, <1>2, <1>6, <2>1, <2>2, <2>3 DEF NotBehind, WinsTie, Later
  <2>4. CASE "o" \in argv.flags
    BY <1>1, <1>2, <1>6, <2>1, <2>2, <2>4 DEF NotBehind, WinsTie, Later
  <2> QED BY <1>3, <1>6, <2>3, <2>4
<1> QED BY <1>5, <1>6
\* What is to be shown of -n and -o after a turn.
BestOK ==
  /\ Len(list) = Cardinality(Who)
  /\ "n" \in argv.flags => Who = Newest
  /\ "o" \in argv.flags => Who = Oldest

\* The list is empty without candidates and holds their newest or oldest.
LEMMA MatchOfOne ==
  ASSUME IInv, pc = "scan", One, ~("n" \in argv.flags /\ "o" \in argv.flags)
  PROVE  \/ list = <<>> /\ Candidates = {}
         \/ /\ list # <<>> /\ Len(list) = 1 /\ DOMAIN list = {1}
            /\ list[1].who \in Candidates /\ Who = {list[1].who}
            /\ "n" \in argv.flags => Newest = {list[1].who}
            /\ "o" \in argv.flags => Oldest = {list[1].who}
<1>1. \/ list = <<>> /\ Candidates = {}
      \/ Len(list) = 1 /\ list[1].who \in Candidates
  BY DEF IInv, SavedOK, One
<1>2. CASE Len(list) = 1 /\ list[1].who \in Candidates
  <2>1. list \in Seq(Match)
    BY DEF IInv, MatchesOK
  <2>2. DOMAIN list = {1} /\ list # <<>>
    BY <1>2, <2>1
  <2>3. Who = {list[1].who}
    BY <2>2 DEF Who
  <2>4. SelectionRight
    BY DEF IInv
  <2>5. ("n" \in argv.flags => Who = Newest) /\ ("o" \in argv.flags => Who = Oldest)
    BY <2>4, SelectionCases
  <2> QED BY <1>2, <2>2, <2>3, <2>5
<1> QED BY <1>1, <1>2

\* With -n or -o a turn keeps the newest or oldest candidate.
LEMMA BestKept ==
  ASSUME IInv, NEW p \in Proc, select_procs(p), One,
         ~("n" \in argv.flags /\ "o" \in argv.flags)
  PROVE  BestOK' /\ SavedOK'
<1>1. pc = "scan" /\ pc' = "scan" /\ argv' = argv
  BY Turn
<1>2. MatchesOK /\ KernelOK
  BY DEF IInv
<1>3. p \notin read /\ PidOf[p] \in Nat /\ \A q \in read : PidOf[q] # PidOf[p]
  BY <1>2, Turn, NewInScan
<1>4. Candidates \in SUBSET Proc /\ \A q \in Candidates : PidOf[q] # PidOf[p]
  BY <1>3, CandidatesRead
<1>5. /\ Newest' = NewestOf(Candidates')
      /\ Oldest' = OldestOf(Candidates')
      /\ Newest = NewestOf(Candidates)
      /\ Oldest = OldestOf(Candidates)
  BY DEF Newest, Oldest, Later
<1>6. CASE Chosen(p)
  <2>1. Candidates' = Candidates \cup {p}
    BY <1>6, CandidatesAfterTurn DEF Chosen
  <2>2. list' = <<Elem(p)>> /\ saved_start' = Attr[p].start /\ saved_pid' = PidOf[p]
    BY <1>6, Turn DEF Taken
  <2>3. Elem(p) \in Match /\ Elem(p).who = p
    BY <1>2, <1>3, ElemOK
  <2>4. DOMAIN list' = {1} /\ Len(list') = 1 /\ list'[1].who = p
    BY <2>2, <2>3, Single
  <2>5. Who' = {p}
    BY <2>4 DEF Who
  <2>6. Cardinality(Who') = 1
    BY <2>5, FS_Singleton
  <2>7. SavedOK'
    BY <1>1, <2>1, <2>2, <2>4 DEF SavedOK
  <2>8. CASE Candidates = {}
    <3>1. Newest' = {p} /\ Oldest' = {p}
      BY <1>5, <2>1, <2>8, AloneIsBest
    <3> QED BY <2>4, <2>5, <2>6, <2>7, <3>1 DEF BestOK
  <2>9. CASE Candidates # {}
    <3>1. /\ list # <<>> /\ list[1].who \in Candidates
          /\ "n" \in argv.flags => Newest = {list[1].who}
          /\ "o" \in argv.flags => Oldest = {list[1].who}
      BY <1>1, <2>9, MatchOfOne
    <3>2. ~Ignored(p) /\ Wanted(p)
      BY <1>6 DEF Chosen
    <3>3. ASSUME "n" \in argv.flags PROVE Newest' = {p}
      <4>1. Later(p, list[1].who)
        BY <1>1, <1>6, <3>1, <3>2, <3>3, Ahead
      <4>2. NewestOf(Candidates) = {list[1].who}
        BY <1>5, <3>1, <3>3
      <4>3. NewestOf(Candidates \cup {p}) = {p}
        BY <1>4, <3>1, <4>1, <4>2, NewestOfMore
      <4> QED BY <1>5, <2>1, <4>3
    <3>4. ASSUME "o" \in argv.flags PROVE Oldest' = {p}
      <4>1. Later(list[1].who, p)
        BY <1>1, <1>6, <3>1, <3>2, <3>4, Ahead
      <4>2. OldestOf(Candidates) = {list[1].who}
        BY <1>5, <3>1, <3>4
      <4>3. OldestOf(Candidates \cup {p}) = {p}
        BY <1>4, <3>1, <4>1, <4>2, OldestOfMore
      <4> QED BY <1>5, <2>1, <4>3
    <3> QED BY <1>1, <2>4, <2>5, <2>6, <2>7, <3>3, <3>4 DEF BestOK
  <2> QED BY <2>8, <2>9
<1>7. CASE ~Chosen(p)
  <2>1. UNCHANGED <<list, saved_start, saved_pid>>
    BY <1>7, Turn
  <2>2. Who' = Who
    BY <2>1 DEF Who
  <2>3. SelectionRight /\ SavedOK
    BY DEF IInv
  <2>4. BestOK
    BY <1>1, <2>3, SelectionCases DEF BestOK
  <2>5. CASE ~(~Ignored(p) /\ Wanted(p))
    <3>1. Candidates' = Candidates
      BY <2>5, CandidatesAfterTurn
    <3>2. Newest' = Newest /\ Oldest' = Oldest
      BY <1>5, <3>1
    <3>3. SavedOK'
      BY <1>1, <2>1, <2>3, <3>1 DEF SavedOK
    <3> QED BY <1>1, <2>1, <2>2, <2>4, <3>2, <3>3 DEF BestOK
  <2>6. CASE ~Ignored(p) /\ Wanted(p)
    <3>1. Candidates' = Candidates \cup {p}
      BY <2>6, CandidatesAfterTurn
    <3>2. list # <<>>
      BY <1>1, <1>7, <2>6, Ahead
    <3>3. /\ list[1].who \in Candidates /\ Len(list) = 1
          /\ "n" \in argv.flags => Newest = {list[1].who}
          /\ "o" \in argv.flags => Oldest = {list[1].who}
      BY <1>1, <3>2, MatchOfOne
    <3>4. ASSUME "n" \in argv.flags PROVE Newest' = Newest
      <4>1. ~Later(p, list[1].who)
        BY <1>1, <1>7, <2>6, <3>2, <3>4, Ahead
      <4>2. NewestOf(Candidates) = {list[1].who}
        BY <1>5, <3>3, <3>4
      <4>3. NewestOf(Candidates \cup {p}) = {list[1].who}
        BY <1>4, <3>3, <4>1, <4>2, NewestOfMore
      <4> QED BY <1>5, <3>1, <4>2, <4>3
    <3>5. ASSUME "o" \in argv.flags PROVE Oldest' = Oldest
      <4>1. ~Later(list[1].who, p)
        BY <1>1, <1>7, <2>6, <3>2, <3>5, Ahead
      <4>2. OldestOf(Candidates) = {list[1].who}
        BY <1>5, <3>3, <3>5
      <4>3. OldestOf(Candidates \cup {p}) = {list[1].who}
        BY <1>4, <3>3, <4>1, <4>2, OldestOfMore
      <4> QED BY <1>5, <3>1, <4>2, <4>3
    <3>6. saved_start = Attr[list[1].who].start /\ saved_pid = PidOf[list[1].who]
      BY <1>1, <2>3, <3>2 DEF SavedOK, One
    <3>7. SavedOK'
      BY <1>1, <2>1, <3>1, <3>3, <3>6 DEF SavedOK
    <3> QED BY <1>1, <2>1, <2>2, <2>4, <3>4, <3>5, <3>7 DEF BestOK
  <2> QED BY <2>5, <2>6
<1> QED BY <1>6, <1>7

\* The selection after any step.
LEMMA SelectionKept ==
  ASSUME IInv, [Next]_vars
  PROVE  SelectionRight' /\ SavedOK'
<1>1. StageOK /\ StageOK' /\ SelectionRight /\ SavedOK
  BY StageKept DEF IInv
<1>2. SUFFICES ASSUME pc' = "scan" PROVE SelectionRight' /\ SavedOK'
  BY DEF SelectionRight, SavedOK
<1>3. ~("n" \in argv'.flags /\ "o" \in argv'.flags)
  BY <1>1, <1>2, NoConflict DEF StageOK, Conflict
<1>4. SelectionRight' <=>
        /\ Len(list') = Cardinality(Who')
        /\ "n" \in argv'.flags => Who' = Newest'
        /\ "o" \in argv'.flags => Who' = Oldest'
        /\ ~One' => Who' = Candidates'
  <2>1. One' <=> "n" \in argv'.flags \/ "o" \in argv'.flags
    BY DEF One
  <2>2. CASE "n" \in argv'.flags
    BY <1>2, <1>3, <2>1, <2>2 DEF SelectionRight, Who, Newest, NewestOf
  <2>3. CASE "o" \in argv'.flags
    BY <1>2, <1>3, <2>1, <2>3 DEF SelectionRight, Who, Oldest, OldestOf
  <2>4. CASE "n" \notin argv'.flags /\ "o" \notin argv'.flags
    BY <1>2, <2>1, <2>4 DEF SelectionRight, Who
  <2> QED BY <2>2, <2>3, <2>4
<1>5. CASE parse_opts
  <2>1. read = {} /\ list = <<>>
    BY <1>5, ParseOutcome DEF IInv, MatchesOK
  <2>2. read' = {} /\ list' = <<>> /\ argv' = argv
    BY <1>5, <2>1 DEF parse_opts
  <2>3. Candidates' = {} /\ Who' = {}
    BY <2>2 DEF Candidates, Who
  <2>4. Newest' = {} /\ Oldest' = {}
    BY <2>3 DEF Newest, Oldest, NewestOf, OldestOf
  <2>5. Cardinality(Who') = 0
    BY <2>3, FS_EmptySet
  <2>6. /\ saved_start' = IF "n" \in argv'.flags THEN 0 ELSE ULLONG_MAX
        /\ saved_pid' = IF "o" \in argv'.flags THEN INT_MAX ELSE 0
    BY <1>5, <2>2 DEF parse_opts
  <2>7. SavedOK'
    BY <2>2, <2>3, <2>6 DEF SavedOK
  <2> QED BY <1>4, <2>2, <2>3, <2>4, <2>5, <2>7
<1>6. ASSUME NEW p \in Proc, select_procs(p) PROVE SelectionRight' /\ SavedOK'
  <2>1. argv' = argv /\ ~("n" \in argv.flags /\ "o" \in argv.flags)
    BY <1>3, <1>6, Turn
  <2>2. One' <=> One
    BY <2>1 DEF One
  <2>3. CASE One
    BY <1>4, <1>6, <2>1, <2>2, <2>3, BestKept DEF BestOK
  <2>4. CASE ~One
    <3>1. "n" \notin argv'.flags /\ "o" \notin argv'.flags
      BY <2>1, <2>4 DEF One
    <3>2. SavedOK'
      BY <3>1 DEF SavedOK
    <3> QED BY <1>4, <1>6, <2>4, <3>1, <3>2, AllKept
  <2> QED BY <2>3, <2>4
<1>7. CASE UNCHANGED <<argv, scan>> /\ (pc' \in {"parse", "scan"} => pc' = pc)
  <2>1. UNCHANGED <<argv, lists, ancestors, nsp, list, read, saved_start, saved_pid, pc>>
    BY <1>2, <1>7 DEF scan
  <2>2. \A q : Wanted(q)' <=> Wanted(q)
    BY <2>1, WantedFixed
  <2>3. Candidates' = Candidates
    BY <2>1, <2>2 DEF Candidates
  <2>4. SavedOK'
    BY <1>1, <2>1, <2>3 DEF SavedOK
  <2>5. Newest' = Newest /\ Oldest' = Oldest /\ Who' = Who
    BY <2>1, <2>3 DEF Newest, Oldest, Who, Later
  <2>6. /\ Len(list) = Cardinality(Who)
        /\ "n" \in argv.flags => Who = Newest
        /\ "o" \in argv.flags => Who = Oldest
        /\ ~One => Who = Candidates
    BY <1>1, <1>2, <1>3, <2>1, SelectionCases
  <2> QED BY <1>4, <2>1, <2>3, <2>4, <2>5, <2>6 DEF One
<1> QED BY <1>5, <1>6, <1>7, ListFixed
--------------------------------------------------------------------------------
(* pkill: every match that runs is signalled once.                          *)

\* Steps that neither signal nor open, of the program or of the kernel.
LEMMA SentIfQuiet ==
  ASSUME IInv, running' \cap used \subseteq running,
         UNCHANGED <<argv, list, i, pidfd, fds, signalled, kill_count>>,
         pc' = pc \/ pc' \in {"scan", "pgrep", "pkill", "pidwait"}
           \/ (pc' = "done" /\ (argv.prog = "pkill" => i > Len(list))),
         pc' \in {"parse", "scan"} => pc \in {"parse", "scan"}
  PROVE  SentOK'
<1>1. SentTyped /\ Pinned /\ SentPassed /\ SentOnce /\ SentAll /\ MatchesOK /\ KernelOK
  BY DEF IInv, SentOK
<1>2. \A k \in DOMAIN list : list[k].who \in running' => list[k].who \in running
  BY <1>1 DEF MatchesOK
<1>3. SentTyped'
  BY <1>1 DEF SentTyped
<1>4. Pinned'
  <2>1. SUFFICES ASSUME pc' = "send"
                 PROVE  /\ i <= Len(list)
                        /\ "m" \in argv.flags => pidfd # 0
                        /\ pidfd # 0 => /\ fds > 0 /\ PidOf[pidfd] = list[i].num
                                        /\ list[i].who \in running' => pidfd = list[i].who
    BY DEF Pinned
  <2>2. pc = "send" /\ i \in Nat \ {0} /\ i <= Len(list)
    BY <1>1, <2>1 DEF Pinned, SentTyped
  <2>3. list \in Seq(Match)
    BY <1>1 DEF MatchesOK
  <2>4. i \in DOMAIN list
    BY <2>2, <2>3
  <2> QED BY <1>1, <1>2, <2>2, <2>4 DEF Pinned
<1>5. SentPassed'
  BY <1>1 DEF SentPassed
<1>6. SentOnce'
  BY <1>1, <1>2 DEF SentOnce
<1>7. SentAll'
  BY <1>1 DEF SentAll
<1> QED BY <1>3, <1>4, <1>5, <1>6, <1>7 DEF SentOK

\* The match that is being signalled.
LEMMA CurrentMatch ==
  ASSUME IInv, i <= Len(list)
  PROVE  /\ i \in DOMAIN list /\ list[i].who \in used /\ list[i].who \in Proc
         /\ list[i].num = PidOf[list[i].who]
         /\ \A k \in DOMAIN list : list[k].num = list[i].num => k = i
<1>1. list \in Seq(Match) /\ i \in Nat \ {0}
  BY DEF IInv, MatchesOK, SentOK, SentTyped
<1>2. i \in DOMAIN list
  BY <1>1
<1> QED BY <1>2 DEF IInv, MatchesOK, KernelOK

\* pkill opens the match itself, unless that has gone.
LEMMA OpenKept ==
  ASSUME IInv, pkill_open
  PROVE  SentOK'
<1>1. SentTyped /\ Pinned /\ SentPassed /\ SentOnce /\ SentAll
  BY DEF IInv, SentOK
<1>2. KernelOK /\ MatchesOK /\ StageOK /\ WaitOK
  BY DEF IInv
<1>3. /\ pc = "pkill" /\ i <= Len(list)
      /\ UNCHANGED <<running, used, argv, list, i, kill_count, signalled>>
  BY DEF pkill_open, kernel, scan
<1>4. /\ i \in DOMAIN list /\ list[i].who \in used /\ list[i].who \in Proc
      /\ list[i].num = PidOf[list[i].who]
  BY <1>3, CurrentMatch
<1>5. fds \in 0 .. MaxFd /\ MaxFd \in Nat
  BY <1>2, PgrepAssumption DEF WaitOK
<1>6. /\ pidfd' = Only(Opened(list[i].num))
      /\ fds' = fds + Cardinality(Opened(list[i].num))
      /\ IF Opened(list[i].num) = {} /\ "m" \in argv.flags
           THEN pc' = "done" ELSE pc' = "send"
  BY DEF pkill_open, exit
<1>7. /\ pidfd' \in Proc \cup {0}
      /\ pidfd' # 0 => /\ fds' > 0 /\ PidOf[pidfd'] = list[i].num
                       /\ list[i].who \in running => pidfd' = list[i].who
      /\ pc' = "send" /\ "m" \in argv.flags => pidfd' # 0
  <2>1. CASE Opened(list[i].num) = {}
    BY <1>6, <2>1, OnlyOfOne
  <2>2. CASE Opened(list[i].num) # {}
    <3>1. PICK p \in running : PidOf[p] = list[i].num /\ Opened(list[i].num) = {p}
      BY <1>2, <1>5, <2>2, OpenedOne
    <3>2. pidfd' = p /\ p \in Proc /\ p # 0
      BY <1>2, <1>6, <3>1, OnlyOfOne, PgrepAssumption DEF KernelOK
    <3>3. Cardinality(Opened(list[i].num)) = 1
      BY <3>1, FS_Singleton
    <3>4. fds' > 0
      BY <1>5, <1>6, <3>3
    <3>5. list[i].who \in running => p = list[i].who
      BY <1>2, <1>4, <3>1 DEF KernelOK
    <3> QED BY <3>1, <3>2, <3>4, <3>5
  <2> QED BY <2>1, <2>2
<1>8. SentTyped'
  BY <1>1, <1>3, <1>6, <1>7 DEF SentTyped
<1>9. Pinned'
  BY <1>3, <1>7 DEF Pinned
<1>10. SentPassed'
  BY <1>1, <1>3 DEF SentPassed
<1>11. SentOnce'
  BY <1>1, <1>3 DEF SentOnce
<1>12. SentAll'
  BY <1>3, <1>6 DEF SentAll
<1> QED BY <1>8, <1>9, <1>10, <1>11, <1>12 DEF SentOK
\* A signal more: those who are others are as often there as before, and a
\* newcomer is there once.
LEMMA OnceMore ==
  ASSUME NEW sent \in Seq(Proc), NEW p \in Proc, NEW w \in Proc
  PROVE  /\ w # p /\ Once(sent, w) => Once(Append(sent, p), w)
         /\ (\A n \in DOMAIN sent : sent[n] # p) => Once(Append(sent, p), p)
<1>1. /\ DOMAIN Append(sent, p) = 1 .. Len(sent) + 1
      /\ Append(sent, p)[Len(sent) + 1] = p
      /\ \A k \in DOMAIN sent : Append(sent, p)[k] = sent[k]
      /\ DOMAIN sent = 1 .. Len(sent) /\ Len(sent) \in Nat
  BY Added
<1>2. DOMAIN Append(sent, p) = DOMAIN sent \cup {Len(sent) + 1}
  BY <1>1
<1>3. ASSUME w # p, Once(sent, w) PROVE Once(Append(sent, p), w)
  <2>1. PICK n \in DOMAIN sent :
          sent[n] = w /\ \A m \in DOMAIN sent : sent[m] = w => m = n
    BY <1>3 DEF Once
  <2>2. n \in DOMAIN Append(sent, p) /\ Append(sent, p)[n] = w
    BY <1>1, <1>2, <2>1
  <2>3. \A m \in DOMAIN Append(sent, p) : Append(sent, p)[m] = w => m = n
    BY <1>1, <1>2, <1>3, <2>1
  <2> QED BY <2>2, <2>3 DEF Once
<1>4. ASSUME \A n \in DOMAIN sent : sent[n] # p PROVE Once(Append(sent, p), p)
  <2>1. \A m \in DOMAIN Append(sent, p) : Append(sent, p)[m] = p => m = Len(sent) + 1
    BY <1>1, <1>2, <1>4
  <2>2. Len(sent) + 1 \in DOMAIN Append(sent, p)
    BY <1>2
  <2> QED BY <1>1, <2>1, <2>2 DEF Once
<1> QED BY <1>3, <1>4

\* Nobody is hit or one process that holds the pid of the match, and the match
\* itself if it still runs and may be signalled.
LEMMA WhoIsHit ==
  ASSUME IInv, pc = "send", NEW hit, hit = {p \in execute_kill : Attr[p].mine}
  PROVE  /\ hit = {} \/ \E p \in running : hit = {p} /\ PidOf[p] = list[i].num
         /\ list[i].who \in running /\ Attr[list[i].who].mine => hit = {list[i].who}
<1>1. KernelOK /\ MatchesOK
  BY DEF IInv
<1>2. /\ i <= Len(list)
      /\ pidfd # 0 => /\ PidOf[pidfd] = list[i].num
                      /\ list[i].who \in running => pidfd = list[i].who
  BY DEF IInv, SentOK, Pinned
<1>3. i \in DOMAIN list
  BY <1>2, CurrentMatch
<1>4. CASE pidfd # 0
  <2>1. hit = {p \in {pidfd} \cap running : Attr[p].mine}
    BY <1>4 DEF execute_kill
  <2> QED BY <1>2, <1>4, <2>1
<1>5. CASE pidfd = 0
  <2>1. hit = {p \in Holder(list[i].num) : Attr[p].mine}
    BY <1>5 DEF execute_kill
  <2>2. Holder(list[i].num) = {} \/
          \E p \in running : PidOf[p] = list[i].num /\ Holder(list[i].num) = {p}
    BY <1>1, OneHolder
  <2>3. list[i].who \in running => Holder(list[i].num) = {list[i].who}
    BY <1>1, <1>3, RunningMatch
  <2> QED BY <2>1, <2>2, <2>3
<1> QED BY <1>4, <1>5

\* What a send adds to the history: nothing, or the process hit.
LEMMA SentBy ==
  ASSUME IInv, pkill_send
  PROVE  /\ \/ signalled' = signalled /\ kill_count' = kill_count
            \/ \E p \in running : /\ PidOf[p] = list[i].num
                                  /\ signalled' = Append(signalled, p)
                                  /\ kill_count' = kill_count + 1
         /\ list[i].who \in running /\ Attr[list[i].who].mine =>
              signalled' = Append(signalled, list[i].who)
<1> DEFINE hit == {p \in execute_kill : Attr[p].mine}
<1>1. /\ pc = "send" /\ kill_count' = kill_count + Cardinality(hit)
      /\ signalled' = signalled \o SetToSeq(hit)
  BY DEF pkill_send
<1>2. signalled \in Seq(Proc) /\ kill_count \in Nat
  BY DEF IInv, SentOK, SentTyped
<1>3. /\ hit = {} \/ \E p \in running : hit = {p} /\ PidOf[p] = list[i].num
      /\ list[i].who \in running /\ Attr[list[i].who].mine => hit = {list[i].who}
  BY <1>1, WhoIsHit
<1> HIDE DEF hit
<1>4. CASE hit = {}
  <2>1. SetToSeq(hit) = <<>> /\ Cardinality(hit) = 0
    BY <1>4, SeqOfOne, FS_EmptySet
  <2>2. signalled' = signalled /\ kill_count' = kill_count
    BY <1>1, <1>2, <2>1
  <2> QED BY <1>3, <1>4, <2>2
<1>5. ASSUME NEW p \in running, hit = {p}, PidOf[p] = list[i].num
      PROVE  /\ signalled' = Append(signalled, p) /\ kill_count' = kill_count + 1
             /\ list[i].who \in running /\ Attr[list[i].who].mine => list[i].who = p
  <2>1. SetToSeq(hit) = <<p>> /\ Cardinality(hit) = 1
    BY <1>5, SeqOfOne, FS_Singleton
  <2>2. p \in Proc
    BY DEF IInv, KernelOK
  <2>3. signalled \o <<p>> = Append(signalled, p)
    BY <1>2, <2>2
  <2> QED BY <1>1, <1>3, <1>5, <2>1, <2>3
<1> QED BY <1>3, <1>4, <1>5

\* A send keeps everything about signals.
LEMMA SendKept ==
  ASSUME IInv, pkill_send
  PROVE  SentOK'
<1>1. SentTyped /\ Pinned /\ SentPassed /\ SentOnce /\ SentAll
  BY DEF IInv, SentOK
<1>2. KernelOK /\ MatchesOK /\ StageOK
  BY DEF IInv
<1>3. /\ pc = "send" /\ pc' = "pkill" /\ i' = i + 1 /\ pidfd' = 0
      /\ UNCHANGED <<running, argv, list>>
  BY DEF pkill_send, NextMatch, kernel, scan
<1>4. argv.prog = "pkill" /\ i <= Len(list)
  BY <1>1, <1>2, <1>3 DEF StageOK, Pinned
<1>5. /\ i \in DOMAIN list /\ list[i].who \in Proc /\ list[i].num = PidOf[list[i].who]
      /\ \A k \in DOMAIN list : list[k].num = list[i].num => k = i
  BY <1>4, CurrentMatch
<1>6. /\ DOMAIN list \subseteq Nat
      /\ \A k \in DOMAIN list : list[k].who \in Proc /\ list[k].num = PidOf[list[k].who]
  BY <1>2 DEF MatchesOK, KernelOK
<1>7. signalled \in Seq(Proc) /\ i \in Nat \ {0} /\ kill_count = Len(signalled)
  BY <1>1 DEF SentTyped
<1>8. \A p \in running : p \in Proc
  BY <1>2 DEF KernelOK
<1>9. SentTyped'
  BY <1>3, <1>4, <1>7, <1>8, SentBy DEF SentTyped
<1>10. SentPassed'
  <2>1. \A n \in DOMAIN signalled :
          \E j \in DOMAIN list : j < i + 1 /\ PidOf[signalled[n]] = list[j].num
    BY <1>1, <1>6, <1>7 DEF SentPassed
  <2>2. CASE signalled' = signalled
    BY <1>3, <2>1, <2>2 DEF SentPassed
  <2>3. ASSUME NEW p \in running, PidOf[p] = list[i].num, signalled' = Append(signalled, p)
        PROVE  SentPassed'
    <3>1. SUFFICES ASSUME NEW n \in DOMAIN signalled'
                   PROVE  \E j \in DOMAIN list : j < i + 1 /\ PidOf[signalled'[n]] = list[j].num
      BY <1>3 DEF SentPassed
    <3>2. /\ DOMAIN signalled' = 1 .. Len(signalled) + 1
          /\ signalled'[Len(signalled) + 1] = p
          /\ \A k \in DOMAIN signalled : signalled'[k] = signalled[k]
          /\ DOMAIN signalled = 1 .. Len(signalled) /\ Len(signalled) \in Nat
      BY <1>7, <1>8, <2>3, Added
    <3>3. CASE n \in DOMAIN signalled
      BY <2>1, <3>2, <3>3
    <3>4. CASE n = Len(signalled) + 1
      BY <1>5, <1>7, <2>3, <3>2, <3>4
    <3> QED BY <3>1, <3>2, <3>3, <3>4
  <2> QED BY <2>2, <2>3, SentBy
<1>11. SentOnce'
  <2>1. SUFFICES ASSUME NEW k \in DOMAIN list, k < i + 1,
                        list[k].who \in running, Attr[list[k].who].mine
                 PROVE  Once(signalled', list[k].who)
    BY <1>3 DEF SentOnce
  <2>2. CASE k = i
    <3>1. signalled' = Append(signalled, list[i].who)
      BY <2>1, <2>2, SentBy
    <3>2. ASSUME NEW n \in DOMAIN signalled, signalled[n] = list[i].who PROVE FALSE
      <4>1. PICK j \in DOMAIN list : j < i /\ PidOf[signalled[n]] = list[j].num
        BY <1>1 DEF SentPassed
      <4>2. j = i
        BY <1>5, <3>2, <4>1
      <4> QED BY <1>7, <4>1, <4>2
    <3> QED BY <1>5, <1>7, <2>2, <3>1, <3>2, OnceMore
  <2>3. CASE k # i
    <3>1. k < i
      BY <1>6, <1>7, <2>1, <2>3
    <3>2. Once(signalled, list[k].who)
      BY <1>1, <1>4, <2>1, <3>1 DEF SentOnce
    <3>3. CASE signalled' = signalled
      BY <3>2, <3>3
    <3>4. ASSUME NEW p \in running, PidOf[p] = list[i].num, signalled' = Append(signalled, p)
          PROVE  Once(signalled', list[k].who)
      <4>1. list[k].who # p
        BY <1>5, <1>6, <2>3, <3>4
      <4> QED BY <1>6, <1>7, <1>8, <3>2, <3>4, <4>1, OnceMore
    <3> QED BY <3>3, <3>4, SentBy
  <2> QED BY <2>2, <2>3
<1>12. Pinned' /\ SentAll'
  BY <1>3 DEF Pinned, SentAll
<1> QED BY <1>9, <1>10, <1>11, <1>12 DEF SentOK

\* What has been sent and to whom, after any step.
LEMMA SentKept ==
  ASSUME IInv, [Next]_vars
  PROVE  SentOK'
<1>1. SentTyped /\ MatchesOK /\ StageOK
  BY DEF IInv, SentOK
<1>2. running' \cap used \subseteq running
  BY KernelKept
<1>3. CASE Kernel \/ UNCHANGED vars
  <2>1. UNCHANGED <<argv, pc, list, i, pidfd, fds, signalled, kill_count>>
    BY <1>3, KernelApart DEF scan, signals
  <2> QED BY <1>2, <2>1, SentIfQuiet
<1>4. CASE parse_opts
  <2>1. UNCHANGED <<argv, list, i, pidfd, fds, signalled, kill_count>>
    BY <1>4 DEF parse_opts, signals
  <2>2. pc = "parse" /\ pc' \in {"scan", "done"}
    BY <1>4, ParseOutcome
  <2>3. i = 1 /\ list = <<>>
    BY <1>1, <2>2 DEF SentTyped, MatchesOK
  <2>4. i > Len(list)
    BY <2>3
  <2> QED BY <1>2, <2>1, <2>2, <2>4, SentIfQuiet
<1>5. ASSUME NEW p \in Proc, select_procs(p) PROVE SentOK'
  <2>1. pc = "scan" /\ pc' = "scan" /\ UNCHANGED <<running, argv, signals>>
    BY <1>5, Turn
  <2>2. UNCHANGED <<i, pidfd, signalled, kill_count>>
    BY <2>1 DEF signals
  <2>3. i = 1 /\ signalled = <<>>
    BY <1>1, <2>1 DEF SentTyped
  <2>4. list' \in Seq(Match)
    BY <1>5, ListAfterTurn
  <2>5. SentTyped'
    BY <1>1, <2>1, <2>2 DEF SentTyped
  <2>6. SentPassed'
    BY <2>2, <2>3 DEF SentPassed
  <2>7. \A k \in DOMAIN list' : ~(k < i')
    BY <2>2, <2>3, <2>4
  <2>8. SentOnce'
    BY <2>7 DEF SentOnce
  <2>9. Pinned' /\ SentAll'
    BY <2>1 DEF Pinned, SentAll
  <2> QED BY <2>5, <2>6, <2>8, <2>9 DEF SentOK
<1>6. CASE select_procs_end
  <2>1. UNCHANGED <<argv, list, i, pidfd, fds, signalled, kill_count>>
    BY <1>6 DEF select_procs_end, scan, signals
  <2>2. pc' \in {"pgrep", "pkill", "pidwait"}
    BY <1>1, <1>6 DEF select_procs_end, StageOK
  <2> QED BY <1>2, <2>1, <2>2, SentIfQuiet
<1>7. CASE output \/ pidwait_end
  <2>1. UNCHANGED <<argv, list, i, pidfd, fds, signalled, kill_count>> /\ pc' = "done"
    BY <1>7 DEF output, pidwait_end, exit, scan, signals
  <2>2. argv.prog # "pkill"
    BY <1>1, <1>7 DEF output, pidwait_end, StageOK
  <2> QED BY <1>2, <2>1, <2>2, SentIfQuiet
<1>8. CASE pkill_end
  <2>1. /\ UNCHANGED <<argv, list, i, pidfd, fds, signalled, kill_count>>
        /\ pc' = "done" /\ i > Len(list)
    BY <1>8 DEF pkill_end, exit, scan, signals
  <2> QED BY <1>2, <2>1, SentIfQuiet
<1>9. CASE pidwait_open
  <2>1. /\ UNCHANGED <<argv, list, pidfd, signalled, kill_count>> /\ i' = i + 1
        /\ pc = "pidwait" /\ pc' = pc
    BY <1>9 DEF pidwait_open, scan, NextMatch
  <2>2. argv.prog # "pkill"
    BY <1>1, <2>1 DEF StageOK
  <2>3. SentTyped'
    BY <1>1, <2>1 DEF SentTyped
  <2>4. signalled' = <<>>
    BY <1>1, <2>1, <2>2 DEF SentTyped
  <2>5. SentPassed'
    BY <2>4 DEF SentPassed
  <2>6. SentOnce' /\ Pinned' /\ SentAll'
    BY <2>1, <2>2 DEF SentOnce, Pinned, SentAll
  <2> QED BY <2>3, <2>5, <2>6 DEF SentOK
<1>10. ASSUME NEW events \in SUBSET Proc, pidwait_wait(events) PROVE SentOK'
  <2>1. UNCHANGED <<argv, pc, list, i, pidfd, fds, signalled, kill_count>>
    BY <1>10 DEF pidwait_wait, scan
  <2> QED BY <1>2, <2>1, SentIfQuiet
<1> QED BY <1>3, <1>4, <1>5, <1>6, <1>7, <1>8, <1>9, <1>10, OpenKept, SendKept
        DEF Next, Program
--------------------------------------------------------------------------------
(* pidwait: it ends when everybody it watches has been reported.            *)

\* Steps that leave the descriptors and the watched alone.
LEMMA WaitIfQuiet ==
  ASSUME IInv, used \subseteq used', running' \cap used \subseteq running,
         UNCHANGED <<argv, fds, polled, waited, wait_count>>,
         pc' \in {"parse", "scan"} => pc \in {"parse", "scan"},
         pc' = "done" => pc = "done" \/ argv.prog # "pidwait" \/ waited = polled
  PROVE  WaitOK'
<1>1. WaitOK
  BY DEF IInv
<1>2. waited' \cap running' = {}
  BY <1>1 DEF WaitOK
<1>3. polled' \subseteq used' /\ waited' \subseteq polled'
  BY <1>1 DEF WaitOK
<1>4. pc' = "done" /\ argv'.prog = "pidwait" => waited' = polled'
  BY <1>1 DEF WaitOK
<1>5. pc' \in {"parse", "scan"} => polled' = {}
  BY <1>1 DEF WaitOK
<1> QED BY <1>1, <1>2, <1>3, <1>4, <1>5 DEF WaitOK

\* The watched are finitely many.
LEMMA PolledFinite ==
  ASSUME IInv
  PROVE  /\ IsFiniteSet(polled) /\ IsFiniteSet(waited)
         /\ Cardinality(polled) \in Nat /\ Cardinality(waited) \in Nat
<1>1. polled \in SUBSET Proc /\ waited \in SUBSET Proc
  BY DEF IInv, WaitOK, KernelOK
<1>2. IsFiniteSet(polled) /\ IsFiniteSet(waited)
  BY <1>1, PgrepAssumption, FS_Subset
<1> QED BY <1>2, FS_CardinalityType

\* pkill's descriptors.
LEMMA PkillFds ==
  ASSUME IInv, pkill_open \/ pkill_send
  PROVE  WaitOK'
<1>1. WaitOK /\ KernelOK /\ StageOK /\ MaxFd \in Nat
  BY PgrepAssumption DEF IInv
<1>2. /\ pc \in {"pkill", "send"} /\ pc' \in {"pkill", "send", "done"}
      /\ UNCHANGED <<running, used, argv, polled, waited, wait_count>>
  BY DEF pkill_open, pkill_send, exit, kernel, scan
<1>3. argv.prog = "pkill" /\ polled = {}
  BY <1>1, <1>2 DEF StageOK, WaitOK
<1>4. fds \in 0 .. MaxFd
  BY <1>1 DEF WaitOK
<1>5. fds' \in 0 .. MaxFd
  <2>1. CASE pkill_open
    <3>1. fds' = fds + Cardinality(Opened(list[i].num))
      BY <2>1 DEF pkill_open
    <3> QED BY <1>1, <1>4, <3>1, OpenedOne
  <2>2. CASE pkill_send
    <3>1. \/ fds' = fds
          \/ fds' = fds - 1 /\ "m" \in argv.flags
      BY <2>2 DEF pkill_send
    <3>2. pc = "send"
      BY <2>2 DEF pkill_send
    <3>3. "m" \in argv.flags => fds > 0
      BY <3>2 DEF IInv, SentOK, Pinned
    <3> QED BY <1>1, <1>4, <3>1, <3>3
  <2> QED BY <2>1, <2>2
<1>6. Cardinality(polled') <= fds'
  BY <1>1, <1>2, <1>3, <1>5, FS_EmptySet
<1> QED BY <1>1, <1>2, <1>3, <1>5, <1>6 DEF WaitOK

\* pidwait opens a match, which epoll takes or not.
LEMMA WatchKept ==
  ASSUME IInv, pidwait_open
  PROVE  WaitOK'
<1>1. WaitOK /\ KernelOK /\ StageOK /\ MaxFd \in Nat
  BY PgrepAssumption DEF IInv
<1>2. /\ pc = "pidwait" /\ pc' = pc
      /\ UNCHANGED <<running, used, argv, waited, wait_count>>
      /\ fds' = fds + Cardinality(Opened(list[i].num))
  BY DEF pidwait_open, kernel
<1>3. PICK added \in SUBSET Opened(list[i].num) : polled' = polled \cup added
  BY DEF pidwait_open
<1>4. fds \in 0 .. MaxFd /\ argv.prog = "pidwait"
  BY <1>1, <1>2 DEF WaitOK, StageOK
<1>5. /\ Opened(list[i].num) \subseteq Holder(list[i].num)
      /\ IsFiniteSet(Opened(list[i].num)) /\ Cardinality(Opened(list[i].num)) \in 0 .. 1
      /\ fds + Cardinality(Opened(list[i].num)) \in 0 .. MaxFd
  BY <1>1, <1>4, OpenedOne
<1>6. added \subseteq used
  BY <1>1, <1>3, <1>5 DEF Holder, KernelOK
<1>7. IsFiniteSet(added) /\ Cardinality(added) <= Cardinality(Opened(list[i].num))
  BY <1>3, <1>5, FS_Subset
<1>8. Cardinality(added) \in Nat
  BY <1>7, FS_CardinalityType
<1>9. IsFiniteSet(polled) /\ Cardinality(polled) \in Nat /\ Cardinality(polled) <= fds
  BY <1>1, PolledFinite DEF WaitOK
<1>10. Cardinality(polled \cap added) \in Nat
  BY <1>7, FS_Subset, FS_CardinalityType
<1>11. Cardinality(polled \cup added) =
         Cardinality(polled) + Cardinality(added) - Cardinality(polled \cap added)
  BY <1>7, <1>9, FS_Union
<1>12. Cardinality(polled') <= fds'
  <2> HIDE DEF Opened
  <2> QED BY <1>2, <1>3, <1>4, <1>5, <1>7, <1>8, <1>9, <1>10, <1>11
<1>13. polled' \subseteq used' /\ waited' \subseteq polled' /\ waited' \cap running' = {}
  BY <1>1, <1>2, <1>3, <1>6 DEF WaitOK
<1>14. fds' \in 0 .. MaxFd /\ wait_count' = Cardinality(waited')
  BY <1>1, <1>2, <1>5 DEF WaitOK
<1> QED BY <1>2, <1>4, <1>12, <1>13, <1>14 DEF WaitOK

\* epoll reports processes that have exited and were not reported before.
LEMMA ReportKept ==
  ASSUME IInv, NEW events \in SUBSET Proc, pidwait_wait(events)
  PROVE  WaitOK'
<1>1. WaitOK /\ StageOK
  BY DEF IInv
<1>2. /\ pc = "pidwait" /\ pc' = pc /\ waited' = waited \cup events
      /\ UNCHANGED <<running, used, argv, fds, polled>>
      /\ events \subseteq Ready /\ wait_count' = wait_count + Cardinality(events)
  BY DEF pidwait_wait, kernel
<1>3. /\ events \subseteq polled /\ events \cap running = {} /\ waited \cap events = {}
  BY <1>2 DEF Ready
<1>4. IsFiniteSet(events)
  BY PgrepAssumption, FS_Subset
<1>5. Cardinality(waited \cap events) = 0
  BY <1>3, FS_EmptySet
<1>6. Cardinality(events) \in Nat /\ Cardinality(waited) \in Nat
  BY <1>4, PolledFinite, FS_CardinalityType
<1>7. Cardinality(waited \cup events) =
        Cardinality(waited) + Cardinality(events) - Cardinality(waited \cap events)
  BY <1>4, PolledFinite, FS_Union
<1>8. wait_count' = Cardinality(waited')
  BY <1>1, <1>2, <1>5, <1>6, <1>7 DEF WaitOK
<1>9. argv.prog = "pidwait"
  BY <1>1, <1>2 DEF StageOK
<1> QED BY <1>1, <1>2, <1>3, <1>8, <1>9 DEF WaitOK

\* Whom pidwait waits for, after any step.
LEMMA WaitKept ==
  ASSUME IInv, [Next]_vars
  PROVE  WaitOK'
<1>1. WaitOK /\ StageOK
  BY DEF IInv
<1>2. used \subseteq used' /\ running' \cap used \subseteq running
  BY KernelKept
<1>3. CASE Kernel \/ UNCHANGED vars
  <2>1. UNCHANGED <<argv, pc, fds, polled, waited, wait_count>>
    BY <1>3, KernelApart DEF signals
  <2> QED BY <1>2, <2>1, WaitIfQuiet
<1>4. CASE parse_opts
  <2>1. UNCHANGED <<argv, fds, polled, waited, wait_count>>
    BY <1>4 DEF parse_opts, signals
  <2>2. pc = "parse" /\ pc' \in {"scan", "done"}
    BY <1>4, ParseOutcome
  <2>3. waited = polled
    BY <1>1, <2>2 DEF WaitOK
  <2> QED BY <1>2, <2>1, <2>2, <2>3, WaitIfQuiet
<1>5. ASSUME NEW p \in Proc, select_procs(p) PROVE WaitOK'
  <2>1. pc' = pc /\ UNCHANGED <<argv, fds, polled, waited, wait_count>>
    BY <1>5, Turn DEF signals
  <2> QED BY <1>2, <2>1, WaitIfQuiet
<1>6. CASE select_procs_end
  <2>1. UNCHANGED <<argv, fds, polled, waited, wait_count>>
    BY <1>6 DEF select_procs_end, signals
  <2>2. pc' \in {"pgrep", "pkill", "pidwait"}
    BY <1>1, <1>6 DEF select_procs_end, StageOK
  <2> QED BY <1>2, <2>1, <2>2, WaitIfQuiet
<1>7. CASE output \/ pkill_end
  <2>1. UNCHANGED <<argv, fds, polled, waited, wait_count>> /\ pc' = "done"
    BY <1>7 DEF output, pkill_end, exit, signals
  <2>2. argv.prog # "pidwait"
    BY <1>1, <1>7 DEF output, pkill_end, StageOK
  <2> QED BY <1>2, <2>1, <2>2, WaitIfQuiet
<1>8. CASE pidwait_end
  <2>1. /\ UNCHANGED <<argv, fds, polled, waited, wait_count>> /\ pc' = "done"
        /\ wait_count >= Cardinality(polled)
    BY <1>8 DEF pidwait_end, exit, signals
  <2>2. waited \in SUBSET polled /\ wait_count = Cardinality(waited)
    BY <1>1 DEF WaitOK
  <2>3. Cardinality(waited) <= Cardinality(polled)
    BY <2>2, PolledFinite, FS_Subset
  <2>4. Cardinality(polled) = Cardinality(waited)
    BY <2>1, <2>2, <2>3, PolledFinite
  <2>5. waited = polled
    BY <2>2, <2>4, PolledFinite, FS_Subset
  <2> QED BY <1>2, <2>1, <2>5, WaitIfQuiet
<1> QED BY <1>3, <1>4, <1>5, <1>6, <1>7, <1>8, PkillFds, WatchKept, ReportKept
        DEF Next, Program

\* The status is 0 exactly if something was found, signalled or waited for.
LEMMA StatusKept ==
  ASSUME IInv, [Next]_vars
  PROVE  StatusRight'
<1>1. StageOK /\ StageOK' /\ StatusRight
  BY StageKept DEF IInv
<1>2. CASE pc = "done"
  <2>1. UNCHANGED <<status, argv, list, signalled, waited>>
    BY <1>2, DoneIsLast DEF vars, scan, signals
  <2> QED BY <1>1, <2>1 DEF StatusRight
<1>3. CASE pc' # "done"
  BY <1>1, <1>3 DEF StageOK, StatusRight
<1>4. CASE pc # "done" /\ pc' = "done"
  <2>1. CASE parse_opts
    <3>1. argv' = argv
      BY <2>1 DEF parse_opts
    <3>2. status' \in {2, 3} \/ argv'.pidfile # NOFILE
      BY <1>4, <2>1, <3>1, ParseOutcome DEF EXIT_USAGE, EXIT_FATAL
    <3> QED BY <3>2 DEF StatusRight
  <2>2. CASE output
    <3>1. /\ status' = Status(Len(list)) /\ UNCHANGED <<argv, list>>
          /\ argv.prog = "pgrep" /\ list \in Seq(Match)
      BY <1>1, <2>2 DEF output, exit, StageOK, scan, IInv, MatchesOK
    <3>2. (status' = 0) <=> list' # <<>>
      BY <3>1 DEF Status
    <3> QED BY <3>1, <3>2 DEF StatusRight
  <2>3. CASE pkill_open
    <3>1. "m" \in argv'.flags
      BY <1>4, <2>3 DEF pkill_open, exit
    <3> QED BY <3>1 DEF StatusRight
  <2>4. CASE pkill_end
    <3>1. /\ argv' = argv /\ signalled' = signalled /\ argv.prog = "pkill"
          /\ signalled \in Seq(Proc) /\ kill_count = Len(signalled)
      BY <1>1, <2>4 DEF pkill_end, StageOK, signals, IInv, SentOK, SentTyped
    <3>2. status' = IF mrelease_failed THEN EXIT_FAILURE ELSE Status(kill_count)
      BY <2>4 DEF pkill_end, exit
    <3>3. "m" \notin argv.flags => ~mrelease_failed
      BY <1>1 DEF StageOK
    <3>4. "m" \notin argv.flags => ((status' = 0) <=> signalled' # <<>>)
      BY <3>1, <3>2, <3>3 DEF Status
    <3> QED BY <3>1, <3>4 DEF StatusRight
  <2>5. CASE pidwait_end
    <3>1. /\ argv' = argv /\ waited' = waited /\ argv.prog = "pidwait"
          /\ wait_count = Cardinality(waited) /\ status' = Status(wait_count)
      BY <1>1, <2>5 DEF pidwait_end, exit, StageOK, signals, IInv, WaitOK
    <3>2. Cardinality(waited) \in Nat /\ (Cardinality(waited) = 0 <=> waited = {})
      BY PolledFinite, FS_EmptySet
    <3>3. (status' = 0) <=> waited' # {}
      BY <3>1, <3>2 DEF Status
    <3> QED BY <3>1, <3>3 DEF StatusRight
  <2>6. CASE select_procs_end
    BY <1>1, <1>4, <2>6 DEF select_procs_end, StageOK
  <2>7. ASSUME NEW p \in Proc, select_procs(p) PROVE FALSE
    BY <1>4, <2>7, Turn
  <2>8. CASE pkill_send \/ pidwait_open \/ \E events \in SUBSET Proc : pidwait_wait(events)
    BY <1>4, <2>8 DEF pkill_send, pidwait_open, pidwait_wait
  <2>9. CASE Kernel \/ UNCHANGED vars
    BY <1>4, <2>9, KernelApart
  <2> QED BY <2>1, <2>2, <2>3, <2>4, <2>5, <2>6, <2>7, <2>8, <2>9 DEF Next, Program
<1> QED BY <1>2, <1>3, <1>4
--------------------------------------------------------------------------------
(* Theorems.                                                                *)

\* The invariant is kept by every step.
LEMMA Inductive == IInv /\ [Next]_vars => IInv'
<1> SUFFICES ASSUME IInv, [Next]_vars PROVE IInv'
  OBVIOUS
<1>1. KernelOK' /\ StageOK' /\ MatchesOK' /\ NameIsOwn'
  BY KernelKept, StageKept, ListKept, NameKept
<1>2. (pc = "scan" /\ "A" \notin argv.flags => ancestors = {})'
  BY AncestorsKept
<1>3. SelectionRight' /\ SavedOK' /\ SentOK' /\ WaitOK' /\ StatusRight'
  BY SelectionKept, SentKept, WaitKept, StatusKept
<1> QED BY <1>1, <1>2, <1>3 DEF IInv

\* The types follow from it.
LEMMA Typed == IInv => TypeOK
<1> SUFFICES ASSUME IInv PROVE TypeOK
  OBVIOUS
<1>1. KernelOK /\ StageOK /\ MatchesOK /\ SentTyped /\ WaitOK
  BY DEF IInv, SentOK
<1>2. \A k \in DOMAIN list : list[k].who \in Proc /\ list[k].str \in Proc \cup {0}
  <2>1. list \in Seq(Match)
    BY <1>1 DEF MatchesOK
  <2> SUFFICES ASSUME NEW k \in DOMAIN list
               PROVE  list[k].who \in Proc /\ list[k].str \in Proc \cup {0}
    OBVIOUS
  <2>2. list[k] \in Match
    BY <2>1
  <2> QED BY <2>2 DEF Match
<1>3. running \subseteq used /\ used \subseteq Proc /\ Self \in running
  BY <1>1 DEF KernelOK
<1>4. /\ pc \in {"parse", "scan", "pgrep", "pkill", "send", "pidwait", "done"}
      /\ status \in {-1, 0, EXIT_FAILURE, EXIT_USAGE, EXIT_FATAL}
  BY <1>1 DEF StageOK
<1>5. /\ pidfd \in Proc \cup {0} /\ fds \in 0 .. MaxFd
      /\ polled \subseteq Proc /\ waited \subseteq polled
      /\ Cardinality(polled) <= fds
  BY <1>1, <1>3 DEF SentTyped, WaitOK
<1> QED BY <1>2, <1>3, <1>4, <1>5 DEF TypeOK

\* Once w is there exactly once, it is counted once.
LEMMA OnceCounted ==
  ASSUME NEW sent, NEW w, Once(sent, w)
  PROVE  Cardinality({n \in DOMAIN sent : sent[n] = w}) = 1
<1>1. PICK n \in DOMAIN sent : sent[n] = w /\ \A m \in DOMAIN sent : sent[m] = w => m = n
  BY DEF Once
<1>2. {m \in DOMAIN sent : sent[m] = w} = {n}
  BY <1>1
<1> QED BY <1>2, FS_Singleton

\* When pkill is done every match that runs has been signalled once, when
\* pidwait is done nobody it watches runs.
LEMMA DoneRight == IInv => AllSignalled /\ WaitsForAll
<1> SUFFICES ASSUME IInv PROVE AllSignalled /\ WaitsForAll
  OBVIOUS
<1>1. SentTyped /\ SentOnce /\ SentAll /\ MatchesOK /\ WaitOK
  BY DEF IInv, SentOK
<1>2. AllSignalled
  <2>1. SUFFICES ASSUME pc = "done", argv.prog = "pkill", "m" \notin argv.flags,
                        NEW k \in DOMAIN list,
                        list[k].who \in running, Attr[list[k].who].mine
                 PROVE  Cardinality({n \in DOMAIN signalled : signalled[n] = list[k].who}) = 1
    BY DEF AllSignalled
  <2>2. i > Len(list) /\ list \in Seq(Match) /\ i \in Nat
    BY <1>1, <2>1 DEF SentAll, MatchesOK, SentTyped
  <2>3. k < i
    BY <2>2
  <2>4. Once(signalled, list[k].who)
    BY <1>1, <2>1, <2>3 DEF SentOnce
  <2> QED BY <2>4, OnceCounted
<1>3. WaitsForAll
  BY <1>1 DEF WaitOK, WaitsForAll
<1> QED BY <1>2, <1>3

\* select_procs ends up with the matches the options ask for, whatever starts
\* and exits during the scan: without -n and -o every process read that meets
\* them, once; with -n (-o) the one that started last (first) and, among those
\* of one tick, has the greatest (least) pid; each with its own name where one
\* is copied.  Descriptors stay within their number.
THEOREM MatchesCorrect == Spec => []MatchesRight
<1>1. IInv => MatchesRight
  BY Typed DEF MatchesRight, IInv
<1> QED BY <1>1, Initially, Inductive, PTL DEF Spec

\* When pkill has gone through its list every match that still runs and may be
\* signalled has been signalled exactly once, also if descriptors ran out and
\* pids were given to others meanwhile; pidwait ends only when everybody it
\* watches has exited; the status tells whether anybody was found, signalled or
\* waited for.
THEOREM SignalsCorrect == Spec => []SignalsRight
<1>1. IInv => SignalsRight
  BY DoneRight DEF SignalsRight, IInv
<1> QED BY <1>1, Initially, Inductive, PTL DEF Spec

--------------------------------------------------------------------------------
(***************************************************************************)
(* Least and greatest elements.                                            *)
(***************************************************************************)

\* A set of numbers has a least one.
LEMMA LeastIs ==
  ASSUME NEW S \in SUBSET Nat, S # {}
  PROVE  \E x \in S : \A y \in S : x <= y
<1>1. \E x \in S : \A y \in S : ~ (<<y, x>> \in OpToRel(<, Nat))
  BY NatLessThanWellFounded, WFMin, Zenon
<1>2. \A y, x \in Nat : y < x => <<y, x>> \in OpToRel(<, Nat)
  BY Zenon DEF OpToRel
<1>3. PICK x \in S : \A y \in S : ~ (<<y, x>> \in OpToRel(<, Nat))
  BY <1>1
<1>4. \A y \in S : ~ (y < x)
  BY <1>2, <1>3
<1> QED
  BY <1>4

\* A bounded one has a greatest.
LEMMA GreatestIs ==
  ASSUME NEW n \in Nat, NEW S \in SUBSET (1 .. n), S # {}
  PROVE  \E x \in S : \A y \in S : y <= x
<1> DEFINE T == {n - x : x \in S}
<1>1. T \in SUBSET Nat /\ T # {}
  <2>1. \A x \in S : x \in 1 .. n /\ n - x \in Nat
    OBVIOUS
  <2> QED
    BY <2>1
<1>2. PICK z \in T : \A y \in T : z <= y
  BY <1>1, LeastIs
<1>3. PICK x \in S : z = n - x
  BY <1>2
<1>4. \A y \in S : n - x <= n - y
  BY <1>2, <1>3
<1> QED
  BY <1>4

(***************************************************************************)
(* Streams.                                                                *)
(***************************************************************************)

Chars == {CHAR, DELIM, NL}
CharSeqs == Seq(Chars)

\* The first n characters of a text.
Upto(text, n) == SubSeq(text, 1, n)

\* Texts have a length, and the empty one is the only one of length 0.
LEMMA TextLength ==
  /\ <<>> \in CharSeqs /\ Len(<<>>) = 0
  /\ \A s \in CharSeqs : Len(s) \in Nat /\ (Len(s) = 0 <=> s = <<>>)
BY DEF CharSeqs

\* The empty part.
LEMMA NoPart == \A s \in CharSeqs : Upto(s, 0) = <<>>
BY DEF CharSeqs, Upto

\* The first characters.
LEMMA UptoIs ==
  ASSUME NEW s \in CharSeqs, NEW n \in 0 .. Len(s)
  PROVE  /\ Upto(s, n) \in CharSeqs /\ Len(Upto(s, n)) = n
         /\ \A ix \in 1 .. n : Upto(s, n)[ix] = s[ix]
BY DEF CharSeqs, Upto

\* What memrchr finds.
LEMMA LastOfIs ==
  ASSUME NEW s \in CharSeqs, NEW c, NEW n \in Nat
  PROVE  LET l == LastOf(s, c, n)
         IN  /\ l \in 0 .. n /\ l <= Len(s)
             /\ l # 0 => s[l] = c
             /\ \A j \in 1 .. n : (j <= Len(s) /\ s[j] = c) => j <= l
<1> DEFINE at == {ix \in 1 .. n : ix <= Len(s) /\ s[ix] = c}
<1>1. LastOf(s, c, n) = IF at = {} THEN 0 ELSE CHOOSE ix \in at : \A j \in at : j <= ix
  BY DEF LastOf
<1>2. CASE at = {}
  BY <1>1, <1>2, TextLength
<1>3. CASE at # {}
  <2>1. \E ix \in at : \A j \in at : j <= ix
    <3>1. at \in SUBSET (1 .. n)
      OBVIOUS
    <3> HIDE DEF at
    <3> QED
      BY <1>3, <3>1, GreatestIs
  <2>2. LastOf(s, c, n) \in at /\ \A j \in at : j <= LastOf(s, c, n)
    BY <1>1, <1>3, <2>1
  <2> QED
    BY <2>2, TextLength
<1> QED
  BY <1>2, <1>3

\* The types of all of a stream.
Files == [text : CharSeqs, pos : Nat, cut : BOOLEAN, limit : Nat, value : CharSeqs, lines : SUBSET CharSeqs]
Cookies == [buf : CharSeqs, count : Nat, length : Nat, offset : Nat, final : BOOLEAN]

PTypes ==
  /\ pfile \in Files
  /\ cookie \in Cookies
  /\ pcall \in [count : Counts \cup {0}, at : Nat]
  /\ pcaller \in [text : CharSeqs, got : CharSeqs, res : Nat \cup {-1}]
  /\ pmode \in {"closed", "r", "w", "fill", "split", "done"}

\* A file that is not open yet.
Fresh(f, k, u) ==
  /\ f.pos = 0 /\ f.cut = FALSE /\ f.value = <<>> /\ f.lines = {} /\ u.text = <<>> /\ u.got = <<>> /\ u.res = 0
  /\ k.buf = <<>> /\ k.count = 0 /\ k.length = 0 /\ k.offset = 0 /\ k.final = FALSE
  /\ \A ix \in 1 .. Len(f.text) : f.text[ix] # NL

\* The buffer holds the characters of the file up to n, or the last of them; a
\* read was cut if it does not hold all of the file.
Holds(f, k, n) ==
  /\ n <= Len(f.text) /\ k.length <= n /\ k.length > 0 /\ k.length < k.count
  /\ k.buf = Slice(f.text, n - k.length, k.length)
  /\ f.cut <=> k.length < n \/ n < Len(f.text)

\* A stream for reading: what was handed over is the start of the buffer, and
\* nothing is before the end of the file was seen.  Until then the file is at its
\* start, or the buffer holds the characters before its position.
Reading(f, k, u) ==
  /\ u.text = <<>> /\ f.lines = {} /\ f.value = <<>>
  /\ k.count > 0 /\ Len(k.buf) <= k.count
  /\ k.offset <= k.length /\ k.length = Len(k.buf)
  /\ u.got = Upto(k.buf, k.offset)
  /\ f.text = <<>> => k.length = 0 /\ f.pos = 0 /\ f.cut = FALSE
  /\ f.text # <<>> /\ k.final => Holds(f, k, Len(f.text))
  /\ ~k.final => /\ k.offset = 0
                 /\ (f.pos = 0 /\ f.cut = FALSE) \/ Holds(f, k, f.pos)

\* The text of a writer ends in its only newline.
OneLine(text) == text # <<>> /\ \A j \in 1 .. Len(text) : text[j] = NL <=> j = Len(text)

\* What the kernel has when the first n characters of text were written.
Written_to(text, n) == IF n = 0 THEN <<>> ELSE Append(Upto(text, n - 1), NL)

\* A line that the kernel was given.
LineOK(f, u, piece) ==
  OneLine(piece) /\ (Len(u.text) > f.limit => Len(piece) <= LINELEN)

\* A stream for writing: the buffer is the start of the text, and the kernel
\* has nothing until it has everything.
Writing(f, k, u) ==
  /\ OneLine(u.text) /\ Len(k.buf) <= Len(u.text) /\ Len(k.buf) <= k.count
  /\ \A piece \in f.lines : LineOK(f, u, piece)
  /\ u.res # -1 =>
       \/ /\ Len(k.buf) < Len(u.text) /\ f.value = <<>> /\ f.lines = {}
          /\ k.buf = Upto(u.text, Len(k.buf)) /\ k.offset = Len(k.buf)
       \/ Len(k.buf) = Len(u.text) /\ f.value = u.text

\* In the split the kernel has the text up to the last delimiter written as a
\* newline, and the buffer still holds what follows.
Splitting(f, k, c, u) ==
  /\ OneLine(u.text) /\ Len(k.buf) = Len(u.text) /\ Len(k.buf) <= k.count
  /\ Len(u.text) > f.limit
  /\ \A piece \in f.lines : LineOK(f, u, piece)
  /\ c.at + k.offset = Len(u.text) /\ k.offset > 0
  /\ c.at > 0 => u.text[c.at] = DELIM
  /\ f.value = Written_to(u.text, c.at)
  /\ \A ix \in c.at + 1 .. Len(u.text) : k.buf[ix] = u.text[ix]
  /\ u.res # -1

PInv ==
  /\ PTypes
  /\ pmode = "closed" => Fresh(pfile, cookie, pcaller)
  /\ pmode = "r" => Reading(pfile, cookie, pcaller)
                    /\ (pcaller.res = -1 /\ cookie.final => cookie.offset = cookie.length)
  /\ pmode = "fill" => Reading(pfile, cookie, pcaller) /\ pcall.count > 0
  /\ pmode = "w" => Writing(pfile, cookie, pcaller)
  /\ pmode = "split" => Splitting(pfile, cookie, pcall, pcaller)
  /\ pmode = "done" =>
       \/ /\ Reading(pfile, cookie, pcaller)
          /\ cookie.final => cookie.offset = cookie.length
       \/ /\ Writing(pfile, cookie, pcaller)
          /\ pcaller.res # -1 => Len(cookie.buf) = Len(pcaller.text)

\* The characters are three.
LEMMA CharsDiffer == CHAR # NL /\ DELIM # NL /\ {CHAR, DELIM, NL} = Chars
BY Zenon DEF Chars, CHAR, DELIM, NL

\* The texts of the model are sequences of characters without a newline.
LEMMA TextsAre ==
  ASSUME NEW t \in Texts
  PROVE  t \in CharSeqs /\ \A ix \in 1 .. Len(t) : t[ix] # NL
<1>1. PICK n \in 0 .. MaxText : t \in [1 .. n -> {CHAR, DELIM}]
  BY DEF Texts
<1>2. n \in Nat /\ t \in Seq({CHAR, DELIM}) /\ Len(t) = n
  BY <1>1, PioAssumption
<1> QED
  BY <1>1, <1>2, CharsDiffer DEF CharSeqs

\* A line and its newline.
LEMMA AppendNL ==
  ASSUME NEW s \in CharSeqs, \A ix \in 1 .. Len(s) : s[ix] # NL
  PROVE  /\ Append(s, NL) \in CharSeqs /\ Len(Append(s, NL)) = Len(s) + 1
         /\ OneLine(Append(s, NL))
<1>1. NL \in Chars
  BY CharsDiffer
<1>2. Append(s, NL) \in CharSeqs /\ Len(Append(s, NL)) = Len(s) + 1
      /\ Append(s, NL)[Len(s) + 1] = NL
      /\ \A ix \in 1 .. Len(s) : Append(s, NL)[ix] = s[ix]
  BY <1>1 DEF CharSeqs
<1> DEFINE t == Append(s, NL)
<1>3. t # <<>>
  BY <1>2 DEF CharSeqs
<1> HIDE DEF t
<1>4. t \in CharSeqs /\ Len(t) = Len(s) + 1 /\ t[Len(s) + 1] = NL
      /\ \A ix \in 1 .. Len(s) : t[ix] = s[ix]
  BY <1>2 DEF t
<1>5. OneLine(t)
  BY <1>3, <1>4, TextLength DEF OneLine
<1> QED
  BY <1>2, <1>5 DEF t

\* A stream starts closed.
LEMMA PInvInit == PInit => PInv
<1> SUFFICES ASSUME PInit PROVE PInv
  OBVIOUS
<1>1. PICK t \in Texts, l \in {LINELEN, LINELEN + 1, 2 * MaxText} : pfile = ProcFile(t, l)
  BY DEF PInit
<1>2. t \in CharSeqs /\ (\A ix \in 1 .. Len(t) : t[ix] # NL) /\ l \in Nat
  BY TextsAre, PioAssumption
<1>3. PTypes
  BY <1>1, <1>2, TextLength DEF PInit, ProcFile, PTypes, Files, Cookies
<1>4. Fresh(pfile, cookie, pcaller) /\ pmode = "closed"
  BY <1>1, <1>2 DEF PInit, ProcFile, Fresh
<1> QED
  BY <1>3, <1>4 DEF PInv

\* Opening a stream.
LEMMA POpen ==
  ASSUME PInv, NEW mode \in {"r", "w"}, fprocopen(mode)
  PROVE  PInv'
<1>1. PTypes /\ Fresh(pfile, cookie, pcaller)
  BY DEF PInv, fprocopen
<1>2. cookie' = [buf |-> <<>>, count |-> BUFSIZ, length |-> 0, offset |-> 0, final |-> FALSE]
      /\ pmode' = mode /\ pcall' = pcall /\ BUFSIZ \in Nat /\ BUFSIZ > 0
  BY PioAssumption DEF fprocopen
<1>3. CASE mode = "r"
  <2>1. pfile' = pfile /\ pcaller' = pcaller
    BY <1>3 DEF fprocopen
  <2>2. PTypes'
    BY <1>1, <1>2, <1>3, <2>1, TextLength DEF PTypes, Files, Cookies
  <2>3. Reading(pfile', cookie', pcaller') /\ pcaller'.res # -1
    BY <1>1, <1>2, <2>1, TextLength, NoPart DEF Fresh, Reading, PTypes, Files, Cookies
  <2> QED
    BY <1>2, <1>3, <2>2, <2>3 DEF PInv
<1>4. CASE mode = "w"
  <2>0. pfile.text \in CharSeqs /\ NL \in Chars /\ pcaller.res = 0
    BY <1>1, CharsDiffer DEF PTypes, Files, Cookies, Fresh
  <2>1. pfile' = [pfile EXCEPT !.text = <<>>]
        /\ pcaller' = [pcaller EXCEPT !.text = Append(pfile.text, NL)]
    BY <1>4 DEF fprocopen
  <2> DEFINE t == Append(pfile.text, NL)
  <2>2. t \in CharSeqs /\ OneLine(t)
    BY <1>1, <2>0, AppendNL DEF Fresh
  <2> HIDE DEF t
  <2>3. pcaller' = [pcaller EXCEPT !.text = t]
    BY <2>1 DEF t
  <2>5. pfile' \in Files
    BY <1>1, <2>1, TextLength DEF PTypes, Cookies, Files
  <2>6. PTypes'
    BY <1>1, <1>2, <1>4, <2>2, <2>3, <2>5, TextLength DEF PTypes, Cookies
  <2>4. Writing(pfile', cookie', pcaller')
    <3>1. pcaller'.text = t /\ pcaller'.res = 0 /\ pfile'.lines = {} /\ pfile'.value = <<>>
      BY <1>1, <2>1, <2>3, <2>0 DEF Fresh, PTypes, Cookies, Files
    <3>2. Len(t) \in Nat /\ Len(t) > 0
      BY <2>2, TextLength DEF OneLine
    <3>3. <<>> = Upto(t, 0) /\ Len(<<>>) = 0
      BY <2>2, TextLength, NoPart
    <3> QED
      BY <1>2, <2>2, <3>1, <3>2, <3>3 DEF Writing
  <2> QED
    BY <1>2, <1>4, <2>4, <2>6 DEF PInv
<1> QED
  BY <1>3, <1>4

\* proc_read up to its loop.
LEMMA PRead ==
  ASSUME PInv, NEW n \in Counts, proc_read(n)
  PROVE  PInv'
<1>1. PTypes /\ Reading(pfile, cookie, pcaller) /\ n \in Nat /\ n > 0
  BY PioAssumption DEF PInv, proc_read
<1>2. /\ cookie' = [cookie EXCEPT !.count = IF cookie.count < n THEN n ELSE cookie.count]
      /\ pfile' = pfile /\ pcaller' = pcaller /\ pmode' = "fill"
      /\ pcall' = [count |-> n, at |-> 0]
  BY DEF proc_read
<1>3. PTypes'
  BY <1>1, <1>2 DEF PTypes, Files, Cookies
<1>4. Reading(pfile', cookie', pcaller')
  <2>1. /\ cookie'.buf = cookie.buf /\ cookie'.length = cookie.length /\ cookie'.offset = cookie.offset
        /\ cookie'.final = cookie.final /\ cookie'.count >= cookie.count /\ cookie'.count \in Nat
        /\ cookie.count \in Nat /\ cookie.length \in Nat /\ Len(cookie.buf) \in Nat
    BY <1>1, <1>2, TextLength DEF PTypes, Cookies
  <2>2. \A m : Holds(pfile, cookie, m) => Holds(pfile', cookie', m)
    BY <1>2, <2>1 DEF Holds
  <2> QED
    BY <1>1, <1>2, <2>1, <2>2 DEF Reading
<1> QED
  BY <1>1, <1>2, <1>3, <1>4 DEF PInv

\* A part of a sequence.
LEMMA SliceIs ==
  ASSUME NEW s \in CharSeqs, NEW from \in Nat, NEW n \in Nat, from + n <= Len(s)
  PROVE  /\ Slice(s, from, n) \in CharSeqs /\ Len(Slice(s, from, n)) = n
         /\ \A ix \in 1 .. n : Slice(s, from, n)[ix] = s[from + ix]
BY DEF Slice, CharSeqs

\* Sequences with the same elements.
LEMMA SameSeq ==
  ASSUME NEW s \in CharSeqs, NEW t \in CharSeqs, Len(s) = Len(t),
         \A ix \in 1 .. Len(s) : s[ix] = t[ix]
  PROVE  s = t
BY DEF CharSeqs

\* A round of the loop.
LEMMA PFill ==
  ASSUME PInv, fill
  PROVE  PInv'
<1>1. PTypes /\ Reading(pfile, cookie, pcaller) /\ pmode = "fill" /\ ~cookie.final
      /\ pcall.count > 0
  BY DEF PInv, fill
<1>2. PICK n \in ReadSizes :
        /\ cookie' = IF n = 0 THEN [cookie EXCEPT !.final = TRUE]
                     ELSE [cookie EXCEPT !.buf = Slice(pfile.text, pfile.pos, n), !.length = n,
                                         !.count = IF n = cookie.count THEN cookie.count + BUFSIZ
                                                   ELSE cookie.count]
        /\ pfile' = [pfile EXCEPT !.pos = IF n = cookie.count THEN 0 ELSE pfile.pos + n,
                                  !.cut = ~(n = cookie.count) /\ (pfile.cut \/ n < Readable)]
        /\ pmode' = "fill" /\ pcall' = pcall /\ pcaller' = pcaller
  BY <1>1 DEF fill
<1> DEFINE full == n = cookie.count
           L == Len(pfile.text)
<1>3. /\ pfile.text \in CharSeqs /\ pfile.pos \in Nat /\ cookie.count \in Nat
      /\ cookie.length \in Nat /\ cookie.offset = 0 /\ BUFSIZ \in Nat /\ BUFSIZ > 0
      /\ cookie.count > 0 /\ L \in Nat /\ pfile.cut \in BOOLEAN
  BY <1>1, PioAssumption, TextLength DEF PTypes, Files, Cookies, Reading
<1>4. pfile.pos <= L /\ (pfile.text = <<>> => L = 0)
  BY <1>1, <1>3, TextLength DEF Reading, Holds
<1>5. /\ n \in Nat /\ n <= cookie.count /\ pfile.pos + n <= L
      /\ (n = 0 => pfile.pos = L)
      /\ (n < cookie.count => (n < Readable <=> pfile.pos + n < L))
  <2>1. Readable = IF cookie.count < L - pfile.pos THEN cookie.count ELSE L - pfile.pos
    BY DEF Readable, Least
  <2>2. Readable \in Nat /\ n \in IF Readable = 0 THEN {0} ELSE 1 .. Readable
    BY <1>3, <1>4, <2>1 DEF ReadSizes
  <2> HIDE DEF L
  <2> QED
    BY <1>3, <1>4, <2>1, <2>2
<1> DEFINE part == Slice(pfile.text, pfile.pos, n)
<1>6. part \in CharSeqs /\ Len(part) = n
  BY <1>3, <1>5, SliceIs
<1> HIDE DEF part
<1>7. /\ pfile' \in Files /\ pfile'.text = pfile.text /\ pfile'.lines = {} /\ pfile'.value = <<>>
      /\ pfile'.pos = IF full THEN 0 ELSE pfile.pos + n
      /\ pfile'.cut = (~full /\ (pfile.cut \/ n < Readable))
  <2>1. (IF full THEN 0 ELSE pfile.pos + n) \in Nat /\ (~full /\ (pfile.cut \/ n < Readable)) \in BOOLEAN
    BY <1>3, <1>5
  <2> QED
    BY <1>1, <1>2, <2>1 DEF PTypes, Files, Reading
<1>8. CASE n = 0
  <2>1. /\ cookie' = [cookie EXCEPT !.final = TRUE] /\ ~full /\ pfile.pos = L
        /\ pfile'.pos = pfile.pos
    BY <1>2, <1>3, <1>5, <1>7, <1>8
  <2>2. pfile'.cut = pfile.cut
    <3>1. n < Readable <=> FALSE
      BY <1>3, <1>5, <1>8
    <3> QED
      BY <1>3, <1>7, <2>1, <3>1
  <2>3. /\ cookie' \in Cookies /\ cookie'.final /\ cookie'.buf = cookie.buf
        /\ cookie'.length = cookie.length /\ cookie'.count = cookie.count
        /\ cookie'.offset = cookie.offset
    BY <1>1, <2>1 DEF PTypes, Cookies
  <2>4. pfile.text # <<>> => Holds(pfile, cookie, L)
    <3>1. pfile.text # <<>> => L > 0
      BY <1>3, TextLength
    <3> HIDE DEF L
    <3> QED
      BY <1>1, <1>3, <2>1, <3>1 DEF Reading
  <2>5. pfile.text # <<>> => Holds(pfile', cookie', L)
    BY <1>7, <2>2, <2>3, <2>4 DEF Holds
  <2>6. Reading(pfile', cookie', pcaller')
    BY <1>1, <1>2, <1>3, <1>7, <2>1, <2>2, <2>3, <2>5 DEF Reading
  <2> QED
    BY <1>1, <1>2, <1>7, <2>3, <2>6 DEF PInv, PTypes
<1>9. CASE n # 0
  <2>1. /\ cookie'.buf = part /\ cookie'.length = n /\ cookie'.offset = 0 /\ ~cookie'.final
        /\ cookie'.count = (IF full THEN cookie.count + BUFSIZ ELSE cookie.count)
        /\ cookie' \in Cookies
    <3>1. (IF full THEN cookie.count + BUFSIZ ELSE cookie.count) \in Nat
      BY <1>3
    <3>2. cookie' = [cookie EXCEPT !.buf = part, !.length = n,
                                   !.count = IF full THEN cookie.count + BUFSIZ ELSE cookie.count]
      BY <1>2, <1>9 DEF part
    <3> QED
      BY <1>1, <1>3, <1>5, <1>6, <3>1, <3>2 DEF PTypes, Cookies
  <2>2. L > 0 /\ pfile.text # <<>> /\ pcaller'.got = Upto(part, 0) /\ pcaller'.text = <<>>
    <3>1. L > 0 /\ pfile.text # <<>>
      BY <1>3, <1>4, <1>5, <1>9
    <3>2. pcaller.got = <<>> /\ Upto(part, 0) = <<>>
      BY <1>1, <1>3, <1>6, NoPart DEF Reading, PTypes, Cookies
    <3> QED
      BY <1>1, <1>2, <3>1, <3>2 DEF Reading
  <2>3. CASE full
    <3>1. pfile'.pos = 0 /\ pfile'.cut = FALSE
      BY <1>7, <2>3
    <3>2. Len(part) <= cookie.count + BUFSIZ /\ cookie'.count = cookie.count + BUFSIZ
      BY <1>3, <1>5, <1>6, <2>1, <2>3
    <3> HIDE DEF full, L
    <3>3. Reading(pfile', cookie', pcaller')
      BY <1>3, <1>5, <1>6, <1>7, <2>1, <2>2, <3>1, <3>2 DEF Reading
    <3> QED
      BY <1>1, <1>2, <1>7, <2>1, <3>3 DEF PInv, PTypes
  <2>4. CASE ~full
    <3>1. /\ n < cookie.count /\ pfile'.pos = pfile.pos + n /\ cookie'.count = cookie.count
          /\ pfile'.cut = (pfile.cut \/ n < Readable)
      BY <1>3, <1>5, <1>7, <2>1, <2>4
    <3>2. pfile'.cut <=> n < pfile.pos + n \/ pfile.pos + n < L
      <4>1. n < Readable <=> pfile.pos + n < L
        BY <1>5, <3>1
      <4>2. pfile.pos = 0 \/ n < Readable \/ pfile.pos + n = L
        BY <1>3, <1>5, <4>1
      <4>3. pfile.cut <=> pfile.pos > 0
        <5>1. pfile.pos < L
          BY <1>3, <1>5, <1>9
        <5> HIDE DEF L, full
        <5>2. Holds(pfile, cookie, pfile.pos) => (pfile.cut <=> pfile.pos > 0)
          BY <1>3, <5>1 DEF Holds, L
        <5> QED
          BY <1>1, <1>3, <5>2 DEF Reading
      <4>4. pfile'.cut <=> pfile.cut \/ pfile.pos + n < L
        BY <1>3, <3>1, <4>1
      <4>5. pfile.pos > 0 <=> n < pfile.pos + n
        BY <1>3, <1>5
      <4> QED
        BY <4>3, <4>4, <4>5
    <3>3. Holds(pfile', cookie', pfile'.pos)
      <4>1. (pfile.pos + n) - n = pfile.pos /\ n <= pfile.pos + n /\ n > 0
        BY <1>3, <1>5, <1>9
      <4>2. part = Slice(pfile'.text, pfile'.pos - cookie'.length, cookie'.length)
        BY <1>7, <2>1, <3>1, <4>1 DEF part
      <4> QED
        BY <1>3, <1>5, <1>7, <2>1, <3>1, <3>2, <4>1, <4>2 DEF Holds
    <3>4. Reading(pfile', cookie', pcaller')
      <4> HIDE DEF full, L
      <4> QED
        BY <1>3, <1>5, <1>6, <1>7, <2>1, <2>2, <3>1, <3>3 DEF Reading
    <3> QED
      BY <1>1, <1>2, <1>7, <2>1, <3>4 DEF PInv, PTypes
  <2> QED
    BY <2>3, <2>4
<1> QED
  BY <1>8, <1>9

\* A read that fails.
LEMMA PFillFails ==
  ASSUME PInv, fill_fails
  PROVE  PInv'
<1>1. PTypes /\ Reading(pfile, cookie, pcaller) /\ ~cookie.final
  BY DEF PInv, fill_fails
<1>2. pmode' = "r" /\ pcaller' = [pcaller EXCEPT !.res = -1] /\ pfile' = pfile
      /\ cookie' = cookie /\ pcall' = pcall
  BY DEF fill_fails
<1>3. PTypes' /\ Reading(pfile', cookie', pcaller')
  BY <1>1, <1>2 DEF PTypes, Files, Cookies, Reading
<1> QED
  BY <1>1, <1>2, <1>3 DEF PInv

\* The sizes that stdio asks for.
LEMMA CallCount == PTypes => pcall.count \in Nat /\ pcall.at \in Nat
<1> SUFFICES ASSUME PTypes PROVE pcall.count \in Nat /\ pcall.at \in Nat
  OBVIOUS
<1>1. \A n \in Counts \cup {0} : n \in Nat
  BY PioAssumption
<1>2. pcall.count \in Counts \cup {0} /\ pcall.at \in Nat
  BY DEF PTypes
<1> QED
  BY <1>1, <1>2

\* One text after another.
LEMMA JoinIs ==
  ASSUME NEW s \in CharSeqs, NEW t \in CharSeqs
  PROVE  /\ s \o t \in CharSeqs /\ Len(s \o t) = Len(s) + Len(t)
         /\ \A ix \in 1 .. Len(s) + Len(t) :
              (s \o t)[ix] = IF ix <= Len(s) THEN s[ix] ELSE t[ix - Len(s)]
BY DEF CharSeqs

\* Two parts of a text that follow each other.
LEMMA JoinParts ==
  ASSUME NEW s \in CharSeqs, NEW a \in Nat, NEW n \in Nat, a + n <= Len(s)
  PROVE  Upto(s, a) \o Slice(s, a, n) = Upto(s, a + n)
<1> DEFINE x == Upto(s, a)
           y == Slice(s, a, n)
           z == Upto(s, a + n)
<1>0. Len(s) \in Nat /\ a \in 0 .. Len(s) /\ a + n \in 0 .. Len(s)
  BY TextLength
<1>1. x \in CharSeqs /\ Len(x) = a /\ \A ix \in 1 .. a : x[ix] = s[ix]
  BY <1>0, UptoIs
<1>2. y \in CharSeqs /\ Len(y) = n /\ \A ix \in 1 .. n : y[ix] = s[a + ix]
  BY SliceIs
<1>3. z \in CharSeqs /\ Len(z) = a + n /\ \A ix \in 1 .. a + n : z[ix] = s[ix]
  BY <1>0, UptoIs
<1> HIDE DEF x, y, z
<1>4. x \o y \in CharSeqs /\ Len(x \o y) = a + n
      /\ \A ix \in 1 .. a + n : (x \o y)[ix] = IF ix <= a THEN x[ix] ELSE y[ix - a]
  BY <1>1, <1>2, JoinIs
<1> DEFINE w == x \o y
<1>5. w \in CharSeqs /\ Len(w) = a + n
      /\ \A ix \in 1 .. a + n : w[ix] = IF ix <= a THEN x[ix] ELSE y[ix - a]
  BY <1>4
<1> HIDE DEF w
<1>6. \A ix \in 1 .. Len(w) : w[ix] = z[ix]
  <2> TAKE ix \in 1 .. Len(w)
  <2>1. ix \in 1 .. a + n
    BY <1>5
  <2>2. CASE ix <= a
    <3>1. ix \in 1 .. a
      BY <2>1, <2>2
    <3>2. w[ix] = x[ix]
      BY <1>5, <2>1, <2>2
    <3>3. x[ix] = s[ix]
      BY <1>1, <3>1
    <3>4. z[ix] = s[ix]
      BY <1>3, <2>1
    <3> QED
      BY <3>2, <3>3, <3>4
  <2>3. CASE ix > a
    <3>1. ix - a \in 1 .. n /\ a + (ix - a) = ix
      BY <2>1, <2>3
    <3>2. y[ix - a] = s[ix]
      BY <1>2, <3>1
    <3>3. w[ix] = y[ix - a]
      BY <1>5, <2>1, <2>3
    <3>4. z[ix] = s[ix]
      BY <1>3, <2>1
    <3> QED
      BY <3>2, <3>3, <3>4
  <2> QED
    BY <2>1, <2>2, <2>3
<1>7. w = z
  BY <1>3, <1>5, <1>6, SameSeq
<1> QED
  BY <1>7 DEF w, x, y, z

\* The end of proc_read: the next characters of the buffer.
LEMMA PFilled ==
  ASSUME PInv, filled
  PROVE  PInv'
<1> DEFINE n == Least(cookie.length - cookie.offset, pcall.count)
<1>1. PTypes /\ Reading(pfile, cookie, pcaller) /\ cookie.final /\ pcall.count > 0
  BY DEF PInv, filled
<1>2. /\ cookie' = [cookie EXCEPT !.offset = cookie.offset + n]
      /\ pcaller' = [pcaller EXCEPT !.got = pcaller.got \o Slice(cookie.buf, cookie.offset, n),
                                    !.res = IF n = 0 THEN -1 ELSE n]
      /\ pmode' = "r" /\ pfile' = pfile /\ pcall' = pcall
  BY DEF filled
<1>0. pcall.count \in Nat
  BY <1>1, CallCount
<1>3. /\ cookie.length \in Nat /\ cookie.offset \in Nat /\ cookie.offset <= cookie.length
      /\ cookie.buf \in CharSeqs /\ cookie.length = Len(cookie.buf)
      /\ pcaller.got = Upto(cookie.buf, cookie.offset)
  BY <1>1 DEF PTypes, Files, Cookies, Reading
<1>4. n \in Nat /\ cookie.offset + n <= cookie.length
      /\ (n = 0 => cookie.offset = cookie.length)
  BY <1>0, <1>1, <1>3 DEF Least
<1> HIDE DEF n
<1> DEFINE got == pcaller.got \o Slice(cookie.buf, cookie.offset, n)
<1>5. got = Upto(cookie.buf, cookie.offset + n)
  BY <1>3, <1>4, JoinParts
<1>6. got \in CharSeqs
  <2>1. cookie.offset + n \in 0 .. Len(cookie.buf)
    BY <1>3, <1>4
  <2> QED
    BY <1>3, <1>5, <2>1, UptoIs
<1>7. pcaller' = [pcaller EXCEPT !.got = got, !.res = IF n = 0 THEN -1 ELSE n]
  BY <1>2
<1> HIDE DEF got
<1>8. PTypes'
  <2>1. cookie' \in Cookies
    BY <1>1, <1>2, <1>3, <1>4 DEF PTypes, Cookies
  <2>2. (IF n = 0 THEN -1 ELSE n) \in Nat \cup {-1}
    BY <1>4
  <2> QED
    BY <1>1, <1>2, <1>6, <1>7, <2>1, <2>2 DEF PTypes
<1>9. /\ pcaller'.got = got /\ pcaller'.text = pcaller.text
      /\ pcaller'.res = IF n = 0 THEN -1 ELSE n
      /\ cookie'.offset = cookie.offset + n /\ cookie'.length = cookie.length
      /\ cookie'.buf = cookie.buf /\ cookie'.count = cookie.count /\ cookie'.final
  BY <1>1, <1>2, <1>7 DEF PTypes, Cookies
<1>10. Reading(pfile', cookie', pcaller')
  <2>1. pfile.text # <<>> => Holds(pfile', cookie', Len(pfile.text))
    BY <1>1, <1>2, <1>9 DEF Reading, Holds
  <2> QED
    BY <1>1, <1>2, <1>3, <1>4, <1>5, <1>9, <2>1 DEF Reading
<1>11. pcaller'.res = -1 => cookie'.offset = cookie'.length
  BY <1>3, <1>4, <1>9
<1> QED
  BY <1>2, <1>8, <1>10, <1>11 DEF PInv

\* Closing a stream.
LEMMA PClose ==
  ASSUME PInv, proc_close
  PROVE  PInv'
<1>1. pmode' = "done" /\ pfile' = pfile /\ cookie' = cookie /\ pcall' = pcall
      /\ pcaller' = pcaller /\ pmode \in {"r", "w"}
  BY DEF proc_close
<1>2. PTypes'
  BY <1>1 DEF PInv, PTypes
<1>3. CASE pmode = "r"
  <2>1. pcaller.res = -1
    BY <1>3 DEF proc_close
  <2> QED
    BY <1>1, <1>2, <1>3, <2>1 DEF PInv
<1>4. CASE pmode = "w"
  <2>1. pcaller.res # -1 => Len(cookie.buf) = Len(pcaller.text)
    BY <1>4 DEF proc_close
  <2> QED
    BY <1>1, <1>2, <1>4, <2>1 DEF PInv
<1> QED
  BY <1>1, <1>3, <1>4

\* What was given ends the text just when it holds the newline.
LEMMA GivenEnds ==
  ASSUME NEW s \in CharSeqs, OneLine(s), NEW a \in Nat, NEW n \in Nat, n > 0, a + n <= Len(s)
  PROVE  NL \in ToSet(Slice(s, a, n)) <=> a + n = Len(s)
<1> DEFINE y == Slice(s, a, n)
<1>1. y \in CharSeqs /\ Len(y) = n /\ \A ix \in 1 .. n : y[ix] = s[a + ix]
  BY SliceIs
<1> HIDE DEF y
<1>2. NL \in ToSet(y) <=> \E ix \in 1 .. Len(y) : y[ix] = NL
  <2>1. DOMAIN y = 1 .. Len(y)
    BY <1>1 DEF CharSeqs
  <2>2. ToSet(y) = {y[ix] : ix \in DOMAIN y}
    BY Zenon DEF ToSet
  <2> QED
    BY <2>1, <2>2
<1>3. Len(s) \in Nat /\ \A j \in 1 .. Len(s) : s[j] = NL <=> j = Len(s)
  BY TextLength DEF OneLine
<1>4. \A ix \in 1 .. n : a + ix \in 1 .. Len(s) /\ (y[ix] = NL <=> a + ix = Len(s))
  BY <1>1, <1>3
<1>5. (\E ix \in 1 .. n : y[ix] = NL) <=> a + n = Len(s)
  BY <1>3, <1>4
<1> QED
  BY <1>1, <1>2, <1>5 DEF y

\* The whole text.
LEMMA UptoAll ==
  ASSUME NEW s \in CharSeqs
  PROVE  Upto(s, Len(s)) = s /\ <<>> \o s = s
BY DEF CharSeqs, Upto

\* A piece that stdio hands over.
LEMMA PWrite ==
  ASSUME PInv, NEW n \in Counts, proc_write(n)
  PROVE  PInv'
<1> DEFINE given == Slice(pcaller.text, Len(cookie.buf), n)
           buf == cookie.buf \o given
           final == NL \in ToSet(given)
           whole == Len(buf) <= pfile.limit
<1>1. PTypes /\ Writing(pfile, cookie, pcaller) /\ n \in Nat /\ n > 0
  BY PioAssumption DEF PInv, proc_write
<1>2. /\ cookie' = [cookie EXCEPT !.buf = buf, !.offset = Len(buf), !.final = final,
                                  !.count = IF cookie.count < Len(buf) THEN cookie.count + n
                                            ELSE cookie.count]
      /\ pfile' = IF final /\ whole THEN Takes(buf) ELSE pfile
      /\ IF final /\ ~whole THEN pmode' = "split" /\ pcaller' = pcaller
         ELSE pmode' = "w" /\ pcaller' = [pcaller EXCEPT !.res = n]
      /\ pcall' = [count |-> n, at |-> 0]
  BY DEF proc_write
<1>3. /\ pcaller.text \in CharSeqs /\ cookie.buf \in CharSeqs /\ cookie.count \in Nat
      /\ pfile.limit \in Nat /\ Len(cookie.buf) \in Nat /\ Len(pcaller.text) \in Nat
      /\ Len(cookie.buf) <= cookie.count /\ OneLine(pcaller.text)
  BY <1>1, TextLength DEF PTypes, Files, Cookies, Writing
<1>4. Len(cookie.buf) + n <= Len(pcaller.text) /\ pcaller.res >= 0 /\ pcaller.res # -1
  <2>1. Len(cookie.buf) + n <= Len(pcaller.text) /\ pcaller.res >= 0
    BY DEF proc_write
  <2> QED
    BY <2>1
<1>5. pfile.value = <<>> /\ pfile.lines = {} /\ cookie.buf = Upto(pcaller.text, Len(cookie.buf))
  BY <1>1, <1>3, <1>4 DEF Writing
<1>6. buf = Upto(pcaller.text, Len(cookie.buf) + n)
  <2>1. Upto(pcaller.text, Len(cookie.buf)) \o given = Upto(pcaller.text, Len(cookie.buf) + n)
    BY <1>1, <1>3, <1>4, JoinParts
  <2> HIDE DEF given
  <2> QED
    BY <1>5, <2>1, Zenon
<1>7. final <=> Len(cookie.buf) + n = Len(pcaller.text)
  BY <1>1, <1>3, <1>4, GivenEnds
<1>8. buf \in CharSeqs /\ Len(buf) = Len(cookie.buf) + n
  <2>1. Len(cookie.buf) + n \in 0 .. Len(pcaller.text)
    BY <1>1, <1>3, <1>4
  <2> QED
    BY <1>3, <1>6, <2>1, UptoIs
<1>9. (final => buf = pcaller.text) /\ final \in BOOLEAN
  BY <1>3, <1>6, <1>7, UptoAll
<1>10. Takes(buf) = [pfile EXCEPT !.value = buf, !.lines = {buf}]
  <2>1. (IF pfile.value = <<>> THEN <<>> ELSE Append(Front(pfile.value), DELIM)) \o buf = buf
    BY <1>5, <1>8, UptoAll
  <2>2. pfile.lines \cup {buf} = {buf}
    BY <1>5
  <2> QED
    BY <2>1, <2>2 DEF Takes
<1> HIDE DEF given, buf, final
<1>11. cookie' \in Cookies /\ cookie'.buf = buf /\ cookie'.offset = Len(buf)
       /\ cookie'.count >= Len(buf)
  <2> DEFINE c == IF cookie.count < Len(buf) THEN cookie.count + n ELSE cookie.count
  <2>1. c \in Nat /\ c >= Len(buf) /\ Len(buf) \in Nat
    BY <1>1, <1>3, <1>8
  <2>2. cookie' = [cookie EXCEPT !.buf = buf, !.offset = Len(buf), !.final = final, !.count = c]
    BY <1>2
  <2> HIDE DEF c
  <2>3. cookie \in Cookies
    BY <1>1 DEF PTypes
  <2>4. cookie' \in Cookies
    BY <1>8, <1>9, <2>1, <2>2, <2>3 DEF Cookies
  <2>5. cookie'.buf = buf /\ cookie'.offset = Len(buf) /\ cookie'.count = c
    BY <2>2, <2>3 DEF Cookies
  <2> QED
    BY <2>1, <2>4, <2>5
<1>12. pcall' \in [count : Counts \cup {0}, at : Nat] /\ pcall'.at = 0
  BY <1>2
<1>13. pfile \in Files /\ pcaller \in [text : CharSeqs, got : CharSeqs, res : Nat \cup {-1}]
  BY <1>1 DEF PTypes
<1>14. CASE final /\ whole
  <2>1. pfile' = [pfile EXCEPT !.value = buf, !.lines = {buf}]
        /\ pmode' = "w" /\ pcaller' = [pcaller EXCEPT !.res = n]
    BY <1>2, <1>10, <1>14
  <2>2. PTypes'
    BY <1>1, <1>8, <1>11, <1>12, <1>13, <2>1 DEF PTypes, Files
  <2>3. pcaller'.text = pcaller.text /\ pfile'.limit = pfile.limit /\ pfile'.lines = {buf}
        /\ pfile'.value = buf
    BY <1>13, <2>1 DEF Files
  <2>4. LineOK(pfile', pcaller', buf)
    BY <1>3, <1>9, <1>14, <2>3 DEF LineOK
  <2>5. Writing(pfile', cookie', pcaller')
    BY <1>3, <1>8, <1>9, <1>11, <1>14, <2>3, <2>4 DEF Writing
  <2> QED
    BY <2>1, <2>2, <2>5 DEF PInv
<1>15. CASE final /\ ~whole
  <2>1. pfile' = pfile /\ pmode' = "split" /\ pcaller' = pcaller
    BY <1>2, <1>15
  <2>2. PTypes'
    BY <1>1, <1>11, <1>12, <1>13, <2>1 DEF PTypes
  <2>3. Len(pcaller.text) > pfile.limit /\ Len(pcaller.text) > 0
    BY <1>1, <1>3, <1>7, <1>8, <1>9, <1>15
  <2>4. Splitting(pfile', cookie', pcall', pcaller')
    BY <1>3, <1>4, <1>5, <1>9, <1>11, <1>12, <1>15, <2>1, <2>3 DEF Splitting, Written_to
  <2> QED
    BY <2>1, <2>2, <2>4 DEF PInv
<1>16. CASE ~final
  <2>1. pfile' = pfile /\ pmode' = "w" /\ pcaller' = [pcaller EXCEPT !.res = n]
    BY <1>2, <1>16
  <2>2. PTypes'
    BY <1>1, <1>11, <1>12, <1>13, <2>1 DEF PTypes
  <2>3. pcaller'.text = pcaller.text /\ Len(buf) < Len(pcaller.text)
    BY <1>1, <1>3, <1>4, <1>7, <1>8, <1>13, <1>16, <2>1
  <2>4. buf = Upto(pcaller.text, Len(buf))
    BY <1>6, <1>8
  <2>5. Writing(pfile', cookie', pcaller')
    BY <1>3, <1>5, <1>8, <1>11, <2>1, <2>3, <2>4 DEF Writing
  <2> QED
    BY <2>1, <2>2, <2>5 DEF PInv
<1> QED
  BY <1>14, <1>15, <1>16

\* Appending and taking the last one off again.
LEMMA FrontOfAppend ==
  ASSUME NEW u \in CharSeqs, NEW c \in Chars
  PROVE  Append(u, c) # <<>> /\ Front(Append(u, c)) = u
<1>1. Append(u, c) \in CharSeqs /\ Len(Append(u, c)) = Len(u) + 1 /\ Append(u, c) # <<>>
      /\ \A ix \in 1 .. Len(u) : Append(u, c)[ix] = u[ix]
  <2>1. Append(u, c) \in CharSeqs
    BY DEF CharSeqs
  <2>2. Len(Append(u, c)) = Len(u) + 1 /\ Len(u) \in Nat
    BY DEF CharSeqs
  <2>3. Append(u, c) # <<>>
    BY <2>2
  <2>4. \A ix \in 1 .. Len(u) : Append(u, c)[ix] = u[ix]
    BY DEF CharSeqs
  <2> QED
    BY <2>1, <2>2, <2>3, <2>4
<1>2. Front(Append(u, c)) = SubSeq(Append(u, c), 1, Len(Append(u, c)) - 1)
  BY DEF Front
<1> DEFINE v == Append(u, c)
           w == Upto(v, Len(u))
<1>3. v \in CharSeqs /\ Len(v) = Len(u) + 1 /\ (\A ix \in 1 .. Len(u) : v[ix] = u[ix])
      /\ Len(u) \in Nat
  BY <1>1, TextLength
<1> HIDE DEF v
<1>4. w \in CharSeqs /\ Len(w) = Len(u) /\ \A ix \in 1 .. Len(u) : w[ix] = v[ix]
  BY <1>3, UptoIs
<1> HIDE DEF w
<1>5. w = u
  <2>1. \A ix \in 1 .. Len(w) : w[ix] = u[ix]
    BY <1>3, <1>4
  <2> QED
    BY <1>4, <2>1, SameSeq
<1>6. Len(Append(u, c)) - 1 = Len(u)
  BY <1>1, <1>3
<1> QED
  BY <1>1, <1>2, <1>5, <1>6 DEF v, w, Upto

\* Appending to what was joined.
LEMMA AppendJoin ==
  ASSUME NEW u \in CharSeqs, NEW v \in CharSeqs, NEW c \in Chars
  PROVE  u \o Append(v, c) = Append(u \o v, c)
<1>1. u \in Seq(Chars) /\ v \in Seq(Chars)
  BY DEF CharSeqs
<1> QED
  BY <1>1

\* A newline is read as the delimiter when more follows.
LEMMA TakesMore ==
  ASSUME NEW s \in CharSeqs, NEW at \in Nat, NEW cut \in Nat, cut > 0, at + cut <= Len(s),
         at > 0 => s[at] = DELIM
  PROVE  (IF Written_to(s, at) = <<>> THEN <<>> ELSE Append(Front(Written_to(s, at)), DELIM))
            \o Append(Slice(s, at, cut - 1), NL)
         = Written_to(s, at + cut)
<1> DEFINE head == IF Written_to(s, at) = <<>> THEN <<>>
                   ELSE Append(Front(Written_to(s, at)), DELIM)
           body == Slice(s, at, cut - 1)
<1>0. Len(s) \in Nat /\ at \in 0 .. Len(s) /\ cut - 1 \in Nat /\ at + (cut - 1) <= Len(s)
      /\ (at + cut) - 1 = at + (cut - 1)
  BY TextLength
<1>1. head = Upto(s, at)
  <2>1. CASE at = 0
    BY <2>1, NoPart DEF Written_to
  <2>2. CASE at > 0
    <3>0. at - 1 \in 0 .. Len(s) /\ at \in Nat /\ DELIM \in Chars /\ NL \in Chars
      BY <1>0, <2>2, CharsDiffer
    <3> DEFINE u == Upto(s, at - 1)
    <3>1. u \in CharSeqs /\ Len(u) = at - 1 /\ \A ix \in 1 .. at - 1 : u[ix] = s[ix]
      BY <3>0, UptoIs
    <3>2. Written_to(s, at) = Append(u, NL)
      BY <2>2 DEF Written_to
    <3> HIDE DEF u
    <3>3. Append(u, NL) # <<>> /\ Front(Append(u, NL)) = u
      BY <3>0, <3>1, FrontOfAppend
    <3>4. head = Append(u, DELIM)
      BY <3>2, <3>3
    <3>5. Append(u, DELIM) \in CharSeqs /\ Len(Append(u, DELIM)) = at
          /\ \A ix \in 1 .. at : Append(u, DELIM)[ix] = IF ix = at THEN DELIM ELSE u[ix]
      BY <3>0, <3>1, <2>2 DEF CharSeqs
    <3> DEFINE v == Append(u, DELIM)
               w == Upto(s, at)
    <3>6. v \in CharSeqs /\ Len(v) = at /\ \A ix \in 1 .. at : v[ix] = IF ix = at THEN DELIM ELSE u[ix]
      BY <3>5
    <3>7. w \in CharSeqs /\ Len(w) = at /\ \A ix \in 1 .. at : w[ix] = s[ix]
      BY <1>0, UptoIs
    <3> HIDE DEF v, w
    <3>8. \A ix \in 1 .. Len(v) : v[ix] = w[ix]
      BY <2>2, <3>1, <3>6, <3>7
    <3>9. v = w
      BY <3>6, <3>7, <3>8, SameSeq
    <3> QED
      BY <3>4, <3>9 DEF v, w
  <2> QED
    BY <1>0, <2>1, <2>2
<1>2. Upto(s, at) \o body = Upto(s, at + (cut - 1))
  BY <1>0, JoinParts
<1>3. Upto(s, at) \in CharSeqs /\ body \in CharSeqs
  BY <1>0, UptoIs, SliceIs
<1> HIDE DEF head, body
<1>4. Upto(s, at) \o Append(body, NL) = Append(Upto(s, at) \o body, NL)
  BY <1>3, AppendJoin, CharsDiffer
<1>5. Written_to(s, at + cut) = Append(Upto(s, at + (cut - 1)), NL)
  BY <1>0 DEF Written_to
<1>6. head \o Append(body, NL) = Written_to(s, at + cut)
  BY <1>1, <1>2, <1>4, <1>5
<1> QED
  BY <1>6 DEF head, body

\* A character that is overwritten.
LEMMA ChangeOne ==
  ASSUME NEW s \in CharSeqs, NEW k \in 1 .. Len(s), NEW c \in Chars
  PROVE  /\ [s EXCEPT ![k] = c] \in CharSeqs /\ Len([s EXCEPT ![k] = c]) = Len(s)
         /\ \A ix \in k + 1 .. Len(s) : [s EXCEPT ![k] = c][ix] = s[ix]
BY DEF CharSeqs

\* Where the split cuts: at a delimiter inside a line, or at the end.
LEMMA CutIs ==
  ASSUME PTypes, Splitting(pfile, cookie, pcall, pcaller)
  PROVE  LET cut == Cut(SubSeq(cookie.buf, pcall.at + 1, Len(cookie.buf)))
         IN  /\ cut \in Nat /\ cut <= LINELEN /\ cut <= cookie.offset
             /\ (cut # 0 /\ cut # cookie.offset) => pcaller.text[pcall.at + cut] = DELIM
<1> DEFINE at == pcall.at
           text == pcaller.text
           rest == SubSeq(cookie.buf, at + 1, Len(cookie.buf))
<1>1. /\ at \in Nat /\ text \in CharSeqs /\ cookie.buf \in CharSeqs /\ cookie.offset \in Nat
      /\ Len(cookie.buf) = Len(text) /\ at + cookie.offset = Len(text) /\ Len(text) \in Nat
      /\ LINELEN \in Nat /\ cookie.offset > 0
  BY CallCount, TextLength, PioAssumption DEF PTypes, Cookies, Splitting
<1>2. \A ix \in at + 1 .. Len(text) : cookie.buf[ix] = text[ix]
  BY DEF Splitting
<1>3. at + cookie.offset = Len(cookie.buf)
  BY <1>1
<1>4. rest \in CharSeqs /\ Len(rest) = cookie.offset
      /\ \A ix \in 1 .. cookie.offset : rest[ix] = cookie.buf[at + ix]
  <2>1. rest = Slice(cookie.buf, at, cookie.offset)
    BY <1>3 DEF Slice
  <2>2. at \in Nat /\ cookie.buf \in CharSeqs /\ cookie.offset \in Nat
        /\ at + cookie.offset <= Len(cookie.buf)
    BY <1>1
  <2> HIDE DEF rest, at
  <2>3. /\ Slice(cookie.buf, at, cookie.offset) \in CharSeqs
        /\ Len(Slice(cookie.buf, at, cookie.offset)) = cookie.offset
        /\ \A ix \in 1 .. cookie.offset : Slice(cookie.buf, at, cookie.offset)[ix] = cookie.buf[at + ix]
    BY <2>2, SliceIs
  <2> QED
    BY <2>1, <2>3
<1> HIDE DEF rest, at, text
<1>5. \A ix \in 1 .. cookie.offset : rest[ix] = text[at + ix]
  <2> TAKE ix \in 1 .. cookie.offset
  <2>1. at + ix \in at + 1 .. Len(text)
    BY <1>1
  <2> QED
    BY <1>2, <1>4, <2>1
<1>6. CASE cookie.offset > LINELEN
  <2>1. Cut(rest) = LastOf(rest, DELIM, LINELEN)
    BY <1>6 DEF Cut, CutAt
  <2> DEFINE l == LastOf(rest, DELIM, LINELEN)
  <2>2. l \in 0 .. LINELEN /\ l <= Len(rest) /\ (l # 0 => rest[l] = DELIM)
    BY <1>1, <1>4, LastOfIs
  <2> HIDE DEF l
  <2>3. l \in Nat /\ l <= LINELEN /\ l <= cookie.offset /\ (l # 0 => text[at + l] = DELIM)
    BY <1>1, <1>4, <1>5, <2>2
  <2> QED
    BY <2>1, <2>3 DEF l, rest, at, text
<1>7. CASE ~ (cookie.offset > LINELEN)
  <2>1. Cut(rest) = LastOf(rest, NL, cookie.offset)
    BY <1>7 DEF Cut, CutAt
  <2> DEFINE l == LastOf(rest, NL, cookie.offset)
  <2>2. l \in 0 .. cookie.offset
        /\ \A j \in 1 .. cookie.offset : (j <= Len(rest) /\ rest[j] = NL) => j <= l
    BY <1>1, <1>4, LastOfIs
  <2>3. text[Len(text)] = NL
    BY <1>1, TextLength DEF Splitting, OneLine, text
  <2>4. rest[cookie.offset] = NL
    BY <1>1, <1>5, <2>3
  <2> HIDE DEF l
  <2>5. l = cookie.offset
    BY <1>1, <1>4, <2>2, <2>4
  <2> QED
    BY <1>1, <1>7, <2>1, <2>5 DEF l, rest, at, text
<1> QED
  BY <1>6, <1>7

\* A text whose end is written is written.
LEMMA WrittenAll ==
  ASSUME NEW s \in CharSeqs, OneLine(s)
  PROVE  Written_to(s, Len(s)) = s
<1>1. Len(s) \in Nat /\ Len(s) > 0 /\ s[Len(s)] = NL /\ NL \in Chars
  BY TextLength, CharsDiffer DEF OneLine
<1> DEFINE u == Upto(s, Len(s) - 1)
<1>2. u \in CharSeqs /\ Len(u) = Len(s) - 1 /\ \A ix \in 1 .. Len(s) - 1 : u[ix] = s[ix]
  <2>1. Len(s) - 1 \in 0 .. Len(s)
    BY <1>1
  <2> QED
    BY <2>1, UptoIs
<1> HIDE DEF u
<1>3. Append(u, NL) \in CharSeqs /\ Len(Append(u, NL)) = Len(s)
      /\ \A ix \in 1 .. Len(s) : Append(u, NL)[ix] = IF ix = Len(s) THEN NL ELSE u[ix]
  BY <1>1, <1>2 DEF CharSeqs
<1> DEFINE v == Append(u, NL)
<1>4. v \in CharSeqs /\ Len(v) = Len(s) /\ \A ix \in 1 .. Len(s) : v[ix] = IF ix = Len(s) THEN NL ELSE u[ix]
  BY <1>3
<1> HIDE DEF v
<1>5. \A ix \in 1 .. Len(v) : v[ix] = s[ix]
  BY <1>1, <1>2, <1>4
<1>6. v = s
  BY <1>4, <1>5, SameSeq
<1> QED
  BY <1>1, <1>6 DEF v, u, Written_to

\* A round of the split.
LEMMA PSplit ==
  ASSUME PInv, split
  PROVE  PInv'
<1> DEFINE at == pcall.at
           text == pcaller.text
           cut == Cut(SubSeq(cookie.buf, at + 1, Len(cookie.buf)))
           piece == Append(Slice(cookie.buf, at, cut - 1), NL)
           ok == cut # 0 /\ Len(piece) <= pfile.limit
           last == ok /\ cut >= cookie.offset
           buf == IF cut = 0 THEN cookie.buf ELSE [cookie.buf EXCEPT ![at + cut] = NL]
<1>1. PTypes /\ Splitting(pfile, cookie, pcall, pcaller) /\ pmode = "split"
  BY DEF PInv, split
<1>2. /\ pfile' = IF ok THEN Takes(piece) ELSE pfile
      /\ cookie' = [cookie EXCEPT !.buf = buf,
                      !.offset = IF ok /\ ~last THEN cookie.offset - cut ELSE cookie.offset]
      /\ pcall' = [pcall EXCEPT !.at = IF ok /\ ~last THEN at + cut ELSE at]
      /\ pmode' = IF ok /\ ~last THEN "split" ELSE "w"
      /\ pcaller' = [pcaller EXCEPT !.res = IF last THEN pcall.count ELSE IF ok THEN pcaller.res
                                            ELSE -1]
  BY DEF split
<1>3. /\ at \in Nat /\ text \in CharSeqs /\ cookie.buf \in CharSeqs /\ cookie.offset \in Nat
      /\ Len(cookie.buf) = Len(text) /\ at + cookie.offset = Len(text) /\ Len(text) \in Nat
      /\ LINELEN \in Nat /\ cookie.offset > 0 /\ pcall.count \in Nat
  BY <1>1, CallCount, TextLength, PioAssumption DEF PTypes, Cookies, Splitting
<1>4. /\ cut \in Nat /\ cut <= LINELEN /\ cut <= cookie.offset
      /\ (cut # 0 /\ cut # cookie.offset) => text[at + cut] = DELIM
  BY <1>1, CutIs
<1>5. OneLine(text) /\ (at > 0 => text[at] = DELIM) /\ pfile.value = Written_to(text, at)
      /\ Len(text) > pfile.limit /\ Len(cookie.buf) <= cookie.count /\ pcaller.res # -1
      /\ (\A ix \in at + 1 .. Len(text) : cookie.buf[ix] = text[ix])
      /\ \A p \in pfile.lines : LineOK(pfile, pcaller, p)
  BY <1>1 DEF Splitting
<1> HIDE DEF cut, at, text
<1>6. ok => /\ piece = Append(Slice(text, at, cut - 1), NL)
            /\ piece \in CharSeqs /\ Len(piece) = cut /\ OneLine(piece)
  <2> SUFFICES ASSUME cut # 0
               PROVE  /\ piece = Append(Slice(text, at, cut - 1), NL)
                      /\ piece \in CharSeqs /\ Len(piece) = cut /\ OneLine(piece)
    OBVIOUS
  <2> DEFINE x == Slice(text, at, cut - 1)
             y == Slice(cookie.buf, at, cut - 1)
  <2>1. cut - 1 \in Nat /\ at + (cut - 1) < Len(text) /\ (cut - 1) + 1 = cut
    BY <1>3, <1>4
  <2>2. x \in CharSeqs /\ Len(x) = cut - 1 /\ \A ix \in 1 .. cut - 1 : x[ix] = text[at + ix]
    BY <1>3, <2>1, SliceIs
  <2>3. y \in CharSeqs /\ Len(y) = cut - 1 /\ \A ix \in 1 .. cut - 1 : y[ix] = cookie.buf[at + ix]
    <3>1. at + (cut - 1) <= Len(cookie.buf)
      BY <1>3, <2>1
    <3> QED
      BY <1>3, <2>1, <3>1, SliceIs
  <2> HIDE DEF x, y
  <2>4. \A ix \in 1 .. cut - 1 : /\ at + ix \in at + 1 .. Len(text) /\ at + ix \in 1 .. Len(text)
                                 /\ at + ix # Len(text)
    BY <1>3, <2>1
  <2>5. \A ix \in 1 .. Len(y) : y[ix] = x[ix]
    BY <1>5, <2>2, <2>3, <2>4
  <2>6. y = x
    BY <2>2, <2>3, <2>5, SameSeq
  <2>7. \A ix \in 1 .. Len(x) : x[ix] # NL
    <3>1. \A j \in 1 .. Len(text) : text[j] = NL <=> j = Len(text)
      BY <1>5 DEF OneLine
    <3> QED
      BY <2>2, <2>4, <3>1
  <2>8. Append(x, NL) \in CharSeqs /\ Len(Append(x, NL)) = Len(x) + 1 /\ OneLine(Append(x, NL))
    BY <2>2, <2>7, AppendNL
  <2>9. piece = Append(x, NL) /\ Len(x) + 1 = cut
    BY <2>1, <2>2, <2>6 DEF y
  <2> QED
    BY <2>8, <2>9 DEF x
<1>7. buf \in CharSeqs /\ Len(buf) = Len(text)
      /\ \A ix \in at + cut + 1 .. Len(text) : buf[ix] = cookie.buf[ix]
  <2>1. NL \in Chars
    BY CharsDiffer
  <2>2. CASE cut = 0
    BY <1>3, <2>2
  <2>3. CASE cut # 0
    <3>1. at + cut \in 1 .. Len(cookie.buf)
      BY <1>3, <1>4, <2>3
    <3>2. PICK k \in 1 .. Len(cookie.buf) : k = at + cut
      BY <3>1
    <3>3. [cookie.buf EXCEPT ![k] = NL] \in CharSeqs
          /\ Len([cookie.buf EXCEPT ![k] = NL]) = Len(cookie.buf)
          /\ \A ix \in k + 1 .. Len(cookie.buf) : [cookie.buf EXCEPT ![k] = NL][ix] = cookie.buf[ix]
      BY <1>3, <2>1, <3>2, ChangeOne
    <3>4. buf = [cookie.buf EXCEPT ![k] = NL]
      BY <2>3, <3>2
    <3> QED
      BY <1>3, <3>2, <3>3, <3>4
  <2> QED
    BY <2>2, <2>3
<1>8. ok => /\ Takes(piece) = [pfile EXCEPT !.value = Written_to(text, at + cut),
                                            !.lines = pfile.lines \cup {piece}]
            /\ Written_to(text, at + cut) \in CharSeqs
            /\ LineOK(pfile, pcaller, piece)
  <2> SUFFICES ASSUME ok
               PROVE  /\ Takes(piece) = [pfile EXCEPT !.value = Written_to(text, at + cut),
                                                      !.lines = pfile.lines \cup {piece}]
                      /\ Written_to(text, at + cut) \in CharSeqs
                      /\ LineOK(pfile, pcaller, piece)
    OBVIOUS
  <2>1. piece = Append(Slice(text, at, cut - 1), NL)
        /\ piece \in CharSeqs /\ Len(piece) = cut /\ OneLine(piece)
    BY <1>6
  <2>2. cut > 0 /\ at + cut <= Len(text)
    BY <1>3, <1>4
  <2> HIDE DEF piece, ok
  <2>3. (IF Written_to(text, at) = <<>> THEN <<>>
         ELSE Append(Front(Written_to(text, at)), DELIM)) \o piece = Written_to(text, at + cut)
    <3>1. text \in CharSeqs /\ at \in Nat /\ cut \in Nat /\ cut > 0 /\ at + cut <= Len(text)
          /\ (at > 0 => text[at] = DELIM)
      BY <1>3, <1>4, <1>5, <2>2
    <3>2. (IF Written_to(text, at) = <<>> THEN <<>>
           ELSE Append(Front(Written_to(text, at)), DELIM)) \o Append(Slice(text, at, cut - 1), NL)
          = Written_to(text, at + cut)
      BY <3>1, TakesMore
    <3> QED
      BY <2>1, <3>2, Zenon
  <2>4. Takes(piece) = [pfile EXCEPT !.value = Written_to(text, at + cut),
                                     !.lines = pfile.lines \cup {piece}]
    <3>1. Takes(piece) = [pfile EXCEPT
            !.value = (IF pfile.value = <<>> THEN <<>>
                       ELSE Append(Front(pfile.value), DELIM)) \o piece,
            !.lines = pfile.lines \cup {piece}]
      BY DEF Takes
    <3>2. (IF pfile.value = <<>> THEN <<>>
           ELSE Append(Front(pfile.value), DELIM)) \o piece = Written_to(text, at + cut)
      BY <1>5, <2>3
    <3> QED
      BY <3>1, <3>2, Zenon
  <2>5. Written_to(text, at + cut) \in CharSeqs
    <3>1. (at + cut) - 1 \in 0 .. Len(text) /\ at + cut # 0
      BY <1>3, <1>4, <2>2
    <3>2. Upto(text, (at + cut) - 1) \in CharSeqs /\ NL \in Chars
      BY <1>3, <3>1, UptoIs, CharsDiffer
    <3>3. \A s \in CharSeqs, c \in Chars : Append(s, c) \in CharSeqs
      BY DEF CharSeqs
    <3> QED
      BY <3>1, <3>2, <3>3 DEF Written_to
  <2> QED
    BY <1>4, <2>1, <2>4, <2>5 DEF LineOK
<1> HIDE DEF piece, buf
<1>9. pfile \in Files /\ cookie \in Cookies /\ pcall \in [count : Counts \cup {0}, at : Nat]
      /\ pcaller \in [text : CharSeqs, got : CharSeqs, res : Nat \cup {-1}]
  BY <1>1 DEF PTypes
<1>10. CASE ~ok
  <2>1. /\ pfile' = pfile /\ pmode' = "w" /\ pcall' = [pcall EXCEPT !.at = pcall.at]
        /\ cookie' = [cookie EXCEPT !.buf = buf, !.offset = cookie.offset]
        /\ pcaller' = [pcaller EXCEPT !.res = -1]
    BY <1>2, <1>10 DEF at
  <2>2. PTypes'
    BY <1>7, <1>9, <2>1 DEF PTypes, Cookies
  <2>3. cookie'.buf = buf /\ cookie'.count = cookie.count /\ pcaller'.res = -1
        /\ pcaller'.text = text
    BY <1>9, <2>1 DEF Cookies, text
  <2>4. \A p \in pfile'.lines : LineOK(pfile', pcaller', p)
    BY <1>5, <2>1, <2>3 DEF LineOK, text
  <2>5. Writing(pfile', cookie', pcaller')
    BY <1>3, <1>5, <1>7, <2>1, <2>3, <2>4 DEF Writing
  <2> QED
    BY <2>1, <2>2, <2>5 DEF PInv
<1>11. CASE ok
  <2>1. pfile' = [pfile EXCEPT !.value = Written_to(text, at + cut),
                               !.lines = pfile.lines \cup {piece}]
    BY <1>2, <1>8, <1>11
  <2>2. piece \in CharSeqs /\ LineOK(pfile, pcaller, piece)
    BY <1>6, <1>8, <1>11
  <2> DEFINE w == Written_to(text, at + cut)
  <2>3. w \in CharSeqs
    BY <1>8, <1>11
  <2> HIDE DEF w
  <2>4. pfile' = [pfile EXCEPT !.value = w, !.lines = pfile.lines \cup {piece}]
    BY <2>1 DEF w
  <2>5. pfile' \in Files /\ pfile'.lines = pfile.lines \cup {piece} /\ pfile'.value = w
        /\ pfile'.limit = pfile.limit
    BY <1>9, <2>2, <2>3, <2>4 DEF Files
  <2>6. pcaller'.text = text
    BY <1>2, <1>9 DEF text
  <2>7. \A p \in pfile'.lines : LineOK(pfile', pcaller', p)
    BY <1>5, <2>2, <2>5, <2>6 DEF LineOK, text
  <2>8. CASE cut >= cookie.offset
    <3>1. /\ pmode' = "w" /\ pcall' = [pcall EXCEPT !.at = pcall.at]
          /\ cookie' = [cookie EXCEPT !.buf = buf, !.offset = cookie.offset]
          /\ pcaller' = [pcaller EXCEPT !.res = pcall.count]
      BY <1>2, <1>11, <2>8 DEF at
    <3>2. PTypes'
      BY <1>3, <1>7, <1>9, <2>5, <3>1 DEF PTypes, Cookies
    <3>3. cookie'.buf = buf /\ cookie'.count = cookie.count
      BY <1>9, <3>1 DEF Cookies
    <3>4. at + cut = Len(text)
      BY <1>3, <1>4, <2>8
    <3>5. w = text
      BY <1>3, <1>5, <3>4, WrittenAll DEF w
    <3>6. Writing(pfile', cookie', pcaller')
      BY <1>3, <1>5, <1>7, <2>5, <2>6, <2>7, <3>3, <3>5 DEF Writing
    <3> QED
      BY <3>1, <3>2, <3>6 DEF PInv
  <2>9. CASE ~ (cut >= cookie.offset)
    <3>1. /\ pmode' = "split" /\ pcall' = [pcall EXCEPT !.at = at + cut]
          /\ cookie' = [cookie EXCEPT !.buf = buf, !.offset = cookie.offset - cut]
          /\ pcaller' = [pcaller EXCEPT !.res = pcaller.res]
      BY <1>2, <1>11, <2>9
    <3>2. cookie.offset - cut \in Nat /\ cookie.offset - cut > 0 /\ at + cut \in Nat /\ cut > 0
          /\ (at + cut) + (cookie.offset - cut) = Len(text) /\ text[at + cut] = DELIM
      BY <1>3, <1>4, <1>11, <2>9
    <3>3. PTypes'
      BY <1>3, <1>7, <1>9, <2>5, <3>1, <3>2 DEF PTypes, Cookies
    <3>4. cookie'.buf = buf /\ cookie'.count = cookie.count /\ pcall'.at = at + cut
          /\ cookie'.offset = cookie.offset - cut /\ pcaller'.res = pcaller.res
      BY <1>9, <3>1 DEF Cookies
    <3>5. \A ix \in at + cut + 1 .. Len(text) : ix \in at + 1 .. Len(text) /\ buf[ix] = text[ix]
      BY <1>3, <1>4, <1>5, <1>7
    <3>6. Splitting(pfile', cookie', pcall', pcaller')
      BY <1>3, <1>5, <1>7, <2>5, <2>6, <2>7, <3>2, <3>4, <3>5 DEF Splitting, w
    <3> QED
      BY <3>1, <3>3, <3>6 DEF PInv
  <2> QED
    BY <2>8, <2>9
<1> QED
  BY <1>10, <1>11

\* A step of a stream.
LEMMA PInvNext == PInv /\ [PNext]_pvars => PInv'
<1> SUFFICES ASSUME PInv, [PNext]_pvars PROVE PInv'
  OBVIOUS
<1>1. ASSUME NEW mode \in {"r", "w"}, fprocopen(mode) PROVE PInv'
  BY <1>1, POpen
<1>2. ASSUME NEW n \in Counts, proc_read(n) PROVE PInv'
  BY <1>2, PRead
<1>3. ASSUME NEW n \in Counts, proc_write(n) PROVE PInv'
  BY <1>3, PWrite
<1>4. CASE fill
  BY <1>4, PFill
<1>5. CASE fill_fails
  BY <1>5, PFillFails
<1>6. CASE filled
  BY <1>6, PFilled
<1>7. CASE split
  BY <1>7, PSplit
<1>8. CASE proc_close
  BY <1>8, PClose
<1>9. CASE UNCHANGED pvars
  BY <1>9 DEF pvars, PInv, PTypes
<1> QED
  BY <1>1, <1>2, <1>3, <1>4, <1>5, <1>6, <1>7, <1>8, <1>9 DEF PNext

\* The types that the run checks are those of the invariant.
LEMMA PTypesGive == PTypes => PTypeOK
BY DEF PTypes, Cookies, CharSeqs, Chars, PTypeOK

\* What the invariant gives about the buffer.
LEMMA PInvBuffer == PInv => BufferHolds
<1> SUFFICES ASSUME PInv PROVE BufferHolds
  OBVIOUS
<1>0. PTypes
  BY DEF PInv
<1>1. pmode # "closed" => Len(cookie.buf) <= cookie.count
  BY <1>0 DEF PInv, PTypes, Reading, Writing, Splitting
<1>2. (cookie.final /\ pcaller.text = <<>>) => cookie.length < cookie.count
  <2>1. SUFFICES ASSUME cookie.final, pcaller.text = <<>> PROVE cookie.length < cookie.count
    OBVIOUS
  <2>2. Reading(pfile, cookie, pcaller)
    BY <1>0, <2>1 DEF PInv, PTypes, Writing, Splitting, Fresh, OneLine
  <2> QED
    BY <1>0, <2>1, <2>2 DEF Reading, Holds, PTypes, Cookies
<1>3. pmode = "split" => pcall.at + cookie.offset = Len(cookie.buf)
  BY DEF PInv, Splitting
<1> QED
  BY <1>1, <1>2, <1>3 DEF BufferHolds

\* What the invariant gives about the pieces.
LEMMA PInvPieces == PInv => PiecesFit
<1> SUFFICES ASSUME PInv, NEW piece \in pfile.lines
             PROVE  /\ Len(pcaller.text) > pfile.limit => Len(piece) <= LINELEN
                    /\ \A j \in 1 .. Len(piece) : piece[j] = NL <=> j = Len(piece)
  BY DEF PiecesFit
<1>1. LineOK(pfile, pcaller, piece)
  BY DEF PInv, PTypes, Reading, Writing, Splitting, Fresh
<1> QED
  BY <1>1 DEF LineOK, OneLine

\* What the invariant gives about a stream that was closed.
LEMMA PInvWhole == PInv => ReadWhole /\ WroteWhole
<1> SUFFICES ASSUME PInv, pmode = "done" PROVE ReadWhole /\ WroteWhole
  BY DEF ReadWhole, WroteWhole
<1>1. CASE Reading(pfile, cookie, pcaller)
  <2>1. pcaller.text = <<>>
    BY <1>1 DEF Reading
  <2>2. ASSUME cookie.final PROVE ReadWhole
    <3>1. ~ Writing(pfile, cookie, pcaller)
      BY <2>1 DEF Writing, OneLine
    <3>2. cookie.offset = cookie.length
      BY <2>2, <3>1 DEF PInv
    <3>3. pfile.text \in CharSeqs /\ cookie.buf \in CharSeqs /\ cookie.length \in Nat
          /\ Len(pfile.text) \in Nat
      BY TextLength DEF PInv, PTypes, Files, Cookies
    <3>4. pcaller.got = cookie.buf /\ cookie.length = Len(cookie.buf)
      BY <1>1, <3>2, <3>3, UptoAll DEF Reading
    <3> DEFINE L == Len(pfile.text)
               k == L - cookie.length
    <3>5. CASE pfile.text = <<>>
      <4>1. pfile.cut = FALSE /\ cookie.length = 0 /\ L = 0
        BY <1>1, <3>5, TextLength DEF Reading
      <4>2. pcaller.got = <<>>
        BY <3>3, <3>4, <4>1, TextLength
      <4>3. Slice(pfile.text, 0, L - 0) = <<>> /\ 0 \in 0 .. L
        <5>1. Slice(pfile.text, 0, 0) \in CharSeqs /\ Len(Slice(pfile.text, 0, 0)) = 0
          BY <3>3, <4>1, SliceIs
        <5> QED
          BY <4>1, <5>1, TextLength
      <4> QED
        BY <4>1, <4>2, <4>3 DEF ReadWhole
    <3>6. CASE pfile.text # <<>>
      <4>1. Holds(pfile, cookie, L)
        BY <1>1, <2>2, <3>6 DEF Reading
      <4>2. k \in 0 .. L /\ L - k = cookie.length /\ (k > 0 <=> pfile.cut) /\ (k > 0 => k < L)
        BY <3>3, <4>1 DEF Holds
      <4>3. cookie.buf = Slice(pfile.text, k, L - k)
        BY <4>1, <4>2 DEF Holds
      <4> HIDE DEF k
      <4> QED
        BY <3>4, <4>2, <4>3 DEF ReadWhole
    <3> QED
      BY <3>5, <3>6
  <2>3. WroteWhole
    BY <2>1 DEF WroteWhole
  <2> QED
    BY <2>2, <2>3 DEF ReadWhole
<1>2. CASE ~ Reading(pfile, cookie, pcaller)
  <2>1. Writing(pfile, cookie, pcaller) /\ (pcaller.res # -1 => Len(cookie.buf) = Len(pcaller.text))
    BY <1>2 DEF PInv
  <2>2. pcaller.text # <<>>
    BY <2>1 DEF Writing, OneLine
  <2>3. pcaller.res # -1 => pfile.value = pcaller.text
    <3>1. pcaller.text \in CharSeqs
      BY DEF PInv, PTypes
    <3> QED
      BY <2>1, <3>1, TextLength DEF Writing
  <2> QED
    BY <2>2, <2>3 DEF ReadWhole, WroteWhole
<1> QED
  BY <1>1, <1>2

\* A stream of procio reads its file whole, or just the end of it if the kernel
\* cut a read, and writes its buffer whole, in pieces that fit, whatever the sizes
\* of the buffer, of the lines and of the calls of stdio, as long as the kernel
\* takes each write whole or refuses it (proc_read and proc_write of
\* local/procio.c).
THEOREM StreamsCorrect == PSpec => []StreamWhole
<1>1. PInv => StreamWhole
  BY PTypesGive, PInvBuffer, PInvPieces, PInvWhole DEF PInv, StreamWhole
<1> QED
  BY <1>1, PInvInit, PInvNext, PTL DEF PSpec

(***************************************************************************)
(* Names and paths.                                                        *)
(***************************************************************************)

Keys == Seq(Words)

\* The places of the separators of a key, and the key with them exchanged.
SepsOf(key) == {ix \in DOMAIN key : key[ix] \in Seps}
Exchanged(key, new) ==
  [ix \in DOMAIN key |-> IF key[ix] \in Seps THEN (IF key[ix] = (CHOOSE c \in Seps : c # new)
                                                 THEN new ELSE CHOOSE c \in Seps : c # new)
                        ELSE key[ix]]

\* The separator other than the wanted one.
LEMMA OtherSep == /\ (CHOOSE c \in Seps : c # ".") = "/"
                  /\ (CHOOSE c \in Seps : c # "/") = "."
                  /\ "." # "/" /\ \A c : c \in Seps <=> (c = "." \/ c = "/")
<1>1. "." # "/" /\ Seps = {".", "/"}
  BY DEF Seps
<1>2. (CHOOSE c \in Seps : c # ".") \in Seps /\ (CHOOSE c \in Seps : c # ".") # "."
  BY <1>1, Zenon
<1>3. (CHOOSE c \in Seps : c # "/") \in Seps /\ (CHOOSE c \in Seps : c # "/") # "/"
  BY <1>1, Zenon
<1>4. \A c : c \in Seps <=> (c = "." \/ c = "/")
  BY <1>1
<1>5. (CHOOSE c \in Seps : c # ".") = "/"
  BY <1>2, <1>4
<1>6. (CHOOSE c \in Seps : c # "/") = "."
  BY <1>3, <1>4
<1> QED
  BY <1>1, <1>4, <1>5, <1>6, Zenon

\* The first separator of a key.
LEMMA FirstSep ==
  ASSUME NEW k \in Keys, SepsOf(k) # {}
  PROVE  Min(SepsOf(k)) \in SepsOf(k) /\ \A ix \in SepsOf(k) : Min(SepsOf(k)) <= ix
<1>1. SepsOf(k) \in SUBSET Nat
  BY DEF SepsOf, Keys
<1>2. \E x \in SepsOf(k) : \A y \in SepsOf(k) : x <= y
  BY <1>1, LeastIs
<1> QED
  BY <1>2, Zenon DEF Min

\* What slashdot does.
LEMMA SlashdotIs ==
  ASSUME NEW k \in Keys, NEW new
  PROVE  slashdot(k, new) = IF SepsOf(k) = {} \/ k[Min(SepsOf(k))] = new THEN k
                            ELSE Exchanged(k, new)
BY Zenon DEF slashdot, SepsOf, Exchanged

\* A key with its separators exchanged has them in the same places.
LEMMA ExchangedIs ==
  ASSUME NEW k \in Keys, NEW new \in Seps
  PROVE  /\ Exchanged(k, new) \in Keys /\ Len(Exchanged(k, new)) = Len(k)
         /\ SepsOf(Exchanged(k, new)) = SepsOf(k)
         /\ \A ix \in SepsOf(k) : Exchanged(k, new)[ix] = IF k[ix] = "." THEN "/" ELSE "."
         /\ \A ix \in 1 .. Len(k) : ix \notin SepsOf(k) => Exchanged(k, new)[ix] = k[ix]
<1>0. DOMAIN k = 1 .. Len(k) /\ Len(k) \in Nat /\ \A ix \in 1 .. Len(k) : k[ix] \in Words
  BY DEF Keys
<1> DEFINE old == CHOOSE c \in Seps : c # new
           x == Exchanged(k, new)
<1>1. \/ new = "." /\ old = "/"
      \/ new = "/" /\ old = "."
  BY OtherSep, Zenon
<1>2. x = [ix \in 1 .. Len(k) |-> IF k[ix] \in Seps THEN (IF k[ix] = old THEN new ELSE old)
                                 ELSE k[ix]]
  BY <1>0, Zenon DEF Exchanged
<1> HIDE DEF old, x
<1>3. \A ix \in 1 .. Len(k) : /\ k[ix] \in Seps => x[ix] = (IF k[ix] = "." THEN "/" ELSE ".")
                              /\ k[ix] \notin Seps => x[ix] = k[ix]
                              /\ x[ix] \in Words
  <2> TAKE ix \in 1 .. Len(k)
  <2>1. x[ix] = IF k[ix] \in Seps THEN (IF k[ix] = old THEN new ELSE old) ELSE k[ix]
    BY <1>2, Zenon
  <2>2. k[ix] \in Words /\ "." \in Words /\ "/" \in Words
    BY <1>0 DEF Words, Seps
  <2>3. k[ix] \in Seps <=> (k[ix] = "." \/ k[ix] = "/")
    BY OtherSep, Zenon
  <2> QED
    BY <1>1, <2>1, <2>2, <2>3
<1>4. x \in Keys /\ Len(x) = Len(k) /\ DOMAIN x = 1 .. Len(k)
  <2>1. x \in [1 .. Len(k) -> Words]
    BY <1>2, <1>3
  <2> QED
    BY <1>0, <2>1 DEF Keys
<1>5. \A ix \in 1 .. Len(k) : x[ix] \in Seps <=> k[ix] \in Seps
  BY <1>3, OtherSep, Zenon
<1>6. SepsOf(x) = SepsOf(k)
  BY <1>0, <1>4, <1>5, Zenon DEF SepsOf
<1>7. \A ix \in SepsOf(k) : ix \in 1 .. Len(k) /\ k[ix] \in Seps
  BY <1>0, Zenon DEF SepsOf
<1>8. \A ix \in 1 .. Len(k) : ix \notin SepsOf(k) => k[ix] \notin Seps
  BY <1>0, Zenon DEF SepsOf
<1>9. \A ix \in SepsOf(k) : x[ix] = IF k[ix] = "." THEN "/" ELSE "."
  BY <1>3, <1>7, Zenon
<1>10. \A ix \in 1 .. Len(k) : ix \notin SepsOf(k) => x[ix] = k[ix]
  BY <1>3, <1>8, Zenon
<1> QED
  BY <1>4, <1>6, <1>9, <1>10, Zenon DEF x

\* Two keys with the same words.
LEMMA SameKey ==
  ASSUME NEW s \in Keys, NEW t \in Keys, Len(s) = Len(t), \A ix \in 1 .. Len(s) : s[ix] = t[ix]
  PROVE  s = t
BY DEF Keys

\* Exchanging twice.
LEMMA ExchangedTwice ==
  ASSUME NEW k \in Keys, NEW new \in Seps, NEW other \in Seps
  PROVE  Exchanged(Exchanged(k, new), other) = k /\ Exchanged(k, new) = Exchanged(k, other)
<1> DEFINE x == Exchanged(k, new)
           y == Exchanged(x, other)
           z == Exchanged(k, other)
<1>1. /\ x \in Keys /\ Len(x) = Len(k) /\ SepsOf(x) = SepsOf(k)
      /\ \A ix \in SepsOf(k) : x[ix] = IF k[ix] = "." THEN "/" ELSE "."
      /\ \A ix \in 1 .. Len(k) : ix \notin SepsOf(k) => x[ix] = k[ix]
  BY ExchangedIs
<1>2. /\ z \in Keys /\ Len(z) = Len(k)
      /\ \A ix \in SepsOf(k) : z[ix] = IF k[ix] = "." THEN "/" ELSE "."
      /\ \A ix \in 1 .. Len(k) : ix \notin SepsOf(k) => z[ix] = k[ix]
  BY ExchangedIs
<1> HIDE DEF x, z
<1>3. /\ y \in Keys /\ Len(y) = Len(x)
      /\ \A ix \in SepsOf(x) : y[ix] = IF x[ix] = "." THEN "/" ELSE "."
      /\ \A ix \in 1 .. Len(x) : ix \notin SepsOf(x) => y[ix] = x[ix]
  BY <1>1, ExchangedIs
<1> HIDE DEF y
<1>4. \A ix \in SepsOf(k) : k[ix] = "." \/ k[ix] = "/"
  BY OtherSep, Zenon DEF SepsOf
<1>5. \A ix \in 1 .. Len(y) : y[ix] = k[ix]
  <2> TAKE ix \in 1 .. Len(y)
  <2>1. CASE ix \in SepsOf(k)
    <3>1. y[ix] = (IF x[ix] = "." THEN "/" ELSE ".") /\ x[ix] = (IF k[ix] = "." THEN "/" ELSE ".")
          /\ (k[ix] = "." \/ k[ix] = "/")
      BY <1>1, <1>3, <1>4, <2>1
    <3> QED
      BY <3>1, OtherSep
  <2>2. CASE ix \notin SepsOf(k)
    BY <1>1, <1>3, <2>2
  <2> QED
    BY <2>1, <2>2
<1>6. \A ix \in 1 .. Len(x) : x[ix] = z[ix]
  <2> TAKE ix \in 1 .. Len(x)
  <2>1. CASE ix \in SepsOf(k)
    BY <1>1, <1>2, <2>1
  <2>2. CASE ix \notin SepsOf(k)
    BY <1>1, <1>2, <2>2
  <2> QED
    BY <2>1, <2>2
<1>7. y = k /\ x = z
  BY <1>1, <1>2, <1>3, <1>5, <1>6, SameKey
<1> QED
  BY <1>7 DEF x, y, z

\* The result of slashdot is a key that has the wanted separator first.
LEMMA SlashdotKey ==
  ASSUME NEW k \in Keys, NEW new \in Seps
  PROVE  /\ slashdot(k, new) \in Keys /\ Len(slashdot(k, new)) = Len(k)
         /\ SepsOf(slashdot(k, new)) = SepsOf(k)
         /\ SepsOf(k) # {} => slashdot(k, new)[Min(SepsOf(k))] = new
<1>0. DOMAIN k = 1 .. Len(k)
  BY DEF Keys
<1>1. CASE SepsOf(k) = {} \/ k[Min(SepsOf(k))] = new
  BY <1>1, SlashdotIs, Zenon
<1>2. CASE ~ (SepsOf(k) = {} \/ k[Min(SepsOf(k))] = new)
  <2>1. slashdot(k, new) = Exchanged(k, new)
    BY <1>2, SlashdotIs, Zenon
  <2>2. Min(SepsOf(k)) \in SepsOf(k)
    BY <1>2, FirstSep
  <2>3. k[Min(SepsOf(k))] \in Seps /\ k[Min(SepsOf(k))] # new
    BY <1>2, <2>2, Zenon DEF SepsOf
  <2>4. Exchanged(k, new)[Min(SepsOf(k))] = IF k[Min(SepsOf(k))] = "." THEN "/" ELSE "."
    BY <2>2, ExchangedIs
  <2>5. Exchanged(k, new)[Min(SepsOf(k))] = new
    BY <2>3, <2>4, OtherSep
  <2> QED
    BY <2>1, <2>5, ExchangedIs
<1> QED
  BY <1>1, <1>2

\* The name that is printed reads back as the path.
LEMMA NameReadsBack ==
  ASSUME NEW k \in Keys
  PROVE  slashdot(slashdot(k, "."), "/") = slashdot(k, "/")
<1> DEFINE r == slashdot(k, ".")
           m == Min(SepsOf(k))
<1>0. "." \in Seps /\ "/" \in Seps /\ "." # "/"
  BY OtherSep
<1>1. r \in Keys /\ SepsOf(r) = SepsOf(k) /\ (SepsOf(k) # {} => r[m] = ".")
  BY <1>0, SlashdotKey
<1>2. /\ r = IF SepsOf(k) = {} \/ k[m] = "." THEN k ELSE Exchanged(k, ".")
      /\ slashdot(k, "/") = IF SepsOf(k) = {} \/ k[m] = "/" THEN k ELSE Exchanged(k, "/")
  BY SlashdotIs
<1>3. slashdot(r, "/") = IF SepsOf(k) = {} \/ r[m] = "/" THEN r ELSE Exchanged(r, "/")
  BY <1>1, SlashdotIs
<1>4. Exchanged(Exchanged(k, "."), "/") = k
  BY <1>0, ExchangedTwice
<1>5. SepsOf(k) # {} => k[m] = "." \/ k[m] = "/"
  <2> SUFFICES ASSUME SepsOf(k) # {} PROVE k[m] = "." \/ k[m] = "/"
    OBVIOUS
  <2>1. m \in SepsOf(k)
    BY FirstSep
  <2> HIDE DEF m
  <2> QED
    BY <2>1, OtherSep, Zenon DEF SepsOf
<1> HIDE DEF r, m
<1>6. slashdot(r, "/") = slashdot(k, "/")
  BY <1>0, <1>1, <1>2, <1>3, <1>4, <1>5, Zenon
<1> QED
  BY <1>6 DEF r

\* The path of a key starts at /proc/sys.
LEMMA PathRooted ==
  ASSUME NEW k \in Keys
  PROVE  slashdot(k, "/") \in Keys /\ Rooted(slashdot(k, "/")) /\ Len(slashdot(k, "/")) = Len(k)
<1> DEFINE r == slashdot(k, "/")
           m == Min(SepsOf(k))
<1>0. "." \in Seps /\ "/" \in Seps /\ "." # "/"
  BY OtherSep
<1>1. r \in Keys /\ SepsOf(r) = SepsOf(k) /\ (SepsOf(k) # {} => r[m] = "/") /\ Len(r) = Len(k)
  BY <1>0, SlashdotKey
<1>2. SepsOf(k) # {} => m \in SepsOf(k) /\ \A ix \in SepsOf(k) : m <= ix
  BY FirstSep
<1> HIDE DEF r, m
<1>3. ASSUME NEW ix \in 1 .. Len(r), r[ix] = "." PROVE \E j \in 1 .. (ix - 1) : r[j] = "/"
  <2>1. ix \in SepsOf(r)
    BY <1>0, <1>1, <1>3 DEF SepsOf, Keys
  <2>2. m \in SepsOf(r) /\ m <= ix /\ r[m] = "/" /\ m # ix
    BY <1>0, <1>1, <1>2, <1>3, <2>1
  <2>3. m \in 1 .. (ix - 1)
    <3>1. m \in 1 .. Len(r)
      BY <1>1, <2>2 DEF SepsOf, Keys
    <3> QED
      BY <2>2, <3>1
  <2> QED
    BY <2>2, <2>3
<1>4. Rooted(r)
  BY <1>3 DEF Rooted
<1> QED
  BY <1>1, <1>4 DEF r

\* A path that starts at /proc/sys is its own.
LEMMA RootedStays ==
  ASSUME NEW k \in Keys, Rooted(k)
  PROVE  slashdot(k, "/") = k
<1> DEFINE m == Min(SepsOf(k))
<1>1. slashdot(k, "/") = IF SepsOf(k) = {} \/ k[m] = "/" THEN k ELSE Exchanged(k, "/")
  BY SlashdotIs
<1>2. ASSUME SepsOf(k) # {} PROVE k[m] = "/"
  <2>1. m \in SepsOf(k) /\ \A ix \in SepsOf(k) : m <= ix
    BY <1>2, FirstSep
  <2> HIDE DEF m
  <2>2. m \in 1 .. Len(k) /\ (k[m] = "." \/ k[m] = "/")
    BY <2>1, OtherSep DEF SepsOf, Keys
  <2>3. ASSUME k[m] = "." PROVE FALSE
    <3>1. PICK j \in 1 .. (m - 1) : k[j] = "/"
      BY <2>2, <2>3 DEF Rooted
    <3>2. j \in SepsOf(k)
      BY <2>2, <3>1, OtherSep DEF SepsOf, Keys
    <3> QED
      BY <2>1, <2>2, <3>1, <3>2
  <2> QED
    BY <2>2, <2>3
<1> QED
  BY <1>1, <1>2

\* So the name printed for such a path reads back as it.
LEMMA RootedReadsBack ==
  ASSUME NEW k \in Keys, Rooted(k)
  PROVE  slashdot(slashdot(k, "."), "/") = k
BY NameReadsBack, RootedStays

(***************************************************************************)
(* The parameters.                                                         *)
(***************************************************************************)

\* The tree with a value written, and without a parameter.
Set(t, p, v) == [t EXCEPT ![p].value = v]
Without(t, p) == [q \in DOMAIN t \ {p} |-> t[q]]

\* A tree that came from t: nothing but values changes, and what is gone is
\* known to have vanished and was no directory.
Same(a, b) == /\ a.dir = b.dir /\ a.r = b.r /\ a.w = b.w /\ a.opens = b.opens
              /\ a.takes = b.takes /\ a.was = b.was
CameFrom(t2, t, v2) ==
  /\ DOMAIN t2 \subseteq DOMAIN t
  /\ \A q \in DOMAIN t2 : Same(t[q], t2[q])
  /\ \A q \in DOMAIN t : q \notin DOMAIN t2 => q \in v2 /\ ~t[q].dir

TreeOK(t, v) == Tree(t) /\ v \cap DOMAIN t = {}

\* A parameter of a smaller tree is in its place.
LEMMA PlacedStays ==
  ASSUME NEW t, NEW t2, NEW v2, CameFrom(t2, t, v2), NEW p \in DOMAIN t2, Placed(t, p),
         t2[p] \in Parameters
  PROVE  Placed(t2, p)
<1>1. /\ p \in Seq(Words) /\ p # <<>> /\ Rooted(p)
      /\ p[1] # ".." =>
           /\ p[1] # "/" /\ p[Len(p)] # "/"
           /\ \A ix \in 2..Len(p) : p[ix] = "/" =>
                /\ p[ix - 1] \notin DEPRECATED \cup VERBOTEN \cup {"/"}
                /\ SubSeq(p, 1, ix - 1) \in DOMAIN t /\ t[SubSeq(p, 1, ix - 1)].dir
  BY DEF Placed
<1>2. ASSUME NEW q \in DOMAIN t, t[q].dir PROVE q \in DOMAIN t2 /\ t2[q].dir
  BY <1>2 DEF CameFrom, Same
<1>3. p[1] # ".." =>
         \A ix \in 2..Len(p) : p[ix] = "/" =>
            SubSeq(p, 1, ix - 1) \in DOMAIN t2 /\ t2[SubSeq(p, 1, ix - 1)].dir
  BY <1>1, <1>2
<1> QED
  BY <1>1, <1>3 DEF Placed

\* A smaller tree is a tree.
LEMMA TreeStays ==
  ASSUME NEW t, NEW t2, NEW v2, Tree(t), CameFrom(t2, t, v2),
         \A p \in DOMAIN t2 : t2[p] \in Parameters
  PROVE  Tree(t2)
<1>1. IsFiniteSet(DOMAIN t2)
  BY FS_Subset DEF Tree, CameFrom
<1>2. \A p \in DOMAIN t2 : Placed(t, p)
  BY DEF Tree, CameFrom
<1>3. \A p \in DOMAIN t2 : Placed(t2, p)
  BY <1>2, PlacedStays
<1> QED
  BY <1>1, <1>3 DEF Tree

\* Writing a value.
LEMMA SetIs ==
  ASSUME NEW t, NEW v, TreeOK(t, v), NEW p \in DOMAIN t, NEW w \in Words
  PROVE  /\ TreeOK(Set(t, p, w), v) /\ CameFrom(Set(t, p, w), t, v)
         /\ DOMAIN Set(t, p, w) = DOMAIN t /\ Set(t, p, w)[p].value = w
         /\ \A q \in DOMAIN t : q # p => Set(t, p, w)[q] = t[q]
<1> DEFINE u == [t[p] EXCEPT !.value = w]
<1>0. \A q \in DOMAIN t : t[q] \in Parameters
  BY DEF TreeOK, Tree, Placed
<1>1. u \in Parameters /\ Same(t[p], u) /\ u.value = w
  BY <1>0 DEF Parameters, Same
<1>2. Set(t, p, w) = [t EXCEPT ![p] = u]
  BY DEF Set
<1> HIDE DEF u
<1>3. DOMAIN Set(t, p, w) = DOMAIN t /\ Set(t, p, w)[p] = u
      /\ \A q \in DOMAIN t : q # p => Set(t, p, w)[q] = t[q]
  BY <1>2
<1>4. \A q \in DOMAIN t : Same(t[q], Set(t, p, w)[q]) /\ Set(t, p, w)[q] \in Parameters
  BY <1>0, <1>1, <1>3 DEF Same
<1>5. CameFrom(Set(t, p, w), t, v)
  BY <1>3, <1>4 DEF CameFrom
<1>6. Tree(Set(t, p, w))
  BY <1>3, <1>4, <1>5, TreeStays DEF TreeOK
<1> QED
  BY <1>1, <1>3, <1>5, <1>6 DEF TreeOK

\* A parameter that vanishes.
LEMMA WithoutIs ==
  ASSUME NEW t, NEW v, TreeOK(t, v), NEW p \in DOMAIN t, ~t[p].dir
  PROVE  /\ TreeOK(Without(t, p), v \cup {p}) /\ CameFrom(Without(t, p), t, v \cup {p})
         /\ DOMAIN Without(t, p) = DOMAIN t \ {p}
         /\ \A q \in DOMAIN t \ {p} : Without(t, p)[q] = t[q]
<1>1. DOMAIN Without(t, p) = DOMAIN t \ {p}
      /\ \A q \in DOMAIN t \ {p} : Without(t, p)[q] = t[q]
  BY DEF Without
<1>2. CameFrom(Without(t, p), t, v \cup {p})
  BY <1>1 DEF CameFrom, Same
<1>3. \A q \in DOMAIN Without(t, p) : Without(t, p)[q] \in Parameters
  BY <1>1 DEF TreeOK, Tree, Placed
<1>4. Tree(Without(t, p))
  BY <1>2, <1>3, TreeStays DEF TreeOK
<1> QED
  BY <1>1, <1>2, <1>4 DEF TreeOK

\* A tree that stays comes from itself.
LEMMA CameFromItself == \A t, v : CameFrom(t, t, v)
BY DEF CameFrom, Same

(***************************************************************************)
(* What holds of every invocation.                                         *)
(***************************************************************************)

\* A line that was printed: its name reads back.
ItemOK(x) == DOMAIN x = {"name", "path", "value"} /\ slashdot(x.name, "/") = x.path
ShownOK(h) == \A x \in h : ItemOK(x)

ListOK(l) == l \in Seq(Settings) /\ \A ix \in DOMAIN l : Rooted(l[ix].path)

\* Entries of a walk are below /proc/sys.
WalkOK(w) == \A e \in w : e[1] \in Keys /\ e[1] # <<>> /\ e[1][1] # ".."

\* t is the end of s.
RestOf(t, s) ==
  /\ t \in Seq(Lines) /\ s \in Seq(Lines) /\ Len(t) <= Len(s)
  /\ \A ix \in 1 .. Len(t) : t[ix] = s[(Len(s) - Len(t)) + ix]

\* t is the end of the places of the list.
Indices(t, n) == t \in Seq(Nat) /\ Len(t) <= n /\ \A ix \in 1 .. Len(t) : t[ix] = (n - Len(t)) + ix

Paths == {p \in Keys : Rooted(p)}

\* Where main is, and the work that is left there.
FlowOK(o, g, t, l, c) ==
  /\ g \in {"main", "dirs", "load", "write", "expand", "args", "show", "done"}
  /\ o.all => g \in {"main", "show", "done"}
  /\ (g = "args" \/ (g = "show" /\ ~o.all)) => ~o.load /\ RestOf(t, o.args)
  /\ g \in {"write", "expand"} => Indices(t, Len(l))
  /\ g = "expand" => t # <<>> /\ c \in Seq(Paths)
  /\ g = "done" => t = <<>>

\* Nothing is written when nothing is to be.
DryOK(o, t) == (o.DryRun \/ o.all) => \A p \in DOMAIN t : t[p].value = t[p].was

Base ==
  /\ opt \in Invocations /\ files \in FileSets /\ input \in Seq(Lines)
  /\ TreeOK(tree, vanished) /\ ListOK(setlist) /\ rc \in Int /\ dir_rc \in {0, FAILURE}
  /\ ShownOK(shown) /\ WalkOK(walk)
  /\ FlowOK(opt, stage, todo, setlist, cfgs)
  /\ DryOK(opt, tree)

\* What a write that is not told of did to the parameters.
Took(t2, t, p, s) ==
  \A q \in DOMAIN t2 :
     IF q = p THEN t2[q].value = s.value \/ (s.ignore_failure /\ ~t2[q].opens)
     ELSE t2[q].value = t[q].value

\* The options of an invocation.
LEMMA OptionsAre ==
  ASSUME opt \in Invocations
  PROVE  /\ \A o \in Options : opt[o] \in BOOLEAN
         /\ ~opt.load => opt.args \in Seq(Lines)
BY SysctlAssumption

\* A name that is printed reads back.
LEMMA ItemIs ==
  ASSUME NEW k \in Keys, NEW p, slashdot(k, "/") = p, NEW v
  PROVE  ItemOK([name |-> slashdot(k, "."), path |-> p, value |-> v])
<1> DEFINE x == [name |-> slashdot(k, "."), path |-> p, value |-> v]
<1>1. DOMAIN x = {"name", "path", "value"}
  OBVIOUS
<1>2. slashdot(x.name, "/") = x.path
  BY NameReadsBack
<1> QED
  BY <1>1, <1>2, Zenon DEF ItemOK

\* WriteSetting: what it does to the parameters, to the status and to the output.
LEMMA WriteIs ==
  ASSUME TreeOK(tree, vanished), rc \in Int, ShownOK(shown), opt \in Invocations,
         NEW path \in Paths, NEW s \in Settings, WriteSetting(path, s)
  PROVE  /\ TreeOK(tree', vanished') /\ CameFrom(tree', tree, vanished')
         /\ vanished \subseteq vanished'
         /\ rc' \in Int /\ (rc' = 0 => rc = 0) /\ (rc >= 0 => rc' >= 0)
         /\ ShownOK(shown') /\ shown \subseteq shown'
         /\ opt.DryRun => \A q \in DOMAIN tree' : tree'[q].value = tree[q].value
         /\ (rc' = 0 /\ ~opt.DryRun) => Took(tree', tree, path, s)
<1>0. path \in Keys /\ Rooted(path) /\ s.value \in Words /\ s.ignore_failure \in BOOLEAN
  BY DEF Paths, Settings
<1>1. PICK how \in WriteOutcomes(path) :
        /\ WriteEffect(path, s, how)
        /\ rc' = Or(rc, WriteStatus(s, how))
        /\ shown' = shown \cup
             IF \/ how = "dry"
                \/ WriteStatus(s, how) = 0 /\ how # "nostat" /\ ~opt.Quiet
             THEN {[name |-> slashdot(path, "."), path |-> path, value |-> s.value]}
             ELSE {}
  BY DEF WriteSetting
<1>2. ShownOK(shown') /\ shown \subseteq shown'
  <2> DEFINE x == [name |-> slashdot(path, "."), path |-> path, value |-> s.value]
  <2>1. ItemOK(x)
    BY <1>0, RootedStays, ItemIs
  <2> HIDE DEF x
  <2>2. shown' = shown \cup {x} \/ shown' = shown
    BY <1>1 DEF x
  <2> QED
    BY <2>1, <2>2 DEF ShownOK
<1>3. WriteStatus(s, how) \in {0, FAILURE}
  BY DEF WriteStatus, FAILURE
<1>4. rc' \in Int /\ (rc' = 0 => rc = 0 /\ WriteStatus(s, how) = 0) /\ (rc >= 0 => rc' >= 0)
  <2> DEFINE w == WriteStatus(s, how)
  <2> HIDE DEF w
  <2>1. w \in {0, 1} /\ rc' = Or(rc, w)
    BY <1>1, <1>3 DEF w, FAILURE
  <2>2. rc' \in Int /\ (rc' = 0 => rc = 0 /\ w = 0) /\ (rc >= 0 => rc' >= 0)
    BY <2>1 DEF Or
  <2> QED
    BY <2>2 DEF w
<1>5. CASE how = "ok"
  <2>1. tree' = Set(tree, path, s.value) /\ vanished' = vanished
    BY <1>1, <1>5 DEF WriteEffect, Set
  <2>2. path \in DOMAIN tree /\ ~opt.DryRun
    BY <1>1, <1>5 DEF WriteOutcomes
  <2> DEFINE u == Set(tree, path, s.value)
  <2>3. /\ TreeOK(u, vanished) /\ CameFrom(u, tree, vanished)
        /\ DOMAIN u = DOMAIN tree /\ u[path].value = s.value
        /\ \A q \in DOMAIN tree : q # path => u[q] = tree[q]
    BY <1>0, <2>2, SetIs
  <2> HIDE DEF u
  <2>4. Took(u, tree, path, s)
    BY <2>3 DEF Took
  <2> QED
    BY <1>2, <1>4, <2>1, <2>2, <2>3, <2>4 DEF u
<1>6. CASE how = "ENOENT"
  <2>1. tree' = Without(tree, path) /\ vanished' = vanished \cup {path}
    BY <1>1, <1>6 DEF WriteEffect, Without
  <2>2. path \in DOMAIN tree /\ ~opt.DryRun /\ ~tree[path].dir
    BY <1>1, <1>6 DEF WriteOutcomes
  <2> DEFINE u == Without(tree, path)
  <2>3. /\ TreeOK(u, vanished \cup {path}) /\ CameFrom(u, tree, vanished \cup {path})
        /\ DOMAIN u = DOMAIN tree \ {path} /\ \A q \in DOMAIN tree \ {path} : u[q] = tree[q]
    BY <2>2, WithoutIs
  <2> HIDE DEF u
  <2>4. Took(u, tree, path, s)
    BY <2>3 DEF Took
  <2> QED
    BY <1>2, <1>4, <2>1, <2>2, <2>3, <2>4 DEF u
<1>7. CASE how \notin {"ok", "ENOENT"}
  <2>1. tree' = tree /\ vanished' = vanished
    BY <1>1, <1>7 DEF WriteEffect
  <2>2. ASSUME WriteStatus(s, how) = 0, ~opt.DryRun, path \in DOMAIN tree
        PROVE  s.ignore_failure /\ ~tree[path].opens
    <3>1. how \in {"dry", "nostat", "EACCES"} /\ (how = "EACCES" => s.ignore_failure)
      BY <1>7, <2>2 DEF WriteStatus, FAILURE
    <3>2. how # "nostat" /\ how # "dry"
      BY <1>1, <2>2 DEF WriteOutcomes
    <3>3. how = "EACCES" => ~tree[path].opens
      BY <1>1 DEF WriteOutcomes
    <3> QED
      BY <3>1, <3>2, <3>3
  <2>3. (WriteStatus(s, how) = 0 /\ ~opt.DryRun) => Took(tree, tree, path, s)
    BY <2>2 DEF Took
  <2> QED
    BY <1>2, <1>4, <2>1, <2>3, CameFromItself
<1> QED
  BY <1>5, <1>6, <1>7

\* Reading prints names that read back.
LEMMA PrintedIs ==
  ASSUME NEW k \in Keys, NEW p, slashdot(k, "/") = p, NEW how, ShownOK(shown)
  PROVE  ShownOK(shown \cup Printed(k, p, how))
<1>1. \A x \in Printed(k, p, how) : ItemOK(x)
  BY ItemIs DEF Printed
<1> QED
  BY <1>1 DEF ShownOK

\* What can be read is printed.
LEMMA PrintedShows ==
  ASSUME NEW k, NEW p, NEW h
  PROVE  \E x \in h \cup Printed(k, p, "ok") : x.path = p
<1> DEFINE x == [name |-> slashdot(k, "."), path |-> p, value |-> tree[p].value]
<1>1. x \in Printed(k, p, "ok")
  BY DEF Printed
<1>2. x.path = p
  OBVIOUS
<1> HIDE DEF x
<1> QED
  BY <1>1, <1>2

\* The entries of a directory are parameters below /proc/sys.
LEMMA ListedIs ==
  ASSUME Tree(tree), NEW dir, NEW counts
  PROVE  /\ WalkOK(Listed(dir, counts))
         /\ \A e \in Listed(dir, counts) : e[1] \in DOMAIN tree
<1>1. \A p \in DOMAIN tree : p \in Keys /\ p # <<>>
  BY DEF Tree, Placed, Keys
<1>2. ASSUME NEW e \in Listed(dir, counts)
      PROVE  e[1] \in DOMAIN tree /\ e[1][1] # ".."
  BY DEF Listed
<1> QED
  BY <1>1, <1>2 DEF WalkOK

(***************************************************************************)
(* Sequences of work.                                                      *)
(***************************************************************************)

\* All of a finite set in a sequence.
LEMMA SetToSeqIs ==
  ASSUME NEW S, IsFiniteSet(S)
  PROVE  SetToSeq(S) \in Seq(S) /\ \A x \in S : \E ix \in 1 .. Len(SetToSeq(S)) : SetToSeq(S)[ix] = x
<1> DEFINE n == Cardinality(S)
           f == SetToSeq(S)
<1>1. n \in Nat /\ ExistsBijection(1 .. n, S)
  BY FS_CardinalityType
<1>2. \E g \in [1 .. n -> S] : IsInjective(g)
  BY <1>1 DEF ExistsBijection, Bijection, Injection, IsInjective
<1>3. f \in [1 .. n -> S] /\ IsInjective(f)
  BY <1>2 DEF SetToSeq
<1> HIDE DEF f
<1>4. f \in Injection(1 .. n, S)
  BY <1>3 DEF Injection, IsInjective
<1>5. IsFiniteSet(1 .. n) /\ Cardinality(1 .. n) = n
  BY <1>1, FS_Interval
<1>6. f \in Surjection(1 .. n, S)
  BY <1>4, <1>5, FS_Injection
<1>7. \A x \in S : \E ix \in 1 .. n : f[ix] = x
  BY <1>6 DEF Surjection
<1>8. f \in Seq(S) /\ Len(f) = n
  BY <1>1, <1>3
<1> QED
  BY <1>7, <1>8 DEF f

\* All the lines, and all but the first of what is left.
LEMMA RestIs ==
  ASSUME NEW s \in Seq(Lines)
  PROVE  /\ RestOf(s, s)
         /\ \A t : (RestOf(t, s) /\ t # <<>>) =>
              /\ RestOf(Tail(t), s) /\ Len(Tail(t)) = Len(t) - 1 /\ t[1] \in Lines
              /\ (Len(s) - Len(t)) + 1 \in 1 .. Len(s) /\ t[1] = s[(Len(s) - Len(t)) + 1]
<1>1. RestOf(s, s)
  BY DEF RestOf
<1>2. ASSUME NEW t, RestOf(t, s), t # <<>>
      PROVE  /\ RestOf(Tail(t), s) /\ Len(Tail(t)) = Len(t) - 1 /\ t[1] \in Lines
             /\ (Len(s) - Len(t)) + 1 \in 1 .. Len(s) /\ t[1] = s[(Len(s) - Len(t)) + 1]
  <2>1. t \in Seq(Lines) /\ Len(t) \in Nat /\ Len(s) \in Nat /\ Len(t) <= Len(s) /\ Len(t) > 0
        /\ \A ix \in 1 .. Len(t) : t[ix] = s[(Len(s) - Len(t)) + ix]
    BY <1>2 DEF RestOf
  <2>2. Tail(t) \in Seq(Lines) /\ Len(Tail(t)) = Len(t) - 1
        /\ \A ix \in 1 .. Len(t) - 1 : Tail(t)[ix] = t[ix + 1]
    BY <2>1
  <2> DEFINE u == Tail(t)
  <2>3. u \in Seq(Lines) /\ Len(u) = Len(t) - 1 /\ \A ix \in 1 .. Len(t) - 1 : u[ix] = t[ix + 1]
    BY <2>2
  <2> HIDE DEF u
  <2>4. ASSUME NEW ix \in 1 .. Len(u) PROVE u[ix] = s[(Len(s) - Len(u)) + ix]
    <3>1. ix + 1 \in 1 .. Len(t) /\ (Len(s) - Len(t)) + (ix + 1) = (Len(s) - Len(u)) + ix
      BY <2>1, <2>3
    <3>2. u[ix] = t[ix + 1] /\ t[ix + 1] = s[(Len(s) - Len(t)) + (ix + 1)]
      BY <2>1, <2>3, <3>1
    <3> QED
      BY <3>1, <3>2
  <2>5. RestOf(u, s)
    <3>1. Len(u) <= Len(s)
      BY <2>1, <2>3
    <3> QED
      BY <2>3, <2>4, <3>1, Zenon DEF RestOf
  <2>6. t[1] \in Lines /\ t[1] = s[(Len(s) - Len(t)) + 1] /\ (Len(s) - Len(t)) + 1 \in 1 .. Len(s)
    BY <2>1
  <2> QED
    BY <2>3, <2>5, <2>6 DEF u
<1> QED
  BY <1>1, <1>2

\* The same of the places of the list.
LEMMA IndicesAre ==
  ASSUME NEW n \in Nat
  PROVE  /\ Indices([ix \in 1 .. n |-> ix], n)
         /\ \A t : (Indices(t, n) /\ t # <<>>) =>
              /\ Indices(Tail(t), n) /\ Len(Tail(t)) = Len(t) - 1
              /\ t[1] = (n - Len(t)) + 1 /\ t[1] \in 1 .. n
<1>1. Indices([ix \in 1 .. n |-> ix], n)
  <2> DEFINE z == [ix \in 1 .. n |-> ix]
  <2>1. z \in Seq(Nat) /\ Len(z) = n /\ \A ix \in 1 .. n : z[ix] = ix
    <3>1. z \in [1 .. n -> Nat]
      OBVIOUS
    <3> QED
      BY <3>1
  <2> HIDE DEF z
  <2>2. Indices(z, n)
    BY <2>1 DEF Indices
  <2> QED
    BY <2>2 DEF z
<1>2. ASSUME NEW t, Indices(t, n), t # <<>>
      PROVE  /\ Indices(Tail(t), n) /\ Len(Tail(t)) = Len(t) - 1
             /\ t[1] = (n - Len(t)) + 1 /\ t[1] \in 1 .. n
  <2>1. t \in Seq(Nat) /\ Len(t) \in Nat /\ Len(t) <= n /\ Len(t) > 0
        /\ \A ix \in 1 .. Len(t) : t[ix] = (n - Len(t)) + ix
    BY <1>2 DEF Indices
  <2>2. Tail(t) \in Seq(Nat) /\ Len(Tail(t)) = Len(t) - 1
        /\ \A ix \in 1 .. Len(t) - 1 : Tail(t)[ix] = t[ix + 1]
    BY <2>1
  <2> DEFINE u == Tail(t)
  <2>3. u \in Seq(Nat) /\ Len(u) = Len(t) - 1 /\ \A ix \in 1 .. Len(t) - 1 : u[ix] = t[ix + 1]
    BY <2>2
  <2> HIDE DEF u
  <2>4. Indices(u, n)
    BY <2>1, <2>3 DEF Indices
  <2> QED
    BY <2>1, <2>3, <2>4 DEF u
<1> QED
  BY <1>1, <1>2

\* The settings that a line gives.
LEMMA ParsedIs ==
  ASSUME NEW line \in Lines
  PROVE  /\ setting_new(line) \in Settings /\ Rooted(setting_new(line).path)
         /\ setting_new(line).path \in Paths
         /\ parse_setting_line(line) \in {<<>>, <<setting_new(line)>>}
<1>1. line.key \in Keys /\ line.eq \in BOOLEAN /\ line.minus \in BOOLEAN /\ line.value \in Words
  BY DEF Lines, Keys
<1>2. slashdot(line.key, "/") \in Keys /\ Rooted(slashdot(line.key, "/"))
  BY <1>1, PathRooted
<1> DEFINE path == slashdot(line.key, "/")
           value == IF line.eq THEN line.value ELSE NULL
<1>3. path \in Seq(Words) /\ value \in Words
  BY <1>1, <1>2 DEF Keys, Words
<1> HIDE DEF path, value
<1>4. setting_new(line) = [path |-> path, value |-> value, ignore_failure |-> line.eq /\ line.minus,
                           glob_exclude |-> ~line.eq]
  BY DEF setting_new, path, value
<1>5. setting_new(line) \in Settings /\ setting_new(line).path = path
  BY <1>1, <1>3, <1>4 DEF Settings
<1>6. parse_setting_line(line) \in {<<>>, <<setting_new(line)>>}
  BY Zenon DEF parse_setting_line
<1> QED
  BY <1>2, <1>5, <1>6 DEF path, Paths

\* The list with one more.
LEMMA ListGrows ==
  ASSUME NEW l, ListOK(l), NEW line \in Lines
  PROVE  ListOK(l \o parse_setting_line(line))
<1> DEFINE s == setting_new(line)
<1>1. s \in Settings /\ Rooted(s.path) /\ parse_setting_line(line) \in {<<>>, <<s>>}
  BY ParsedIs
<1> HIDE DEF s
<1>2. l \in Seq(Settings)
  BY DEF ListOK
<1>3. l \o <<>> = l
  BY <1>2
<1>4. ListOK(l \o <<s>>)
  <2>1. l \o <<s>> \in Seq(Settings)
    BY <1>1, <1>2
  <2>2. Len(l \o <<s>>) = Len(l) + 1 /\ Len(l) \in Nat
        /\ \A ix \in 1 .. Len(l) + 1 : (l \o <<s>>)[ix] = IF ix <= Len(l) THEN l[ix] ELSE s
    BY <1>1, <1>2
  <2> DEFINE m == l \o <<s>>
  <2>3. m \in Seq(Settings) /\ Len(m) = Len(l) + 1
        /\ \A ix \in 1 .. Len(l) + 1 : m[ix] = IF ix <= Len(l) THEN l[ix] ELSE s
    BY <2>1, <2>2
  <2> HIDE DEF m
  <2>4. DOMAIN m = 1 .. Len(l) + 1 /\ DOMAIN l = 1 .. Len(l)
    BY <1>2, <2>3
  <2>5. \A ix \in DOMAIN m : Rooted(m[ix].path)
    BY <1>1, <2>2, <2>3, <2>4 DEF ListOK
  <2> QED
    BY <2>3, <2>5 DEF ListOK, m
<1> QED
  BY <1>1, <1>3, <1>4

(***************************************************************************)
(* Every step keeps what holds of every invocation.                        *)
(***************************************************************************)

\* The start.
LEMMA BaseInit == SInit => Base
<1> SUFFICES ASSUME SInit PROVE Base
  OBVIOUS
<1>1. opt \in Invocations /\ files \in FileSets /\ tree \in Trees
      /\ setlist = <<>> /\ stage = "main" /\ walk = {} /\ input = <<>>
      /\ shown = {} /\ rc = 0 /\ dir_rc = 0 /\ vanished = {}
  BY DEF SInit
<1>2. TreeOK(tree, vanished) /\ DryOK(opt, tree)
  BY <1>1, SysctlAssumption DEF TreeOK, DryOK
<1>3. ListOK(setlist) /\ input \in Seq(Lines) /\ ShownOK(shown) /\ WalkOK(walk)
  BY <1>1 DEF ListOK, ShownOK, WalkOK
<1>4. FlowOK(opt, stage, todo, setlist, cfgs)
  BY <1>1 DEF FlowOK
<1> QED
  BY <1>1, <1>2, <1>3, <1>4 DEF Base

\* main after the options.
LEMMA BaseMain ==
  ASSUME Base, main PROVE Base'
<1>1. /\ opt' = opt /\ tree' = tree /\ files' = files /\ setlist' = setlist /\ input' = input
      /\ shown' = shown /\ rc' = rc /\ vanished' = vanished /\ dir_rc' = 0
      /\ walk' = IF opt.all THEN Listed(<<>>, TRUE) ELSE {}
  BY DEF main
<1>2. WalkOK(walk')
  <2>1. WalkOK({}) /\ WalkOK(Listed(<<>>, TRUE))
    BY ListedIs DEF Base, TreeOK, WalkOK
  <2> QED
    BY <1>1, <2>1
<1>3. FlowOK(opt, stage', todo', setlist, cfgs')
  <2>1. opt.all \in BOOLEAN /\ opt.load \in BOOLEAN /\ opt.system \in BOOLEAN
        /\ (~opt.load => opt.args \in Seq(Lines))
    BY OptionsAre DEF Base, Options
  <2>2. CASE opt.all
    <3>1. stage' = "show"
      BY <2>2 DEF main, Go
    <3> QED
      BY <2>2, <3>1 DEF FlowOK
  <2>3. CASE ~opt.all /\ (opt.load \/ opt.system)
    <3>1. stage' \in {"load", "dirs"}
      BY <2>3 DEF main, Go
    <3> QED
      BY <2>3, <3>1 DEF FlowOK
  <2>4. CASE ~opt.all /\ ~opt.load /\ ~opt.system
    <3>1. stage' = "args" /\ todo' = opt.args
      BY <2>4 DEF main, Go
    <3>2. RestOf(opt.args, opt.args)
      BY <2>1, <2>4, RestIs
    <3> QED
      BY <2>4, <3>1, <3>2 DEF FlowOK
  <2> QED
    BY <2>2, <2>3, <2>4
<1> QED
  BY <1>1, <1>2, <1>3 DEF Base

\* The steps that collect the settings.
LEMMA BaseCollect ==
  ASSUME Base, PreloadSystem \/ sortpairs \/ Preload \/ PreloadLine \/ Loaded
  PROVE  Base'
<1>1. /\ opt' = opt /\ tree' = tree /\ files' = files /\ shown' = shown /\ vanished' = vanished
      /\ dir_rc' = dir_rc /\ walk' = walk
  BY DEF PreloadSystem, sortpairs, Preload, PreloadLine, Loaded
<1>2. stage \in {"dirs", "load"} /\ ~opt.all
  <2>1. stage \in {"dirs", "load"}
    BY DEF PreloadSystem, sortpairs, Preload, PreloadLine, Loaded
  <2> QED
    BY <2>1 DEF Base, FlowOK
<1>3. CASE PreloadSystem \/ sortpairs
  <2>1. setlist' = setlist /\ input' = input /\ rc' = rc /\ stage' \in {"dirs", "load"}
    BY <1>3 DEF PreloadSystem, sortpairs, Go
  <2>2. FlowOK(opt, stage', todo', setlist, cfgs')
    BY <1>2, <2>1 DEF FlowOK
  <2> QED
    BY <1>1, <2>1, <2>2 DEF Base
<1>4. CASE Preload
  <2>1. setlist' = setlist /\ stage' = "load"
    BY <1>4 DEF Preload
  <2>2. input' \in Seq(Lines) /\ rc' \in Int
    <3>1. \A f \in DOMAIN files : files[f] \in Seq(Lines)
      BY SysctlAssumption DEF Base
    <3>2. rc \in Int
      BY DEF Base
    <3>3. \/ (\E f \in DOMAIN files : input' = files[f]) /\ rc' = rc
          \/ input' = <<>> /\ rc' = Or(rc, FAILURE)
      BY <1>4 DEF Preload
    <3>4. Or(rc, FAILURE) \in Int /\ <<>> \in Seq(Lines)
      BY <3>2 DEF Or, FAILURE
    <3> QED
      BY <3>1, <3>2, <3>3, <3>4
  <2>3. FlowOK(opt, stage', todo', setlist, cfgs')
    BY <1>2, <2>1 DEF FlowOK
  <2> QED
    BY <1>1, <2>1, <2>2, <2>3 DEF Base
<1>5. CASE PreloadLine
  <2>1. stage' = "load" /\ rc' = rc /\ input # <<>> /\ input' = Tail(input)
        /\ setlist' = setlist \o parse_setting_line(input[1])
    BY <1>5 DEF PreloadLine
  <2>2. input \in Seq(Lines) /\ ListOK(setlist)
    BY DEF Base
  <2>3. input[1] \in Lines /\ Tail(input) \in Seq(Lines)
    BY <2>1, <2>2
  <2>4. ListOK(setlist')
    BY <2>1, <2>2, <2>3, ListGrows
  <2>5. FlowOK(opt, stage', todo', setlist', cfgs')
    BY <1>2, <2>1 DEF FlowOK
  <2> QED
    BY <1>1, <2>1, <2>3, <2>4, <2>5 DEF Base
<1>6. CASE Loaded
  <2>1. setlist' = setlist /\ input' = input /\ rc' = rc /\ stage' = "write"
        /\ todo' = [ix \in DOMAIN setlist |-> ix]
    BY <1>6 DEF Loaded, Go
  <2>2. DOMAIN setlist = 1 .. Len(setlist) /\ Len(setlist) \in Nat
    BY DEF Base, ListOK
  <2>3. Indices(todo', Len(setlist))
    BY <2>1, <2>2, IndicesAre
  <2>4. FlowOK(opt, stage', todo', setlist, cfgs')
    BY <1>2, <2>1, <2>3 DEF FlowOK
  <2> QED
    BY <1>1, <2>1, <2>4 DEF Base
<1> QED
  BY <1>3, <1>4, <1>5, <1>6

\* The paths that a setting is written to.
LEMMA TargetsAre ==
  ASSUME Base, NEW s \in Settings, Rooted(s.path)
  PROVE  write_targets(s) \subseteq Paths /\ IsFiniteSet(write_targets(s))
<1>1. IsFiniteSet(DOMAIN tree) /\ DOMAIN tree \subseteq Paths
  BY DEF Base, TreeOK, Tree, Placed, Paths, Keys
<1>2. s.path \in Paths
  BY DEF Settings, Paths, Keys
<1>3. IsFiniteSet({}) /\ IsFiniteSet({s.path})
  BY FS_EmptySet, FS_Singleton
<1>4. CASE s.glob_exclude
  <2>1. write_targets(s) = {}
    BY <1>4 DEF write_targets
  <2> QED
    BY <1>3, <2>1
<1>5. CASE ~s.glob_exclude /\ string_is_glob(s.path)
  <2>1. write_targets(s) \subseteq DOMAIN tree
    BY <1>5 DEF write_targets, glob
  <2> QED
    BY <1>1, <2>1, FS_Subset
<1>6. CASE ~s.glob_exclude /\ ~string_is_glob(s.path)
  <2>1. write_targets(s) = {s.path}
    BY <1>6 DEF write_targets
  <2> QED
    BY <1>2, <1>3, <2>1
<1> QED
  BY <1>4, <1>5, <1>6

\* The setting whose turn it is.
LEMMA TurnIs ==
  ASSUME Base, stage \in {"write", "expand"}, todo # <<>>
  PROVE  /\ todo[1] \in 1 .. Len(setlist) /\ todo[1] = (Len(setlist) - Len(todo)) + 1
         /\ setlist[todo[1]] \in Settings /\ Rooted(setlist[todo[1]].path)
         /\ Indices(todo, Len(setlist)) /\ Indices(Tail(todo), Len(setlist))
         /\ Len(Tail(todo)) = Len(todo) - 1 /\ Len(todo) \in Nat /\ Len(setlist) \in Nat
         /\ ~opt.all /\ DOMAIN setlist = 1 .. Len(setlist)
<1>1. Indices(todo, Len(setlist)) /\ ~opt.all
  BY DEF Base, FlowOK
<1>2. setlist \in Seq(Settings) /\ \A ix \in DOMAIN setlist : Rooted(setlist[ix].path)
  BY DEF Base, ListOK
<1>3. Len(setlist) \in Nat /\ DOMAIN setlist = 1 .. Len(setlist)
      /\ \A ix \in 1 .. Len(setlist) : setlist[ix] \in Settings
  BY <1>2
<1>4. /\ Indices(Tail(todo), Len(setlist)) /\ Len(Tail(todo)) = Len(todo) - 1
      /\ todo[1] = (Len(setlist) - Len(todo)) + 1 /\ todo[1] \in 1 .. Len(setlist)
  BY <1>1, <1>3, IndicesAre
<1>5. Len(todo) \in Nat
  BY <1>1 DEF Indices
<1> QED
  BY <1>1, <1>2, <1>3, <1>4, <1>5

\* The steps that write the settings.
LEMMA BaseWrite ==
  ASSUME Base, write_setting_list \/ WriteNext \/ WroteAll \/ Written
  PROVE  Base'
<1>1. /\ opt' = opt /\ files' = files /\ setlist' = setlist /\ input' = input
      /\ dir_rc' = dir_rc /\ walk' = walk
  BY DEF write_setting_list, WriteNext, WroteAll, Written
<1>2. stage \in {"write", "expand"} /\ ~opt.all
  <2>1. stage \in {"write", "expand"}
    BY DEF write_setting_list, WriteNext, WroteAll, Written
  <2> QED
    BY <2>1 DEF Base, FlowOK
<1>3. CASE write_setting_list
  <2>1. /\ tree' = tree /\ shown' = shown /\ rc' = rc /\ vanished' = vanished
        /\ stage' = "expand" /\ todo' = todo /\ todo # <<>>
        /\ cfgs' = SetToSeq(write_targets(setlist[todo[1]]))
    BY <1>3 DEF write_setting_list, Go
  <2> DEFINE T == write_targets(setlist[todo[1]])
  <2>2. T \subseteq Paths /\ IsFiniteSet(T)
    BY <1>2, <2>1, TurnIs, TargetsAre
  <2> HIDE DEF T
  <2>3. SetToSeq(T) \in Seq(Paths)
    <3>1. SetToSeq(T) \in Seq(T)
      BY <2>2, SetToSeqIs
    <3> QED
      BY <2>2, <3>1
  <2>4. FlowOK(opt, stage', todo', setlist, cfgs')
    BY <1>2, <2>1, <2>3, TurnIs DEF FlowOK, T
  <2> QED
    BY <1>1, <2>1, <2>4 DEF Base
<1>4. CASE WriteNext
  <2>1. /\ WriteSetting(cfgs[1], setlist[todo[1]]) /\ cfgs # <<>> /\ cfgs' = Tail(cfgs)
        /\ stage = "expand" /\ stage' = stage /\ todo' = todo
    BY <1>4 DEF WriteNext
  <2>2. todo # <<>> /\ cfgs \in Seq(Paths)
    BY <2>1 DEF Base, FlowOK
  <2>3. cfgs[1] \in Paths /\ Tail(cfgs) \in Seq(Paths)
    BY <2>1, <2>2
  <2>4. setlist[todo[1]] \in Settings
    BY <1>2, <2>2, TurnIs
  <2>5. /\ TreeOK(tree', vanished') /\ CameFrom(tree', tree, vanished') /\ rc' \in Int
        /\ ShownOK(shown')
        /\ opt.DryRun => \A q \in DOMAIN tree' : tree'[q].value = tree[q].value
    BY <2>1, <2>3, <2>4, WriteIs DEF Base
  <2>6. DryOK(opt, tree')
    BY <1>2, <2>5 DEF Base, DryOK, CameFrom, Same
  <2>7. FlowOK(opt, stage', todo', setlist, cfgs')
    BY <2>1, <2>3 DEF Base, FlowOK
  <2> QED
    BY <1>1, <2>5, <2>6, <2>7 DEF Base
<1>5. CASE WroteAll
  <2>1. /\ tree' = tree /\ shown' = shown /\ rc' = rc /\ vanished' = vanished
        /\ stage = "expand" /\ stage' = "write" /\ todo' = Tail(todo)
    BY <1>5 DEF WroteAll, Go
  <2>2. todo # <<>>
    BY <2>1 DEF Base, FlowOK
  <2>3. FlowOK(opt, stage', todo', setlist, cfgs')
    BY <1>2, <2>1, <2>2, TurnIs DEF FlowOK
  <2> QED
    BY <1>1, <2>1, <2>3 DEF Base
<1>6. CASE Written
  <2>1. /\ tree' = tree /\ shown' = shown /\ rc' = rc /\ vanished' = vanished
        /\ \/ stage' = "done" /\ todo' = <<>>
           \/ ~opt.load /\ stage' = "args" /\ todo' = opt.args
    BY <1>6 DEF Written, Go
  <2>2. ~opt.load => RestOf(opt.args, opt.args)
    BY OptionsAre, RestIs DEF Base
  <2>3. FlowOK(opt, stage', todo', setlist, cfgs')
    BY <1>2, <2>1, <2>2 DEF FlowOK
  <2> QED
    BY <1>1, <2>1, <2>3 DEF Base
<1> QED
  BY <1>3, <1>4, <1>5, <1>6

\* A name that is read: the status of what came of it.
LEMMA ReadIs ==
  ASSUME NEW how, how # "outside"
  PROVE  ReadStatus(how) \in {0, FAILURE}
BY DEF ReadStatus, FAILURE

\* The next argument.
LEMMA ArgumentIs ==
  ASSUME Base, Argument
  PROVE  /\ todo # <<>> /\ stage = "args" /\ ~opt.load /\ ~opt.all
         /\ RestOf(todo, opt.args) /\ RestOf(Tail(todo), opt.args) /\ opt.args \in Seq(Lines)
         /\ todo[1] \in Lines /\ todo[1].key \in Keys
         /\ Len(Tail(todo)) = Len(todo) - 1 /\ Len(todo) \in Nat
         /\ (Len(opt.args) - Len(todo)) + 1 \in 1 .. Len(opt.args)
         /\ todo[1] = opt.args[(Len(opt.args) - Len(todo)) + 1]
<1>1. todo # <<>> /\ stage = "args"
  BY DEF Argument
<1>2. ~opt.load /\ ~opt.all /\ RestOf(todo, opt.args)
  BY <1>1 DEF Base, FlowOK
<1>3. opt.args \in Seq(Lines) /\ Len(todo) \in Nat
  BY <1>2 DEF RestOf
<1>4. /\ RestOf(Tail(todo), opt.args) /\ Len(Tail(todo)) = Len(todo) - 1 /\ todo[1] \in Lines
      /\ (Len(opt.args) - Len(todo)) + 1 \in 1 .. Len(opt.args)
      /\ todo[1] = opt.args[(Len(opt.args) - Len(todo)) + 1]
  BY <1>1, <1>2, <1>3, RestIs
<1>5. todo[1].key \in Keys
  BY <1>4 DEF Lines, Keys
<1> QED
  BY <1>1, <1>2, <1>3, <1>4, <1>5

\* What an argument that is a setting does.
LEMMA ArgumentWrites ==
  ASSUME Base, Argument, opt.write \/ todo[1].eq
  PROVE  /\ TreeOK(tree', vanished') /\ CameFrom(tree', tree, vanished')
         /\ vanished \subseteq vanished'
         /\ rc' \in Int /\ (rc' = 0 => rc = 0) /\ (rc >= 0 => rc' >= 0)
         /\ ShownOK(shown') /\ shown \subseteq shown' /\ DryOK(opt, tree')
         /\ stage' = "args" /\ todo' = Tail(todo) /\ dir_rc' = dir_rc /\ walk' = walk
         /\ opt' = opt /\ files' = files /\ setlist' = setlist /\ input' = input
<1>1. /\ IF parse_setting_line(todo[1]) = <<>>
         THEN rc' = Or(rc, FAILURE) /\ UNCHANGED <<tree, shown, vanished>>
         ELSE \E s \in {parse_setting_line(todo[1])[1]} : WriteSetting(s.path, s)
      /\ stage' = "args" /\ todo' = Tail(todo) /\ dir_rc' = dir_rc /\ walk' = walk
      /\ opt' = opt /\ files' = files /\ setlist' = setlist /\ input' = input
  BY DEF Argument, Go
<1>2. rc \in Int /\ ShownOK(shown) /\ TreeOK(tree, vanished) /\ opt \in Invocations /\ DryOK(opt, tree)
  BY DEF Base
<1>3. CASE parse_setting_line(todo[1]) = <<>>
  <2>1. rc' = Or(rc, FAILURE) /\ tree' = tree /\ shown' = shown /\ vanished' = vanished
    BY <1>1, <1>3
  <2>2. rc' \in Int /\ (rc' = 0 => rc = 0) /\ (rc >= 0 => rc' >= 0)
    BY <1>2, <2>1 DEF Or, FAILURE
  <2> QED
    BY <1>1, <1>2, <2>1, <2>2, CameFromItself
<1>4. CASE parse_setting_line(todo[1]) # <<>>
  <2> DEFINE s == setting_new(todo[1])
  <2>0. todo[1] \in Lines
    BY ArgumentIs
  <2>1. s \in Settings /\ s.path \in Paths /\ parse_setting_line(todo[1]) = <<s>>
    BY <1>4, <2>0, ParsedIs
  <2> HIDE DEF s
  <2>2. WriteSetting(s.path, s)
    BY <1>1, <1>4, <2>1
  <2>3. /\ TreeOK(tree', vanished') /\ CameFrom(tree', tree, vanished')
        /\ vanished \subseteq vanished'
        /\ rc' \in Int /\ (rc' = 0 => rc = 0) /\ (rc >= 0 => rc' >= 0)
        /\ ShownOK(shown') /\ shown \subseteq shown'
        /\ opt.DryRun => \A q \in DOMAIN tree' : tree'[q].value = tree[q].value
    BY <1>2, <2>1, <2>2, WriteIs
  <2>4. ~opt.all
    BY ArgumentIs
  <2>5. DryOK(opt, tree')
    BY <1>2, <2>3, <2>4 DEF DryOK, CameFrom, Same
  <2> QED
    BY <1>1, <2>3, <2>5
<1> QED
  BY <1>3, <1>4

\* What an argument that is a name does.
LEMMA ArgumentReads ==
  ASSUME Base, Argument, ~ (opt.write \/ todo[1].eq)
  PROVE  \E how \in ReadOutcomes(slashdot(todo[1].key, "/")) :
           /\ shown' = shown \cup Printed(todo[1].key, slashdot(todo[1].key, "/"), how)
           /\ todo' = Tail(todo)
           /\ IF how = "dir"
              THEN /\ stage' = "show" /\ dir_rc' = 0 /\ rc' = rc
                   /\ walk' = Listed(Append(slashdot(todo[1].key, "/"), "/"), TRUE)
              ELSE /\ stage' = "args" /\ rc' = rc + ReadStatus(how)
                   /\ dir_rc' = dir_rc /\ walk' = walk
           /\ tree' = tree /\ vanished' = vanished
           /\ opt' = opt /\ files' = files /\ setlist' = setlist /\ input' = input
BY DEF Argument, Go, SumOf

\* An argument.
LEMMA BaseArgument ==
  ASSUME Base, Argument
  PROVE  Base'
<1>0. /\ RestOf(Tail(todo), opt.args) /\ ~opt.load /\ ~opt.all /\ todo[1].key \in Keys
  BY ArgumentIs
<1>1. CASE opt.write \/ todo[1].eq
  <2>1. FlowOK(opt, stage', todo', setlist, cfgs')
    BY <1>0, <1>1, ArgumentWrites DEF FlowOK
  <2> QED
    BY <1>1, <2>1, ArgumentWrites DEF Base
<1>2. CASE ~ (opt.write \/ todo[1].eq)
  <2> DEFINE path == slashdot(todo[1].key, "/")
  <2>1. PICK how \in ReadOutcomes(path) :
           /\ shown' = shown \cup Printed(todo[1].key, path, how)
           /\ todo' = Tail(todo)
           /\ IF how = "dir"
              THEN /\ stage' = "show" /\ dir_rc' = 0 /\ rc' = rc
                   /\ walk' = Listed(Append(path, "/"), TRUE)
              ELSE /\ stage' = "args" /\ rc' = rc + ReadStatus(how)
                   /\ dir_rc' = dir_rc /\ walk' = walk
           /\ tree' = tree /\ vanished' = vanished
           /\ opt' = opt /\ files' = files /\ setlist' = setlist /\ input' = input
    BY <1>2, ArgumentReads
  <2>2. ShownOK(shown')
    BY <1>0, <2>1, PrintedIs DEF Base
  <2> HIDE DEF path
  <2>3. FlowOK(opt, stage', todo', setlist, cfgs')
    BY <1>0, <2>1 DEF FlowOK
  <2>4. WalkOK(walk')
    BY <2>1, ListedIs DEF Base, TreeOK
  <2>5. rc' \in Int
    <3>1. ReadStatus(how) \in Int
      BY DEF ReadStatus, FAILURE
    <3>2. rc \in Int
      BY DEF Base
    <3>3. rc' = rc \/ rc' = rc + ReadStatus(how)
      BY <2>1
    <3> QED
      BY <3>1, <3>2, <3>3
  <2> QED
    BY <2>1, <2>2, <2>3, <2>4, <2>5 DEF Base
<1> QED
  BY <1>1, <1>2

\* An entry of a walk.
LEMMA BaseDisplay ==
  ASSUME Base, DisplayAll
  PROVE  Base'
<1>1. /\ opt' = opt /\ tree' = tree /\ files' = files /\ setlist' = setlist /\ stage' = stage
      /\ todo' = todo /\ cfgs' = cfgs /\ input' = input /\ rc' = rc /\ vanished' = vanished
  BY DEF DisplayAll
<1>2. PICK e \in walk :
       IF e[1] \notin DOMAIN tree
       THEN walk' = walk \ {e} /\ UNCHANGED <<shown, dir_rc>>
       ELSE \E how \in (IF tree[e[1]].dir THEN {"dir"} ELSE ReadOutcomes(e[1])) :
              /\ walk' = WalkStep(e)
              /\ shown' = shown \cup Printed(e[1], e[1], how)
              /\ dir_rc' = IF e[2] THEN Or(dir_rc, ReadStatus(how)) ELSE dir_rc
  BY DEF DisplayAll
<1>3. WalkOK(walk) /\ ShownOK(shown) /\ Tree(tree) /\ dir_rc \in {0, FAILURE}
  BY DEF Base, TreeOK
<1>4. CASE e[1] \notin DOMAIN tree
  <2>1. walk' = walk \ {e} /\ shown' = shown /\ dir_rc' = dir_rc
    BY <1>2, <1>4
  <2>2. WalkOK(walk')
    BY <1>3, <2>1 DEF WalkOK
  <2> QED
    BY <1>1, <2>1, <2>2 DEF Base
<1>5. CASE e[1] \in DOMAIN tree
  <2>1. PICK how \in (IF tree[e[1]].dir THEN {"dir"} ELSE ReadOutcomes(e[1])) :
              /\ walk' = WalkStep(e)
              /\ shown' = shown \cup Printed(e[1], e[1], how)
              /\ dir_rc' = IF e[2] THEN Or(dir_rc, ReadStatus(how)) ELSE dir_rc
    BY <1>2, <1>5
  <2>2. e[1] \in Keys /\ Rooted(e[1]) /\ e[1][1] # ".."
    BY <1>3, <1>5 DEF WalkOK, Tree, Placed
  <2>3. ShownOK(shown')
    BY <1>3, <2>1, <2>2, RootedStays, PrintedIs
  <2>4. WalkOK(walk')
    <3>1. WalkOK(WalkInto(e))
      BY <1>3, ListedIs DEF WalkInto
    <3>2. walk' \subseteq walk \cup WalkInto(e)
      BY <2>1 DEF WalkStep
    <3> QED
      BY <1>3, <3>1, <3>2 DEF WalkOK
  <2>5. dir_rc' \in {0, FAILURE}
    <3>1. how # "outside"
      BY <2>1, <2>2 DEF ReadOutcomes
    <3>2. ReadStatus(how) \in {0, FAILURE}
      BY <3>1, ReadIs
    <3> QED
      BY <1>3, <2>1, <3>2 DEF Or
  <2> QED
    BY <1>1, <2>3, <2>4, <2>5 DEF Base
<1> QED
  BY <1>4, <1>5

\* The ends of a walk and of the arguments, and a parameter that vanishes.
LEMMA BaseEnds ==
  ASSUME Base, Displayed \/ Arguments \/ Vanish
  PROVE  Base'
<1>1. /\ opt' = opt /\ files' = files /\ setlist' = setlist /\ input' = input /\ walk' = walk
      /\ shown' = shown /\ dir_rc' = dir_rc
  BY DEF Displayed, Arguments, Vanish
<1>2. rc \in Int /\ dir_rc \in {0, FAILURE}
  BY DEF Base
<1>3. CASE Displayed
  <2>1. /\ tree' = tree /\ vanished' = vanished /\ rc' = rc + dir_rc /\ stage = "show"
        /\ IF opt.all THEN stage' = "done" /\ todo' = <<>> ELSE stage' = "args" /\ todo' = todo
    BY <1>3 DEF Displayed, Go, SumOf
  <2>2. FlowOK(opt, stage', todo', setlist, cfgs')
    BY <2>1 DEF Base, FlowOK
  <2>3. rc' \in Int
    BY <1>2, <2>1 DEF FAILURE
  <2> QED
    BY <1>1, <2>1, <2>2, <2>3 DEF Base
<1>4. CASE Arguments
  <2>1. /\ tree' = tree /\ vanished' = vanished /\ rc' = rc /\ stage' = "done" /\ todo' = <<>>
    BY <1>4 DEF Arguments, Go
  <2>2. FlowOK(opt, stage', todo', setlist, cfgs')
    BY <2>1 DEF FlowOK
  <2> QED
    BY <1>1, <2>1, <2>2 DEF Base
<1>5. CASE Vanish
  <2>1. PICK p \in {q \in DOMAIN tree : ~tree[q].dir} :
          vanished' = vanished \cup {p} /\ tree' = Without(tree, p)
    BY <1>5 DEF Vanish, Without
  <2>2. rc' = rc /\ stage' = stage /\ todo' = todo /\ cfgs' = cfgs
    BY <1>5 DEF Vanish
  <2> DEFINE u == Without(tree, p)
  <2>3. /\ TreeOK(u, vanished \cup {p})
        /\ DOMAIN u = DOMAIN tree \ {p} /\ \A q \in DOMAIN tree \ {p} : u[q] = tree[q]
    BY <2>1, WithoutIs DEF Base
  <2> HIDE DEF u
  <2>4. DryOK(opt, u)
    BY <2>3 DEF Base, DryOK
  <2> QED
    BY <1>1, <2>1, <2>2, <2>3, <2>4 DEF Base, u
<1> QED
  BY <1>3, <1>4, <1>5

\* Every step.
LEMMA BaseNext == Base /\ [SNext]_svars => Base'
<1> SUFFICES ASSUME Base, [SNext]_svars PROVE Base'
  OBVIOUS
<1>1. CASE UNCHANGED svars
  BY <1>1 DEF svars, Base
<1>2. CASE SNext
  BY <1>2, BaseMain, BaseCollect, BaseWrite, BaseArgument, BaseDisplay, BaseEnds DEF SNext
<1> QED
  BY <1>1, <1>2

(***************************************************************************)
(* Names on the command line: what was shown, or told of.                  *)
(***************************************************************************)

\* The invocations whose status tells.
Asked(o) ==
  /\ ~o.all /\ ~o.load /\ ~o.IgnoreError /\ o.pattern = ""
  /\ \A ix \in DOMAIN o.args : slashdot(o.args[ix].key, "/")[1] # ".."

ToldIn(o, v, h, t, a) ==
  \/ o.write \/ a.eq
  \/ slashdot(a.key, "/") \in v
  \/ \E x \in h : x.path = slashdot(a.key, "/")
  \/ slashdot(a.key, "/") \in DOMAIN t
     /\ (t[slashdot(a.key, "/")].dir \/ ~t[slashdot(a.key, "/")].r)

\* With status 0 every argument so far is accounted for.
ToldSoFar(o, g, w, r, v, h, t) ==
  Asked(o) =>
    /\ r >= 0
    /\ (g \in {"args", "show", "done"} /\ r = 0) =>
         \A ix \in 1 .. (Len(o.args) - Len(w)) : ToldIn(o, v, h, t, o.args[ix])

ToldInv == ToldSoFar(opt, stage, todo, rc, vanished, shown, tree)

\* What is accounted for stays so.
LEMMA ToldStays ==
  ASSUME NEW o, NEW v, NEW v2, NEW h, NEW h2, NEW t, NEW t2, NEW a,
         CameFrom(t2, t, v2), v \subseteq v2, h \subseteq h2, ToldIn(o, v, h, t, a)
  PROVE  ToldIn(o, v2, h2, t2, a)
<1> DEFINE p == slashdot(a.key, "/")
<1>1. ASSUME p \in DOMAIN t, t[p].dir \/ ~t[p].r
      PROVE  p \in v2 \/ (p \in DOMAIN t2 /\ (t2[p].dir \/ ~t2[p].r))
  BY <1>1 DEF CameFrom, Same
<1>2. \/ o.write \/ a.eq \/ p \in v
      \/ \E x \in h : x.path = p
      \/ p \in DOMAIN t /\ (t[p].dir \/ ~t[p].r)
  BY DEF ToldIn
<1> HIDE DEF p
<1>3. \/ o.write \/ a.eq \/ p \in v2
      \/ \E x \in h2 : x.path = p
      \/ p \in DOMAIN t2 /\ (t2[p].dir \/ ~t2[p].r)
  BY <1>1, <1>2
<1> QED
  BY <1>3 DEF ToldIn, p

\* A step that keeps the arguments that are left, or comes from before them.
LEMMA ToldKept ==
  ASSUME NEW o, NEW g, NEW g2, NEW w, NEW w2, NEW r, NEW r2, NEW v, NEW v2, NEW h, NEW h2,
         NEW t, NEW t2, ToldSoFar(o, g, w, r, v, h, t),
         CameFrom(t2, t, v2), v \subseteq v2, h \subseteq h2, r2 = 0 => r = 0, r >= 0 => r2 >= 0,
         g2 \in {"args", "show", "done"} =>
            w2 = o.args \/ (g \in {"args", "show", "done"} /\ Len(w2) = Len(w)),
         o.args \in Seq(Lines) \/ ~Asked(o)
  PROVE  ToldSoFar(o, g2, w2, r2, v2, h2, t2)
<1> SUFFICES ASSUME Asked(o)
             PROVE  /\ r2 >= 0
                    /\ (g2 \in {"args", "show", "done"} /\ r2 = 0) =>
                         \A ix \in 1 .. (Len(o.args) - Len(w2)) : ToldIn(o, v2, h2, t2, o.args[ix])
  BY DEF ToldSoFar
<1>1. r >= 0 /\ ((g \in {"args", "show", "done"} /\ r = 0) =>
         \A ix \in 1 .. (Len(o.args) - Len(w)) : ToldIn(o, v, h, t, o.args[ix]))
  BY DEF ToldSoFar
<1>2. ASSUME g2 \in {"args", "show", "done"}, r2 = 0, NEW ix \in 1 .. (Len(o.args) - Len(w2))
      PROVE  ToldIn(o, v2, h2, t2, o.args[ix])
  <2>1. CASE w2 = o.args
    <3>1. Len(o.args) \in Nat
      OBVIOUS
    <3> QED
      BY <1>2, <2>1, <3>1
  <2>2. CASE g \in {"args", "show", "done"} /\ Len(w2) = Len(w)
    <3>1. ToldIn(o, v, h, t, o.args[ix])
      BY <1>1, <1>2, <2>2
    <3> QED
      BY <3>1, ToldStays
  <2> QED
    BY <1>2, <2>1, <2>2
<1> QED
  BY <1>1, <1>2

\* The arguments of such an invocation are lines.
LEMMA AskedLines ==
  ASSUME Base
  PROVE  opt.args \in Seq(Lines) \/ ~Asked(opt)
BY OptionsAre DEF Base, Asked

\* The steps before the arguments, and those that change no parameter.
LEMMA ToldCollect ==
  ASSUME Base, ToldInv,
         main \/ PreloadSystem \/ sortpairs \/ Preload \/ PreloadLine \/ Loaded
         \/ write_setting_list \/ WroteAll \/ Written \/ Arguments
  PROVE  ToldInv'
<1>1. opt' = opt /\ tree' = tree /\ vanished' = vanished /\ shown' = shown /\ rc \in Int
  BY DEF Base, main, PreloadSystem, sortpairs, Preload, PreloadLine, Loaded,
         write_setting_list, WroteAll, Written, Arguments
<1>2. (rc' = 0 => rc = 0) /\ (rc >= 0 => rc' >= 0)
  <2>1. rc' = rc \/ rc' = Or(rc, FAILURE)
    BY DEF main, PreloadSystem, sortpairs, Preload, PreloadLine, Loaded,
           write_setting_list, WroteAll, Written, Arguments
  <2> QED
    BY <1>1, <2>1 DEF Or, FAILURE
<1>3. CASE Asked(opt)
  <2>0. opt.system \in BOOLEAN /\ ~opt.all /\ ~opt.load
    BY <1>3, OptionsAre DEF Base, Options, Asked
  <2>1. stage' \in {"args", "show", "done"} =>
          todo' = opt.args \/ (stage \in {"args", "show", "done"} /\ Len(todo') = Len(todo))
    <3>1. CASE main
      BY <2>0, <3>1 DEF main, Go
    <3>2. CASE PreloadSystem \/ sortpairs \/ Preload \/ PreloadLine \/ Loaded
               \/ write_setting_list \/ WroteAll
      <4>1. stage' \notin {"args", "show", "done"}
        BY <3>2 DEF PreloadSystem, sortpairs, Preload, PreloadLine, Loaded,
               write_setting_list, WroteAll, Go
      <4> QED
        BY <4>1
    <3>3. CASE Written
      BY <2>0, <3>3 DEF Written, Go
    <3>4. CASE Arguments
      BY <3>4 DEF Arguments, Go
    <3> QED
      BY <3>1, <3>2, <3>3, <3>4
  <2> QED
    BY <1>1, <1>2, <2>1, AskedLines, CameFromItself, ToldKept DEF ToldInv
<1>4. CASE ~Asked(opt)
  BY <1>1, <1>4 DEF ToldInv, ToldSoFar
<1> QED
  BY <1>3, <1>4

\* The steps that change parameters or show them.
LEMMA ToldWalk ==
  ASSUME Base, ToldInv, WriteNext \/ DisplayAll \/ Displayed \/ Vanish
  PROVE  ToldInv'
<1>1. opt' = opt /\ (opt.args \in Seq(Lines) \/ ~Asked(opt))
  BY AskedLines DEF WriteNext, DisplayAll, Displayed, Vanish
<1>2. CASE WriteNext
  <2>1. /\ WriteSetting(cfgs[1], setlist[todo[1]]) /\ cfgs # <<>>
        /\ stage = "expand" /\ stage' = "expand" /\ opt' = opt
    BY <1>2 DEF WriteNext
  <2>2. todo # <<>> /\ cfgs[1] \in Paths
    <3>1. cfgs \in Seq(Paths) /\ todo # <<>>
      BY <2>1 DEF Base, FlowOK
    <3> QED
      BY <2>1, <3>1
  <2>3. setlist[todo[1]] \in Settings
    BY <2>1, <2>2, TurnIs
  <2>4. rc' \in Int /\ (rc' = 0 => rc = 0) /\ (rc >= 0 => rc' >= 0)
    BY <2>1, <2>2, <2>3, WriteIs DEF Base
  <2> QED
    BY <2>1, <2>4 DEF ToldInv, ToldSoFar
<1>3. CASE DisplayAll
  <2>1. /\ opt' = opt /\ stage' = stage /\ todo' = todo /\ rc' = rc /\ vanished' = vanished
        /\ tree' = tree /\ shown \subseteq shown' /\ stage = "show"
    BY <1>3 DEF DisplayAll
  <2> QED
    BY <1>1, <2>1, CameFromItself, ToldKept DEF ToldInv
<1>4. CASE Displayed
  <2>1. /\ opt' = opt /\ rc' = rc + dir_rc /\ vanished' = vanished /\ tree' = tree
        /\ shown' = shown /\ stage = "show"
        /\ ~opt.all => stage' = "args" /\ todo' = todo
    BY <1>4 DEF Displayed, Go, SumOf
  <2>2. rc \in Int /\ dir_rc \in {0, 1}
    BY DEF Base, FAILURE
  <2>3. (rc >= 0 => rc' >= 0) /\ (rc >= 0 /\ rc' = 0 => rc = 0)
    BY <2>1, <2>2
  <2>4. CASE Asked(opt)
    <3>1. ~opt.all /\ rc >= 0
      BY <2>4 DEF Asked, ToldInv, ToldSoFar
    <3> QED
      BY <1>1, <2>1, <2>3, <2>4, <3>1, CameFromItself, ToldKept DEF ToldInv
  <2>5. CASE ~Asked(opt)
    BY <2>1, <2>5 DEF ToldInv, ToldSoFar
  <2> QED
    BY <2>4, <2>5
<1>5. CASE Vanish
  <2>1. PICK p \in {q \in DOMAIN tree : ~tree[q].dir} :
          vanished' = vanished \cup {p} /\ tree' = Without(tree, p)
    BY <1>5 DEF Vanish, Without
  <2>2. opt' = opt /\ rc' = rc /\ stage' = stage /\ todo' = todo /\ shown' = shown
    BY <1>5 DEF Vanish
  <2>3. CameFrom(tree', tree, vanished')
    BY <2>1, WithoutIs DEF Base
  <2>4. vanished \subseteq vanished'
    BY <2>1
  <2> QED
    BY <1>1, <2>2, <2>3, <2>4, ToldKept DEF ToldInv
<1> QED
  BY <1>2, <1>3, <1>4, <1>5

\* An argument.
LEMMA ToldArgument ==
  ASSUME Base, ToldInv, Argument
  PROVE  ToldInv'
<1>0. opt' = opt
  BY DEF Argument
<1> SUFFICES ASSUME Asked(opt)
             PROVE  /\ rc' >= 0
                    /\ (stage' \in {"args", "show", "done"} /\ rc' = 0) =>
                         \A ix \in 1 .. (Len(opt.args) - Len(todo')) :
                            ToldIn(opt, vanished', shown', tree', opt.args[ix])
  BY <1>0 DEF ToldInv, ToldSoFar
<1> DEFINE n == (Len(opt.args) - Len(todo)) + 1
           a == todo[1]
<1>1. /\ stage = "args" /\ n \in 1 .. Len(opt.args) /\ a = opt.args[n] /\ a.key \in Keys
      /\ Len(Tail(todo)) = Len(todo) - 1 /\ Len(todo) \in Nat /\ Len(opt.args) \in Nat
      /\ opt.args \in Seq(Lines) /\ a \in Lines
  BY ArgumentIs
<1>2. rc \in Int /\ rc >= 0 /\ (rc = 0 =>
         \A ix \in 1 .. (Len(opt.args) - Len(todo)) : ToldIn(opt, vanished, shown, tree, opt.args[ix]))
  BY <1>1 DEF Base, ToldInv, ToldSoFar
<1>3. slashdot(a.key, "/")[1] # ".." /\ ~opt.IgnoreError /\ opt.pattern = ""
  <2>1. n \in DOMAIN opt.args
    BY <1>1
  <2>2. slashdot(opt.args[n].key, "/")[1] # ".." /\ ~opt.IgnoreError /\ opt.pattern = ""
    BY <2>1, Zenon DEF Asked
  <2>3. a = opt.args[n]
    BY <1>1
  <2> HIDE DEF a, n
  <2> QED
    BY <2>2, <2>3, Zenon
<1> HIDE DEF a
<1>4. /\ CameFrom(tree', tree, vanished') /\ vanished \subseteq vanished' /\ shown \subseteq shown'
      /\ rc' >= 0 /\ (rc' = 0 => rc = 0) /\ todo' = Tail(todo)
      /\ rc' = 0 => ToldIn(opt, vanished', shown', tree', a)
  <2>1. CASE opt.write \/ a.eq
    <3>1. ToldIn(opt, vanished', shown', tree', a)
      BY <2>1 DEF ToldIn
    <3> QED
      BY <1>2, <2>1, <3>1, ArgumentWrites DEF a
  <2>2. CASE ~ (opt.write \/ a.eq)
    <3> DEFINE path == slashdot(a.key, "/")
    <3>1. PICK how \in ReadOutcomes(path) :
             /\ shown' = shown \cup Printed(a.key, path, how)
             /\ todo' = Tail(todo)
             /\ IF how = "dir" THEN rc' = rc ELSE rc' = rc + ReadStatus(how)
             /\ tree' = tree /\ vanished' = vanished
      BY <2>2, ArgumentReads DEF a
    <3> HIDE DEF path
    <3>2. path[1] # ".."
      BY <1>3 DEF path
    <3>3. how # "outside"
      BY <3>1, <3>2 DEF ReadOutcomes
    <3>4. ReadStatus(how) \in {0, 1} /\ (how = "nostat" \/ how = "EACCES" => ReadStatus(how) = 1)
      BY <1>3, <3>3 DEF ReadStatus, FAILURE
    <3>5. rc' >= 0 /\ (rc' = 0 => rc = 0) /\ (rc' = 0 => how # "nostat" /\ how # "EACCES")
      BY <1>2, <3>1, <3>4
    <3>6. ASSUME rc' = 0 PROVE ToldIn(opt, vanished', shown', tree', a)
      <4>1. how # "nostat" /\ how # "EACCES"
        BY <3>5, <3>6
      <4>2. \/ path \in DOMAIN tree /\ ~tree[path].r
            \/ path \in DOMAIN tree /\ tree[path].dir
            \/ how = "ok"
        BY <1>3, <3>1, <3>3, <4>1 DEF ReadOutcomes
      <4>3. how = "ok" => \E x \in shown' : x.path = path
        BY <3>1, PrintedShows
      <4> QED
        BY <3>1, <4>2, <4>3 DEF ToldIn, path
    <3> QED
      BY <3>1, <3>5, <3>6, CameFromItself
  <2> QED
    BY <2>1, <2>2
<1>5. ASSUME rc' = 0, NEW ix \in 1 .. (Len(opt.args) - Len(todo'))
      PROVE  ToldIn(opt, vanished', shown', tree', opt.args[ix])
  <2>1. ix \in 1 .. (Len(opt.args) - Len(todo)) \/ ix = n
    <3>1. Len(todo') = Len(todo) - 1 /\ Len(todo) \in Nat /\ Len(opt.args) \in Nat
      <4>1. todo' = Tail(todo)
        BY <1>4
      <4> QED BY <1>1, <4>1
    <3>2. ix \in 1 .. (Len(opt.args) - Len(todo'))
      BY <1>5
    <3> QED BY <3>1, <3>2
  <2>2. CASE ix = n
    BY <1>1, <1>4, <1>5, <2>2
  <2>3. CASE ix \in 1 .. (Len(opt.args) - Len(todo))
    <3>1. ToldIn(opt, vanished, shown, tree, opt.args[ix])
      BY <1>2, <1>4, <1>5, <2>3
    <3> QED
      BY <1>4, <3>1, ToldStays
  <2> QED
    BY <2>1, <2>2, <2>3
<1> QED
  BY <1>4, <1>5

(***************************************************************************)
(* -a: what is shown, and what the walk still leads to.                    *)
(***************************************************************************)

\* A part of a key.
LEMMA KeyPart ==
  ASSUME NEW k \in Keys, NEW from \in Nat, NEW to \in Nat, from <= to, to <= Len(k)
  PROVE  /\ SubSeq(k, from + 1, to) \in Keys /\ Len(SubSeq(k, from + 1, to)) = to - from
         /\ \A ix \in 1 .. to - from : SubSeq(k, from + 1, to)[ix] = k[from + ix]
BY DEF Keys

\* A key that another one starts with.
LEMMA PrefixIs ==
  ASSUME NEW s \in Keys, NEW t \in Keys
  PROVE  IsPrefix(s, t) <=> (Len(s) <= Len(t) /\ \A ix \in 1 .. Len(s) : s[ix] = t[ix])
<1>0. Len(s) \in Nat /\ Len(t) \in Nat
  BY DEF Keys
<1>1. CASE Len(s) <= Len(t)
  <2> DEFINE u == SubSeq(s, 1, Len(s))
             v == SubSeq(t, 1, Len(s))
  <2>1. u \in Keys /\ Len(u) = Len(s) /\ \A ix \in 1 .. Len(s) : u[ix] = s[ix]
    BY DEF Keys
  <2>2. v \in Keys /\ Len(v) = Len(s) /\ \A ix \in 1 .. Len(s) : v[ix] = t[ix]
    BY <1>1 DEF Keys
  <2>3. IsPrefix(s, t) <=> u = v
    BY <1>1 DEF IsPrefix
  <2> HIDE DEF u, v
  <2>4. u = v <=> \A ix \in 1 .. Len(s) : s[ix] = t[ix]
    <3>1. ASSUME u = v PROVE \A ix \in 1 .. Len(s) : s[ix] = t[ix]
      BY <2>1, <2>2, <3>1
    <3>2. ASSUME \A ix \in 1 .. Len(s) : s[ix] = t[ix] PROVE u = v
      BY <2>1, <2>2, <3>2, SameKey
    <3> QED
      BY <3>1, <3>2
  <2> QED
    BY <1>1, <2>3, <2>4
<1>2. CASE ~ (Len(s) <= Len(t))
  BY <1>2 DEF IsPrefix
<1> QED
  BY <1>1, <1>2

\* d is a directory that p is in, at any depth.
Under(t, d, p) == d \in DOMAIN t /\ t[d].dir /\ IsPrefix(Append(d, "/"), p)

\* A path of a directory and its slash.
DirPath(d) == d \in Keys /\ (d # <<>> => d[Len(d)] = "/")

\* What is listed of a directory leads to everything in it.
LEMMA ListedLeads ==
  ASSUME Tree(tree), NEW p \in DOMAIN tree, ~LeftOut(p), NEW d, DirPath(d), IsPrefix(d, p),
         NEW counts
  PROVE  \E e \in Listed(d, counts) : e[1] = p \/ Under(tree, e[1], p)
<1>0. p \in Keys /\ d \in Keys /\ Len(p) \in Nat /\ Len(d) \in Nat /\ Len(p) > 0
      /\ p[1] # ".." /\ (d # <<>> => d[Len(d)] = "/" /\ Len(d) > 0)
  BY DEF Tree, Placed, LeftOut, DirPath, Keys
<1>1. p[1] # "/" /\ p[Len(p)] # "/"
      /\ \A ix \in 2 .. Len(p) : p[ix] = "/" =>
            /\ p[ix - 1] \notin DEPRECATED /\ p[ix - 1] \notin VERBOTEN /\ p[ix - 1] # "/"
            /\ SubSeq(p, 1, ix - 1) \in DOMAIN tree /\ tree[SubSeq(p, 1, ix - 1)].dir
  BY <1>0 DEF Tree, Placed
<1>2. Len(d) <= Len(p) /\ \A ix \in 1 .. Len(d) : d[ix] = p[ix]
  BY <1>0, PrefixIs
<1>3. d # <<>> => p[Len(d)] = "/" /\ Len(d) \in 1 .. Len(p)
  BY <1>0, <1>2
<1>4. Last(p) \notin VERBOTEN /\ (opt.IgnoreDeprecated => Last(p) \notin DEPRECATED)
  BY DEF LeftOut
<1> DEFINE S == {ix \in 1 .. Len(p) : ix > Len(d) /\ p[ix] = "/"}
<1>5. CASE S = {}
  <2> DEFINE name == SubSeq(p, Len(d) + 1, Len(p))
  <2>1. Len(d) < Len(p) /\ p # d
    BY <1>0, <1>1, <1>2, <1>3
  <2>2. name \in Keys /\ Len(name) = Len(p) - Len(d)
        /\ \A ix \in 1 .. Len(p) - Len(d) : name[ix] = p[Len(d) + ix]
    BY <1>0, <1>2, KeyPart
  <2>3. Last(name) = Last(p)
    <3> HIDE DEF name
    <3>1. Len(p) - Len(d) \in 1 .. Len(p) - Len(d) /\ Len(d) + (Len(p) - Len(d)) = Len(p)
      BY <1>0, <2>1
    <3> QED
      BY <2>2, <3>1 DEF Last
  <2>4. "/" \notin ToSet(name)
    <3> HIDE DEF name
    <3>1. DOMAIN name = 1 .. Len(p) - Len(d)
      BY <2>2 DEF Keys
    <3>2. \A ix \in 1 .. Len(p) - Len(d) : name[ix] # "/"
      BY <1>0, <1>5, <2>2
    <3> QED
      BY <3>1, <3>2 DEF ToSet
  <2>5. IsStrictPrefix(d, p)
    BY <2>1 DEF IsStrictPrefix
  <2>6. <<p, counts>> \in Listed(d, counts)
    BY <1>0, <1>4, <2>3, <2>4, <2>5 DEF Listed
  <2> QED
    BY <2>6
<1>6. CASE S # {}
  <2>1. PICK ix \in S : \A j \in S : ix <= j
    <3>1. S \in SUBSET Nat
      OBVIOUS
    <3> HIDE DEF S
    <3> QED
      BY <1>6, <3>1, LeastIs
  <2>2. ix \in 1 .. Len(p) /\ ix > Len(d) /\ p[ix] = "/"
        /\ \A j \in 1 .. Len(p) : (j > Len(d) /\ j < ix) => p[j] # "/"
    BY <2>1
  <2> HIDE DEF S
  <2>3. ix \in 2 .. Len(p)
    BY <1>1, <2>2
  <2> DEFINE q == SubSeq(p, 1, ix - 1)
             name == SubSeq(q, Len(d) + 1, Len(q))
  <2>4. /\ p[ix - 1] \notin DEPRECATED /\ p[ix - 1] \notin VERBOTEN /\ p[ix - 1] # "/"
        /\ q \in DOMAIN tree /\ tree[q].dir
    BY <1>1, <2>2, <2>3
  <2>5. q \in Keys /\ Len(q) = ix - 1 /\ \A j \in 1 .. ix - 1 : q[j] = p[j]
    <3>1. ix - 1 \in Nat /\ 0 <= ix - 1 /\ ix - 1 <= Len(p) /\ 0 \in Nat
      BY <1>0, <2>3
    <3>2. SubSeq(p, 0 + 1, ix - 1) \in Keys /\ Len(SubSeq(p, 0 + 1, ix - 1)) = (ix - 1) - 0
          /\ \A j \in 1 .. (ix - 1) - 0 : SubSeq(p, 0 + 1, ix - 1)[j] = p[0 + j]
      BY <1>0, <3>1, KeyPart
    <3> QED
      BY <2>3, <3>2
  <2>6. Len(d) < ix - 1
    <3>1. CASE d = <<>>
      <4>1. Len(d) = 0
        BY <3>1
      <4> QED
        BY <2>3, <4>1
    <3>2. CASE d # <<>>
      <4>1. Len(d) # ix - 1
        BY <1>3, <2>4, <3>2
      <4> QED
        BY <1>0, <2>2, <2>3, <4>1
    <3> QED
      BY <3>1, <3>2
  <2> HIDE DEF q
  <2>7. name \in Keys /\ Len(name) = (ix - 1) - Len(d)
        /\ \A j \in 1 .. (ix - 1) - Len(d) : name[j] = q[Len(d) + j]
    <3>1. Len(d) <= Len(q) /\ Len(q) \in Nat
      BY <1>0, <2>3, <2>5, <2>6
    <3> QED
      BY <1>0, <2>5, <3>1, KeyPart
  <2> HIDE DEF name
  <2>8. Last(name) = p[ix - 1]
    <3>1. (ix - 1) - Len(d) \in 1 .. (ix - 1) - Len(d) /\ Len(d) + ((ix - 1) - Len(d)) = ix - 1
          /\ ix - 1 \in 1 .. ix - 1
      BY <1>0, <2>3, <2>6
    <3>2. name[(ix - 1) - Len(d)] = q[ix - 1] /\ q[ix - 1] = p[ix - 1]
      BY <2>5, <2>7, <3>1
    <3> QED
      BY <2>7, <3>2 DEF Last
  <2>9. "/" \notin ToSet(name)
    <3>1. DOMAIN name = 1 .. (ix - 1) - Len(d)
      BY <2>7 DEF Keys
    <3>2. ASSUME NEW j \in 1 .. (ix - 1) - Len(d) PROVE name[j] # "/"
      <4>1. Len(d) + j \in 1 .. ix - 1 /\ Len(d) + j \in 1 .. Len(p) /\ Len(d) + j > Len(d)
            /\ Len(d) + j < ix
        BY <1>0, <2>3
      <4>2. name[j] = p[Len(d) + j]
        BY <2>5, <2>7, <4>1
      <4> QED
        BY <2>2, <4>1, <4>2
    <3> QED
      BY <3>1, <3>2 DEF ToSet
  <2>10. IsStrictPrefix(d, q) /\ q[1] # ".."
    <3>1. Len(d) <= Len(q) /\ d # q /\ 1 \in 1 .. ix - 1
      BY <1>0, <2>3, <2>5, <2>6
    <3>2. \A j \in 1 .. Len(d) : d[j] = q[j]
      BY <1>0, <1>2, <2>3, <2>5, <2>6
    <3>3. IsPrefix(d, q)
      BY <1>0, <2>5, <3>1, <3>2, PrefixIs
    <3> QED
      BY <1>0, <2>5, <3>1, <3>3 DEF IsStrictPrefix
  <2>11. <<q, counts>> \in Listed(d, counts)
    <3>1. LET nm == SubSeq(q, Len(d) + 1, Len(q))
          IN /\ IsStrictPrefix(d, q) /\ "/" \notin ToSet(nm) /\ q[1] # ".."
             /\ opt.IgnoreDeprecated => Last(nm) \notin DEPRECATED
             /\ Last(nm) \notin VERBOTEN
      BY <2>4, <2>8, <2>9, <2>10, Zenon DEF name
    <3> QED
      BY <2>4, <3>1 DEF Listed
  <2>12. Under(tree, q, p)
    <3>1. Append(q, "/") \in Keys /\ Len(Append(q, "/")) = ix
          /\ \A j \in 1 .. ix : Append(q, "/")[j] = IF j = ix THEN "/" ELSE q[j]
      BY <2>3, <2>5 DEF Keys, Words, Seps
    <3> DEFINE z == Append(q, "/")
    <3>2. z \in Keys /\ Len(z) = ix /\ \A j \in 1 .. ix : z[j] = IF j = ix THEN "/" ELSE q[j]
      BY <3>1
    <3> HIDE DEF z
    <3>3. \A j \in 1 .. Len(z) : z[j] = p[j]
      BY <2>2, <2>3, <2>5, <3>2
    <3>4. IsPrefix(z, p)
      BY <1>0, <2>2, <3>2, <3>3, PrefixIs
    <3> QED
      BY <2>4, <3>4 DEF Under, z
  <2> QED
    BY <2>11, <2>12
<1> QED
  BY <1>5, <1>6

\* A parameter that is shown, is left out, or that the walk leads to.
LeftOutIn(o, t, p) ==
  \/ t[p].dir \/ ~t[p].r \/ ~t[p].opens \/ p[1] = ".."
  \/ Last(p) \in VERBOTEN \/ (Last(p) \in DEPRECATED /\ o.IgnoreDeprecated)
ShownIn(h, p) == \E x \in h : x.path = p
LedTo(t, w, p) == \E e \in w : e[1] = p \/ Under(t, e[1], p)

\* -a without a pattern.
AllAsked(o) == o.all /\ o.pattern = ""

AllSoFar(o, g, w, h, t) ==
  AllAsked(o) =>
    \A p \in DOMAIN t :
       /\ g = "show" => LeftOutIn(o, t, p) \/ ShownIn(h, p) \/ LedTo(t, w, p)
       /\ g = "done" => LeftOutIn(o, t, p) \/ ShownIn(h, p)

AllInv == AllSoFar(opt, stage, walk, shown, tree)

\* Being left out as the proofs and the property say it.
LEMMA LeftOutSame == \A p : LeftOut(p) <=> LeftOutIn(opt, tree, p)
BY Zenon DEF LeftOut, LeftOutIn

\* main starts the walk at the root.
LEMMA AllMain ==
  ASSUME Base, AllInv, main
  PROVE  AllInv'
<1>1. opt' = opt /\ tree' = tree /\ shown' = shown
  BY DEF main
<1>2. CASE ~AllAsked(opt)
  BY <1>1, <1>2 DEF AllInv, AllSoFar
<1>3. CASE AllAsked(opt)
  <2>0. opt.all
    BY <1>3, Zenon DEF AllAsked
  <2>1. stage' = "show" /\ walk' = Listed(<<>>, TRUE)
    BY <2>0 DEF main, Go
  <2>2. DirPath(<<>>) /\ \A p \in DOMAIN tree : IsPrefix(<<>>, p)
    <3>1. <<>> \in Keys /\ Len(<<>>) = 0 /\ \A p \in DOMAIN tree : p \in Keys /\ Len(p) \in Nat
      BY DEF Base, TreeOK, Tree, Placed, Keys
    <3> QED
      BY <3>1, PrefixIs DEF DirPath
  <2>3. ASSUME NEW p \in DOMAIN tree PROVE LeftOutIn(opt, tree, p) \/ LedTo(tree, walk', p)
    <3>1. CASE LeftOut(p)
      BY <3>1, LeftOutSame
    <3>2. CASE ~LeftOut(p)
      <4>1. \E e \in Listed(<<>>, TRUE) : e[1] = p \/ Under(tree, e[1], p)
        BY <2>2, <3>2, ListedLeads DEF Base, TreeOK
      <4> QED
        BY <2>1, <4>1 DEF LedTo
    <3> QED
      BY <3>1, <3>2
  <2> QED
    BY <1>1, <2>1, <2>3 DEF AllInv, AllSoFar
<1> QED
  BY <1>2, <1>3

\* An entry of the walk: what it led to is shown or led to from below it.
LEMMA AllDisplay ==
  ASSUME Base, AllInv, DisplayAll
  PROVE  AllInv'
<1>1. opt' = opt /\ tree' = tree /\ stage' = "show" /\ stage = "show"
  BY DEF DisplayAll
<1>2. CASE ~AllAsked(opt)
  BY <1>1, <1>2 DEF AllInv, AllSoFar
<1>3. CASE AllAsked(opt)
  <2>1. PICK e \in walk :
         IF e[1] \notin DOMAIN tree
         THEN walk' = walk \ {e} /\ UNCHANGED <<shown, dir_rc>>
         ELSE \E how \in (IF tree[e[1]].dir THEN {"dir"} ELSE ReadOutcomes(e[1])) :
                /\ walk' = WalkStep(e)
                /\ shown' = shown \cup Printed(e[1], e[1], how)
                /\ dir_rc' = IF e[2] THEN Or(dir_rc, ReadStatus(how)) ELSE dir_rc
    BY DEF DisplayAll
  <2>2. walk \ {e} \subseteq walk' /\ shown \subseteq shown'
    BY <2>1 DEF WalkStep
  <2>3. ASSUME NEW p \in DOMAIN tree, ~LeftOut(p), e[1] = p \/ Under(tree, e[1], p)
        PROVE  ShownIn(shown', p) \/ LedTo(tree, walk', p)
    <3>1. e[1] \in DOMAIN tree
      BY <2>3 DEF Under
    <3>2. PICK how \in (IF tree[e[1]].dir THEN {"dir"} ELSE ReadOutcomes(e[1])) :
                /\ walk' = WalkStep(e)
                /\ shown' = shown \cup Printed(e[1], e[1], how)
      BY <2>1, <3>1
    <3>3. CASE tree[e[1]].dir
      <4>1. Under(tree, e[1], p)
        BY <2>3, <3>3 DEF LeftOut
      <4>2. DirPath(Append(e[1], "/"))
        <5>1. e[1] \in Keys /\ "/" \in Words
          BY <3>1 DEF Base, TreeOK, Tree, Placed, Keys, Words, Seps
        <5> QED
          BY <5>1 DEF DirPath, Keys
      <4>3. \E f \in Listed(Append(e[1], "/"), FALSE) : f[1] = p \/ Under(tree, f[1], p)
        BY <2>3, <4>1, <4>2, ListedLeads DEF Base, TreeOK, Under
      <4>4. WalkInto(e) \subseteq walk'
        BY <3>2, <3>3 DEF WalkStep
      <4> QED
        BY <4>3, <4>4 DEF LedTo, WalkInto
    <3>4. CASE ~tree[e[1]].dir
      <4>1. e[1] = p
        BY <2>3, <3>4 DEF Under
      <4>2. p[1] # ".." /\ tree[p].r /\ tree[p].opens /\ ~tree[p].dir
        BY <2>3 DEF LeftOut
      <4>3. opt.pattern = ""
        BY <1>3, Zenon DEF AllAsked
      <4>4. how \in ReadOutcomes(p)
        BY <3>2, <3>4, <4>1
      <4>5. ReadOutcomes(p) = {"ok"}
        BY <4>2, <4>3, Zenon DEF ReadOutcomes
      <4>6. how = "ok"
        BY <4>4, <4>5
      <4> QED
        BY <3>2, <4>1, <4>6, PrintedShows DEF ShownIn
    <3> QED
      BY <3>3, <3>4
  <2>4. ASSUME NEW p \in DOMAIN tree
        PROVE  LeftOutIn(opt, tree, p) \/ ShownIn(shown', p) \/ LedTo(tree, walk', p)
    <3>1. CASE LeftOut(p)
      BY <3>1, LeftOutSame
    <3>2. CASE ShownIn(shown, p)
      BY <2>2, <3>2 DEF ShownIn
    <3>3. CASE ~LeftOut(p) /\ LedTo(tree, walk, p)
      <4>1. PICK f \in walk : f[1] = p \/ Under(tree, f[1], p)
        BY <3>3 DEF LedTo
      <4>2. CASE f = e
        BY <2>3, <3>3, <4>1, <4>2
      <4>3. CASE f # e
        BY <2>2, <4>1, <4>3 DEF LedTo
      <4> QED
        BY <4>2, <4>3
    <3>4. LeftOutIn(opt, tree, p) \/ ShownIn(shown, p) \/ LedTo(tree, walk, p)
      BY <1>1, <1>3 DEF AllInv, AllSoFar
    <3> QED
      BY <3>1, <3>2, <3>3, <3>4, LeftOutSame
  <2> QED
    BY <1>1, <2>4 DEF AllInv, AllSoFar
<1> QED
  BY <1>2, <1>3

\* A parameter that vanishes is no directory.
LEMMA AllVanish ==
  ASSUME Base, AllInv, Vanish
  PROVE  AllInv'
<1>1. opt' = opt /\ walk' = walk /\ shown' = shown /\ stage' = stage
  BY DEF Vanish
<1>2. PICK v \in {q \in DOMAIN tree : ~tree[q].dir} : tree' = Without(tree, v)
  BY DEF Vanish, Without
<1> DEFINE u == Without(tree, v)
<1>3. DOMAIN u = DOMAIN tree \ {v} /\ \A q \in DOMAIN tree \ {v} : u[q] = tree[q]
  BY <1>2, WithoutIs DEF Base
<1> HIDE DEF u
<1>4. \A d, p : Under(tree, d, p) => Under(u, d, p)
  BY <1>2, <1>3 DEF Under
<1>5. \A p : LedTo(tree, walk, p) => LedTo(u, walk, p)
  BY <1>4 DEF LedTo
<1>6. \A p \in DOMAIN u : p \in DOMAIN tree /\ (LeftOutIn(opt, tree, p) => LeftOutIn(opt, u, p))
  <2> TAKE p \in DOMAIN u
  <2>1. p \in DOMAIN tree /\ u[p] = tree[p]
    BY <1>3
  <2> QED
    BY <2>1, Zenon DEF LeftOutIn
<1>7. AllSoFar(opt, stage, walk, shown, u)
  BY <1>5, <1>6 DEF AllInv, AllSoFar
<1> QED
  BY <1>1, <1>2, <1>7 DEF AllInv, u

\* The end of the walk: it leads nowhere any more.
LEMMA AllDisplayed ==
  ASSUME Base, AllInv, Displayed
  PROVE  AllInv'
<1>1. opt' = opt /\ tree' = tree /\ shown' = shown /\ walk = {} /\ stage = "show"
      /\ stage' \in {"done", "args"}
  BY DEF Displayed, Go
<1>2. \A p : ~LedTo(tree, walk, p)
  BY <1>1 DEF LedTo
<1> QED
  BY <1>1, <1>2 DEF AllInv, AllSoFar

\* The steps of other invocations.
LEMMA AllOthers ==
  ASSUME Base, AllInv, SNext, ~main, ~DisplayAll, ~Displayed, ~Vanish
  PROVE  AllInv'
<1>1. stage \in {"dirs", "load", "write", "expand", "args"} /\ opt' = opt
  BY DEF SNext, PreloadSystem, sortpairs, Preload, PreloadLine, Loaded, write_setting_list,
         WriteNext, WroteAll, Written, Argument, Arguments
<1>2. ~opt.all
  BY <1>1 DEF Base, FlowOK
<1>3. ~AllAsked(opt)
  BY <1>2, Zenon DEF AllAsked
<1> QED
  BY <1>1, <1>3 DEF AllInv, AllSoFar

(***************************************************************************)
(* The list: what is written is what its settings say.                     *)
(***************************************************************************)

\* The setting is written to p, if p is there.
Found(l, p) ==
  \E ix \in DOMAIN l : l[ix].path = p \/ (l[ix].glob_exclude /\ fnmatch(l[ix].path, p))
Meant(l, s, p) ==
  /\ ~s.glob_exclude
  /\ IF string_is_glob(s.path) THEN fnmatch(s.path, p) /\ Depth(p) = Depth(s.path) /\ ~Found(l, p)
     ELSE p = s.path

\* The first n settings have been written to p.
Settled(l, t, p, n) ==
  \/ t[p].value = t[p].was /\ \A ix \in 1 .. n : ~Meant(l, l[ix], p)
  \/ \E ix \in 1 .. n :
       /\ Meant(l, l[ix], p) /\ \A j \in 1 .. n : Meant(l, l[j], p) => j <= ix
       /\ (t[p].value = l[ix].value \/ (l[ix].ignore_failure /\ ~t[p].opens))

\* Some place of c has p.
InSeq(c, p) == \E j \in 1 .. Len(c) : c[j] = p

\* As far as the list was gone through without a failure.
ListSoFar(g, l, t, n, c) ==
  /\ g \in {"main", "dirs", "load"} => \A p \in DOMAIN t : t[p].value = t[p].was
  /\ g = "write" => \A p \in DOMAIN t : Settled(l, t, p, n)
  /\ g = "expand" =>
       /\ \A j \in 1 .. Len(c) : Meant(l, l[n + 1], c[j])
       /\ \A p \in DOMAIN t : \/ Settled(l, t, p, n + 1)
                              \/ Settled(l, t, p, n) /\ (Meant(l, l[n + 1], p) => InSeq(c, p))

ListInv ==
  (rc = 0 /\ ~opt.DryRun) => ListSoFar(stage, setlist, tree, Len(setlist) - Len(todo), cfgs)

\* Whether a parameter that is there is written to.
LEMMA MeantIs ==
  ASSUME NEW s
  PROVE  /\ \A p \in write_targets(s) : Meant(setlist, s, p)
         /\ \A p \in DOMAIN tree : Meant(setlist, s, p) => p \in write_targets(s)
<1>1. \A p : settinglist_findpath(p) <=> Found(setlist, p)
  BY Zenon DEF settinglist_findpath, Found
<1>2. CASE s.glob_exclude
  BY <1>2 DEF write_targets, Meant
<1>3. CASE ~s.glob_exclude /\ string_is_glob(s.path)
  <2>1. write_targets(s) = {p \in glob(s.path) : ~settinglist_findpath(p)}
    BY <1>3 DEF write_targets
  <2>2. \A p : Meant(setlist, s, p) <=>
          fnmatch(s.path, p) /\ Depth(p) = Depth(s.path) /\ ~Found(setlist, p)
    BY <1>3 DEF Meant
  <2>3. \A p : p \in glob(s.path) <=>
          p \in DOMAIN tree /\ fnmatch(s.path, p) /\ Depth(p) = Depth(s.path)
    BY DEF glob
  <2> QED
    BY <1>1, <2>1, <2>2, <2>3
<1>4. CASE ~s.glob_exclude /\ ~string_is_glob(s.path)
  <2>1. write_targets(s) = {s.path}
    BY <1>4 DEF write_targets
  <2>2. \A p : Meant(setlist, s, p) <=> p = s.path
    BY <1>4 DEF Meant
  <2> QED
    BY <2>1, <2>2
<1> QED
  BY <1>2, <1>3, <1>4

\* What was settled stays so while the parameter is not touched.
LEMMA SettledStays ==
  ASSUME NEW l, NEW t, NEW t2, NEW p, NEW n, Same(t[p], t2[p]), t2[p].value = t[p].value,
         Settled(l, t, p, n)
  PROVE  Settled(l, t2, p, n)
BY DEF Settled, Same

\* A setting that is not for p changes nothing about p.
LEMMA SettledNext ==
  ASSUME NEW l, NEW t, NEW p, NEW n \in Nat, Settled(l, t, p, n), ~Meant(l, l[n + 1], p)
  PROVE  Settled(l, t, p, n + 1)
<1>1. \A ix \in 1 .. n + 1 : ix \in 1 .. n \/ ix = n + 1
  OBVIOUS
<1>2. \A ix \in 1 .. n : ix \in 1 .. n + 1
  OBVIOUS
<1>3. CASE t[p].value = t[p].was /\ \A ix \in 1 .. n : ~Meant(l, l[ix], p)
  BY <1>1, <1>3 DEF Settled
<1>4. CASE \E ix \in 1 .. n :
       /\ Meant(l, l[ix], p) /\ \A j \in 1 .. n : Meant(l, l[j], p) => j <= ix
       /\ (t[p].value = l[ix].value \/ (l[ix].ignore_failure /\ ~t[p].opens))
  <2>1. PICK ix \in 1 .. n :
       /\ Meant(l, l[ix], p) /\ \A j \in 1 .. n : Meant(l, l[j], p) => j <= ix
       /\ (t[p].value = l[ix].value \/ (l[ix].ignore_failure /\ ~t[p].opens))
    BY <1>4
  <2>2. \A j \in 1 .. n + 1 : Meant(l, l[j], p) => j <= ix
    BY <1>1, <2>1
  <2> QED
    BY <1>2, <2>1, <2>2 DEF Settled
<1> QED
  BY <1>3, <1>4 DEF Settled

\* A setting that was written last decides.
LEMMA SettledLast ==
  ASSUME NEW l, NEW t, NEW p, NEW n \in Nat, Meant(l, l[n + 1], p),
         t[p].value = l[n + 1].value \/ (l[n + 1].ignore_failure /\ ~t[p].opens)
  PROVE  Settled(l, t, p, n + 1)
<1>1. n + 1 \in 1 .. n + 1 /\ \A j \in 1 .. n + 1 : j <= n + 1
  OBVIOUS
<1> QED
  BY <1>1 DEF Settled

\* The steps before the list is written.
LEMMA ListCollect ==
  ASSUME Base, ListInv,
         main \/ PreloadSystem \/ sortpairs \/ Preload \/ PreloadLine \/ Loaded
  PROVE  ListInv'
<1>1. opt' = opt /\ tree' = tree /\ stage \in {"main", "dirs", "load"} /\ rc \in Int
  BY DEF Base, main, PreloadSystem, sortpairs, Preload, PreloadLine, Loaded
<1>2. rc' = 0 => rc = 0
  <2>1. rc' = rc \/ rc' = Or(rc, FAILURE)
    BY DEF main, PreloadSystem, sortpairs, Preload, PreloadLine, Loaded
  <2> QED
    BY <1>1, <2>1 DEF Or, FAILURE
<1> SUFFICES ASSUME rc' = 0, ~opt.DryRun
             PROVE  ListSoFar(stage', setlist', tree, Len(setlist') - Len(todo'), cfgs')
  BY <1>1 DEF ListInv
<1>3. \A p \in DOMAIN tree : tree[p].value = tree[p].was
  BY <1>1, <1>2 DEF ListInv, ListSoFar
<1>4. CASE Loaded
  <2>1. setlist' = setlist /\ stage' = "write" /\ todo' = [ix \in DOMAIN setlist |-> ix]
    BY <1>4 DEF Loaded, Go
  <2>2. DOMAIN setlist = 1 .. Len(setlist) /\ Len(setlist) \in Nat
    BY DEF Base, ListOK
  <2>3. Len(todo') = Len(setlist)
    BY <2>1, <2>2
  <2>4. Len(setlist') - Len(todo') = 0
    BY <2>1, <2>2, <2>3
  <2>5. \A p \in DOMAIN tree : Settled(setlist, tree, p, 0)
    BY <1>3 DEF Settled
  <2> QED
    BY <1>3, <2>1, <2>4, <2>5 DEF ListSoFar
<1>5. CASE ~Loaded
  <2>1. stage' \notin {"write", "expand"}
    BY <1>5 DEF main, PreloadSystem, sortpairs, Preload, PreloadLine, Go
  <2> QED
    BY <1>3, <2>1 DEF ListSoFar
<1> QED
  BY <1>4, <1>5

\* The next setting, and the end of one.
LEMMA ListTurns ==
  ASSUME Base, ListInv, write_setting_list \/ WroteAll
  PROVE  ListInv'
<1>1. opt' = opt /\ tree' = tree /\ rc' = rc /\ setlist' = setlist
  BY DEF write_setting_list, WroteAll
<1>2. stage \in {"write", "expand"} /\ todo # <<>>
  <2>1. CASE write_setting_list
    BY <2>1 DEF write_setting_list
  <2>2. CASE WroteAll
    BY <2>2 DEF WroteAll, Base, FlowOK
  <2> QED
    BY <2>1, <2>2
<1> DEFINE n == Len(setlist) - Len(todo)
<1>3. n \in Nat /\ todo[1] = n + 1 /\ Len(setlist) - Len(Tail(todo)) = n + 1
  <2> DEFINE a == Len(setlist)
             b == Len(todo)
             c == Len(Tail(todo))
  <2>1. /\ todo[1] \in 1 .. a /\ todo[1] = (a - b) + 1
        /\ c = b - 1 /\ b \in Nat /\ a \in Nat
    BY <1>2, TurnIs
  <2> HIDE DEF a, b, c
  <2>2. a - b \in Nat /\ a - c = (a - b) + 1
    BY <2>1
  <2> QED
    BY <2>1, <2>2 DEF a, b, c
<1> SUFFICES ASSUME rc = 0, ~opt.DryRun
             PROVE  ListSoFar(stage', setlist, tree, Len(setlist) - Len(todo'), cfgs')
  BY <1>1 DEF ListInv
<1>4. ListSoFar(stage, setlist, tree, n, cfgs)
  BY DEF ListInv
<1> HIDE DEF n
<1>5. CASE write_setting_list
  <2> DEFINE s == setlist[n + 1]
             T == write_targets(s)
  <2>1. stage = "write" /\ stage' = "expand" /\ todo' = todo /\ cfgs' = SetToSeq(T)
    BY <1>3, <1>5 DEF write_setting_list, Go
  <2>2. s \in Settings /\ Rooted(s.path)
    BY <1>2, <1>3, TurnIs
  <2>3. IsFiniteSet(T)
    BY <2>2, TargetsAre
  <2>4. (\A p \in T : Meant(setlist, s, p)) /\ \A p \in DOMAIN tree : Meant(setlist, s, p) => p \in T
    BY MeantIs
  <2> HIDE DEF s, T
  <2>5. SetToSeq(T) \in Seq(T) /\ \A x \in T : InSeq(SetToSeq(T), x)
    BY <2>3, SetToSeqIs DEF InSeq
  <2> DEFINE c == SetToSeq(T)
  <2>6. c \in Seq(T) /\ (\A x \in T : InSeq(c, x)) /\ cfgs' = c
    BY <2>1, <2>5
  <2> HIDE DEF c
  <2>7. \A j \in 1 .. Len(c) : Meant(setlist, s, c[j])
    BY <2>4, <2>6
  <2>8. \A p \in DOMAIN tree : Settled(setlist, tree, p, n)
    BY <1>4, <2>1 DEF ListSoFar
  <2>9. \A p \in DOMAIN tree : Meant(setlist, s, p) => InSeq(c, p)
    BY <2>4, <2>6
  <2>10. Len(setlist) - Len(todo') = n
    BY <2>1 DEF n
  <2> QED
    BY <2>1, <2>6, <2>7, <2>8, <2>9, <2>10 DEF ListSoFar, s
<1>6. CASE WroteAll
  <2>1. stage = "expand" /\ stage' = "write" /\ todo' = Tail(todo) /\ cfgs = <<>>
    BY <1>6 DEF WroteAll, Go
  <2>2. ASSUME NEW p \in DOMAIN tree PROVE Settled(setlist, tree, p, n + 1)
    <3>1. ~InSeq(cfgs, p)
      BY <2>1 DEF InSeq
    <3>2. \/ Settled(setlist, tree, p, n + 1)
          \/ Settled(setlist, tree, p, n) /\ ~Meant(setlist, setlist[n + 1], p)
      BY <1>4, <2>1, <3>1 DEF ListSoFar
    <3> QED
      BY <1>3, <3>2, SettledNext
  <2> QED
    BY <1>3, <2>1, <2>2 DEF ListSoFar
<1> QED
  BY <1>5, <1>6

\* A path that is written.
LEMMA ListWrites ==
  ASSUME Base, ListInv, WriteNext
  PROVE  ListInv'
<1>1. /\ WriteSetting(cfgs[1], setlist[todo[1]]) /\ cfgs # <<>> /\ cfgs' = Tail(cfgs)
      /\ stage = "expand" /\ stage' = "expand" /\ todo' = todo /\ opt' = opt /\ setlist' = setlist
  BY DEF WriteNext
<1>2. todo # <<>> /\ cfgs \in Seq(Paths)
  BY <1>1 DEF Base, FlowOK
<1> DEFINE n == Len(setlist) - Len(todo)
           s == setlist[n + 1]
           path == cfgs[1]
<1>3. n \in Nat /\ todo[1] = n + 1 /\ s \in Settings /\ path \in Paths
  <2>1. /\ todo[1] \in 1 .. Len(setlist) /\ todo[1] = (Len(setlist) - Len(todo)) + 1
        /\ Len(todo) \in Nat /\ Len(setlist) \in Nat /\ setlist[todo[1]] \in Settings
    BY <1>1, <1>2, TurnIs
  <2>2. path \in Paths
    BY <1>1, <1>2
  <2> QED
    BY <2>1, <2>2
<1>4. /\ CameFrom(tree', tree, vanished') /\ (rc' = 0 => rc = 0)
      /\ (rc' = 0 /\ ~opt.DryRun) => Took(tree', tree, path, s)
  BY <1>1, <1>3, WriteIs DEF Base
<1> SUFFICES ASSUME rc' = 0, ~opt.DryRun
             PROVE  ListSoFar("expand", setlist, tree', n, Tail(cfgs))
  BY <1>1 DEF ListInv
<1>5. ListSoFar("expand", setlist, tree, n, cfgs)
  BY <1>1, <1>4 DEF ListInv
<1> HIDE DEF n, s, path
<1>6. Took(tree', tree, path, s)
  BY <1>4
<1>7. Len(cfgs) \in Nat /\ Len(cfgs) > 0 /\ Len(Tail(cfgs)) = Len(cfgs) - 1
      /\ \A j \in 1 .. Len(cfgs) - 1 : Tail(cfgs)[j] = cfgs[j + 1]
  BY <1>1, <1>2
<1>8. Meant(setlist, s, path) /\ \A j \in 1 .. Len(Tail(cfgs)) : Meant(setlist, s, Tail(cfgs)[j])
  <2>1. \A j \in 1 .. Len(cfgs) : Meant(setlist, s, cfgs[j])
    BY <1>5 DEF ListSoFar, s
  <2>2. \A j \in 1 .. Len(Tail(cfgs)) : j + 1 \in 1 .. Len(cfgs) /\ Tail(cfgs)[j] = cfgs[j + 1]
    BY <1>7
  <2> QED
    BY <1>7, <2>1, <2>2 DEF path
<1>9. \A p : (InSeq(cfgs, p) /\ p # path) => InSeq(Tail(cfgs), p)
  <2> SUFFICES ASSUME NEW p, NEW j \in 1 .. Len(cfgs), cfgs[j] = p, p # path
               PROVE  \E k \in 1 .. Len(Tail(cfgs)) : Tail(cfgs)[k] = p
    BY DEF InSeq
  <2>1. j # 1
    BY DEF path
  <2>2. j - 1 \in 1 .. Len(Tail(cfgs)) /\ Tail(cfgs)[j - 1] = cfgs[j]
    <3>1. j - 1 \in 1 .. Len(cfgs) - 1 /\ (j - 1) + 1 = j
      BY <1>7, <2>1
    <3> QED
      BY <1>7, <3>1
  <2> QED
    BY <2>2
<1>10. ASSUME NEW p \in DOMAIN tree'
       PROVE  \/ Settled(setlist, tree', p, n + 1)
              \/ Settled(setlist, tree', p, n) /\ (Meant(setlist, s, p) => InSeq(Tail(cfgs), p))
  <2>1. p \in DOMAIN tree /\ Same(tree[p], tree'[p])
    BY <1>4 DEF CameFrom
  <2>2. CASE p = path
    <3>1. tree'[p].value = s.value \/ (s.ignore_failure /\ ~tree'[p].opens)
      BY <1>6, <2>2 DEF Took
    <3> QED
      BY <1>3, <1>8, <2>2, <3>1, SettledLast DEF s
  <2>3. CASE p # path
    <3>1. tree'[p].value = tree[p].value
      BY <1>6, <2>3 DEF Took
    <3>2. \A m : Settled(setlist, tree, p, m) => Settled(setlist, tree', p, m)
      BY <2>1, <3>1, SettledStays
    <3>3. \/ Settled(setlist, tree, p, n + 1)
          \/ Settled(setlist, tree, p, n) /\ (Meant(setlist, s, p) => InSeq(cfgs, p))
      BY <1>5, <2>1 DEF ListSoFar, s
    <3> QED
      BY <1>9, <2>3, <3>2, <3>3
  <2> QED
    BY <2>2, <2>3
<1> QED
  BY <1>8, <1>10 DEF ListSoFar, s

\* A parameter that vanishes.
LEMMA ListVanish ==
  ASSUME Base, ListInv, Vanish
  PROVE  ListInv'
<1>1. opt' = opt /\ setlist' = setlist /\ stage' = stage /\ todo' = todo /\ cfgs' = cfgs /\ rc' = rc
      /\ stage \in {"show", "expand"}
  BY DEF Vanish
<1>2. PICK v \in {q \in DOMAIN tree : ~tree[q].dir} : tree' = Without(tree, v)
  BY DEF Vanish, Without
<1> DEFINE u == Without(tree, v)
<1>3. DOMAIN u = DOMAIN tree \ {v} /\ \A q \in DOMAIN tree \ {v} : u[q] = tree[q]
  BY <1>2, WithoutIs DEF Base
<1> HIDE DEF u
<1>4. ASSUME NEW p \in DOMAIN u PROVE \A m : Settled(setlist, tree, p, m) => Settled(setlist, u, p, m)
  BY <1>3, <1>4, SettledStays DEF Same
<1>5. \A n : ListSoFar(stage, setlist, tree, n, cfgs) => ListSoFar(stage, setlist, u, n, cfgs)
  BY <1>1, <1>3, <1>4 DEF ListSoFar
<1> QED
  BY <1>1, <1>2, <1>5 DEF ListInv, u

\* The steps after the list, and of invocations that have none.
LEMMA ListOthers ==
  ASSUME Base, Written \/ Argument \/ Arguments \/ DisplayAll \/ Displayed
  PROVE  ListInv'
<1>1. stage' \in {"args", "show", "done"}
  BY DEF Written, Argument, Arguments, DisplayAll, Displayed, Go
<1> QED
  BY <1>1 DEF ListInv, ListSoFar

(***************************************************************************)
(* Numbers in order, and texts put together.                               *)
(***************************************************************************)

\* Induction over a set of naturals.
LEMMA NatSteps ==
  ASSUME NEW S, 0 \in S, \A n \in Nat : n \in S => n + 1 \in S
  PROVE  Nat \subseteq S
<1> SUFFICES ASSUME Nat \ S # {} PROVE FALSE
  OBVIOUS
<1>1. PICK m \in Nat \ S : \A k \in Nat \ S : m <= k
  BY LeastIs
<1>2. m - 1 \in Nat
  BY <1>1
<1> QED
  BY <1>1, <1>2

\* n members of T, rising.
Risen(s, T, n) == s \in [1 .. n -> T] /\ \A ix, j \in 1 .. n : ix < j => s[ix] < s[j]

\* The members of a finite set of numbers can be put in order: the least one
\* before the others in order.
LEMMA RisenExists ==
  ASSUME NEW S \in SUBSET Nat, IsFiniteSet(S)
  PROVE  \E s : Risen(s, S, Cardinality(S))
<1> DEFINE N == {n \in Nat : \A T \in SUBSET S : Cardinality(T) = n => \E s : Risen(s, T, n)}
<1>1. 0 \in N
  <2>1. ASSUME NEW T \in SUBSET S PROVE Risen([ix \in 1 .. 0 |-> 0], T, 0)
    BY DEF Risen
  <2> QED
    BY <2>1
<1>2. ASSUME NEW n \in Nat, n \in N PROVE n + 1 \in N
  <2>1. ASSUME NEW T \in SUBSET S, Cardinality(T) = n + 1 PROVE \E s : Risen(s, T, n + 1)
    <3>0. Cardinality({}) = 0 /\ n + 1 # 0
      BY FS_EmptySet
    <3>1. T # {} /\ T \in SUBSET Nat
      BY <2>1, <3>0
    <3>2. PICK m \in T : \A x \in T : m <= x
      BY <3>1, LeastIs
    <3> DEFINE R == T \ {m}
    <3>3. R \in SUBSET S /\ Cardinality(R) = (n + 1) - 1
      BY <2>1, FS_Subset, FS_RemoveElement
    <3>4. \A x \in R : x \in T /\ m < x
      BY <3>1, <3>2
    <3> HIDE DEF R
    <3>5. PICK r : Risen(r, R, n)
      BY <1>2, <3>3
    <3> DEFINE s == [k \in 1 .. n + 1 |-> IF k = 1 THEN m ELSE r[k - 1]]
    <3>6. \A k \in 1 .. n + 1 : k # 1 => k - 1 \in 1 .. n /\ s[k] = r[k - 1] /\ r[k - 1] \in R
      <4>1. \A k \in 1 .. n + 1 : k # 1 => k - 1 \in 1 .. n
        OBVIOUS
      <4> QED
        BY <3>5, <4>1 DEF Risen
    <3>7. s \in [1 .. n + 1 -> T]
      BY <3>2, <3>4, <3>6
    <3>8. 1 \in 1 .. n + 1 /\ s[1] = m
      OBVIOUS
    <3> HIDE DEF s
    <3>9. ASSUME NEW ix \in 1 .. n + 1, NEW j \in 1 .. n + 1, ix < j PROVE s[ix] < s[j]
      <4>1. j # 1
        BY <3>9
      <4>2. CASE ix = 1
        BY <3>4, <3>6, <3>8, <4>1, <4>2
      <4>3. CASE ix # 1
        <5>1. ix - 1 < j - 1
          BY <3>9
        <5>2. r[ix - 1] < r[j - 1]
          BY <3>5, <3>6, <4>1, <4>3, <5>1 DEF Risen
        <5> QED
          BY <3>6, <4>1, <4>3, <5>2
      <4> QED
        BY <4>2, <4>3
    <3>10. Risen(s, T, n + 1)
      BY <3>7, <3>9 DEF Risen
    <3> QED
      BY <3>10
  <2> QED
    BY <2>1
<1>3. Cardinality(S) \in N
  BY <1>1, <1>2, NatSteps, FS_CardinalityType
<1> QED
  BY <1>3

\* So they are members of the set, as many as it has.
LEMMA RisingIs ==
  ASSUME NEW S \in SUBSET Nat, IsFiniteSet(S)
  PROVE  Cardinality(S) \in Nat /\ Rising(S) \in [1 .. Cardinality(S) -> S]
<1> DEFINE n == Cardinality(S)
           Up(x) == \A ix, j \in DOMAIN x : ix < j => x[ix] < x[j]
<1>1. n \in Nat
  BY FS_CardinalityType
<1>2. PICK r : Risen(r, S, n)
  BY RisenExists
<1>3. r \in [1 .. n -> S] /\ Up(r)
  BY <1>2 DEF Risen
<1>4. Rising(S) = CHOOSE x \in [1 .. n -> S] : Up(x)
  BY DEF Rising
<1> HIDE DEF Up, n
<1>5. Rising(S) \in [1 .. n -> S]
  BY <1>3, <1>4
<1> QED
  BY <1>1, <1>5 DEF n

LineSeqs == Seq(Lines)

\* f goes through the texts: its k-th entry is the first k of them in one.
Flat(f, T) ==
  /\ f \in [0 .. Len(T) -> LineSeqs] /\ f[0] = <<>>
  /\ \A k \in 1 .. Len(T) : f[k] = f[k - 1] \o T[k]

\* Putting lines together.
LEMMA LinesJoin ==
  /\ <<>> \in LineSeqs
  /\ \A s, t \in LineSeqs : s \o t \in LineSeqs /\ s \o <<>> = s /\ <<>> \o t = t
BY DEF LineSeqs

\* The function that FlattenSeq computes with.
Flattens(f, T, n) == f = [k \in 1 .. n |-> IF k = 1 THEN T[k] ELSE f[k - 1] \o T[k]]

\* There is one.
LEMMA FlattensExist ==
  ASSUME NEW T
  PROVE  \A n \in Nat : \E f : Flattens(f, T, n)
<1> DEFINE S == {n \in Nat : \E f : Flattens(f, T, n)}
<1>1. 0 \in S
  <2> DEFINE f == [k \in 1 .. 0 |-> 0]
  <2>1. \A k \in 1 .. 0 : FALSE
    OBVIOUS
  <2>2. Flattens(f, T, 0)
    BY <2>1 DEF Flattens
  <2> QED
    BY <2>2
<1>2. ASSUME NEW n \in Nat, n \in S PROVE n + 1 \in S
  <2>1. PICK g : Flattens(g, T, n)
    BY <1>2
  <2> DEFINE f == [k \in 1 .. n + 1 |-> IF k = 1 THEN T[k] ELSE g[k - 1] \o T[k]]
  <2>2. \A k \in 1 .. n : f[k] = g[k]
    <3>1. \A k \in 1 .. n : g[k] = IF k = 1 THEN T[k] ELSE g[k - 1] \o T[k]
      BY <2>1 DEF Flattens
    <3>2. \A k \in 1 .. n : k \in 1 .. n + 1
      OBVIOUS
    <3> QED
      BY <3>1, <3>2
  <2>3. \A k \in 1 .. n + 1 : k # 1 => k - 1 \in 1 .. n
    OBVIOUS
  <2>4. f = [k \in 1 .. n + 1 |-> IF k = 1 THEN T[k] ELSE f[k - 1] \o T[k]]
    BY <2>2, <2>3
  <2> HIDE DEF f
  <2>5. Flattens(f, T, n + 1)
    BY <2>4 DEF Flattens
  <2> QED
    BY <2>5
<1> QED
  BY <1>1, <1>2, NatSteps

\* FlattenSeq puts texts together from the first on.
LEMMA FlattenIs ==
  ASSUME NEW T \in Seq(LineSeqs)
  PROVE  \E f : Flat(f, T) /\ FlattenSeq(T) = f[Len(T)]
<1> DEFINE n == Len(T)
<1>1. n \in Nat /\ \A k \in 1 .. n : T[k] \in LineSeqs
  OBVIOUS
<1>2. PICK h : Flattens(h, T, n)
  BY <1>1, FlattensExist
<1> DEFINE g == CHOOSE x : x = [k \in 1 .. n |-> IF k = 1 THEN T[k] ELSE x[k - 1] \o T[k]]
<1>3. g = [k \in 1 .. n |-> IF k = 1 THEN T[k] ELSE g[k - 1] \o T[k]]
  BY <1>2, Zenon DEF Flattens
<1>4. FlattenSeq(T) = IF n = 0 THEN T ELSE g[n]
  BY Zenon DEF FlattenSeq
<1> HIDE DEF g
<1> DEFINE f == [k \in 0 .. n |-> IF k = 0 THEN <<>> ELSE g[k]]
           N == {k \in Nat : k > n \/ f[k] \in LineSeqs}
<1>5. \A k \in 1 .. n : g[k] = IF k = 1 THEN T[k] ELSE g[k - 1] \o T[k]
  BY <1>3
<1>6. f[0] = <<>> /\ \A k \in 1 .. n : k - 1 \in 0 .. n /\ k \in 0 .. n
  BY <1>1
<1>7. \A k \in 1 .. n : f[k] = f[k - 1] \o T[k]
  <2> SUFFICES ASSUME NEW k \in 1 .. n PROVE f[k] = f[k - 1] \o T[k]
    OBVIOUS
  <2>1. f[k] = g[k]
    OBVIOUS
  <2>2. CASE k = 1
    <3>1. g[k] = T[k] /\ T[k] \in LineSeqs
      BY <1>1, <1>5, <2>2
    <3>2. k - 1 = 0
      BY <2>2
    <3>3. f[k - 1] = <<>>
      BY <1>6, <3>2
    <3>4. <<>> \o T[k] = T[k]
      BY <3>1, LinesJoin, Zenon
    <3> QED
      BY <2>1, <3>1, <3>3, <3>4
  <2>3. CASE k # 1
    <3>1. f[k - 1] = g[k - 1]
      BY <1>6, <2>3
    <3> QED
      BY <1>5, <2>1, <2>3, <3>1
  <2> QED
    BY <2>2, <2>3
<1>8. f = [k \in 0 .. n |-> f[k]] /\ (n # 0 => f[n] = g[n])
  BY <1>1
<1> HIDE DEF f
<1>9. 0 \in N
  BY <1>6, LinesJoin
<1>10. ASSUME NEW k \in Nat, k \in N PROVE k + 1 \in N
  <2>1. CASE k + 1 > n
    BY <2>1
  <2>2. CASE k + 1 <= n
    <3>1. k + 1 \in 1 .. n /\ (k + 1) - 1 = k /\ ~(k > n)
      BY <1>1, <2>2
    <3>2. f[k] \in LineSeqs /\ T[k + 1] \in LineSeqs /\ f[k + 1] = f[k] \o T[k + 1]
      BY <1>1, <1>7, <1>10, <3>1
    <3>3. f[k + 1] \in LineSeqs
      BY <3>2, LinesJoin, Zenon
    <3> QED
      BY <3>3
  <2> QED
    BY <1>1, <2>1, <2>2
<1>11. Nat \subseteq N
  BY <1>9, <1>10, NatSteps
<1>12. f \in [0 .. n -> LineSeqs]
  <2>1. \A k \in 0 .. n : k \in Nat /\ ~(k > n)
    BY <1>1
  <2>2. \A k \in 0 .. n : f[k] \in LineSeqs
    BY <1>11, <2>1
  <2> QED
    BY <1>8, <2>2
<1>13. FlattenSeq(T) = f[n]
  <2>1. n = 0 => T = <<>>
    OBVIOUS
  <2> QED
    BY <1>4, <1>6, <1>8, <2>1
<1> QED
  BY <1>6, <1>7, <1>12, <1>13 DEF Flat

(***************************************************************************)
(* The list is what the lines in force say.                                *)
(***************************************************************************)

\* The line is one that parse_setting_line makes a setting of.
Says(o, line) ==
  /\ ~line.comment /\ (line.eq \/ line.minus)
  /\ (o.pattern = "" \/ pattern_match(line.key, o.pattern))

\* m leads from the settings of l to the lines of L they were made of, in their
\* order, and no line that says something was left out.
GivesBy(o, L, l, m) ==
  /\ m \in [1 .. Len(l) -> 1 .. Len(L)]
  /\ \A ix, j \in 1 .. Len(l) : ix < j => m[ix] < m[j]
  /\ \A ix \in 1 .. Len(l) : Says(o, L[m[ix]]) /\ l[ix] = setting_new(L[m[ix]])
  /\ \A k \in 1 .. Len(L) : Says(o, L[k]) => \E ix \in 1 .. Len(l) : m[ix] = k
Gives(o, L, l) == \E m : GivesBy(o, L, l, m)

\* What is made of one line.
LEMMA ParsedSays ==
  ASSUME NEW line \in Lines
  PROVE  parse_setting_line(line) = IF Says(opt, line) THEN <<setting_new(line)>> ELSE <<>>
<1>1. line.comment \in BOOLEAN /\ line.eq \in BOOLEAN /\ line.minus \in BOOLEAN
  BY DEF Lines
<1> QED
  BY <1>1, Zenon DEF parse_setting_line, Says

\* A sequence with one more.
LEMMA AppendIs ==
  ASSUME NEW X, NEW s \in Seq(X), NEW x \in X
  PROVE  /\ Append(s, x) \in Seq(X) /\ Len(Append(s, x)) = Len(s) + 1 /\ Len(s) \in Nat
         /\ Append(s, x)[Len(s) + 1] = x /\ \A ix \in 1 .. Len(s) : Append(s, x)[ix] = s[ix]
OBVIOUS

\* Nothing says nothing.
LEMMA GivesNone == \A o : Gives(o, <<>>, <<>>)
<1> SUFFICES ASSUME NEW o PROVE GivesBy(o, <<>>, <<>>, [ix \in 1 .. 0 |-> 0])
  BY DEF Gives
<1>1. Len(<<>>) = 0 /\ \A k \in 1 .. 0 : FALSE
  OBVIOUS
<1> QED
  BY <1>1 DEF GivesBy

\* A line that says nothing is passed over.
LEMMA GivesPast ==
  ASSUME NEW o, NEW L \in LineSeqs, NEW l \in Seq(Settings), NEW line \in Lines,
         Gives(o, L, l), ~Says(o, line)
  PROVE  Gives(o, Append(L, line), l)
<1> DEFINE K == Append(L, line)
           n == Len(l)
<1>1. PICK m : GivesBy(o, L, l, m)
  BY DEF Gives
<1>2. Len(K) = Len(L) + 1 /\ Len(L) \in Nat /\ K[Len(L) + 1] = line
      /\ \A ix \in 1 .. Len(L) : K[ix] = L[ix]
  BY AppendIs DEF LineSeqs
<1>3. n \in Nat
  OBVIOUS
<1> HIDE DEF K, n
<1>4. \A ix \in 1 .. n : m[ix] \in 1 .. Len(L)
  BY <1>1 DEF GivesBy, n
<1>5. m \in [1 .. n -> 1 .. Len(K)]
  <2>1. \A k \in 1 .. Len(L) : k \in 1 .. Len(K)
    BY <1>2
  <2>2. m \in [1 .. n -> 1 .. Len(L)]
    BY <1>1 DEF GivesBy, n
  <2> QED
    BY <1>4, <2>1, <2>2
<1>6. \A k \in 1 .. Len(K) : k \in 1 .. Len(L) \/ k = Len(L) + 1
  BY <1>2
<1>7. \A ix \in 1 .. n : Says(o, K[m[ix]]) /\ l[ix] = setting_new(K[m[ix]])
  <2>1. \A ix \in 1 .. n : K[m[ix]] = L[m[ix]]
    BY <1>2, <1>4
  <2>2. \A ix \in 1 .. n : Says(o, L[m[ix]]) /\ l[ix] = setting_new(L[m[ix]])
    BY <1>1, Zenon DEF GivesBy, n
  <2> QED
    BY <2>1, <2>2, Zenon
<1>8. ASSUME NEW k \in 1 .. Len(K), Says(o, K[k]) PROVE \E ix \in 1 .. n : m[ix] = k
  <2>1. k \in 1 .. Len(L) /\ K[k] = L[k]
    BY <1>2, <1>6, <1>8
  <2>2. Says(o, L[k])
    BY <1>8, <2>1, Zenon
  <2> QED
    BY <1>1, <2>1, <2>2, Zenon DEF GivesBy, n
<1>9. \A ix, j \in 1 .. n : ix < j => m[ix] < m[j]
  BY <1>1, Zenon DEF GivesBy, n
<1>10. GivesBy(o, K, l, m)
  BY <1>5, <1>7, <1>8, <1>9, Zenon DEF GivesBy, n
<1> QED
  BY <1>10 DEF Gives, K

\* A line that says something gives one more setting.
LEMMA GivesMore ==
  ASSUME NEW o, NEW L \in LineSeqs, NEW l \in Seq(Settings), NEW line \in Lines,
         Gives(o, L, l), Says(o, line), setting_new(line) \in Settings
  PROVE  Gives(o, Append(L, line), Append(l, setting_new(line)))
<1> DEFINE K == Append(L, line)
           s == setting_new(line)
           h == Append(l, s)
           n == Len(l)
           N == Len(L)
<1>1. PICK m : GivesBy(o, L, l, m)
  BY DEF Gives
<1>2. Len(K) = N + 1 /\ N \in Nat /\ K[N + 1] = line /\ \A ix \in 1 .. N : K[ix] = L[ix]
  BY AppendIs DEF LineSeqs
<1>3. Len(h) = n + 1 /\ n \in Nat /\ h[n + 1] = s /\ \A ix \in 1 .. n : h[ix] = l[ix]
  BY AppendIs
<1>4. /\ m \in [1 .. n -> 1 .. N]
      /\ \A ix, j \in 1 .. n : ix < j => m[ix] < m[j]
      /\ \A ix \in 1 .. n : Says(o, L[m[ix]]) /\ l[ix] = setting_new(L[m[ix]])
      /\ \A k \in 1 .. N : Says(o, L[k]) => \E ix \in 1 .. n : m[ix] = k
  BY <1>1, Zenon DEF GivesBy
<1> DEFINE r == [ix \in 1 .. n + 1 |-> IF ix = n + 1 THEN N + 1 ELSE m[ix]]
<1> HIDE DEF K, h, n, N, s
<1>5. \A ix \in 1 .. n + 1 : ix \in 1 .. n \/ ix = n + 1
  BY <1>3
<1>6. \A k \in 1 .. N + 1 : k \in 1 .. N \/ k = N + 1
  BY <1>2
<1>7. (\A ix \in 1 .. n : ix \in 1 .. n + 1 /\ ix # n + 1) /\ n + 1 \in 1 .. n + 1 /\ N + 1 \in 1 .. N + 1
      /\ \A k \in 1 .. N : k \in 1 .. N + 1
  BY <1>2, <1>3
<1>8. (\A ix \in 1 .. n : r[ix] = m[ix] /\ m[ix] \in 1 .. N) /\ r[n + 1] = N + 1
  BY <1>4, <1>7
<1>9. r \in [1 .. n + 1 -> 1 .. N + 1]
  BY <1>5, <1>7, <1>8
<1> HIDE DEF r
<1>10. \A ix, j \in 1 .. n + 1 : ix < j => r[ix] < r[j]
  <2> SUFFICES ASSUME NEW ix \in 1 .. n + 1, NEW j \in 1 .. n + 1, ix < j PROVE r[ix] < r[j]
    OBVIOUS
  <2>1. ix \in 1 .. n
    BY <1>3
  <2>2. CASE j = n + 1
    BY <1>2, <1>8, <2>1, <2>2
  <2>3. CASE j \in 1 .. n
    BY <1>4, <1>8, <2>1, <2>3
  <2> QED
    BY <1>5, <2>2, <2>3
<1>11. ASSUME NEW ix \in 1 .. n + 1 PROVE Says(o, K[r[ix]]) /\ h[ix] = setting_new(K[r[ix]])
  <2>1. CASE ix = n + 1
    <3>1. K[r[ix]] = line /\ h[ix] = s
      BY <1>2, <1>3, <1>8, <2>1
    <3> QED
      BY <3>1, Zenon DEF s
  <2>2. CASE ix \in 1 .. n
    <3>1. K[r[ix]] = L[m[ix]] /\ h[ix] = l[ix]
      BY <1>2, <1>3, <1>8, <2>2
    <3> QED
      BY <1>4, <2>2, <3>1, Zenon
  <2> QED
    BY <1>5, <2>1, <2>2
<1>12. ASSUME NEW k \in 1 .. N + 1, Says(o, K[k]) PROVE \E ix \in 1 .. n + 1 : r[ix] = k
  <2>1. CASE k = N + 1
    BY <1>7, <1>8, <2>1
  <2>2. CASE k \in 1 .. N
    <3>1. K[k] = L[k]
      BY <1>2, <2>2
    <3>2. PICK ix \in 1 .. n : m[ix] = k
      BY <1>4, <1>12, <2>2, <3>1, Zenon
    <3> QED
      BY <1>7, <1>8, <3>2
  <2> QED
    BY <1>6, <2>1, <2>2
<1>13. GivesBy(o, K, h, r)
  BY <1>2, <1>3, <1>9, <1>10, <1>11, <1>12, Zenon DEF GivesBy
<1> QED
  BY <1>13 DEF Gives, K, h, s

\* Some of the lines have been read into the list, the others are in hand.
LinesTaken(o, all, l, rest) == \E d \in LineSeqs : Gives(o, d, l) /\ all = d \o rest

\* The next line.
LEMMA TakenMore ==
  ASSUME NEW all, NEW l \in Seq(Settings), NEW rest \in LineSeqs, rest # <<>>,
         LinesTaken(opt, all, l, rest)
  PROVE  LinesTaken(opt, all, l \o parse_setting_line(rest[1]), Tail(rest))
<1>1. PICK d \in LineSeqs : Gives(opt, d, l) /\ all = d \o rest
  BY DEF LinesTaken
<1> DEFINE line == rest[1]
           e == Append(d, line)
           u == Tail(rest)
<1>2. line \in Lines /\ u \in LineSeqs
  BY DEF LineSeqs
<1>3. e \in LineSeqs
  BY <1>2 DEF LineSeqs
<1>4. d \o rest = e \o u
  BY <1>2 DEF LineSeqs
<1>5. setting_new(line) \in Settings
  BY <1>2, ParsedIs
<1>6. parse_setting_line(line) = IF Says(opt, line) THEN <<setting_new(line)>> ELSE <<>>
  BY <1>2, ParsedSays
<1>7. l \o <<>> = l /\ l \o <<setting_new(line)>> = Append(l, setting_new(line))
  BY <1>5
<1> HIDE DEF line, u
<1>8. Gives(opt, e, l \o parse_setting_line(line))
  <2>1. CASE Says(opt, line)
    BY <1>1, <1>2, <1>5, <1>6, <1>7, <2>1, GivesMore
  <2>2. CASE ~Says(opt, line)
    BY <1>1, <1>2, <1>6, <1>7, <2>2, GivesPast
  <2> QED
    BY <2>1, <2>2
<1> HIDE DEF e
<1>9. LinesTaken(opt, all, l \o parse_setting_line(line), u)
  BY <1>1, <1>3, <1>4, <1>8 DEF LinesTaken
<1> QED
  BY <1>9 DEF line, u

\* The texts in force, of options and files.
FirstDir(fs, n) == Min({d \in DirOrder : <<d, n>> \in DOMAIN fs})
SystemNames(fs) == {f[2] : f \in {g \in DOMAIN fs : g[1] \in DirOrder}}
TextOf(o, fs, x) ==
  LET f == IF o.load THEN <<x, 0>> ELSE x
  IN IF f \in DOMAIN fs THEN fs[f] ELSE <<>>
ConfOf(fs) == IF <<SYSCONF, 0>> \in DOMAIN fs THEN <<<<SYSCONF, 0>>>> ELSE <<>>

\* The files to be read, in order.
WorkOf(o, fs) ==
  IF o.load THEN IF o.args = <<>> THEN <<SYSCONF>> ELSE o.args
  ELSE LET names == Rising(SystemNames(fs))
       IN [k \in DOMAIN names |-> <<FirstDir(fs, names[k]), names[k]>>] \o ConfOf(fs)
TextsOf(o, fs, work) == [k \in 1 .. Len(work) |-> TextOf(o, fs, work[k])]

Works == Nat \cup (Nat \X Nat)

\* What invocations and files are like.
LEMMA FilesAre ==
  ASSUME opt \in Invocations, files \in FileSets
  PROVE  /\ IsFiniteSet(DOMAIN files) /\ DOMAIN files \subseteq Nat \X Nat
         /\ \A f \in DOMAIN files : files[f] \in LineSeqs
         /\ (opt.load => opt.args \in Seq(Nat)) /\ opt.load \in BOOLEAN
<1>1. \A o \in Options : opt[o] \in BOOLEAN
  BY SysctlAssumption
<1> QED
  BY <1>1, SysctlAssumption DEF LineSeqs, Options

\* The names of the files that count, in order.
LEMMA NamesAre ==
  ASSUME NEW fs, IsFiniteSet(DOMAIN fs), DOMAIN fs \subseteq Nat \X Nat
  PROVE  /\ Cardinality(SystemNames(fs)) \in Nat
         /\ Rising(SystemNames(fs)) \in [1 .. Cardinality(SystemNames(fs)) -> SystemNames(fs)]
         /\ SystemNames(fs) \subseteq Nat
<1> DEFINE G == {g \in DOMAIN fs : g[1] \in DirOrder}
           S == SystemNames(fs)
<1>1. S \subseteq Nat
  BY DEF SystemNames
<1>2. IsFiniteSet(G)
  BY FS_Subset
<1>3. S = {f[2] : f \in G}
  BY Zenon DEF SystemNames
<1> HIDE DEF G
<1> DEFINE h == [f \in G |-> f[2]]
<1>4. h \in Surjection(G, S)
  <2>1. h \in [G -> S]
    BY <1>3
  <2>2. \A x \in S : \E f \in G : h[f] = x
    BY <1>3
  <2> QED
    BY <2>1, <2>2 DEF Surjection
<1>5. IsFiniteSet(S)
  BY <1>2, <1>4, FS_Surjection
<1> QED
  BY <1>1, <1>5, RisingIs

\* The first directory with a name.
LEMMA FirstDirIs ==
  ASSUME NEW fs, NEW n, NEW d \in DirOrder, <<d, n>> \in DOMAIN fs,
         \A e \in DirOrder : e < d => <<e, n>> \notin DOMAIN fs
  PROVE  FirstDir(fs, n) = d
<1> DEFINE D == {e \in DirOrder : <<e, n>> \in DOMAIN fs}
<1>1. D \subseteq Nat /\ d \in D /\ \A e \in D : d <= e
  BY DEF DirOrder
<1>2. FirstDir(fs, n) = CHOOSE x \in D : \A y \in D : x <= y
  BY Zenon DEF FirstDir, Min
<1> HIDE DEF D
<1> DEFINE x == FirstDir(fs, n)
<1>3. x \in D /\ \A y \in D : x <= y
  BY <1>1, <1>2, Zenon
<1>4. x <= d /\ d <= x
  BY <1>1, <1>3, Zenon
<1> HIDE DEF x
<1>5. x \in Nat /\ d \in Nat
  BY <1>1, <1>3, Zenon
<1>6. x = d
  BY <1>4, <1>5
<1> QED
  BY <1>6 DEF x

\* There is one for every name.
LEMMA FirstDirOf ==
  ASSUME NEW fs, NEW n \in SystemNames(fs), DOMAIN fs \subseteq Nat \X Nat
  PROVE  FirstDir(fs, n) \in DirOrder /\ <<FirstDir(fs, n), n>> \in DOMAIN fs
<1> DEFINE D == {e \in DirOrder : <<e, n>> \in DOMAIN fs}
<1>1. PICK f \in DOMAIN fs : f[1] \in DirOrder /\ f[2] = n
  BY DEF SystemNames
<1>2. f = <<f[1], n>>
  BY <1>1
<1>3. D \in SUBSET Nat /\ D # {}
  BY <1>1, <1>2 DEF DirOrder
<1>4. FirstDir(fs, n) = CHOOSE x \in D : \A y \in D : x <= y
  BY Zenon DEF FirstDir, Min
<1>5. \E x \in D : \A y \in D : x <= y
  BY <1>3, LeastIs
<1>6. FirstDir(fs, n) \in D
  BY <1>4, <1>5
<1> QED
  BY <1>6

\* The files to be read are numbers or pairs.
LEMMA WorkIs ==
  ASSUME opt \in Invocations, files \in FileSets
  PROVE  WorkOf(opt, files) \in Seq(Works)
<1>0. Nat \subseteq Works /\ SYSCONF \in Nat /\ <<SYSCONF, 0>> \in Works
  BY DEF Works, SYSCONF
<1>1. CASE opt.load
  <2>1. opt.args \in Seq(Nat)
    BY <1>1, FilesAre
  <2>2. WorkOf(opt, files) = IF opt.args = <<>> THEN <<SYSCONF>> ELSE opt.args
    BY <1>1 DEF WorkOf
  <2>3. opt.args \in Seq(Works) /\ <<SYSCONF>> \in Seq(Works)
    BY <1>0, <2>1
  <2> QED
    BY <2>2, <2>3
<1>2. CASE ~opt.load
  <2> DEFINE S == SystemNames(files)
             names == Rising(S)
             n == Cardinality(S)
             a == [k \in 1 .. n |-> <<FirstDir(files, names[k]), names[k]>>]
  <2>1. n \in Nat /\ names \in [1 .. n -> S] /\ S \subseteq Nat
    BY FilesAre, NamesAre
  <2>2. \A x \in S : FirstDir(files, x) \in Nat
    BY FilesAre, FirstDirOf DEF DirOrder
  <2>3. WorkOf(opt, files) = a \o ConfOf(files)
    BY <1>2, <2>1 DEF WorkOf
  <2> HIDE DEF names, n, S
  <2>4. \A k \in 1 .. n : <<FirstDir(files, names[k]), names[k]>> \in Works
    BY <2>1, <2>2 DEF Works
  <2>5. a \in Seq(Works)
    BY <2>1, <2>4
  <2>6. ConfOf(files) \in Seq(Works)
    <3>1. <<>> \in Seq(Works) /\ <<<<SYSCONF, 0>>>> \in Seq(Works)
      BY <1>0
    <3> QED
      BY <3>1, Zenon DEF ConfOf
  <2> QED
    BY <2>3, <2>5, <2>6
<1> QED
  BY <1>1, <1>2

\* A text for each of them.
LEMMA TextsOfAre ==
  ASSUME opt \in Invocations, files \in FileSets, NEW work \in Seq(Works)
  PROVE  /\ TextsOf(opt, files, work) \in Seq(LineSeqs) /\ Len(TextsOf(opt, files, work)) = Len(work)
         /\ \A k \in 1 .. Len(work) : TextsOf(opt, files, work)[k] = TextOf(opt, files, work[k])
<1> DEFINE T == TextsOf(opt, files, work)
<1>1. \A x : TextOf(opt, files, x) \in LineSeqs
  BY FilesAre, LinesJoin DEF TextOf
<1>2. Len(work) \in Nat
  OBVIOUS
<1>3. T \in [1 .. Len(work) -> LineSeqs]
  BY <1>1 DEF TextsOf
<1>4. \A k \in 1 .. Len(work) : T[k] = TextOf(opt, files, work[k])
  BY DEF TextsOf
<1> HIDE DEF T
<1>5. T \in Seq(LineSeqs) /\ Len(T) = Len(work)
  BY <1>2, <1>3
<1>6. T \in Seq(LineSeqs) /\ Len(T) = Len(work)
      /\ \A k \in 1 .. Len(work) : T[k] = TextOf(opt, files, work[k])
  BY <1>4, <1>5
<1> QED
  BY <1>6 DEF T

\* Two sequences put together.
LEMMA SeqsJoined ==
  ASSUME NEW X, NEW a \in Seq(X), NEW b \in Seq(X)
  PROVE  /\ a \o b \in Seq(X) /\ Len(a \o b) = Len(a) + Len(b) /\ Len(a) \in Nat /\ Len(b) \in Nat
         /\ \A k \in 1 .. Len(a) : (a \o b)[k] = a[k]
         /\ \A k \in 1 .. Len(b) : (a \o b)[Len(a) + k] = b[k]
OBVIOUS

\* The texts in force are those of the files to be read.
LEMMA InForce ==
  ASSUME opt \in Invocations, files \in FileSets
  PROVE  TextsInForce = TextsOf(opt, files, WorkOf(opt, files))
<1> DEFINE work == WorkOf(opt, files)
<1>0. work \in Seq(Works)
  BY WorkIs
<1>1. CASE opt.load
  <2>1. work = IF opt.args = <<>> THEN <<SYSCONF>> ELSE opt.args
    BY <1>1 DEF WorkOf
  <2>2. DOMAIN work = 1 .. Len(work)
    BY <1>0
  <2> HIDE DEF work
  <2>3. TextsInForce = [ix \in DOMAIN work |-> IF <<work[ix], 0>> \in DOMAIN files
                                               THEN files[<<work[ix], 0>>] ELSE <<>>]
    BY <1>1, <2>1, Zenon DEF TextsInForce
  <2>4. \A x : TextOf(opt, files, x) = IF <<x, 0>> \in DOMAIN files THEN files[<<x, 0>>] ELSE <<>>
    BY <1>1, Zenon DEF TextOf
  <2>5. TextsOf(opt, files, work) = TextsInForce
    BY <2>2, <2>3, <2>4 DEF TextsOf
  <2> QED
    BY <2>5 DEF work
<1>2. CASE ~opt.load
  <2> DEFINE S == SystemNames(files)
             names == Rising(S)
             n == Cardinality(S)
             a == [k \in 1 .. n |-> <<FirstDir(files, names[k]), names[k]>>]
             A == [k \in 1 .. n |-> files[<<FirstDir(files, names[k]), names[k]>>]]
             c == ConfOf(files)
             C == IF <<SYSCONF, 0>> \in DOMAIN files THEN <<files[<<SYSCONF, 0>>]>> ELSE <<>>
  <2>1. n \in Nat /\ names \in [1 .. n -> S]
    BY FilesAre, NamesAre
  <2>2. work = a \o c
    BY <1>2, <2>1 DEF WorkOf
  <2>3. TextsInForce = A \o C
    <3>1. \A x : FirstDir(files, x) = Min({d \in DirOrder : <<d, x>> \in DOMAIN files})
      BY Zenon DEF FirstDir
    <3>2. S = {f[2] : f \in {g \in DOMAIN files : g[1] \in DirOrder}}
      BY Zenon DEF SystemNames
    <3> DEFINE B == [k \in DOMAIN names |->
                       files[<<Min({d \in DirOrder : <<d, names[k]>> \in DOMAIN files}), names[k]>>]]
    <3>3. TextsInForce = B \o C
      BY <1>2, <3>2, Zenon DEF TextsInForce
    <3>4. DOMAIN names = 1 .. n
      BY <2>1
    <3>5. B = A
      BY <3>1, <3>4, Zenon
    <3> QED
      BY <3>3, <3>5
  <2>4. \A k \in 1 .. n : FirstDir(files, names[k]) \in DirOrder
                          /\ <<FirstDir(files, names[k]), names[k]>> \in DOMAIN files
    BY <2>1, FilesAre, FirstDirOf
  <2>5. /\ Len(c) \in {0, 1} /\ Len(C) = Len(c)
        /\ Len(c) = 1 => c[1] \in DOMAIN files /\ C[1] = files[c[1]]
        /\ c \in Seq(Works) /\ C \in Seq(LineSeqs)
    <3>1. CASE <<SYSCONF, 0>> \in DOMAIN files
      <4>1. c = <<<<SYSCONF, 0>>>> /\ C = <<files[<<SYSCONF, 0>>]>>
        BY <3>1 DEF ConfOf
      <4>2. <<SYSCONF, 0>> \in Works /\ files[<<SYSCONF, 0>>] \in LineSeqs
        BY <3>1, FilesAre DEF Works, SYSCONF
      <4> HIDE DEF c, C
      <4> QED
        BY <3>1, <4>1, <4>2
    <3>2. CASE <<SYSCONF, 0>> \notin DOMAIN files
      <4>1. c = <<>> /\ C = <<>>
        BY <3>2 DEF ConfOf
      <4> HIDE DEF c, C
      <4> QED
        BY <4>1
    <3> QED
      BY <3>1, <3>2
  <2>6. /\ a \in Seq(Works) /\ Len(a) = n /\ A \in Seq(LineSeqs) /\ Len(A) = n
        /\ \A k \in 1 .. n : a[k] \in DOMAIN files /\ A[k] = files[a[k]]
    <3>1. \A k \in 1 .. n : a[k] \in DOMAIN files /\ A[k] = files[a[k]]
      BY <2>4
    <3>2. \A f \in DOMAIN files : f \in Works /\ files[f] \in LineSeqs
      BY FilesAre DEF Works
    <3>3. a \in [1 .. n -> Works] /\ A \in [1 .. n -> LineSeqs]
      <4>1. \A k \in 1 .. n : <<FirstDir(files, names[k]), names[k]>> \in Works
                              /\ files[<<FirstDir(files, names[k]), names[k]>>] \in LineSeqs
        BY <2>4, <3>2
      <4> QED
        BY <4>1
    <3> HIDE DEF a, A
    <3> QED
      BY <2>1, <3>1, <3>3
  <2> HIDE DEF a, A, c, C, n, names, S, work
  <2>7. /\ Len(work) = n + Len(c) /\ TextsInForce \in Seq(LineSeqs) /\ Len(TextsInForce) = n + Len(c)
        /\ \A k \in 1 .. n : work[k] = a[k] /\ TextsInForce[k] = A[k]
        /\ Len(c) = 1 => work[n + 1] = c[1] /\ TextsInForce[n + 1] = C[1]
    <3> DEFINE x == a \o c
               y == A \o C
    <3>1. /\ Len(x) = n + Len(c) /\ (\A k \in 1 .. n : x[k] = a[k])
          /\ \A k \in 1 .. Len(c) : x[n + k] = c[k]
      <4>1. /\ Len(x) = Len(a) + Len(c) /\ (\A k \in 1 .. Len(a) : x[k] = a[k])
            /\ \A k \in 1 .. Len(c) : x[Len(a) + k] = c[k]
        <5>1. a \in Seq(Works) /\ c \in Seq(Works)
          BY <2>5, <2>6
        <5> QED
          BY <5>1, SeqsJoined
      <4>2. Len(a) = n
        BY <2>6
      <4> QED
        BY <4>1, <4>2
    <3>2. /\ y \in Seq(LineSeqs) /\ Len(y) = n + Len(c) /\ (\A k \in 1 .. n : y[k] = A[k])
          /\ \A k \in 1 .. Len(c) : y[n + k] = C[k]
      <4>1. /\ y \in Seq(LineSeqs) /\ Len(y) = Len(A) + Len(C) /\ (\A k \in 1 .. Len(A) : y[k] = A[k])
            /\ \A k \in 1 .. Len(C) : y[Len(A) + k] = C[k]
        <5>1. A \in Seq(LineSeqs) /\ C \in Seq(LineSeqs)
          BY <2>5, <2>6
        <5> QED
          BY <5>1, SeqsJoined
      <4>2. Len(A) = n /\ Len(C) = Len(c)
        BY <2>5, <2>6
      <4> QED
        BY <4>1, <4>2
    <3>3. Len(c) = 1 => 1 \in 1 .. Len(c)
      OBVIOUS
    <3>4. work = x /\ TextsInForce = y
      BY <2>2, <2>3
    <3> HIDE DEF x, y
    <3> QED
      BY <3>1, <3>2, <3>3, <3>4
  <2>8. \A k \in 1 .. Len(work) : k \in 1 .. n \/ (Len(c) = 1 /\ k = n + 1)
    <3> DEFINE b == Len(c)
    <3>1. Len(work) = n + b /\ b \in {0, 1} /\ n \in Nat
      BY <2>1, <2>5, <2>7
    <3> HIDE DEF b
    <3>2. \A k \in 1 .. n + b : k \in 1 .. n \/ (b = 1 /\ k = n + 1)
      BY <3>1
    <3> QED
      BY <3>1, <3>2 DEF b
  <2>9. \A k \in 1 .. Len(work) : work[k] \in DOMAIN files /\ TextsInForce[k] = files[work[k]]
    BY <2>5, <2>6, <2>7, <2>8
  <2>10. \A k \in 1 .. Len(work) : TextsInForce[k] = TextOf(opt, files, work[k])
    BY <1>2, <2>9, Zenon DEF TextOf
  <2> DEFINE T == TextsOf(opt, files, work)
  <2>11. T \in Seq(LineSeqs) /\ Len(T) = Len(work)
         /\ \A k \in 1 .. Len(work) : T[k] = TextOf(opt, files, work[k])
    BY <1>0, TextsOfAre
  <2> HIDE DEF T
  <2>12. T = TextsInForce
    BY <2>7, <2>10, <2>11
  <2> QED
    BY <2>12 DEF T, work
<1> QED
  BY <1>1, <1>2

\* What PreloadSystem has found after k directories: every name of them, in the
\* first of them that has it.
Pairs == Nat \X Nat
CfgsOK(c, fs, k) ==
  /\ c \in Seq(Pairs)
  /\ \A ix \in 1 .. Len(c) : /\ c[ix] \in DOMAIN fs /\ c[ix][1] \in 1 .. k
                             /\ \A d \in DirOrder : d < c[ix][1] => <<d, c[ix][2]>> \notin DOMAIN fs
  /\ \A f \in DOMAIN fs : f[1] \in 1 .. k => \E ix \in 1 .. Len(c) : c[ix][2] = f[2]

\* One directory more.
LEMMA CfgsGrow ==
  ASSUME files \in FileSets, opt \in Invocations, NEW k \in 0 .. 4, CfgsOK(cfgs, files, k)
  PROVE  CfgsOK(KnownFirst(k + 1), files, k + 1)
<1> DEFINE N == {f \in DOMAIN files : /\ f[1] = k + 1
                                      /\ \A ix \in DOMAIN cfgs : cfgs[ix][2] # f[2]}
           b == SetToSeq(N)
           c == cfgs \o b
<1>0. IsFiniteSet(DOMAIN files) /\ DOMAIN files \subseteq Pairs /\ k \in Nat /\ k + 1 \in DirOrder
  BY FilesAre DEF Pairs, DirOrder
<1>1. KnownFirst(k + 1) = c
  BY Zenon DEF KnownFirst
<1>2. cfgs \in Seq(Pairs) /\ DOMAIN cfgs = 1 .. Len(cfgs) /\ Len(cfgs) \in Nat
  BY DEF CfgsOK
<1>3. N \subseteq DOMAIN files /\ IsFiniteSet(N)
  BY <1>0, FS_Subset
<1>4. \A f \in N : f \in DOMAIN files /\ f[1] = k + 1 /\ \A ix \in 1 .. Len(cfgs) : cfgs[ix][2] # f[2]
  BY <1>2
<1>5. \A f \in DOMAIN files : (f[1] = k + 1 /\ \A ix \in 1 .. Len(cfgs) : cfgs[ix][2] # f[2]) => f \in N
  BY <1>2
<1> HIDE DEF N
<1>6. b \in Seq(N) /\ \A x \in N : \E ix \in 1 .. Len(b) : b[ix] = x
  BY <1>3, SetToSeqIs
<1> HIDE DEF b
<1>7. b \in Seq(Pairs) /\ Len(b) \in Nat /\ \A ix \in 1 .. Len(b) : b[ix] \in N
  <2>1. Len(b) \in Nat /\ \A ix \in 1 .. Len(b) : b[ix] \in N
    BY <1>6
  <2>2. b \in Seq(Pairs)
    BY <1>0, <1>3, <1>6
  <2> QED
    BY <2>1, <2>2
<1>8. c \in Seq(Pairs) /\ Len(c) = Len(cfgs) + Len(b)
      /\ (\A ix \in 1 .. Len(cfgs) : c[ix] = cfgs[ix])
      /\ \A ix \in 1 .. Len(b) : c[Len(cfgs) + ix] = b[ix]
  BY <1>2, <1>7
<1> HIDE DEF c
<1>9. /\ \A ix \in 1 .. Len(c) : ix \in 1 .. Len(cfgs) \/ \E j \in 1 .. Len(b) : ix = Len(cfgs) + j
      /\ \A ix \in 1 .. Len(cfgs) : ix \in 1 .. Len(c)
      /\ \A j \in 1 .. Len(b) : Len(cfgs) + j \in 1 .. Len(c)
  <2>1. ASSUME NEW ix \in 1 .. Len(c), ix \notin 1 .. Len(cfgs)
        PROVE  \E j \in 1 .. Len(b) : ix = Len(cfgs) + j
    <3>1. ix - Len(cfgs) \in 1 .. Len(b) /\ ix = Len(cfgs) + (ix - Len(cfgs))
      BY <1>2, <1>7, <1>8, <2>1
    <3> QED
      BY <3>1
  <2> QED
    BY <1>2, <1>7, <1>8, <2>1
<1>10. ASSUME NEW f \in N, NEW d \in DirOrder, d < k + 1 PROVE <<d, f[2]>> \notin DOMAIN files
  <2> SUFFICES ASSUME <<d, f[2]>> \in DOMAIN files PROVE FALSE
    OBVIOUS
  <2> DEFINE g == <<d, f[2]>>
  <2>1. g \in DOMAIN files /\ g[1] = d /\ g[2] = f[2] /\ d \in 1 .. k
    BY <1>0, <1>10 DEF DirOrder
  <2> HIDE DEF g
  <2>2. \E ix \in 1 .. Len(cfgs) : cfgs[ix][2] = g[2]
    BY <2>1 DEF CfgsOK
  <2> QED
    BY <1>4, <2>1, <2>2
<1>11. ASSUME NEW ix \in 1 .. Len(c)
       PROVE  /\ c[ix] \in DOMAIN files /\ c[ix][1] \in 1 .. k + 1
              /\ \A d \in DirOrder : d < c[ix][1] => <<d, c[ix][2]>> \notin DOMAIN files
  <2>1. CASE ix \in 1 .. Len(cfgs)
    <3>1. c[ix] = cfgs[ix]
      BY <1>8, <2>1
    <3>2. /\ cfgs[ix] \in DOMAIN files /\ cfgs[ix][1] \in 1 .. k
          /\ \A d \in DirOrder : d < cfgs[ix][1] => <<d, cfgs[ix][2]>> \notin DOMAIN files
      BY <2>1 DEF CfgsOK
    <3>3. \A d \in 1 .. k : d \in 1 .. k + 1
      BY <1>0
    <3> QED
      BY <3>1, <3>2, <3>3
  <2>2. CASE ix \notin 1 .. Len(cfgs)
    <3>1. PICK j \in 1 .. Len(b) : ix = Len(cfgs) + j
      BY <1>9, <2>2
    <3>2. c[ix] \in N
      BY <1>7, <1>8, <3>1
    <3>3. c[ix][1] = k + 1 /\ c[ix] \in DOMAIN files /\ k + 1 \in 1 .. k + 1
      BY <1>0, <1>4, <3>2
    <3> QED
      BY <1>10, <3>2, <3>3
  <2> QED
    BY <2>1, <2>2
<1>12. ASSUME NEW f \in DOMAIN files, f[1] \in 1 .. k + 1 PROVE \E ix \in 1 .. Len(c) : c[ix][2] = f[2]
  <2>1. CASE \E ix \in 1 .. Len(cfgs) : cfgs[ix][2] = f[2]
    BY <1>8, <1>9, <2>1
  <2>2. CASE ~ \E ix \in 1 .. Len(cfgs) : cfgs[ix][2] = f[2]
    <3>1. f[1] \notin 1 .. k
      BY <2>2 DEF CfgsOK
    <3>2. f[1] = k + 1
      BY <1>0, <1>12, <3>1
    <3>3. f \in N
      BY <1>5, <2>2, <3>2
    <3>4. PICK j \in 1 .. Len(b) : b[j] = f
      BY <1>6, <3>3
    <3> QED
      BY <1>8, <1>9, <3>4
  <2> QED
    BY <2>1, <2>2
<1> QED
  BY <1>1, <1>8, <1>11, <1>12, Zenon DEF CfgsOK

\* When all directories were gone through the files in order are those to be read.
LEMMA SortedIs ==
  ASSUME files \in FileSets, opt \in Invocations, ~opt.load, CfgsOK(cfgs, files, 5)
  PROVE  ByName(ToSet(cfgs)) \o ConfOf(files) = WorkOf(opt, files)
<1> DEFINE P == ToSet(cfgs)
           S == SystemNames(files)
           R == {f[2] : f \in P}
           names == Rising(S)
<1>1. P = {cfgs[ix] : ix \in 1 .. Len(cfgs)}
  BY DEF CfgsOK, ToSet
<1>2. \A f \in P : /\ f \in DOMAIN files /\ f[1] \in DirOrder /\ f = <<f[1], f[2]>>
                   /\ \A d \in DirOrder : d < f[1] => <<d, f[2]>> \notin DOMAIN files
  <2>1. ASSUME NEW ix \in 1 .. Len(cfgs)
        PROVE  /\ cfgs[ix] \in DOMAIN files /\ cfgs[ix][1] \in DirOrder
               /\ cfgs[ix] = <<cfgs[ix][1], cfgs[ix][2]>>
               /\ \A d \in DirOrder : d < cfgs[ix][1] => <<d, cfgs[ix][2]>> \notin DOMAIN files
    <3>1. cfgs[ix] \in Pairs
      BY DEF CfgsOK
    <3>2. cfgs[ix] = <<cfgs[ix][1], cfgs[ix][2]>>
      BY <3>1 DEF Pairs
    <3> QED
      BY <3>2 DEF CfgsOK, DirOrder
  <2> HIDE DEF P
  <2> QED
    BY <1>1, <2>1
<1>3. R = S
  <2>1. ASSUME NEW x \in R PROVE x \in S
    <3>1. PICK f \in P : x = f[2]
      BY <2>1
    <3> QED
      BY <1>2, <3>1 DEF SystemNames
  <2>2. ASSUME NEW x \in S PROVE x \in R
    <3>1. PICK f \in DOMAIN files : f[1] \in DirOrder /\ x = f[2]
      BY <2>2 DEF SystemNames
    <3>2. \E ix \in 1 .. Len(cfgs) : cfgs[ix][2] = x
      BY <3>1 DEF CfgsOK, DirOrder
    <3> QED
      BY <1>1, <3>2
  <2> QED
    BY <2>1, <2>2
<1> DEFINE n == Cardinality(S)
<1>4. n \in Nat /\ names \in [1 .. n -> S]
  BY FilesAre, NamesAre
<1>5. ByName(P) = [k \in DOMAIN names |-> CHOOSE f \in P : f[2] = names[k]]
  <2>1. ByName(P) = [k \in DOMAIN Rising(R) |-> CHOOSE f \in P : f[2] = Rising(R)[k]]
    BY Zenon DEF ByName
  <2> HIDE DEF R, S
  <2>2. ByName(P) = [k \in DOMAIN Rising(S) |-> CHOOSE f \in P : f[2] = Rising(S)[k]]
    BY <1>3, <2>1
  <2> QED
    BY <2>2
<1>6. ASSUME NEW k \in DOMAIN names
      PROVE  (CHOOSE f \in P : f[2] = names[k]) = <<FirstDir(files, names[k]), names[k]>>
  <2> DEFINE x == names[k]
             g == CHOOSE f \in P : f[2] = x
  <2>1. x \in R
    BY <1>3, <1>4, <1>6
  <2> HIDE DEF x
  <2>2. \E f \in P : f[2] = x
    BY <2>1
  <2>3. g \in P /\ g[2] = x
    BY <2>2, Zenon
  <2> HIDE DEF g, P
  <2>4. /\ g[1] \in DirOrder /\ g = <<g[1], x>> /\ <<g[1], x>> \in DOMAIN files
        /\ \A d \in DirOrder : d < g[1] => <<d, x>> \notin DOMAIN files
    BY <1>2, <2>3
  <2>5. FirstDir(files, x) = g[1]
    BY <2>4, FirstDirIs
  <2>6. g = <<FirstDir(files, x), x>>
    BY <2>4, <2>5
  <2> QED
    BY <2>6 DEF g, x
<1> HIDE DEF P
<1>7. ByName(P) = [k \in DOMAIN names |-> <<FirstDir(files, names[k]), names[k]>>]
  BY <1>5, <1>6, Zenon
<1> QED
  BY <1>7, Zenon DEF WorkOf, P

(***************************************************************************)
(* Reading the files: the list grows along the lines in force.             *)
(***************************************************************************)

\* The texts of the files to be read, and their lines in one.
AllTexts(o, fs) == TextsOf(o, fs, WorkOf(o, fs))
AllLines(o, fs) == FlattenSeq(AllTexts(o, fs))

\* The texts of the files that are left are the last of T.
WorkLeft(o, fs, T, t) ==
  /\ t \in Seq(Works) /\ Len(t) <= Len(T)
  /\ \A j \in 1 .. Len(t) : TextOf(o, fs, t[j]) = T[(Len(T) - Len(t)) + j]

\* The list has what the other texts say, but for the lines in hand.
TextsTaken(o, T, n, l, rest) == \A f : Flat(f, T) => LinesTaken(o, f[Len(T) - n], l, rest)

LoadOK(o, T, t, l, rest) == TextsTaken(o, T, Len(t), l, rest)

Loading(o) == ~o.all /\ (o.load \/ o.system)

ReadSoFar(o, fs, g, l, t, c, rest) ==
  /\ g = "main" => l = <<>> /\ rest = <<>> /\ c = <<>>
  /\ g = "dirs" => ~o.load /\ l = <<>> /\ rest = <<>> /\ Indices(t, 5) /\ CfgsOK(c, fs, 5 - Len(t))
  /\ g = "load" => WorkLeft(o, fs, AllTexts(o, fs), t) /\ LoadOK(o, AllTexts(o, fs), t, l, rest)
  /\ (g \in {"write", "expand", "args", "show", "done"} /\ Loading(o)) => Gives(o, AllLines(o, fs), l)
  /\ (g \in {"args", "show"} /\ ~o.all /\ o.system) => o.args # <<>>

ReadInv == ReadSoFar(opt, files, stage, setlist, todo, cfgs, input)

\* The texts of the files to be read.
LEMMA AllTextsAre ==
  ASSUME opt \in Invocations, files \in FileSets
  PROVE  /\ AllTexts(opt, files) \in Seq(LineSeqs)
         /\ WorkLeft(opt, files, AllTexts(opt, files), WorkOf(opt, files))
         /\ Len(WorkOf(opt, files)) = Len(AllTexts(opt, files))
<1> DEFINE T == AllTexts(opt, files)
           w == WorkOf(opt, files)
<1>1. w \in Seq(Works)
  BY WorkIs
<1>2. T \in Seq(LineSeqs) /\ Len(T) = Len(w) /\ \A k \in 1 .. Len(w) : T[k] = TextOf(opt, files, w[k])
  BY <1>1, TextsOfAre DEF AllTexts
<1> HIDE DEF T, w
<1>3. Len(w) \in Nat /\ \A j \in 1 .. Len(w) : (Len(w) - Len(w)) + j = j
  BY <1>1
<1>4. WorkLeft(opt, files, T, w)
  <2>1. Len(w) <= Len(T)
    BY <1>2, <1>3
  <2> QED
    BY <1>1, <1>2, <1>3, <2>1 DEF WorkLeft
<1> QED
  BY <1>2, <1>4 DEF T, w

\* At the start of a load nothing has been read.
LEMMA LoadStarts ==
  ASSUME opt \in Invocations, files \in FileSets
  PROVE  LoadOK(opt, AllTexts(opt, files), WorkOf(opt, files), <<>>, <<>>)
<1> DEFINE T == AllTexts(opt, files)
           n == Len(WorkOf(opt, files))
<1>1. T \in Seq(LineSeqs) /\ n = Len(T)
  BY AllTextsAre
<1>2. Len(T) - n = 0
  BY <1>1
<1> HIDE DEF T, n
<1>3. LinesTaken(opt, <<>>, <<>>, <<>>)
  BY GivesNone, LinesJoin DEF LinesTaken
<1>4. TextsTaken(opt, T, n, <<>>, <<>>)
  BY <1>2, <1>3 DEF TextsTaken, Flat
<1> QED
  BY <1>4 DEF T, n, LoadOK

\* The next file is opened when the lines of the one before it have been read.
LEMMA LoadNext ==
  ASSUME NEW o, NEW fs, NEW T \in Seq(LineSeqs), NEW t, NEW l, t # <<>>,
         WorkLeft(o, fs, T, t), LoadOK(o, T, t, l, <<>>)
  PROVE  WorkLeft(o, fs, T, Tail(t)) /\ LoadOK(o, T, Tail(t), l, TextOf(o, fs, t[1]))
<1> DEFINE u == Tail(t)
           n == Len(t)
           N == Len(T)
           k == N - n
<1>1. /\ t \in Seq(Works) /\ n <= N /\ n \in Nat /\ N \in Nat /\ n > 0
      /\ \A j \in 1 .. n : TextOf(o, fs, t[j]) = T[(N - n) + j]
  BY DEF WorkLeft
<1>2. u \in Seq(Works) /\ Len(u) = n - 1 /\ \A j \in 1 .. n - 1 : u[j] = t[j + 1]
  BY <1>1
<1>3. \A j \in 1 .. N : T[j] \in LineSeqs
  OBVIOUS
<1>4. LoadOK(o, T, t, l, <<>>) <=> \A f : Flat(f, T) => LinesTaken(o, f[k], l, <<>>)
  BY Zenon DEF LoadOK, TextsTaken
<1>5. \A f : Flat(f, T) <=> /\ f \in [0 .. N -> LineSeqs] /\ f[0] = <<>>
                            /\ \A j \in 1 .. N : f[j] = f[j - 1] \o T[j]
  BY Zenon DEF Flat
<1>6. LoadOK(o, T, u, l, TextOf(o, fs, t[1]))
        <=> \A f : Flat(f, T) => LinesTaken(o, f[N - Len(u)], l, TextOf(o, fs, t[1]))
  BY Zenon DEF LoadOK, TextsTaken
<1> HIDE DEF u, n, N
<1>7. k + 1 \in 1 .. N /\ k \in 0 .. N /\ (k + 1) - 1 = k /\ N - Len(u) = k + 1 /\ 1 \in 1 .. n
      /\ Len(u) <= N
  BY <1>1, <1>2
<1>8. TextOf(o, fs, t[1]) = T[k + 1]
  BY <1>1, <1>7
<1>9. ASSUME NEW j \in 1 .. Len(u) PROVE TextOf(o, fs, u[j]) = T[(N - Len(u)) + j]
  <2>1. j + 1 \in 1 .. n /\ j \in 1 .. n - 1 /\ (N - n) + (j + 1) = (N - Len(u)) + j
    BY <1>1, <1>2
  <2>2. u[j] = t[j + 1]
    BY <1>2, <2>1
  <2> QED
    BY <1>1, <2>1, <2>2
<1>10. WorkLeft(o, fs, T, u)
  BY <1>2, <1>7, <1>9, Zenon DEF WorkLeft, N
<1>11. ASSUME NEW f, Flat(f, T) PROVE LinesTaken(o, f[N - Len(u)], l, TextOf(o, fs, t[1]))
  <2>1. f[k] \in LineSeqs /\ f[k + 1] = f[k] \o T[k + 1]
    BY <1>5, <1>7, <1>11
  <2>2. LinesTaken(o, f[k], l, <<>>)
    BY <1>4, <1>11
  <2> HIDE DEF k
  <2>3. PICK d \in LineSeqs : Gives(o, d, l) /\ f[k] = d \o <<>>
    BY <2>2, Zenon DEF LinesTaken
  <2>4. f[k] = d
    BY <2>3, LinesJoin
  <2>5. f[k + 1] = d \o TextOf(o, fs, t[1])
    BY <1>8, <2>1, <2>4
  <2>6. LinesTaken(o, f[k + 1], l, TextOf(o, fs, t[1]))
    BY <2>3, <2>5, Zenon DEF LinesTaken
  <2> QED
    BY <1>7, <2>6
<1>12. LoadOK(o, T, u, l, TextOf(o, fs, t[1]))
  BY <1>6, <1>11, Zenon
<1> QED
  BY <1>10, <1>12 DEF u

\* When all files have been read the list has what their lines say.
LEMMA LoadEnds ==
  ASSUME NEW o, NEW T \in Seq(LineSeqs), NEW l, LoadOK(o, T, <<>>, l, <<>>)
  PROVE  Gives(o, FlattenSeq(T), l)
<1>1. PICK f : Flat(f, T) /\ FlattenSeq(T) = f[Len(T)]
  BY FlattenIs
<1> DEFINE n == Len(T)
<1>2. n \in Nat /\ n - Len(<<>>) = n
  OBVIOUS
<1>3. f[n] \in LineSeqs
  <2>1. f \in [0 .. n -> LineSeqs]
    BY <1>1 DEF Flat
  <2> HIDE DEF n
  <2>2. n \in 0 .. n
    BY <1>2
  <2> QED
    BY <2>1, <2>2
<1>4. LinesTaken(o, f[n - Len(<<>>)], l, <<>>)
  BY <1>1, Zenon DEF LoadOK, TextsTaken
<1>5. LinesTaken(o, f[n], l, <<>>)
  BY <1>2, <1>4
<1> HIDE DEF n
<1>6. PICK d \in LineSeqs : Gives(o, d, l) /\ f[n] = d \o <<>>
  BY <1>5, Zenon DEF LinesTaken
<1>7. f[n] = d
  BY <1>6, LinesJoin
<1> QED
  BY <1>1, <1>6, <1>7 DEF n

\* main chooses what is read.
LEMMA ReadMain ==
  ASSUME Base, ReadInv, main PROVE ReadInv'
<1>1. /\ stage = "main" /\ opt' = opt /\ files' = files /\ setlist' = setlist /\ cfgs' = cfgs
      /\ input' = input /\ opt \in Invocations /\ files \in FileSets
  BY DEF main, Base
<1>2. setlist = <<>> /\ input = <<>> /\ cfgs = <<>>
  BY <1>1 DEF ReadInv, ReadSoFar
<1>3. opt.all \in BOOLEAN /\ opt.load \in BOOLEAN /\ opt.system \in BOOLEAN
  BY <1>1, OptionsAre DEF Options
<1> SUFFICES ReadSoFar(opt, files, stage', <<>>, todo', <<>>, <<>>)
  BY <1>1, <1>2 DEF ReadInv
<1>4. CASE opt.all
  <2>1. stage' = "show"
    BY <1>4 DEF main, Go
  <2> QED
    BY <1>4, <2>1 DEF ReadSoFar, Loading
<1>5. CASE ~opt.all /\ opt.load
  <2>1. stage' = "load" /\ todo' = WorkOf(opt, files)
    BY <1>5 DEF main, Go, WorkOf
  <2>2. WorkLeft(opt, files, AllTexts(opt, files), todo') /\ LoadOK(opt, AllTexts(opt, files), todo', <<>>, <<>>)
    BY <1>1, <2>1, AllTextsAre, LoadStarts
  <2> QED
    BY <2>1, <2>2 DEF ReadSoFar
<1>6. CASE ~opt.all /\ ~opt.load /\ opt.system
  <2>1. stage' = "dirs" /\ todo' = [d \in DirOrder |-> d]
    BY <1>6 DEF main, Go
  <2>2. todo' = [d \in 1 .. 5 |-> d]
    BY <2>1 DEF DirOrder
  <2>3. Indices(todo', 5)
    BY <2>2, IndicesAre
  <2>4. Len(todo') = 5
    BY <2>2
  <2>5. CfgsOK(<<>>, files, 0)
    BY DEF CfgsOK
  <2>6. CfgsOK(<<>>, files, 5 - Len(todo'))
    BY <2>4, <2>5
  <2> QED
    BY <1>6, <2>1, <2>3, <2>6 DEF ReadSoFar
<1>7. CASE ~opt.all /\ ~opt.load /\ ~opt.system
  <2>1. stage' = "args"
    BY <1>7 DEF main, Go
  <2> QED
    BY <1>7, <2>1 DEF ReadSoFar, Loading
<1> QED
  BY <1>4, <1>5, <1>6, <1>7

\* The directories of --system.
LEMMA ReadDirs ==
  ASSUME Base, ReadInv, PreloadSystem \/ sortpairs PROVE ReadInv'
<1>1. /\ stage = "dirs" /\ opt' = opt /\ files' = files /\ setlist' = setlist
      /\ input' = input /\ opt \in Invocations /\ files \in FileSets
  BY DEF PreloadSystem, sortpairs, Base
<1>2. ~opt.load /\ setlist = <<>> /\ input = <<>> /\ Indices(todo, 5) /\ CfgsOK(cfgs, files, 5 - Len(todo))
  BY <1>1 DEF ReadInv, ReadSoFar
<1> SUFFICES ReadSoFar(opt, files, stage', <<>>, todo', cfgs', <<>>)
  BY <1>1, <1>2 DEF ReadInv
<1>3. CASE PreloadSystem
  <2>1. stage' = "dirs" /\ todo # <<>> /\ cfgs' = KnownFirst(todo[1]) /\ todo' = Tail(todo)
    BY <1>1, <1>3 DEF PreloadSystem
  <2> DEFINE n == Len(todo)
  <2>2. /\ Indices(todo', 5) /\ Len(todo') = n - 1 /\ todo[1] = (5 - n) + 1 /\ todo[1] \in 1 .. 5
    BY <1>2, <2>1, IndicesAre
  <2>3. n \in Nat
    BY <1>2 DEF Indices
  <2>4. CfgsOK(cfgs, files, 5 - n)
    BY <1>2
  <2> HIDE DEF n
  <2>5. 5 - n \in 0 .. 4 /\ 5 - Len(todo') = (5 - n) + 1
    BY <2>2, <2>3
  <2>6. CfgsOK(KnownFirst((5 - n) + 1), files, (5 - n) + 1)
    BY <1>1, <2>4, <2>5, CfgsGrow
  <2>7. CfgsOK(cfgs', files, 5 - Len(todo'))
    BY <2>1, <2>2, <2>5, <2>6
  <2> QED
    BY <1>2, <2>1, <2>2, <2>7 DEF ReadSoFar
<1>4. CASE sortpairs
  <2>1. stage' = "load" /\ todo = <<>>
        /\ todo' = ByName(ToSet(cfgs)) \o ConfOf(files)
    BY <1>4 DEF sortpairs, Go, ConfOf
  <2>2. 5 - Len(todo) = 5
    BY <2>1
  <2>3. todo' = WorkOf(opt, files)
    BY <1>1, <1>2, <2>1, <2>2, SortedIs
  <2>4. WorkLeft(opt, files, AllTexts(opt, files), todo') /\ LoadOK(opt, AllTexts(opt, files), todo', <<>>, <<>>)
    BY <1>1, <2>3, AllTextsAre, LoadStarts
  <2> QED
    BY <2>1, <2>4 DEF ReadSoFar
<1> QED
  BY <1>3, <1>4

\* The files and their lines.
LEMMA ReadFiles ==
  ASSUME Base, ReadInv, Preload \/ PreloadLine \/ Loaded PROVE ReadInv'
<1> DEFINE T == AllTexts(opt, files)
<1>1. /\ stage = "load" /\ opt' = opt /\ files' = files /\ cfgs' = cfgs
      /\ opt \in Invocations /\ files \in FileSets /\ input \in LineSeqs /\ setlist \in Seq(Settings)
  BY DEF Preload, PreloadLine, Loaded, Base, ListOK, LineSeqs
<1>2. WorkLeft(opt, files, T, todo) /\ LoadOK(opt, T, todo, setlist, input)
  BY <1>1 DEF ReadInv, ReadSoFar
<1>3. T \in Seq(LineSeqs)
  BY <1>1, AllTextsAre
<1> HIDE DEF T
<1> SUFFICES ReadSoFar(opt, files, stage', setlist', todo', cfgs, input')
  BY <1>1 DEF ReadInv
<1>4. CASE Preload
  <2>1. stage' = "load" /\ setlist' = setlist /\ input = <<>> /\ todo # <<>> /\ todo' = Tail(todo)
    BY <1>1, <1>4 DEF Preload
  <2>2. input' = TextOf(opt, files, todo[1])
    BY <1>4 DEF Preload, FileOf, TextOf
  <2>3. WorkLeft(opt, files, T, todo') /\ LoadOK(opt, T, todo', setlist, input')
    BY <1>2, <1>3, <2>1, <2>2, LoadNext
  <2> QED
    BY <2>1, <2>3 DEF ReadSoFar, T
<1>5. CASE PreloadLine
  <2>1. stage' = "load" /\ todo' = todo /\ input # <<>> /\ input' = Tail(input)
        /\ setlist' = setlist \o parse_setting_line(input[1])
    BY <1>1, <1>5 DEF PreloadLine
  <2>2. ASSUME NEW f, Flat(f, T) PROVE LinesTaken(opt, f[Len(T) - Len(todo)], setlist', input')
    <3>1. LinesTaken(opt, f[Len(T) - Len(todo)], setlist, input)
      BY <1>2, <2>2, Zenon DEF LoadOK, TextsTaken
    <3> QED
      BY <1>1, <2>1, <3>1, TakenMore
  <2>3. LoadOK(opt, T, todo', setlist', input')
    BY <2>1, <2>2 DEF LoadOK, TextsTaken
  <2> QED
    BY <1>2, <2>1, <2>3 DEF ReadSoFar, T
<1>6. CASE Loaded
  <2>1. stage' = "write" /\ setlist' = setlist /\ input = <<>> /\ todo = <<>>
    BY <1>6 DEF Loaded, Go
  <2>2. Gives(opt, AllLines(opt, files), setlist)
    BY <1>2, <1>3, <2>1, LoadEnds DEF AllLines, T
  <2> QED
    BY <2>1, <2>2 DEF ReadSoFar
<1> QED
  BY <1>4, <1>5, <1>6

\* After that the list stays.
LEMMA ReadOthers ==
  ASSUME Base, ReadInv,
         \/ write_setting_list \/ WriteNext \/ WroteAll \/ Written
         \/ Argument \/ Arguments \/ DisplayAll \/ Displayed \/ Vanish
  PROVE  ReadInv'
<1>1. opt' = opt /\ files' = files /\ setlist' = setlist
  BY DEF write_setting_list, WriteNext, WroteAll, Written, Argument, Arguments, DisplayAll, Displayed, Vanish
<1>2. stage \in {"write", "expand", "args", "show"} /\ stage' \in {"write", "expand", "args", "show", "done"}
  BY DEF write_setting_list, WriteNext, WroteAll, Written, Argument, Arguments, DisplayAll, Displayed, Vanish, Go
<1>3. Loading(opt) => Gives(opt, AllLines(opt, files), setlist)
  BY <1>2 DEF ReadInv, ReadSoFar
<1>4. (stage' \in {"args", "show"} /\ ~opt.all /\ opt.system) => opt.args # <<>>
  <2>1. CASE stage \in {"args", "show"}
    BY <2>1 DEF ReadInv, ReadSoFar
  <2>2. CASE stage \in {"write", "expand"}
    <3>1. stage' \in {"args", "show"} => opt.args # <<>>
      <4>1. CASE Written
        BY <4>1 DEF Written, Go
      <4>2. CASE ~Written
        BY <2>2, <4>2 DEF write_setting_list, WriteNext, WroteAll, Argument, Arguments, DisplayAll,
                          Displayed, Vanish, Go
      <4> QED
        BY <4>1, <4>2
    <3> QED
      BY <3>1
  <2> QED
    BY <1>2, <2>1, <2>2
<1> QED
  BY <1>1, <1>2, <1>3, <1>4 DEF ReadInv, ReadSoFar

\* What a load that ended with status 0 left.
EndSoFar(o, g, l, t, r) ==
  (g = "done" /\ r = 0 /\ ~o.DryRun /\ Loading(o) /\ (o.system => o.args = <<>>))
  => \A p \in DOMAIN t : Settled(l, t, p, Len(l))
EndInv == EndSoFar(opt, stage, setlist, tree, rc)

\* It is the end of the list.
LEMMA EndNext ==
  ASSUME Base, ListInv, ReadInv, SNext PROVE EndInv'
<1>1. CASE stage' # "done"
  BY <1>1 DEF EndInv, EndSoFar
<1>2. CASE stage' = "done"
  <2>1. Written \/ Arguments \/ Displayed
    <3>1. stage # "done"
      BY DEF SNext, main, PreloadSystem, sortpairs, Preload, PreloadLine, Loaded, write_setting_list,
             WriteNext, WroteAll, Written, Argument, Arguments, DisplayAll, Displayed, Vanish
    <3> QED
      BY <1>2, <3>1 DEF SNext, main, PreloadSystem, sortpairs, Preload, PreloadLine, Loaded,
             write_setting_list, WriteNext, WroteAll, Argument, DisplayAll, Vanish, Go
  <2>2. CASE Written
    <3>1. opt' = opt /\ setlist' = setlist /\ tree' = tree /\ rc' = rc /\ stage = "write" /\ todo = <<>>
      BY <2>2 DEF Written
    <3>2. Len(setlist) \in Nat /\ Len(todo) = 0
      BY <3>1 DEF Base, ListOK
    <3>3. Len(setlist) - Len(todo) = Len(setlist)
      BY <3>2
    <3> QED
      BY <3>1, <3>3 DEF EndInv, EndSoFar, ListInv, ListSoFar
  <2>3. CASE Arguments
    <3>1. opt' = opt /\ stage = "args"
      BY <2>3 DEF Arguments
    <3>2. ~opt.load /\ ((~opt.all /\ opt.system) => opt.args # <<>>)
      BY <3>1 DEF Base, FlowOK, ReadInv, ReadSoFar
    <3> QED
      BY <3>1, <3>2 DEF EndInv, EndSoFar, Loading
  <2>4. CASE Displayed
    <3>1. opt' = opt /\ opt.all
      BY <1>2, <2>4 DEF Displayed, Go
    <3> QED
      BY <3>1 DEF EndInv, EndSoFar, Loading
  <2> QED
    BY <2>1, <2>2, <2>3, <2>4
<1> QED
  BY <1>1, <1>2

(***************************************************************************)
(* The list that was gone through is what the lines in force decide.       *)
(***************************************************************************)

\* The lines for p itself, those that keep globs from it, and the globs for it.
PathAt(L, k) == slashdot(L[k].key, "/")
OwnLines(o, L, p) == {k \in DOMAIN L : Says(o, L[k]) /\ L[k].eq /\ PathAt(L, k) = p}
OutLines(o, L, p) == {k \in DOMAIN L : Says(o, L[k]) /\ ~L[k].eq /\ fnmatch(PathAt(L, k), p)}
GlobLines(o, L, p) == {k \in DOMAIN L : Says(o, L[k]) /\ L[k].eq /\ p \in glob(PathAt(L, k))}

\* The line that decides is the last of one of these sets.
LEMMA DecidesIs ==
  ASSUME NEW L, NEW p
  PROVE  /\ OwnLines(opt, L, p) # {} => Decides(p, L) = Max(OwnLines(opt, L, p))
         /\ (OwnLines(opt, L, p) = {} /\ OutLines(opt, L, p) = {} /\ GlobLines(opt, L, p) # {})
            => Decides(p, L) = Max(GlobLines(opt, L, p))
         /\ (OwnLines(opt, L, p) = {} /\ (OutLines(opt, L, p) # {} \/ GlobLines(opt, L, p) = {}))
            => Decides(p, L) = 0
<1> DEFINE own == OwnLines(opt, L, p)
           out == OutLines(opt, L, p)
           by == GlobLines(opt, L, p)
<1>1. Decides(p, L) = CASE own # {} -> Max(own)
                        [] own = {} /\ out = {} /\ by # {} -> Max(by)
                        [] OTHER -> 0
  BY Zenon DEF Decides, OwnLines, OutLines, GlobLines, Says, PathAt
<1> HIDE DEF own, out, by
<1>2. /\ own # {} => Decides(p, L) = Max(own)
      /\ (own = {} /\ out = {} /\ by # {}) => Decides(p, L) = Max(by)
      /\ (own = {} /\ (out # {} \/ by = {})) => Decides(p, L) = 0
  BY <1>1
<1> QED
  BY <1>2 DEF own, out, by

\* The parts of a setting.
LEMMA SettingIs ==
  ASSUME NEW line \in Lines
  PROVE  /\ setting_new(line).path = slashdot(line.key, "/")
         /\ setting_new(line).glob_exclude <=> ~line.eq
         /\ line.eq => setting_new(line).value = line.value
         /\ setting_new(line).ignore_failure => line.minus
<1>1. line.eq \in BOOLEAN /\ line.minus \in BOOLEAN
  BY DEF Lines
<1> QED
  BY <1>1 DEF setting_new

\* The last setting that is written to p is that of the last line of K.
LEMMA LastDecides ==
  ASSUME NEW o, NEW L \in LineSeqs, NEW l \in Seq(Settings), NEW m, GivesBy(o, L, l, m),
         NEW t, NEW p, NEW K \in SUBSET (1 .. Len(L)), K # {},
         \A k \in K : Says(o, L[k]) /\ L[k].eq,
         \A ix \in 1 .. Len(l) : Meant(l, l[ix], p) <=> m[ix] \in K,
         Settled(l, t, p, Len(l))
  PROVE  /\ Max(K) \in K
         /\ t[p].value = L[Max(K)].value \/ (L[Max(K)].minus /\ ~t[p].opens)
<1> DEFINE n == Len(l)
           N == Len(L)
<1>1. n \in Nat /\ N \in Nat /\ \A k \in 1 .. N : L[k] \in Lines
  BY DEF LineSeqs
<1>2. /\ m \in [1 .. n -> 1 .. N]
      /\ \A ix, j \in 1 .. n : ix < j => m[ix] < m[j]
      /\ \A ix \in 1 .. n : l[ix] = setting_new(L[m[ix]])
      /\ \A k \in 1 .. N : Says(o, L[k]) => \E ix \in 1 .. n : m[ix] = k
  BY Zenon DEF GivesBy
<1>3. \A k \in K : \E ix \in 1 .. n : m[ix] = k /\ Meant(l, l[ix], p)
  <2> SUFFICES ASSUME NEW k \in K PROVE \E ix \in 1 .. n : m[ix] = k /\ Meant(l, l[ix], p)
    OBVIOUS
  <2>1. PICK ix \in 1 .. n : m[ix] = k
    BY <1>2
  <2> QED
    BY <2>1
<1>4. PICK ix \in 1 .. n : /\ Meant(l, l[ix], p) /\ \A j \in 1 .. n : Meant(l, l[j], p) => j <= ix
                           /\ (t[p].value = l[ix].value \/ (l[ix].ignore_failure /\ ~t[p].opens))
  BY <1>3 DEF Settled
<1> DEFINE x == m[ix]
<1>5. x \in K
  BY <1>4
<1>6. \A y \in K : y <= x
  <2> SUFFICES ASSUME NEW y \in K PROVE y <= x
    OBVIOUS
  <2>1. PICK j \in 1 .. n : m[j] = y /\ Meant(l, l[j], p)
    BY <1>3
  <2>2. j <= ix
    BY <1>4, <2>1
  <2>3. m[j] \in 1 .. N /\ m[ix] \in 1 .. N
    BY <1>2
  <2>4. CASE j = ix
    BY <2>1, <2>3, <2>4
  <2>5. CASE j < ix
    <3>1. m[j] < m[ix]
      BY <1>2, <2>5
    <3> QED
      BY <2>1, <2>3, <3>1
  <2> HIDE DEF n
  <2> QED
    BY <1>1, <2>2, <2>4, <2>5
<1> HIDE DEF n, N
<1>7. Max(K) = x
  <2> DEFINE z == CHOOSE a \in K : \A b \in K : a >= b
  <2>1. Max(K) = z
    BY Zenon DEF Max
  <2>2. \A a, b \in K : a \in Nat /\ b \in Nat
    BY <1>1 DEF N
  <2> HIDE DEF x
  <2>3. \A b \in K : x >= b
    BY <1>5, <1>6, <2>2
  <2>4. z \in K /\ \A b \in K : z >= b
    BY <1>5, <2>3
  <2> HIDE DEF z
  <2>5. z >= x /\ x >= z /\ z \in Nat /\ x \in Nat
    BY <1>5, <2>2, <2>3, <2>4
  <2>6. z = x
    BY <2>5
  <2> QED
    BY <2>1, <2>6
<1>8. L[x] \in Lines /\ L[x].eq /\ l[ix] = setting_new(L[x])
  BY <1>1, <1>2, <1>5 DEF N
<1>9. l[ix].value = L[x].value /\ (l[ix].ignore_failure => L[x].minus)
  BY <1>8, SettingIs
<1> HIDE DEF x
<1> QED
  BY <1>4, <1>5, <1>7, <1>9

\* Which settings are written to a parameter whose name has no star.
LEMMA MeantLines ==
  ASSUME NEW L \in LineSeqs, NEW l \in Seq(Settings), NEW m, GivesBy(opt, L, l, m),
         NEW p \in DOMAIN tree, ~string_is_glob(p)
  PROVE  /\ OwnLines(opt, L, p) # {} =>
              \A ix \in 1 .. Len(l) : Meant(l, l[ix], p) <=> m[ix] \in OwnLines(opt, L, p)
         /\ (OwnLines(opt, L, p) = {} /\ OutLines(opt, L, p) = {}) =>
              \A ix \in 1 .. Len(l) : Meant(l, l[ix], p) <=> m[ix] \in GlobLines(opt, L, p)
         /\ (OwnLines(opt, L, p) = {} /\ OutLines(opt, L, p) # {}) =>
              \A ix \in 1 .. Len(l) : ~Meant(l, l[ix], p)
<1> DEFINE own == OwnLines(opt, L, p)
           out == OutLines(opt, L, p)
           by == GlobLines(opt, L, p)
           n == Len(l)
<1>1. DOMAIN L = 1 .. Len(L) /\ DOMAIN l = 1 .. n /\ \A k \in DOMAIN L : L[k] \in Lines
  BY DEF LineSeqs
<1>2. /\ \A ix \in 1 .. n : m[ix] \in DOMAIN L
      /\ \A ix \in 1 .. n : Says(opt, L[m[ix]]) /\ l[ix] = setting_new(L[m[ix]])
      /\ \A k \in DOMAIN L : Says(opt, L[k]) => \E ix \in 1 .. n : m[ix] = k
  <2>1. m \in [1 .. n -> 1 .. Len(L)]
    BY Zenon DEF GivesBy
  <2>2. /\ \A ix \in 1 .. n : Says(opt, L[m[ix]]) /\ l[ix] = setting_new(L[m[ix]])
        /\ \A k \in 1 .. Len(L) : Says(opt, L[k]) => \E ix \in 1 .. n : m[ix] = k
    BY Zenon DEF GivesBy
  <2>3. \A ix \in 1 .. n : m[ix] \in 1 .. Len(L)
    BY <2>1
  <2> QED
    BY <1>1, <2>2, <2>3
<1>3. \A ix \in 1 .. n : l[ix].path = PathAt(L, m[ix]) /\ (l[ix].glob_exclude <=> ~L[m[ix]].eq)
  <2> SUFFICES ASSUME NEW ix \in 1 .. n
               PROVE  l[ix].path = PathAt(L, m[ix]) /\ (l[ix].glob_exclude <=> ~L[m[ix]].eq)
    OBVIOUS
  <2>1. L[m[ix]] \in Lines /\ l[ix] = setting_new(L[m[ix]])
    BY <1>1, <1>2
  <2> QED
    BY <2>1, SettingIs DEF PathAt
<1>4. \A q : fnmatch(q, p) /\ ~string_is_glob(q) => q = p
  BY DEF fnmatch
<1>5. fnmatch(p, p)
  BY DEF fnmatch
<1>6. \A q : p \in glob(q) <=> fnmatch(q, p) /\ Depth(p) = Depth(q)
  BY DEF glob
<1>7. \A ix \in 1 .. n : /\ m[ix] \in own <=> L[m[ix]].eq /\ l[ix].path = p
                         /\ m[ix] \in out <=> ~L[m[ix]].eq /\ fnmatch(l[ix].path, p)
                         /\ m[ix] \in by <=> L[m[ix]].eq /\ p \in glob(l[ix].path)
  <2> SUFFICES ASSUME NEW ix \in 1 .. n
               PROVE  /\ m[ix] \in own <=> L[m[ix]].eq /\ l[ix].path = p
                      /\ m[ix] \in out <=> ~L[m[ix]].eq /\ fnmatch(l[ix].path, p)
                      /\ m[ix] \in by <=> L[m[ix]].eq /\ p \in glob(l[ix].path)
    OBVIOUS
  <2>1. m[ix] \in DOMAIN L /\ Says(opt, L[m[ix]]) /\ l[ix].path = PathAt(L, m[ix])
    BY <1>2, <1>3
  <2>2. m[ix] \in own <=> L[m[ix]].eq /\ PathAt(L, m[ix]) = p
    BY <2>1 DEF OwnLines
  <2>3. m[ix] \in out <=> ~L[m[ix]].eq /\ fnmatch(PathAt(L, m[ix]), p)
    BY <2>1 DEF OutLines
  <2>4. m[ix] \in by <=> L[m[ix]].eq /\ p \in glob(PathAt(L, m[ix]))
    BY <2>1 DEF GlobLines
  <2> QED
    BY <2>1, <2>2, <2>3, <2>4
<1>8. (\A k \in own : \E ix \in 1 .. n : m[ix] = k) /\ (\A k \in out : \E ix \in 1 .. n : m[ix] = k)
  BY <1>2 DEF OwnLines, OutLines
<1>9. Found(l, p) <=> \E ix \in 1 .. n : l[ix].path = p \/ (l[ix].glob_exclude /\ fnmatch(l[ix].path, p))
  BY <1>1 DEF Found
<1> HIDE DEF own, out, by, n
<1>10. Found(l, p) <=> own # {} \/ out # {}
  <2>1. ASSUME NEW ix \in 1 .. n, l[ix].path = p \/ (l[ix].glob_exclude /\ fnmatch(l[ix].path, p))
        PROVE  m[ix] \in own \/ m[ix] \in out
    <3>1. CASE L[m[ix]].eq
      BY <1>3, <1>7, <2>1, <3>1
    <3>2. CASE ~L[m[ix]].eq
      BY <1>3, <1>5, <1>7, <2>1, <3>2
    <3> QED
      BY <3>1, <3>2
  <2>2. ASSUME NEW k \in own PROVE Found(l, p)
    BY <1>7, <1>8, <1>9
  <2>3. ASSUME NEW k \in out PROVE Found(l, p)
    BY <1>3, <1>7, <1>8, <1>9
  <2> QED
    BY <1>9, <2>1, <2>2, <2>3
<1>11. ASSUME NEW ix \in 1 .. n
       PROVE  /\ own # {} => (Meant(l, l[ix], p) <=> m[ix] \in own)
              /\ (own = {} /\ out = {}) => (Meant(l, l[ix], p) <=> m[ix] \in by)
              /\ (own = {} /\ out # {}) => ~Meant(l, l[ix], p)
  <2> DEFINE q == l[ix].path
  <2>1. Meant(l, l[ix], p) <=>
          /\ L[m[ix]].eq
          /\ IF string_is_glob(q) THEN fnmatch(q, p) /\ Depth(p) = Depth(q) /\ ~Found(l, p) ELSE p = q
    BY <1>3, <1>11 DEF Meant
  <2>2. /\ m[ix] \in own <=> L[m[ix]].eq /\ q = p
        /\ m[ix] \in by <=> L[m[ix]].eq /\ p \in glob(q)
    BY <1>7, <1>11
  <2> HIDE DEF q
  <2>3. CASE string_is_glob(q)
    <3>1. q # p
      BY <2>3
    <3> QED
      BY <1>6, <1>10, <2>1, <2>2, <2>3, <3>1
  <2>4. CASE ~string_is_glob(q)
    <3>1. Meant(l, l[ix], p) <=> m[ix] \in own
      BY <2>1, <2>2, <2>4
    <3>2. m[ix] \in by => m[ix] \in own
      BY <1>4, <1>6, <2>2, <2>4
    <3> QED
      BY <3>1, <3>2
  <2> QED
    BY <2>3, <2>4
<1> QED
  BY <1>11 DEF own, out, by, n

(***************************************************************************)
(* The theorems.                                                           *)
(***************************************************************************)

SInv == Base /\ ToldInv /\ AllInv /\ ListInv /\ ReadInv /\ EndInv

\* The invariant holds at the start.
LEMMA SInvInit == SInit => SInv
<1> SUFFICES ASSUME SInit PROVE SInv
  OBVIOUS
<1>1. stage = "main" /\ rc = 0 /\ tree \in Trees
  BY DEF SInit
<1>2. Base
  BY BaseInit
<1>3. ToldInv
  BY <1>1 DEF ToldInv, ToldSoFar
<1>4. AllInv
  BY <1>1 DEF AllInv, AllSoFar
<1>5. ListInv
  BY <1>1, SysctlAssumption DEF ListInv, ListSoFar
<1>6. ReadInv /\ EndInv
  BY <1>1 DEF SInit, ReadInv, ReadSoFar, EndInv, EndSoFar
<1> QED
  BY <1>2, <1>3, <1>4, <1>5, <1>6 DEF SInv

\* Every step keeps it.
LEMMA SInvNext == SInv /\ [SNext]_svars => SInv'
<1> SUFFICES ASSUME SInv, [SNext]_svars PROVE SInv'
  OBVIOUS
<1>0. Base /\ ToldInv /\ AllInv /\ ListInv /\ ReadInv /\ EndInv
  BY DEF SInv
<1>1. Base'
  BY <1>0, BaseNext
<1>2. CASE UNCHANGED svars
  BY <1>0, <1>1, <1>2 DEF svars, SInv, ToldInv, AllInv, ListInv, ReadInv, EndInv
<1>3. CASE SNext
  <2>1. ToldInv'
    BY <1>0, <1>3, ToldCollect, ToldWalk, ToldArgument DEF SNext
  <2>2. AllInv'
    BY <1>0, <1>3, AllMain, AllDisplay, AllVanish, AllDisplayed, AllOthers
  <2>3. ListInv'
    BY <1>0, <1>3, ListCollect, ListTurns, ListWrites, ListVanish, ListOthers DEF SNext
  <2>4. ReadInv'
    BY <1>0, <1>3, ReadMain, ReadDirs, ReadFiles, ReadOthers DEF SNext
  <2>5. EndInv'
    BY <1>0, <1>3, EndNext
  <2> QED
    BY <1>1, <2>1, <2>2, <2>3, <2>4, <2>5 DEF SInv
<1> QED
  BY <1>2, <1>3

\* What the invariant says of the types.
LEMMA SInvTypes == SInv => STypeOK
BY DEF SInv, Base, TreeOK, ListOK, FlowOK, ShownOK, ItemOK, STypeOK

\* What it says of the values.
LEMMA SInvDry == SInv => DryIsDry
BY DEF SInv, Base, DryOK, DryIsDry

\* What it says of the list.
LEMMA SInvList == SInv => ListApplied
<1> SUFFICES ASSUME SInv, stage = "write", todo = <<>>, rc = 0, ~opt.DryRun, NEW p \in DOMAIN tree
             PROVE  \/ tree[p].value = tree[p].was /\ \A ix \in DOMAIN setlist : ~Writes(ix, p)
                    \/ \E ix \in DOMAIN setlist :
                         /\ Writes(ix, p) /\ \A j \in DOMAIN setlist : Writes(j, p) => j <= ix
                         /\ tree[p].value = setlist[ix].value
                            \/ (setlist[ix].ignore_failure /\ ~tree[p].opens)
  BY DEF ListApplied
<1>1. DOMAIN setlist = 1 .. Len(setlist) /\ Len(setlist) \in Nat
  BY DEF SInv, Base, ListOK
<1>2. Len(setlist) - Len(todo) = Len(setlist)
  BY <1>1
<1>3. Settled(setlist, tree, p, Len(setlist))
  BY <1>2 DEF SInv, ListInv, ListSoFar
<1>4. \A ix \in DOMAIN setlist : Writes(ix, p) <=> Meant(setlist, setlist[ix], p)
  BY MeantIs DEF Writes
<1> QED
  BY <1>1, <1>3, <1>4 DEF Settled

\* What it says of a load that ended with status 0.
LEMMA SInvApplied == SInv => Applied
<1> SUFFICES ASSUME SInv, stage = "done", rc = 0, ~opt.DryRun, Loading(opt),
                    opt.system => opt.args = <<>>,
                    NEW p \in DOMAIN tree, ~string_is_glob(p)
             PROVE  \/ tree[p].value = IF Decides(p, LinesInForce) = 0 THEN tree[p].was
                                       ELSE LinesInForce[Decides(p, LinesInForce)].value
                    \/ /\ Decides(p, LinesInForce) # 0
                       /\ LinesInForce[Decides(p, LinesInForce)].minus /\ ~tree[p].opens
  BY Zenon DEF Applied, Done, Loading
<1> DEFINE L == LinesInForce
           n == Len(setlist)
           own == OwnLines(opt, L, p)
           out == OutLines(opt, L, p)
           by == GlobLines(opt, L, p)
           d == Decides(p, L)
<1>1. opt \in Invocations /\ files \in FileSets /\ setlist \in Seq(Settings)
  BY DEF SInv, Base, ListOK
<1>2. L = AllLines(opt, files)
  BY <1>1, InForce DEF LinesInForce, AllLines, AllTexts
<1>3. L \in LineSeqs
  <2> DEFINE T == AllTexts(opt, files)
  <2>1. T \in Seq(LineSeqs)
    BY <1>1, AllTextsAre
  <2> HIDE DEF T
  <2>2. PICK f : Flat(f, T) /\ FlattenSeq(T) = f[Len(T)]
    BY <2>1, FlattenIs
  <2>3. f \in [0 .. Len(T) -> LineSeqs] /\ Len(T) \in 0 .. Len(T)
    BY <2>1, <2>2 DEF Flat
  <2>4. L = FlattenSeq(T)
    BY <1>2 DEF AllLines, T
  <2> QED
    BY <2>2, <2>3, <2>4
<1>4. Gives(opt, L, setlist) /\ Settled(setlist, tree, p, n)
  BY <1>2 DEF SInv, ReadInv, ReadSoFar, EndInv, EndSoFar
<1>5. PICK m : GivesBy(opt, L, setlist, m)
  BY <1>4 DEF Gives
<1> HIDE DEF L
<1>6. /\ own # {} => \A ix \in 1 .. n : Meant(setlist, setlist[ix], p) <=> m[ix] \in own
      /\ (own = {} /\ out = {}) => \A ix \in 1 .. n : Meant(setlist, setlist[ix], p) <=> m[ix] \in by
      /\ (own = {} /\ out # {}) => \A ix \in 1 .. n : ~Meant(setlist, setlist[ix], p)
  BY <1>1, <1>3, <1>5, MeantLines
<1>7. /\ own \in SUBSET (1 .. Len(L)) /\ by \in SUBSET (1 .. Len(L))
      /\ (\A k \in own : Says(opt, L[k]) /\ L[k].eq) /\ (\A k \in by : Says(opt, L[k]) /\ L[k].eq)
  BY <1>3 DEF OwnLines, GlobLines, LineSeqs
<1>8. /\ own # {} => d = Max(own)
      /\ (own = {} /\ out = {} /\ by # {}) => d = Max(by)
      /\ (own = {} /\ (out # {} \/ by = {})) => d = 0
  BY DecidesIs
<1> HIDE DEF own, out, by, d, n
<1>9. 0 \notin own /\ 0 \notin by
  BY <1>7
<1>10. CASE own # {}
  <2>1. Max(own) \in own /\ (tree[p].value = L[Max(own)].value \/ (L[Max(own)].minus /\ ~tree[p].opens))
    BY <1>1, <1>3, <1>4, <1>5, <1>6, <1>7, <1>10, LastDecides DEF n
  <2> QED
    BY <1>8, <1>9, <1>10, <2>1 DEF d, L
<1>11. CASE own = {} /\ out = {} /\ by # {}
  <2>1. Max(by) \in by /\ (tree[p].value = L[Max(by)].value \/ (L[Max(by)].minus /\ ~tree[p].opens))
    BY <1>1, <1>3, <1>4, <1>5, <1>6, <1>7, <1>11, LastDecides DEF n
  <2> QED
    BY <1>8, <1>9, <1>11, <2>1 DEF d, L
<1>12. CASE own = {} /\ (out # {} \/ by = {})
  <2>1. \A ix \in 1 .. n : ~Meant(setlist, setlist[ix], p)
    BY <1>6, <1>12
  <2>2. tree[p].value = tree[p].was
    BY <1>4, <2>1 DEF Settled
  <2> QED
    BY <1>8, <1>12, <2>2 DEF d, L
<1> QED
  BY <1>10, <1>11, <1>12

\* What it says of the names.
LEMMA SInvNames == SInv => NamesRead
BY DEF SInv, Base, ShownOK, ItemOK, NamesRead

\* What it says of the arguments.
LEMMA SInvTold == SInv => ReadOrTold
<1> SUFFICES ASSUME SInv, stage = "done", rc = 0, Asked(opt), NEW ix \in DOMAIN opt.args
             PROVE  Told(opt.args[ix])
  BY Zenon DEF ReadOrTold, Done, Asked, NoneOutside
<1>1. Base /\ ToldInv
  BY DEF SInv
<1>2. opt.args \in Seq(Lines) /\ todo = <<>>
  BY <1>1, AskedLines DEF Base, FlowOK
<1>3. ix \in 1 .. (Len(opt.args) - Len(todo))
  BY <1>2
<1>4. ToldIn(opt, vanished, shown, tree, opt.args[ix])
  BY <1>1, <1>3 DEF ToldInv, ToldSoFar
<1> QED
  BY <1>4 DEF Told, ToldIn

\* What it says of -a.
LEMMA SInvAll == SInv => AllListed
<1> SUFFICES ASSUME SInv, stage = "done", AllAsked(opt), NEW p \in DOMAIN tree
             PROVE  LeftOut(p) \/ \E x \in shown : x.path = p
  BY Zenon DEF AllListed, Done, AllAsked
<1>1. LeftOutIn(opt, tree, p) \/ ShownIn(shown, p)
  BY DEF SInv, AllInv, AllSoFar
<1> QED
  BY <1>1, LeftOutSame DEF ShownIn

\* The names that sysctl prints read back, -a shows every parameter that can be
\* read, and status 0 after names means that each was shown or accounted for,
\* whatever the tree and whatever vanishes (ReadSetting and DisplayAll).
THEOREM ShowsCorrect == SSpec => []ShowsRight
<1>1. SInv => ShowsRight
  BY SInvNames, SInvTold, SInvAll DEF ShowsRight
<1> QED
  BY <1>1, SInvInit, SInvNext, PTL DEF SSpec

\* A load that ends with status 0 left every parameter with the value of the line
\* of the files in force that decides it, after every list each has the value of
\* the last setting written to it, nothing is written in a dry run or by -a, and
\* the tree stays a tree: for every tree, all files and every invocation (Preload,
\* PreloadSystem, write_setting_list, WriteSetting).
THEOREM WritesCorrect == SSpec => []WritesRight
<1>1. SInv => WritesRight
  BY SInvTypes, SInvApplied, SInvList, SInvDry DEF WritesRight
<1> QED
  BY <1>1, SInvInit, SInvNext, PTL DEF SSpec
================================================================================
