------------------------------- MODULE ReadProc --------------------------------
(****************************************************************************)
(* The /proc scanner of libproc2 (library/readproc.c).  A caller opens a    *)
(* PROCTAB, asks it for one process (readproc) or one task (readeither) at  *)
(* a time and closes it.  Two scans of one thread may be open at once, as   *)
(* get's and reap's are in one pids context; they share the static skeleton *)
(* that readeither keeps between its calls.                                 *)
(*                                                                          *)
(* The kernel runs alongside: between any two system calls a task may start *)
(* or exit.  A directory stream yields every task that lives through the    *)
(* scan, in order, and may yield one that has gone in the meantime.         *)
(*                                                                          *)
(* Left out: kernels without /proc/self/task, a pid used twice within one   *)
(* scan, allocations that fail, and the contents of the files beyond whose  *)
(* they are.                                                                *)
(****************************************************************************)
EXTENDS Integers, Sequences, FiniteSets

CONSTANTS
  Scan,         \* the PROCTABs of the thread, "get" and "fetch" in a context
  Tid,          \* task ids, positive
  TgidOf,       \* [Tid -> Tid], the process a task belongs to
  UidOf,        \* [Tid -> uid], the owner of the task
  Boot,         \* the tasks that live when the program starts
  Hidden,       \* tasks that LIBPROC_HIDE_KERNEL hides (tid or ppid is 2)
  Modes,        \* the ways a caller may open a scan, records
                \*   threads : readeither instead of readproc
                \*   pids    : the PROC_PID list, <<>> without one
                \*   uids    : the PROC_UID list, {} without one
  MaxOpen       \* bound on the scans opened

NULL == "NULL"

ASSUME ReadProcAssumption ==
  /\ NULL \notin Scan
  /\ Tid \subseteq Nat \ {0}
  /\ TgidOf \in [Tid -> Tid]
  /\ \A t \in Tid : TgidOf[TgidOf[t]] = TgidOf[t]
  /\ Boot \subseteq Tid /\ \A t \in Boot : TgidOf[t] \in Boot
  /\ Hidden \subseteq Tid /\ \A t \in Tid : t \in Hidden <=> TgidOf[t] \in Hidden
  /\ \A m \in Modes : m.threads \in BOOLEAN /\ m.pids \in Seq(Tid)
  /\ MaxOpen \in Nat

VARIABLES
  live,         \* the kernel: tasks that exist
  known,        \* the kernel: tasks that exist or have existed
  PT,           \* the PROCTAB of every scan
  x,            \* the proc_t every scan fills
  skel_p,       \* readeither's statics: the process whose tasks are read,
  new_p,        \*   the scan whose proc_t holds the last task, or NULL,
  canary,       \*   and the tid it had
  pc, cur,      \* where the library is, and for which scan
  opens,        \* scans opened so far
  steady,       \* history: tasks that lived ever since the scan was opened
  out,          \* history: what the scan returned, in order
  ended         \* history: the scan returned NULL

kernel  == <<live, known>>
statics == <<skel_p, new_p, canary>>
ghosts  == <<opens, steady, out, ended>>
vars    == <<kernel, PT, x, statics, pc, cur, ghosts>>

\* A directory descriptor names the task it was opened for; 0 stands for -1.
\* 'fds' counts the task directory descriptors opened and not closed, which
\* a PROCTAB does not record.
Tab(open, threads, pids, uids, fds) ==
  [ open |-> open, threads |-> threads, pids |-> pids,
    listed |-> {pids[i] : i \in 1..Len(pids)}, uids |-> uids, pos |-> 0,
    pidfd |-> 0, taskfd |-> 0, taskdir |-> 0, taskpos |-> 0, taskdir_user |-> 0,
    fds |-> fds ]

Closed(fds) == Tab(FALSE, FALSE, <<>>, {}, fds)

\* free_acquired: nothing of the task read before is left.
Acquired == [tid |-> 0, tgid |-> 0, cmd |-> 0]

Leaders == {t \in Tid : TgidOf[t] = t}

TasksOf(g) == {t \in Tid : TgidOf[t] = g}

--------------------------------------------------------------------------------
(* The kernel.                                                              *)

Start(t) ==
  /\ t \notin known
  /\ TgidOf[t] = t \/ TgidOf[t] \in live
  /\ live' = live \cup {t}
  /\ known' = known \cup {t}
  /\ UNCHANGED <<PT, x, statics, pc, cur, ghosts>>

\* A thread exits alone, a process with all its threads.
Exit(t) ==
  LET gone == IF TgidOf[t] = t THEN TasksOf(t) ELSE {t}
  IN  /\ t \in live
      /\ live' = live \ gone
      /\ steady' = [s \in Scan |-> steady[s] \ gone]
      /\ UNCHANGED <<known, PT, x, statics, pc, cur, opens, out, ended>>

\* readdir: the next entry after pos, never past one that was there all along.
Entry(s, dir, pos, e) ==
  /\ e \in dir \cap known
  /\ pos < e
  /\ \A q \in dir \cap steady[s] : ~(pos < q /\ q < e)

AtEnd(s, dir, pos) == \A q \in dir \cap steady[s] : q <= pos

--------------------------------------------------------------------------------
(* The caller.                                                              *)

\* openproc: only a select, which is a fetch, names pids or users.  A caller
\* has one scan of threads open at a time: two would disturb each other through
\* readeither's statics.
openproc(s, m) ==
  /\ pc = "idle"
  /\ s = "get" => m.pids = <<>> /\ m.uids = {}
  /\ m.threads => \A o \in Scan : ~(PT[o].open /\ PT[o].threads)
  /\ ~PT[s].open
  /\ opens < MaxOpen
  /\ PT' = [PT EXCEPT ![s] = Tab(TRUE, m.threads, m.pids, m.uids, PT[s].fds)]
  /\ opens' = opens + 1
  /\ steady' = [steady EXCEPT ![s] = live]
  /\ out' = [out EXCEPT ![s] = <<>>]
  /\ ended' = [ended EXCEPT ![s] = FALSE]
  /\ UNCHANGED <<kernel, x, statics, pc, cur>>

\* closeproc: the two streams are closed and the PROCTAB is freed; neither
\* descriptor is closed.  A fetch is closed at its end, a get
\* scan whenever the caller resets or gives up the context.
closeproc(s) ==
  /\ pc = "idle"
  /\ PT[s].open
  /\ ended[s] \/ s = "get"
  /\ PT' = [PT EXCEPT ![s] = Closed(PT[s].fds)]
  /\ steady' = [steady EXCEPT ![s] = {}]
  /\ out' = [out EXCEPT ![s] = <<>>]
  /\ UNCHANGED <<kernel, x, statics, pc, cur, opens, ended>>

--------------------------------------------------------------------------------
(* readproc and readeither.                                                 *)

MayRead(s) ==
  /\ pc = "idle"
  /\ PT[s].open
  /\ ended[s] => s = "get"            \* a fetch stops at the first NULL

readproc(s) ==
  /\ MayRead(s)
  /\ ~PT[s].threads
  /\ x' = [x EXCEPT ![s] = Acquired]
  /\ pc' = "finder"
  /\ cur' = s
  /\ UNCHANGED <<kernel, PT, statics, opens, steady, out, ended>>

\* Every call goes on to the next process.
readeither_next_proc(s) ==
  /\ MayRead(s)
  /\ PT[s].threads
  /\ x' = [x EXCEPT ![s] = Acquired]
  /\ new_p' = NULL
  /\ pc' = "finder"
  /\ cur' = s
  /\ UNCHANGED <<kernel, PT, skel_p, canary, opens, steady, out, ended>>

\* A task was returned before: go on with its process.  The proc_t it was
\* returned in has just been cleared when it is this scan's own.
readeither(s) ==
  /\ MayRead(s)
  /\ PT[s].threads
  /\ x' = [x EXCEPT ![s] = Acquired]
  /\ new_p' = IF new_p # NULL /\ x'[new_p].tid = canary THEN new_p ELSE NULL
  /\ pc' = IF new_p # NULL THEN "taskfinder" ELSE "finder"
  /\ cur' = s
  /\ UNCHANGED <<kernel, PT, skel_p, canary, opens, steady, out, ended>>

\* NULL to the caller.
returnNULL ==
  /\ pc' = "idle"
  /\ ended' = [ended EXCEPT ![cur] = TRUE]
  /\ UNCHANGED <<kernel, x, statics, cur, opens, steady, out>>

\* The process found goes into x, or into readeither's skeleton.
found(tid, tgid) ==
  /\ IF PT[cur].threads
       THEN /\ skel_p' = tgid
            /\ pc' = "taskfinder"
            /\ UNCHANGED <<x, new_p, canary>>
       ELSE /\ x' = [x EXCEPT ![cur].tid = tid, ![cur].tgid = tgid]
            /\ pc' = "reader"
            /\ UNCHANGED statics
  /\ UNCHANGED <<kernel, cur, ghosts>>

\* open(2) of a task's directory, which fails once the task is gone.
Opened(t) == IF t \in live THEN t ELSE 0

Held(fd) == IF fd = 0 THEN 0 ELSE 1

\* The descriptors of the process before stay open.
simple_nextpid_keeps_open ==
  /\ pc = "finder"
  /\ PT[cur].listed = {}
  /\ \/ \E t \in Leaders :
          /\ Entry(cur, Leaders, PT[cur].pos, t)
          /\ PT' = [PT EXCEPT ![cur].pos = t, ![cur].pidfd = Opened(t),
                              ![cur].fds = @ + Held(Opened(t))]
          /\ found(t, t)
     \/ /\ AtEnd(cur, Leaders, PT[cur].pos)
        /\ UNCHANGED PT
        /\ returnNULL

simple_nextpid ==
  LET fds == PT[cur].fds - Held(PT[cur].pidfd) - Held(PT[cur].taskfd)
  IN  /\ pc = "finder"
      /\ PT[cur].listed = {}
      /\ \/ \E t \in Leaders :
              /\ Entry(cur, Leaders, PT[cur].pos, t)
              /\ PT' = [PT EXCEPT ![cur].pos = t, ![cur].taskfd = 0,
                                  ![cur].pidfd = Opened(t),
                                  ![cur].fds = fds + Held(Opened(t))]
              /\ found(t, t)
         \/ /\ AtEnd(cur, Leaders, PT[cur].pos)
            /\ PT' = [PT EXCEPT ![cur].pidfd = 0, ![cur].taskfd = 0,
                                ![cur].fds = fds]
            /\ returnNULL

\* The list may name a thread; its status file tells the process.
listed_nextpid ==
  /\ pc = "finder"
  /\ PT[cur].listed # {}
  /\ IF PT[cur].pids = <<>>
       THEN UNCHANGED PT /\ returnNULL
       ELSE LET t == Head(PT[cur].pids)
            IN  /\ PT' = [PT EXCEPT ![cur].pids = Tail(@),
                                    ![cur].pidfd = Opened(t),
                                    ![cur].fds = @ + Held(Opened(t))]
                /\ found(t, IF t \in live THEN TgidOf[t] ELSE t)

OwnedOk(t) == PT[cur].uids = {} \/ UidOf[t] \in PT[cur].uids

\* stat2proc: the name is taken only where the proc_t has none.
stat2proc(cmd, t) == IF cmd = 0 THEN t ELSE cmd

\* The reader tried again without going to the next process.
simple_readproc_retries ==
  LET fd == PT[cur].pidfd
  IN  /\ pc = "reader"
      /\ fd \in live /\ OwnedOk(fd) /\ fd \notin Hidden
      /\ x' = [x EXCEPT ![cur].cmd = stat2proc(@, fd)]
      /\ pc' = "fill"
      /\ UNCHANGED <<kernel, PT, statics, cur, ghosts>>

\* simple_readproc up to 'stat', the file that decides whether there is still a
\* process: gone, not of a wanted user, or hidden means the next one.
simple_readproc ==
  LET fd == PT[cur].pidfd
      next(p) == /\ x' = [x EXCEPT ![cur] = p]
                 /\ pc' = "finder"
  IN  /\ pc = "reader"
      /\ \/ fd \notin live /\ next(x[cur])
         \/ fd \in live /\ ~OwnedOk(fd) /\ next(x[cur])
         \/ fd \in live /\ OwnedOk(fd) /\ fd \in Hidden /\ next(Acquired)
         \/ /\ fd \in live /\ OwnedOk(fd) /\ fd \notin Hidden
            /\ x' = [x EXCEPT ![cur].cmd = stat2proc(@, fd)]
            /\ pc' = "fill"
      /\ UNCHANGED <<kernel, PT, statics, cur, ghosts>>

\* The stream opened anew for every task.
TaskdirStale_always == TRUE

TaskdirStale == PT[cur].taskdir_user # skel_p

\* taskdir_user assigned before the stream is known to be open.
taskdir_user_early(fresh, dir) == skel_p

\* The process whose stream taskdir is said to be.
taskdir_user_of(fresh, dir) ==
  IF fresh /\ dir = 0 THEN PT[cur].taskdir_user ELSE skel_p

\* The tasks of a process: the stream is opened through the descriptor of the
\* process, once for all its tasks.  The tgid comes from the skeleton.
simple_nexttid ==
  LET fresh == TaskdirStale
      fd == PT[cur].pidfd
      dir == IF ~fresh THEN PT[cur].taskdir
             ELSE IF fd \in live THEN TgidOf[fd] ELSE 0
      pos == IF fresh THEN 0 ELSE PT[cur].taskpos
      user == taskdir_user_of(fresh, dir)
      nextProc == /\ PT' = [PT EXCEPT ![cur].taskdir = dir, ![cur].taskpos = pos,
                                      ![cur].taskdir_user = user]
                  /\ new_p' = NULL
                  /\ pc' = "finder"
                  /\ UNCHANGED x
  IN  /\ pc = "taskfinder"
      /\ \/ fresh /\ dir = 0 /\ nextProc
         \/ dir # 0 /\ AtEnd(cur, TasksOf(dir), pos) /\ nextProc
         \/ \E t \in TasksOf(dir) :
              LET fdt == IF fd \in live THEN Opened(t) ELSE 0
              IN  /\ dir # 0
                  /\ Entry(cur, TasksOf(dir), pos, t)
                  /\ x' = [x EXCEPT ![cur].tid = t, ![cur].tgid = skel_p]
                  /\ PT' = [PT EXCEPT ![cur].taskdir = dir, ![cur].taskpos = t,
                                      ![cur].taskdir_user = user,
                                      ![cur].taskfd = fdt,
                                      ![cur].fds = @ - Held(PT[cur].taskfd)
                                                     + Held(fdt)]
                  /\ pc' = "taskreader"
                  /\ UNCHANGED new_p
         \/ /\ ~fresh /\ dir = 0       \* readdir(NULL)
            /\ pc' = "undefined"
            /\ UNCHANGED <<PT, x, new_p>>
      /\ UNCHANGED <<kernel, skel_p, canary, cur, ghosts>>

\* simple_readtask up to 'stat'.  Users are not looked at.
simple_readtask ==
  LET fd == PT[cur].taskfd
      nextProc(t) == /\ x' = [x EXCEPT ![cur] = t]
                     /\ new_p' = NULL
                     /\ pc' = "finder"
  IN  /\ pc = "taskreader"
      /\ \/ fd \notin live /\ nextProc(x[cur])
         \/ fd \in live /\ fd \in Hidden /\ nextProc(Acquired)
         \/ /\ fd \in live /\ fd \notin Hidden
            /\ x' = [x EXCEPT ![cur].cmd = stat2proc(@, fd)]
            /\ pc' = "fill"
            /\ UNCHANGED new_p
      /\ UNCHANGED <<kernel, PT, skel_p, canary, cur, ghosts>>

\* The other files are read as the flags ask; one that has gone leaves its
\* members empty.  Then the proc_t is the caller's.
fill_return ==
  /\ pc = "fill"
  /\ out' = [out EXCEPT ![cur] = Append(@, x[cur].tid)]
  /\ IF PT[cur].threads /\ new_p = NULL
       THEN new_p' = cur /\ canary' = x[cur].tid
       ELSE UNCHANGED <<new_p, canary>>
  /\ pc' = "idle"
  /\ UNCHANGED <<kernel, PT, x, skel_p, cur, opens, steady, ended>>

--------------------------------------------------------------------------------

Init ==
  /\ live = Boot /\ known = Boot
  /\ PT = [s \in Scan |-> Closed(0)]
  /\ x = [s \in Scan |-> Acquired]
  /\ skel_p = 0 /\ new_p = NULL /\ canary = 0
  /\ pc = "idle" /\ cur \in Scan
  /\ opens = 0
  /\ steady = [s \in Scan |-> {}]
  /\ out = [s \in Scan |-> <<>>]
  /\ ended = [s \in Scan |-> FALSE]

Kernel == \E t \in Tid : Start(t) \/ Exit(t)

Caller ==
  \E s \in Scan : \/ \E m \in Modes : openproc(s, m)
                  \/ closeproc(s)
                  \/ readproc(s)
                  \/ readeither(s)

\* What the library does within a call.
Step ==
  \/ simple_nextpid
  \/ listed_nextpid
  \/ simple_readproc
  \/ simple_nexttid
  \/ simple_readtask
  \/ fill_return

Next == Kernel \/ Caller \/ Step

Spec == Init /\ [][Next]_vars

\* A call that has begun runs on.
FairSpec == Spec /\ WF_vars(Step)

--------------------------------------------------------------------------------
(* Properties.                                                              *)

Returned(s) == {out[s][i] : i \in 1..Len(out[s])}

\* Every variable keeps its type; a PROCTAB's descriptors are those of tasks.
TypeOK ==
  /\ live \subseteq known /\ known \subseteq Tid
  /\ \A t \in live : TgidOf[t] \in live
  /\ \A s \in Scan : /\ PT[s].open \in BOOLEAN
                     /\ {PT[s].pidfd, PT[s].taskfd, PT[s].taskdir,
                         PT[s].taskdir_user} \subseteq Tid \cup {0}
                     /\ PT[s].fds \in Nat
                     /\ x[s] \in [tid : Tid \cup {0}, tgid : Tid \cup {0},
                                  cmd : Tid \cup {0}]
                     /\ steady[s] \subseteq live
  /\ skel_p \in Tid \cup {0}
  /\ new_p \in Scan \cup {NULL}
  /\ canary \in Tid \cup {0}
  /\ pc \in {"idle", "finder", "reader", "fill", "taskfinder", "taskreader",
             "undefined"}
  /\ cur \in Scan

\* A process that lives through a scan of processes, is of a requested user (or
\* in the requested list) and is not hidden has been returned when readproc ends the scan with
\* NULL, whatever the processes around it did meanwhile.
CompleteScan ==
  \A s \in Scan :
    PT[s].open /\ ended[s] /\ ~PT[s].threads =>
      {t \in steady[s] \cap (IF PT[s].listed = {} THEN Leaders ELSE PT[s].listed) :
         t \notin Hidden /\ (PT[s].uids # {} => UidOf[t] \in PT[s].uids)}
        \subseteq Returned(s)

\* readeither returns "the next unique process or task": nothing twice in one
\* scan, and readproc does the same for the processes of /proc.
NoDuplicate ==
  \A s \in Scan : \A i, j \in 1..Len(out[s]) : out[s][i] = out[s][j] => i = j

\* A scan of processes returns only those of the requested users, as the
\* PROC_UID flag asks: "consider only processes with one of the passed ... user
\* id numbers".  A scan of threads looks at no user, neither of the process
\* nor of the thread, and returns everybody's.
UidMatch ==
  \A s \in Scan :
    PT[s].uids # {} /\ ~PT[s].threads => \A t \in Returned(s) : UidOf[t] \in PT[s].uids

\* What a returned proc_t says of the command is about the task it names:
\* nothing is left in it from a task that was skipped on the way.
CmdIsOwn == pc = "fill" => x[cur].cmd = x[cur].tid

\* The task directories held open beyond the two that the PROCTAB knows.
Lost(s) == PT[s].fds - Held(PT[s].pidfd) - Held(PT[s].taskfd)

\* Reading on, to the end of the scan and past it, loses no descriptor, whatever
\* exits under it, and neither does closing a fetch at its end.  Left out are
\* scans of a list, where listed_nextpid loses one for every process, and the
\* close of a get scan, which may come in the middle and then loses its two.
FdsHeld ==
  [][\A s \in Scan :
       \/ Lost(s)' = Lost(s)
       \/ PT[s].listed # {}
       \/ s = "get" /\ PT[s].open /\ ~PT[s].open']_vars

\* A process none of whose threads starts or exits during the scan has all of
\* them returned by the time readeither returns NULL.
QuietProcessComplete ==
  \A s \in Scan :
    PT[s].open /\ ended[s] /\ PT[s].threads /\ PT[s].listed = {} =>
      \A g \in Leaders \ Hidden :
        TasksOf(g) \cap known \subseteq steady[s] =>
          TasksOf(g) \cap known \subseteq Returned(s)

\* No stream is read that was never opened.
StreamOpen == pc # "undefined"

\* Every call of readproc or readeither returns, however many processes vanish
\* under it.
CallReturns == (pc # "idle") ~> (pc = "idle")

\* A scan stays sound: every variable has its type and no stream is read that
\* was not opened (readproc, readeither).
ScanSound == TypeOK /\ StreamOpen

\* What a scan returns is right: all who were there throughout, nobody twice,
\* in scans of processes only the users asked for, each with its own command
\* (readproc, readeither).
ScanAnswers == CompleteScan /\ NoDuplicate /\ UidMatch /\ CmdIsOwn
================================================================================
