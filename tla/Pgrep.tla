--------------------------------- MODULE Pgrep ---------------------------------
(****************************************************************************)
(* pgrep, pkill and pidwait (src/pgrep.c): parse the options, go once over  *)
(* the processes and collect the matches, then list them, signal them one   *)
(* by one, or wait until they have exited.                                  *)
(*                                                                          *)
(* The kernel runs alongside: processes start and exit between any two      *)
(* steps, and the pid of one that has gone may be given to another.  A      *)
(* descriptor from pidfd_open pins the process it was opened for.           *)
(*                                                                          *)
(* A process is its incarnation, not its pid.  Number and name lists are    *)
(* kept as sequences of words; the regular expression and the environment   *)
(* are reduced to whether a process satisfies them.  Left out: the scan's   *)
(* own races (module ReadProc), the text that is printed beyond whose name  *)
(* it shows, threads (-w).                                                  *)
(****************************************************************************)
EXTENDS Integers, Sequences, FiniteSets, SequencesExt

CONSTANTS
  Proc,         \* processes there may ever be
  PidOf,        \* [Proc -> pid]; two processes may use one pid, not at once
  Attr,         \* [Proc -> record]: what the scan reads of a process
                \*   start, ppid, ns (a function), mine, regex, env, older,
                \*   handler (BOOLEANs) and the values of ListOption
  Boot,         \* the processes that run at first
  Self,         \* the process of pgrep itself
  ListOption,   \* options that take a list of numbers or names
  CommandLines, \* what the user may type, see parse_opts
  MaxFd,        \* pidfds the process may have open
  INT_MAX,      \* the greatest pid an int holds
  ULLONG_MAX,   \* the latest start time, ~0ULL
  EVENTS        \* events one epoll_wait returns (32)

\* 0 is no process; pids are positive and used by one running process at a
\* time, also at first.
ASSUME PgrepAssumption ==
  /\ IsFiniteSet(Proc) /\ 0 \notin Proc
  /\ Boot \subseteq Proc /\ Self \in Boot
  /\ INT_MAX \in Nat /\ ULLONG_MAX \in Nat
  /\ PidOf \in [Proc -> 1 .. INT_MAX]
  /\ \A p, q \in Boot : PidOf[p] = PidOf[q] => p = q
  /\ \A p \in Proc : Attr[p].start \in 0 .. ULLONG_MAX /\ Attr[p].mine \in BOOLEAN
  /\ \A line \in CommandLines : line.prog \in {"pgrep", "pkill", "pidwait"}
  /\ MaxFd \in Nat /\ EVENTS \in Nat \ {0}

VARIABLES
  running, used,      \* the kernel: processes that run, and that ever ran
  argv,               \* the command line
  pc,                 \* where the program is
  lists,              \* the converted lists, by option
  ancestors,          \* the pids -A leaves out
  pos,                \* pid of the process read last
  cmdoutput,          \* whose name the buffer holds, 0 for nobody's
  saved_start, saved_pid,   \* of the newest or oldest match so far
  list,               \* the matches: pid, name, and (history) the process
  i,                  \* the match being signalled or opened
  pidfd,              \* the process the descriptor pins, or 0
  fds,                \* descriptors open
  polled, waited,     \* processes epoll watches, and those it has reported
  kill_count, wait_count,
  mrelease_failed,    \* a process could not be released after -m
  nsp,                \* namespaces of the reference process of --ns
  status,             \* exit status, -1 while the program runs
  read,               \* history: the processes the scan has read
  signalled           \* history: who got the signal, in order

kernel  == <<running, used>>
scan    == <<lists, ancestors, nsp, pos, cmdoutput, saved_start, saved_pid, list, read>>
signals == <<i, pidfd, fds, polled, waited, kill_count, wait_count, mrelease_failed,
             signalled>>
vars    == <<kernel, argv, pc, scan, signals, status>>

EXIT_USAGE   == 2
EXIT_FATAL   == 3
EXIT_FAILURE == 1

BAD == -1    \* a word that is no number and no name

NOFILE == -2 \* no pid file given

NONS == -2   \* no --ns given

--------------------------------------------------------------------------------
(* The kernel.                                                              *)

Exit(p) ==
  /\ p \in running \ {Self}
  /\ running' = running \ {p}
  /\ UNCHANGED <<used, argv, pc, scan, signals, status>>

Start(p) ==
  /\ p \notin used
  /\ \A q \in running : PidOf[q] # PidOf[p]
  /\ running' = running \cup {p}
  /\ used' = used \cup {p}
  /\ UNCHANGED <<argv, pc, scan, signals, status>>

\* Who has the pid now, if anybody.
Holder(pid) == {p \in running : PidOf[p] = pid}

\* The member of a set of at most one process, 0 when it is empty.
Only(S) == IF S = {} THEN 0 ELSE CHOOSE p \in S : TRUE

--------------------------------------------------------------------------------
(* Options.  A command line is a record                                     *)
(*   prog              "pgrep", "pkill" or "pidwait"                        *)
(*   flags             a set of one-letter options without argument         *)
(*   long              those of them given by their long names              *)
(*   words             [ListOption -> sequence of words], <<>> for not given *)
(*   pidfile           NOFILE, BAD, or the pid that the file names          *)
(*   locked            whether the pid file is locked                       *)
(*   ns, nslist        the number given with --ns, 0 for a text that is     *)
(*                     none, or NONS; and the words of --nslist             *)
(*   patterns          how many patterns were given                         *)

exit(code) == /\ pc' = "done" /\ status' = code

\* conv_uid, conv_gid, conv_num and conv_str take a word as it is; a word that
\* is no number and no known name ends the program.
conv_word(word) == word

\* A group or session of zero is the program's own.
conv_pgrp(option, word) == IF word = 0 THEN Attr[Self][option] ELSE word

convert(option, word) ==
  IF option \in {"pgrp", "sid"} THEN conv_pgrp(option, word) ELSE conv_word(word)

split_list(option, words) ==
  {convert(option, words[k]) : k \in DOMAIN words}

ns_names == <<"cgroup", "ipc", "mnt", "net", "pid", "time", "user", "uts">>

\* The namespaces looked at by default: the mask 0x3f, the first six.
ns_flags == {ns_names[id] : id \in 1 .. 6}

\* Each word of --nslist replaces what the one before it asked for; one that
\* names no namespace ends the program.
conv_ns(words) ==
  (IF words = <<>> THEN ns_flags ELSE {Last(words)}) \cap DOMAIN Attr[Self].ns

\* The short options without argument that each program takes; all of them
\* take all long names, and so the options of the others.
Accepted(a) ==
  a.long \cup {"L", "c", "f", "i", "n", "o", "x", "A", "H", "O"} \cup
  CASE a.prog = "pgrep"   -> {"l", "a", "v", "w", "Q"}
    [] a.prog = "pkill"   -> {"e", "m", "Q"}
    [] a.prog = "pidwait" -> {"e"}

\* -n, -o and -v exclude each other.
Conflict(flags) == Cardinality(flags \cap {"n", "o", "v"}) > 1

\* Whether something was asked for that a process can match.
criteria(a) ==
  \/ a.flags \cap {"n", "o", "O", "H", "E"} # {}
  \/ \E o \in ListOption : a.words[o] # <<>>
  \/ a.pidfile # NOFILE
  \/ a.ns # NONS

read_pidfile(a) ==
  IF a.pidfile = BAD \/ ("L" \in a.flags /\ ~a.locked) THEN {} ELSE {a.pidfile}

\* -A: the pids of the program's parent, its parent and so on, one scan for
\* each, until one is not found.
get_our_ancestors ==
  LET up[n \in Nat, pid \in {PidOf[q] : q \in Proc} \cup {0}] ==
        IF n = 0 THEN {}
        ELSE UNION {{Attr[q].ppid} \cup up[n - 1, Attr[q].ppid] : q \in Holder(pid)}
  IN  up[Cardinality(Proc), PidOf[Self]]

\* The namespaces of a process, each 0 when they may not be read.
procps_ns_read_pid(p) ==
  [n \in DOMAIN Attr[Self].ns |-> IF p # 0 /\ Attr[p].mine THEN Attr[p].ns[n] ELSE 0]

\* The options, and what select_procs does before its loop.
parse_opts ==
  LET given(o) == argv.words[o] # <<>>
  IN  /\ pc = "parse"
      /\ IF \/ \E o \in ListOption : BAD \in ToSet(argv.words[o])
            \/ ~(ToSet(argv.nslist) \subseteq ToSet(ns_names))
           THEN exit(EXIT_USAGE)
         ELSE IF Conflict(argv.flags) \/ argv.flags \ Accepted(argv) # {}
           THEN exit(EXIT_USAGE)
         ELSE IF "L" \in argv.flags /\ argv.pidfile = NOFILE THEN exit(EXIT_USAGE)
         ELSE IF argv.pidfile # NOFILE /\ (given("pid") \/ read_pidfile(argv) = {})
           THEN exit(EXIT_FAILURE)
         ELSE IF argv.patterns > 1 THEN exit(EXIT_USAGE)
         ELSE IF argv.patterns = 0 /\ ~criteria(argv) THEN exit(EXIT_USAGE)
         ELSE IF argv.ns = BAD THEN exit(EXIT_FATAL)
         ELSE pc' = "scan" /\ UNCHANGED status
      /\ lists' = [o \in ListOption |->
                     IF o = "pid" /\ argv.pidfile # NOFILE THEN read_pidfile(argv)
                     ELSE split_list(o, argv.words[o])]
      /\ ancestors' = IF "A" \in argv.flags THEN get_our_ancestors ELSE {}
      /\ nsp' = procps_ns_read_pid(Only(Holder(argv.ns)))
      /\ saved_start' = IF "n" \in argv.flags THEN 0 ELSE ULLONG_MAX
      /\ saved_pid' = IF "o" \in argv.flags THEN INT_MAX ELSE 0
      /\ UNCHANGED <<kernel, argv, pos, cmdoutput, list, read, signals>>

--------------------------------------------------------------------------------
(* The scan.                                                                *)

match_numlist(value, accepted) == value \in accepted

match_ns(p) ==
  \A n \in conv_ns(argv.nslist) : procps_ns_read_pid(p)[n] = nsp[n]

\* Only a handler for the signal that will be sent counts.
match_signal_handler(p) == Attr[p].handler

\* --ns with a text that is no pid falls through to -r, and the text is taken
\* for run states, of which it names none.
match_runstates == argv.ns # 0

\* The chain of tests that ends at the first one a process fails.
Criteria(p) ==
  /\ \A o \in ListOption : lists[o] # {} => match_numlist(Attr[p][o], lists[o])
  /\ argv.ns \notin {NONS, 0} => match_ns(p)
  /\ match_runstates
  /\ "O" \in argv.flags => Attr[p].older
  /\ "E" \in argv.flags => Attr[p].env
  /\ "H" \in argv.flags => match_signal_handler(p)

\* The first test of -n and -o, against the best match so far.
NotBehind(p) ==
  /\ "n" \in argv.flags => Attr[p].start >= saved_start
  /\ "o" \in argv.flags => Attr[p].start <= saved_start

\* Ties not looked at.
WinsTie_always(p) == TRUE

\* The second one: of two started in one tick -n takes the higher pid.
WinsTie(p) ==
  Attr[p].start = saved_start => /\ "n" \in argv.flags => saved_pid <= PidOf[p]
                                 /\ "o" \in argv.flags => saved_pid >= PidOf[p]

Regex(p) == argv.patterns = 1 => Attr[p].regex

InScan(p) ==
  /\ p \in running /\ PidOf[p] > pos
  /\ \A q \in running : PidOf[q] > pos => PidOf[p] <= PidOf[q]

Wanted(p) == (Criteria(p) /\ Regex(p)) # ("v" \in argv.flags)

\* The name is copied before the pattern is looked at, and not at all when
\* neither the output nor a pattern asks for it.
Copies(p) ==
  \/ argv.flags \cap {"l", "a", "Q"} # {}
  \/ Criteria(p) /\ NotBehind(p) /\ argv.patterns = 1

\* One turn of the loop of select_procs.
select_procs(p) ==
  LET one  == argv.flags \cap {"n", "o"} # {}
      out  == IF Copies(p) THEN p ELSE cmdoutput
      elem == [num |-> PidOf[p], str |-> out, who |-> p]
  IN  /\ pc = "scan"
      /\ InScan(p)
      /\ pos' = PidOf[p]
      /\ read' = read \cup {p}
      /\ IF \/ p = Self
            \/ "A" \in argv.flags /\ PidOf[p] \in ancestors
           THEN UNCHANGED <<cmdoutput, list, saved_start, saved_pid>>
           ELSE /\ cmdoutput' = out
                /\ IF Wanted(p) /\ NotBehind(p) /\ WinsTie(p)
                     THEN /\ list' = IF one THEN <<elem>> ELSE Append(list, elem)
                          /\ saved_start' = IF one THEN Attr[p].start ELSE saved_start
                          /\ saved_pid' = IF one THEN PidOf[p] ELSE saved_pid
                     ELSE UNCHANGED <<list, saved_start, saved_pid>>
      /\ UNCHANGED <<kernel, argv, pc, lists, ancestors, nsp, signals, status>>

select_procs_end ==
  /\ pc = "scan"
  /\ \A p \in running : PidOf[p] <= pos
  /\ pc' = argv.prog
  /\ UNCHANGED <<kernel, argv, scan, signals, status>>

--------------------------------------------------------------------------------
(* pgrep                                                                    *)

Status(n) == IF n > 0 THEN 0 ELSE 1

output ==
  /\ pc = "pgrep"
  /\ exit(Status(Len(list)))
  /\ UNCHANGED <<kernel, argv, scan, signals>>

--------------------------------------------------------------------------------
(* pkill                                                                    *)

\* The process a descriptor is opened for, nobody without one to spare.
Opened(pid) == IF fds < MaxFd THEN Holder(pid) ELSE {}

NextMatch == i' = i + 1

\* Without a descriptor -m gives up, with the other matches not signalled.
pkill_open ==
  /\ pc = "pkill" /\ i <= Len(list)
  /\ \E held \in {Opened(list[i].num)} :
       /\ pidfd' = Only(held)
       /\ fds' = fds + Cardinality(held)
       /\ IF held = {} /\ "m" \in argv.flags
            THEN exit(EXIT_FAILURE)
            ELSE pc' = "send" /\ UNCHANGED status
  /\ UNCHANGED <<kernel, argv, scan, i, polled, waited, kill_count, wait_count, mrelease_failed,
                 signalled>>

\* Without a descriptor nobody is signalled.
execute_kill_by_fd == {pidfd} \cap running

\* Who is signalled: the pinned process, or whoever has the pid now.
execute_kill == IF pidfd # 0 THEN {pidfd} \cap running ELSE Holder(list[i].num)

\* A signal that may not be sent is reported and the next match tried.  Only
\* -m closes the descriptor.
pkill_send ==
  LET hit == {p \in execute_kill : Attr[p].mine}
  IN  /\ pc = "send"
      /\ kill_count' = kill_count + Cardinality(hit)
      /\ signalled' = signalled \o SetToSeq(hit)
      /\ fds' = IF hit # {} /\ "m" \in argv.flags THEN fds - 1 ELSE fds
      /\ mrelease_failed' \in {mrelease_failed, mrelease_failed \/ (hit # {} /\ "m" \in argv.flags)}
      /\ NextMatch
      /\ pidfd' = 0
      /\ pc' = "pkill"
      /\ UNCHANGED <<kernel, argv, scan, polled, waited, wait_count, status>>

pkill_end ==
  /\ pc = "pkill" /\ i > Len(list)
  /\ exit(IF mrelease_failed THEN EXIT_FAILURE ELSE Status(kill_count))
  /\ UNCHANGED <<kernel, argv, scan, signals>>

--------------------------------------------------------------------------------
(* pidwait                                                                  *)

\* A match that is gone is skipped, one that cannot be opened is reported, one
\* that epoll does not take is not counted.
pidwait_open ==
  /\ pc = "pidwait" /\ i <= Len(list)
  /\ \E added \in SUBSET Opened(list[i].num) : polled' = polled \cup added
  /\ fds' = fds + Cardinality(Opened(list[i].num))
  /\ NextMatch
  /\ UNCHANGED <<kernel, argv, pc, scan, pidfd, waited, kill_count, wait_count,
                 mrelease_failed, status, signalled>>

\* Edge triggered: an exit is reported once.
Ready == polled \ (running \cup waited)

\* epoll_wait, which blocks until somebody watched has exited; a signal to the
\* program interrupts it and changes nothing.
pidwait_wait(events) ==
  /\ pc = "pidwait" /\ i > Len(list)
  /\ wait_count < Cardinality(polled)
  /\ events # {} /\ events \subseteq Ready /\ Cardinality(events) <= EVENTS
  /\ waited' = waited \cup events
  /\ wait_count' = wait_count + Cardinality(events)
  /\ UNCHANGED <<kernel, argv, pc, scan, i, pidfd, fds, polled, kill_count,
                 mrelease_failed, status, signalled>>

\* Every match is waited for, also those that could not be opened.
pidwait_end_all ==
  /\ pc = "pidwait" /\ i > Len(list)
  /\ wait_count >= Len(list)
  /\ exit(Status(wait_count))
  /\ UNCHANGED <<kernel, argv, scan, signals>>

pidwait_end ==
  /\ pc = "pidwait" /\ i > Len(list)
  /\ wait_count >= Cardinality(polled)
  /\ exit(Status(wait_count))
  /\ UNCHANGED <<kernel, argv, scan, signals>>

--------------------------------------------------------------------------------

Init ==
  /\ running = Boot /\ used = Boot
  /\ argv \in CommandLines
  /\ pc = "parse" /\ status = -1
  /\ ancestors = {} /\ lists = [o \in ListOption |-> {}]
  /\ pos = 0 /\ cmdoutput = 0 /\ saved_start = 0 /\ saved_pid = 0
  /\ list = <<>> /\ i = 1 /\ pidfd = 0 /\ fds = 0
  /\ polled = {} /\ waited = {} /\ kill_count = 0 /\ wait_count = 0
  /\ mrelease_failed = FALSE /\ nsp = [n \in DOMAIN Attr[Self].ns |-> 0]
  /\ read = {} /\ signalled = <<>>

Kernel == pc # "done" /\ \E p \in Proc : Exit(p) \/ Start(p)

Program ==
  \/ parse_opts
  \/ \E p \in Proc : select_procs(p)
  \/ select_procs_end
  \/ output
  \/ pkill_open
  \/ pkill_send
  \/ pkill_end
  \/ pidwait_open
  \/ \E events \in SUBSET Proc : pidwait_wait(events)
  \/ pidwait_end

Next == Kernel \/ Program

Spec == Init /\ [][Next]_vars

\* The program runs on while it is not blocked; nothing is assumed of others.
FairSpec == Spec /\ WF_vars(Program)

--------------------------------------------------------------------------------
(* Properties.                                                              *)

\* Every variable has its type; a descriptor is held for every process that
\* is pinned or watched.
TypeOK ==
  /\ running \subseteq used /\ used \subseteq Proc /\ Self \in running
  /\ pc \in {"parse", "scan", "pgrep", "pkill", "send", "pidwait", "done"}
  /\ \A k \in DOMAIN list : list[k].who \in Proc /\ list[k].str \in Proc \cup {0}
  /\ pidfd \in Proc \cup {0} /\ fds \in 0 .. MaxFd
  /\ polled \subseteq Proc /\ waited \subseteq polled
  /\ Cardinality(polled) <= fds
  /\ status \in {-1, 0, EXIT_FAILURE, EXIT_USAGE, EXIT_FATAL}

\* The processes read so far that the options ask for, -n and -o aside.
Candidates ==
  {p \in read \ {Self} :
     Wanted(p) /\ PidOf[p] \notin ancestors}

\* p started later than q, or in the same tick with a higher pid.
Later(p, q) ==
  Attr[p].start > Attr[q].start \/ (Attr[p].start = Attr[q].start /\ PidOf[p] >= PidOf[q])

\* select_procs, which looks at one process at a time and keeps one start
\* time and one pid, ends up with the newest (-n) or oldest (-o) of all
\* candidates, with the greatest (least) pid among those of one tick, and
\* without these options with all of them, each once, in order.
SelectionRight ==
  pc = "scan" =>
    LET who == {list[k].who : k \in DOMAIN list}
    IN  /\ Len(list) = Cardinality(who)
        /\ CASE "n" \in argv.flags ->
                  who = {p \in Candidates : \A q \in Candidates : Later(p, q)}
             [] "o" \in argv.flags ->
                  who = {p \in Candidates : \A q \in Candidates : Later(q, p)}
             [] OTHER -> who = Candidates

\* The name kept with a match, which -e, -l and -a print, is the match's own,
\* if the program has one reason to copy names: an option that lists them, or
\* a pattern that is not inverted.
NameIsOwn ==
  argv.flags \cap {"l", "a", "Q"} # {} \/ (argv.patterns = 1 /\ "v" \notin argv.flags) =>
    \A k \in DOMAIN list : list[k].str = list[k].who

\* When pkill has gone through its list, every match that still runs and may
\* be signalled has been signalled, once, although processes come and go
\* under it and the descriptors run out.
AllSignalled ==
  pc = "done" /\ argv.prog = "pkill" /\ "m" \notin argv.flags =>
    \A k \in DOMAIN list :
      list[k].who \in running /\ Attr[list[k].who].mine =>
        Cardinality({n \in DOMAIN signalled : signalled[n] = list[k].who}) = 1

\* pidwait ends only when everybody it watches has exited.
WaitsForAll ==
  pc = "done" /\ argv.prog = "pidwait" => polled \cap running = {}

\* "One or more processes matched the criteria.  For pkill and pidwait, one or
\* more processes must also have been successfully signalled or waited for":
\* the status says so, also when all matches had gone in between.
StatusRight ==
  status \in {0, 1} /\ "m" \notin argv.flags /\ argv.pidfile = NOFILE =>
    (status = 0) = CASE argv.prog = "pgrep" -> list # <<>>
                     [] argv.prog = "pkill" -> signalled # <<>>
                     [] argv.prog = "pidwait" -> waited # {}

\* The list of matches is the one asked for, each with its own name
\* (select_procs).
MatchesRight == TypeOK /\ SelectionRight /\ NameIsOwn

\* Whoever matched is signalled once or waited for, and the status says so,
\* although processes come and go (main of pgrep.c).
SignalsRight == AllSignalled /\ WaitsForAll /\ StatusRight

\* pidwait does not wait for anybody twice: once the watched have exited, it
\* ends.
PidwaitEnds ==
  (pc = "pidwait" /\ i > Len(list) /\ polled \cap running = {}) ~> (pc = "done")
================================================================================
