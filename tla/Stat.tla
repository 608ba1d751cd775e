---------------------------------- MODULE Stat ---------------------------------
(****************************************************************************)
(* The stat interface of libproc2 (library/stat.c).  A read puts the lines  *)
(* of /proc/stat into slots, one for each cpu online, in the file's order.  *)
(* A slot keeps the tics of the last two lines that it was given, be they   *)
(* of the same cpu or not.  Cores come from /proc/cpuinfo and are looked up *)
(* again when the number of cpus has changed; numa nodes are summed up from *)
(* the slots.  One set of items serves the three kinds of stacks of reap.   *)
(*                                                                          *)
(* Tics are kept as user and idle time, of which the other items are sums.  *)
(* Left out: failed allocations, the numbers of the whole system other than *)
(* the summary (they are kept as those of module ValueFile) and order by    *)
(* sort, as in Slabinfo.                                                    *)
(****************************************************************************)
EXTENDS Integers, Sequences, FiniteSets, FiniteSetsExt, SequencesExt

CONSTANTS
  Cpu,          \* numbers of cpus
  CoreOf,       \* the core id that cpuinfo shows for a cpu
  NodeOf,       \* the numa node of a cpu, -1 when there is no telling
  MaxNode,      \* the highest node in use
  ItemLists,    \* item arrays
  Boot,         \* the tics of every cpu at the start
  Junk,         \* tics that memory may hold before anything is put there
  NEWOLD_INCR,  \* slots allocated at a time (64)
  MaxEvents     \* bound on what happens to the cpus

VARIABLES
  online, tics,     \* the kernel: the cpus online, tics of every cpu
  cpuinfo,          \* whether there is a /proc/cpuinfo
  events,           \* how often that has changed
  refcount,         \* 1 while there is a context
  slots, n_inuse,   \* cpus.hist
  summary,          \* cpu_hist
  cores,            \* the list of cores
  cpu_count_hwm,    \* the number of cpus when cores were looked up
  nodes,            \* nodes.hist as the last reap made it
  items,            \* the items of reap
  made,             \* the items that the stacks of each kind were made for
  seen,             \* history: the cpus online at the last read, and whether their
                    \* number has told them from the cpus before them and cpuinfo
                    \* has listed the same
  out               \* history: the call that has returned

kernel == <<online, tics, cpuinfo, events>>
hist   == <<slots, n_inuse, summary, cores, cpu_count_hwm, seen>>
vars   == <<kernel, refcount, hist, nodes, items, made, out>>

stat_jifs == [user : Nat, idle : Nat]
NoTics    == [user |-> 0, idle |-> 0]
NoCore    == [id |-> -1, type |-> 0]
hist_tic  == [id |-> 0, new |-> NoTics, old |-> NoTics, core |-> NoCore]
Kinds     == {"summary", "cpus", "nodes"}
Unmade    == [k \in Kinds |-> <<>>]

Sum(a, b) == [user |-> a.user + b.user, idle |-> a.idle + b.idle]
Total(h, S) == FoldSet(LAMBDA k, acc : Sum(acc, h[k]), NoTics, S)

\* The cpus in the order of their lines.
Lines(S) ==
  CHOOSE s \in [1 .. Cardinality(S) -> S] : \A i, j \in DOMAIN s : i < j => s[i] < s[j]

--------------------------------------------------------------------------------
(* Cores.                                                                   *)

\* A cpu joins its core, once; a core that is not listed yet goes to the end.
stat_core_add(list, cpu) ==
  IF \E k \in DOMAIN list : list[k].id = CoreOf[cpu]
    THEN [k \in DOMAIN list |-> IF list[k].id = CoreOf[cpu]
                                  THEN [list[k] EXCEPT !.threads = @ \cup {cpu}] ELSE list[k]]
    ELSE Append(list, [id |-> CoreOf[cpu], type |-> 0, threads |-> {cpu}])

\* A core with two threads is a P core; where there is one, a core with one
\* thread is an E core.  The others keep the type they had.
stat_cores_classify(list) ==
  LET type(c) == IF Cardinality(c.threads) = 2 THEN 2
                 ELSE IF Cardinality(c.threads) = 1
                         /\ \E k \in DOMAIN list : Cardinality(list[k].threads) = 2 THEN 1
                 ELSE c.type
  IN  [k \in DOMAIN list |-> [list[k] EXCEPT !.type = type(list[k])]]

stat_cores_reset(list) == [k \in DOMAIN list |-> [list[k] EXCEPT !.threads = {}]]

\* Without the file no core has any cpu.
stat_cores_verify(list, listed) ==
  IF cpuinfo THEN stat_cores_classify(FoldLeft(stat_core_add, list, Lines(listed)))
  ELSE list

\* Every slot in use points to the core that has its cpu.
stat_cores_link(sl, n, list) ==
  [k \in DOMAIN sl |->
     IF k > n THEN sl[k]
     ELSE LET has == {j \in DOMAIN list : sl[k].id \in list[j].threads}
          IN  [sl[k] EXCEPT !.core = IF has = {} THEN NoCore
                 ELSE LET c == list[Min(has)] IN [id |-> c.id, type |-> c.type]]]

\* Only new cpus make a difference.
Refresh_more(n) == n > cpu_count_hwm

\* A cpu has come or gone, as far as the number tells.
Refresh(n) == n # cpu_count_hwm

\* cpuinfo, if it is looked at, lists the cpus that are online by then: one may
\* have come or gone since stat was read.  (If it stays so, it comes or goes for
\* good in a step of its own.)
Listings ==
  IF ~cpuinfo \/ ~Refresh(Cardinality(online)) THEN {online}
  ELSE {online} \cup {online \cup {c} : c \in Cpu} \cup ({online \ {c} : c \in Cpu} \ {{}})

--------------------------------------------------------------------------------
(* Reading.                                                                 *)

\* The past of these tics: forgotten when any of them has gone down.
stat_derive_unique(new, old) ==
  IF new.user < old.user \/ new.idle < old.idle \/ new.user + new.idle < old.user + old.idle
    THEN new ELSE old

\* A slot is given a line; the first slot without one only moves on.
Line(slot, cpu) ==
  [slot EXCEPT !.id = cpu, !.new = tics[cpu], !.old = stat_derive_unique(tics[cpu], slot.new)]
NoLine(slot) == [slot EXCEPT !.old = slot.new]

\* More slots as long as every one has a line; what is in them is not known.
Room(n, junk) ==
  LET more == IF n < Len(slots) THEN 0
              ELSE ((n - Len(slots)) \div NEWOLD_INCR + 1) * NEWOLD_INCR
  IN  slots \o [k \in 1 .. more |-> [hist_tic EXCEPT !.new = junk]]

stat_read_ok(junk, listed) ==
  LET cpus == Lines(online)
      n    == Len(cpus)
      room == Room(n, junk)
      sl   == [k \in DOMAIN room |-> IF k <= n THEN Line(room[k], cpus[k])
                                     ELSE IF k = n + 1 THEN NoLine(room[k]) ELSE room[k]]
      list == IF Refresh(n) THEN stat_cores_verify(stat_cores_reset(cores), listed)
              ELSE cores
      all  == Total(tics, online)
  IN  /\ summary' = [new |-> all, old |-> stat_derive_unique(all, summary.new)]
      /\ n_inuse' = n /\ cpu_count_hwm' = n
      /\ cores' = list
      /\ slots' = IF Refresh(n) THEN stat_cores_link(sl, n, list) ELSE sl
      /\ seen' = [last |-> online,
                  sure |-> cpuinfo /\ IF online = seen.last THEN seen.sure
                                      ELSE n # Cardinality(seen.last) /\ listed = online]

\* A file that cannot be opened or read changes nothing; one whose first line
\* is no summary moves the summary on.
stat_read_bad(r) ==
  /\ summary' = IF r = "range" THEN [summary EXCEPT !.old = summary.new] ELSE summary
  /\ UNCHANGED <<slots, n_inuse, cores, cpu_count_hwm, seen>>

Outcome == {"ok", "error", "range"}
stat_read_failed(r) ==
  IF r = "ok" THEN \E junk \in Junk, listed \in Listings : stat_read_ok(junk, listed)
  ELSE stat_read_bad(r)

\* The tics of many slots or nodes.
News(h) == [k \in DOMAIN h |-> h[k].new]
Olds(h) == [k \in DOMAIN h |-> h[k].old]

\* The nodes of the slots in use, from nothing.
stat_make_numa_hist(sl, n) ==
  [node \in 0 .. MaxNode |->
     LET S == {k \in 1 .. n : NodeOf[sl[k].id] = node}
     IN  [new |-> Total(News(sl), S), old |-> Total(Olds(sl), S), count |-> Cardinality(S)]]

--------------------------------------------------------------------------------
(* Calls.                                                                   *)

procps_stat_new(r) ==
  /\ refcount = 0
  /\ IF r = "ok" THEN stat_read_failed(r) /\ refcount' = 1
     ELSE UNCHANGED <<hist, refcount>>
  /\ out' = "new"
  /\ UNCHANGED <<kernel, nodes, items, made>>

\* The last reference: everything is freed.
procps_stat_unref ==
  /\ refcount = 1 /\ refcount' = 0
  /\ slots' = [k \in 1 .. NEWOLD_INCR |-> hist_tic] /\ n_inuse' = 0
  /\ summary' = [new |-> NoTics, old |-> NoTics] /\ cores' = <<>> /\ cpu_count_hwm' = 0
  /\ nodes' = <<>> /\ items' = <<>> /\ made' = Unmade
  /\ seen' = [last |-> {}, sure |-> FALSE]
  /\ out' = "unref"
  /\ UNCHANGED kernel

\* get in a new second and select: a read, and the summary.
procps_stat_select(r) ==
  /\ refcount = 1
  /\ stat_read_failed(r)
  /\ out' = IF r = "ok" THEN "select" ELSE "failed"
  /\ nodes' = <<>>
  /\ UNCHANGED <<kernel, refcount, items, made>>

\* Other items than last time: the stacks of all three are freed.
stat_stacks_reconfig_maybe(list) == IF items = list THEN made ELSE Unmade

\* Stacks are made where there are none.
stat_stacks_fetch(m, kinds) ==
  [k \in Kinds |-> IF k \in kinds /\ m[k] = <<>> THEN items' ELSE m[k]]

procps_stat_reap(what, list, r) ==
  /\ refcount = 1
  /\ items' = list
  /\ stat_read_failed(r)
  /\ LET m     == stat_stacks_reconfig_maybe(list)
         kinds == IF what = "NUMA_NODES_TOO" THEN Kinds ELSE Kinds \ {"nodes"}
     IN  IF r = "ok"
           THEN /\ made' = stat_stacks_fetch(m, kinds)
                /\ nodes' = IF what = "NUMA_NODES_TOO"
                              THEN stat_make_numa_hist(slots', n_inuse') ELSE <<>>
                /\ out' = what
           ELSE made' = m /\ nodes' = <<>> /\ out' = "failed"
  /\ UNCHANGED <<kernel, refcount>>

--------------------------------------------------------------------------------
(* The kernel.                                                              *)

Event ==
  /\ events < MaxEvents /\ events' = events + 1
  /\ nodes' = <<>> /\ out' = "none"
  /\ UNCHANGED <<refcount, hist, items, made, cpuinfo>>

Run(c, f) ==
  /\ c \in online
  /\ tics' = [tics EXCEPT ![c][f] = @ + 1]
  /\ UNCHANGED online /\ Event

Offline(c) ==
  /\ c \in online /\ online # {c}
  /\ online' = online \ {c}
  /\ UNCHANGED tics /\ Event

\* Idle time may start over.
Online(c) ==
  /\ c \notin online
  /\ online' = online \cup {c}
  /\ \E t \in 0 .. tics[c].idle : tics' = [tics EXCEPT ![c].idle = t]
  /\ Event

Init ==
  /\ cpuinfo \in BOOLEAN
  /\ online = Cpu /\ events = 0 /\ tics = Boot
  /\ refcount = 0
  /\ slots = [k \in 1 .. NEWOLD_INCR |-> hist_tic] /\ n_inuse = 0
  /\ summary = [new |-> NoTics, old |-> NoTics]
  /\ cores = <<>> /\ cpu_count_hwm = 0 /\ nodes = <<>>
  /\ items = <<>> /\ made = Unmade
  /\ seen = [last |-> {}, sure |-> FALSE] /\ out = "none"

Next ==
  \/ \E r \in {"ok", "error"} : procps_stat_new(r)
  \/ procps_stat_unref
  \/ \E r \in Outcome : procps_stat_select(r)
  \/ \E what \in {"CPUS_ONLY", "NUMA_NODES_TOO"}, list \in ItemLists, r \in Outcome :
       procps_stat_reap(what, list, r)
  \/ \E c \in Cpu, f \in {"user", "idle"} : Run(c, f)
  \/ \E c \in Cpu : Offline(c)
  \/ \E c \in Cpu : Online(c)

Spec == Init /\ [][Next]_vars

--------------------------------------------------------------------------------
(* Properties.                                                              *)

\* No change in tics is negative, neither of the summary nor of a slot, also
\* when a slot is given the line of another cpu or a cpu is back from offline
\* ("don't distort results", stat_derive_unique).
DeltasNotNegative ==
  /\ summary.new \in stat_jifs
  /\ \A h \in {summary} \cup {slots[k] : k \in 1 .. n_inuse} :
       h.old.user <= h.new.user /\ h.old.idle <= h.new.idle

\* A slot in use points to the core of its cpu, and a core with two threads
\* online is shown as a P core, unless one cpu has come and another gone between
\* two reads, when their number is all that is looked at, or one has come or gone
\* between stat and cpuinfo.
CoresRight ==
  refcount = 1 /\ seen.sure =>
    \A k \in 1 .. n_inuse :
      /\ slots[k].core.id = CoreOf[slots[k].id]
      /\ Cardinality({j \in 1 .. n_inuse : slots[j].core.id = slots[k].core.id}) = 2
           => slots[k].core.type = 2

\* The nodes that reap shows add up to the cpus that it shows, for both of the
\* reads that changes are taken from; a cpu without a node counts for none.
NodesAddUp ==
  out = "NUMA_NODES_TOO" =>
    LET S == {k \in 1 .. n_inuse : NodeOf[slots[k].id] # -1}
    IN  /\ Total(News(nodes), DOMAIN nodes) = Total(News(slots), S)
        /\ Total(Olds(nodes), DOMAIN nodes) = Total(Olds(slots), S)

\* All stacks that a reap returns were made for the items it was asked for,
\* those of the nodes too when calls without and with nodes take turns.
ReapStacksOwn ==
  /\ out \in {"CPUS_ONLY", "NUMA_NODES_TOO"} => made["summary"] = items /\ made["cpus"] = items
  /\ out = "NUMA_NODES_TOO" => made["nodes"] = items
================================================================================
