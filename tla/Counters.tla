-------------------------------- MODULE Counters -------------------------------
(****************************************************************************)
(* The contexts of libproc2 over files that count: vmstat, meminfo,         *)
(* slabinfo and stat, each a behaviour of its own, chosen at the start.     *)
(****************************************************************************)
EXTENDS Integers, Sequences, FiniteSets

CONSTANTS
  VmText, VmLists, VmSecs, VmRef, VmHalf,       \* see Vmstat
  MemText, MemLists, MemSecs, MemRef, Word, MemHalf,
                                                \* see Meminfo
  SlabText, SlabLists, STACKS_INCR, NODES_INCR, INT_MAX, SlabSecs, SlabRef,
                                                \* see Slabinfo
  Cpu, CoreOf, NodeOf, MaxNode, StatLists, Boot, Junk, NEWOLD_INCR, MaxEvents
                                                \* see Stat

ASSUME FilesAssumption ==
  /\ VmRef \in Nat \ {0} /\ VmLists \subseteq Seq(STRING \X STRING)
  /\ MemRef \in Nat \ {0} /\ MemLists \subseteq Seq(STRING \X STRING) /\ Word \in Nat \ {0}
  /\ {VmHalf, MemHalf} \subseteq Nat \ {0}
  /\ \A t \in VmText \cup MemText : \A name \in DOMAIN t : t[name] \in Nat

ASSUME SlabAssumption ==
  /\ SlabRef \in Nat \ {0} /\ {STACKS_INCR, NODES_INCR} \subseteq Nat \ {0} /\ INT_MAX \in Nat
  /\ SlabText \subseteq Seq([name : STRING, nr_objs : Nat, obj_size : Nat])

ASSUME StatAssumption ==
  /\ Cpu \subseteq Nat /\ IsFiniteSet(Cpu) /\ NEWOLD_INCR \in Nat \ {0}
  /\ MaxNode \in Nat /\ NodeOf \in [Cpu -> -1 .. MaxNode]
  /\ Junk \subseteq [user : Nat, idle : Nat] /\ Boot \in [Cpu -> [user : Nat, idle : Nat]]

VARIABLES
  which,
  text, secs, refcount, fd, new, old, items, stack, sav_secs, reads, out,
  nodes, nodes_alloc, extents, anchor, results,
  online, tics, cpuinfo, events, slots, n_inuse, summary, cores, cpu_count_hwm,
  made, seen

fileVars == <<fd, stack>>
slabVars == <<nodes_alloc, extents, anchor, results>>
statVars == <<online, tics, cpuinfo, events, slots, n_inuse, summary, cores, cpu_count_hwm,
              made, seen>>

Vm   == INSTANCE Vmstat WITH Text <- VmText, ItemLists <- VmLists, MaxSecs <- VmSecs,
          MaxRef <- VmRef, Half <- VmHalf
Mem  == INSTANCE Meminfo WITH Text <- MemText, ItemLists <- MemLists, MaxSecs <- MemSecs,
          MaxRef <- MemRef, Half <- MemHalf
Slab == INSTANCE Slabinfo WITH Text <- SlabText, ItemLists <- SlabLists, MaxSecs <- SlabSecs,
          MaxRef <- SlabRef
Stt  == INSTANCE Stat WITH ItemLists <- StatLists

NoFile == fd = {} /\ stack = {}
NoSlab == nodes_alloc = {} /\ extents = {} /\ anchor = {} /\ results = {}
NoStat ==
  /\ online = {} /\ tics = {} /\ cpuinfo = {} /\ events = {} /\ slots = {} /\ n_inuse = {}
  /\ summary = {} /\ cores = {} /\ cpu_count_hwm = {} /\ made = {} /\ seen = {}

Init ==
  \/ which = "vmstat" /\ Vm!Init /\ nodes = {} /\ NoSlab /\ NoStat
  \/ which = "meminfo" /\ Mem!Init /\ nodes = {} /\ NoSlab /\ NoStat
  \/ which = "slabinfo" /\ Slab!Init /\ NoFile /\ NoStat
  \/ /\ which = "stat" /\ Stt!Init /\ NoFile /\ NoSlab
     /\ text = {} /\ secs = {} /\ new = {} /\ old = {} /\ sav_secs = {} /\ reads = {}

Next ==
  /\ UNCHANGED which
  /\ \/ which = "vmstat" /\ Vm!Next /\ UNCHANGED <<nodes, slabVars, statVars>>
     \/ which = "meminfo" /\ Mem!Next /\ UNCHANGED <<nodes, slabVars, statVars>>
     \/ which = "slabinfo" /\ Slab!Next /\ UNCHANGED <<fileVars, statVars>>
     \/ which = "stat" /\ Stt!Next
        /\ UNCHANGED <<fileVars, slabVars, text, secs, new, old, sav_secs, reads>>

vars == <<which, text, secs, refcount, fd, new, old, items, stack, sav_secs, reads, out, nodes,
          slabVars, statVars>>
Spec == Init /\ [][Next]_vars

--------------------------------------------------------------------------------
(* The properties of each module, for its own behaviours.                   *)

\* A change spans the last two reads, whichever calls made them, as long as it
\* fits the type it is stored in (vmstat_read_failed, meminfo_read_failed and
\* their HST_set).
DeltaSpansReads ==
  /\ which = "vmstat" => Vm!F!DeltaSpansReads
  /\ which = "meminfo" => Mem!F!DeltaSpansReads

\* slabinfo's nodes fit their array (get_slabnode).
NodesFit == which = "slabinfo" => Slab!NodesFit

\* reap shows every cache once, in stacks of the items asked for
\* (procps_slabinfo_reap).
ReapShowsAll == which = "slabinfo" => Slab!ReapShowsAll

\* Totals are those of the file read (parse_slabinfo20).
TotalsRight == which = "slabinfo" => Slab!TotalsRight

\* No change of tics is negative (stat_derive_unique).
DeltasNotNegative == which = "stat" => Stt!DeltasNotNegative

\* A cpu is shown with its own core (stat_cores_link).
CoresRight == which = "stat" => Stt!CoresRight

\* Nodes add up to the cpus (stat_make_numa_hist).
NodesAddUp == which = "stat" => Stt!NodesAddUp

\* Stacks are made for the items asked for (procps_stat_reap).
ReapStacksOwn == which = "stat" => Stt!ReapStacksOwn

\* get and select of vmstat and meminfo answer what they are asked, get with
\* numbers of this second, and no part of memory is larger than the whole.
AnswersRight ==
  /\ which = "vmstat" => Vm!F!AnswersRight
  /\ which = "meminfo" => Mem!F!AnswersRight /\ Mem!PartsFit

\* slabinfo shows the file: nodes fit their array, reap shows every cache once
\* and the totals are those of the last read (parse_slabinfo20).
SlabsShown == NodesFit /\ ReapShowsAll /\ TotalsRight

\* stat shows cpus that come and go with tics that never run backwards, with
\* their own cores, in nodes that add up and stacks made for the items asked for.
CpusShown == DeltasNotNegative /\ CoresRight /\ NodesAddUp /\ ReapStacksOwn
================================================================================
