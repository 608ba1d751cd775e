------------------------------ MODULE PidsContext ------------------------------
(****************************************************************************)
(* A pids context of libproc2 (library/pids.c): the result stacks a caller  *)
(* is given, who owns the strings in them, and the scans that fill them,    *)
(* over any sequence of calls on one context.                               *)
(*                                                                          *)
(* One call is one step: a context belongs to one thread.  How a scan finds *)
(* its tasks is module ReadProc, how deltas are computed module             *)
(* PidsHistory; here a scan yields some tasks and then ends.                *)
(*                                                                          *)
(* A stack is an array of results (item and value) as wide as it was        *)
(* allocated.  Of a value the model keeps what the free functions and the   *)
(* caller can tell apart: its type, the task it was read from (0 if from no *)
(* task), and for a cached container name the cache it points into.         *)
(*                                                                          *)
(* Left out: failed allocations other than strdup's; user values in noop    *)
(* items; invalid arguments, which change nothing.                          *)
(****************************************************************************)
EXTENDS Integers, Sequences, FiniteSets, SequencesExt

CONSTANTS
  ItemLists,    \* the item arrays callers pass to new and reset
  STACKS_INIT,  \* stacks allocated by the first fetch
  STACKS_GROW,  \* stacks allocated when those are used up
  MaxTasks,     \* bound on the tasks one fetch finds
  MaxRef,       \* bound on the references held
  MaxDays       \* bound on the days that pass

\* The rows of Item_table that differ in how a value is set, which part of
\* /proc it needs, how it is freed, and whether it needs history.
Row(set, oldflags, freefunc) ==
  [set |-> set, oldflags |-> oldflags, freefunc |-> freefunc]

Item_table ==
  [ noop           |-> Row("noop",  {},            "none"),
    extra          |-> Row("extra", {},            "none"),
    ID_PID         |-> Row("REG",   {},            "none"),
    ID_RUID        |-> Row("REG",   {"f_status"},  "none"),
    CAPS_PERMITTED |-> Row("DUP",   {"f_status"},  "str"),
    CMDLINE        |-> Row("STR",   {"x_cmdline"}, "str"),
    CMDLINE_V      |-> Row("VEC",   {"v_arg"},     "strv"),
    LXCNAME        |-> Row("NAME",  {"f_lxc"},     "none") ]

END == "logical_end"

ASSUME PidsContextAssumption ==
  /\ ItemLists \subseteq Seq(DOMAIN Item_table) \ {<<>>}
  /\ STACKS_INIT \in Nat \ {0} /\ STACKS_GROW \in Nat \ {0}
  /\ MaxTasks \in Nat \ {0} /\ MaxRef \in Nat \ {0} /\ MaxDays \in Nat

VARIABLES
  refcount,       \* 0 while there is no context
  items,          \* without the logical end; <<>> before the first reset
  func_array,     \* the items whose set functions are called
  oldflags,       \* what a scan opened now will read
  extents,        \* a set of sets of stacks
  head,           \* the results of every stack
  anchor,         \* the stacks a fetch fills, <<>> for NULL
  results,        \* the stacks of the last fetch, while the caller may use them
  get_ext,        \* the stack of get, 0 for NULL
  get_PT,         \* the flags get's scan was opened with, or NULL
  get_type,       \* TRUE when get last asked for threads
  read_something, \* TRUE for readeither, FALSE for readproc
  sav_secs,       \* age of the container caches: "unset", "young", "old"
  names,          \* which container cache is the current one
  aged,           \* history: a day has passed since the fetch that is shown
  strings,        \* history: strings given to stacks and not freed
  shown,          \* history: the stacks of the last fetch, as returned
  last,           \* history: the stacks the last call returned, and whether
                  \*   the reader was the one asked for
  fault           \* a call read through a NULL PROCTAB

config  == <<items, func_array, oldflags>>
memory  == <<extents, head, anchor, get_ext, strings>>
scanner == <<get_PT, get_type, read_something>>
caches  == <<sav_secs, names, aged>>
vars    == <<refcount, config, memory, results, scanner, caches, shown, last, fault>>

\* get_PT is the flags of an open scan; no scan has this flag.
NULL == {"NULL"}

Stack == 1 .. STACKS_INIT + MaxTasks + STACKS_GROW

Live == UNION extents

Zero == [kind |-> "zero", of |-> 0, cache |-> 0]

Nothing == [call |-> "none", asreader |-> TRUE, stacks |-> {}]

Init ==
  /\ refcount = 0
  /\ items = <<>> /\ func_array = <<>> /\ oldflags = {}
  /\ extents = {} /\ head = [s \in Stack |-> <<>>]
  /\ anchor = <<>> /\ results = <<>>
  /\ get_ext = 0 /\ get_PT = NULL /\ get_type = FALSE
  /\ read_something = FALSE
  /\ sav_secs = "unset" /\ names = 0 /\ aged = FALSE
  /\ strings = 0 /\ shown = <<>> /\ last = Nothing
  /\ fault = FALSE

--------------------------------------------------------------------------------
(* Items and flags.                                                         *)

pids_libflags_set(list) == UNION {Item_table[list[i]].oldflags : i \in DOMAIN list}

pids_prep_func_array(list) == list

containers_yes == oldflags \cap {"f_lxc", "z_docker"} # {}

--------------------------------------------------------------------------------
(* Results.                                                                 *)

IsString(v) == v.kind \in {"str", "strv"}

\* The strings some stacks own, by place.
Owned(hd, S) ==
  UNION {{<<s, i>> : i \in {j \in DOMAIN hd[s] : IsString(hd[s][j].val)}} : s \in S}

EndOf(h) == CHOOSE i \in DOMAIN h :
              h[i].item = END /\ \A j \in 1 .. i - 1 : h[j].item # END

\* The depth is the one of 'list' with its logical end.
pids_itemize_stack(h, list) ==
  [i \in DOMAIN h |->
     IF i <= Len(list) + 1
       THEN [item |-> Append(list, END)[i], val |-> h[i].val]
       ELSE h[i]]

pids_cleanup_stack(h) ==
  [i \in DOMAIN h |->
     IF i < EndOf(h) THEN [item |-> h[i].item, val |-> Zero] ELSE h[i]]

\* The vectors forgotten.
CleanupFrees_no_strv(S) ==
  {p \in Owned(head, S) :
     /\ p[2] < EndOf(head[p[1]])
     /\ Item_table[head[p[1]][p[2]].item].freefunc = "str"}

\* The strings that cleaning the stacks S frees: it goes by the items.
CleanupFrees(S) ==
  {p \in Owned(head, S) :
     /\ p[2] < EndOf(head[p[1]])
     /\ Item_table[head[p[1]][p[2]].item].freefunc # "none"}

pids_cleanup_stacks_all == [s \in Stack |-> IF s \in Live THEN pids_cleanup_stack(head[s]) ELSE head[s]]

pids_itemize_stacks_all(hd, list) ==
  [s \in Stack |-> IF s \in Live THEN pids_itemize_stack(hd[s], list) ELSE hd[s]]

\* Whether the task's own string is there to be taken: it was read, and no
\* earlier result of the stack took it.
Available(i, flags) ==
  /\ Item_table[func_array[i]].oldflags \subseteq flags
  /\ \A j \in 1 .. i - 1 : func_array[j] # func_array[i]

\* The results whose set function calls strdup.
Duplicates(i, flags) ==
  \/ Item_table[func_array[i]].set = "DUP"
  \/ Item_table[func_array[i]].set \in {"STR", "VEC"} /\ ~Available(i, flags)

Frees(i) == Item_table[func_array[i]].set \in {"DUP", "STR", "VEC"}

\* The value result i gets from task t; 'cache' is where names point to.
Set(i, old, t, flags, cache) ==
  LET row  == Item_table[func_array[i]]
      read == row.oldflags \subseteq flags
      val(kind, from) == [kind |-> kind, of |-> IF from THEN t ELSE 0, cache |-> 0]
  IN  CASE row.set = "noop"  -> old
        [] row.set = "extra" -> Zero
        [] row.set = "REG"   -> val("num", read)
        [] row.set = "DUP"   -> val("str", read)
        [] row.set = "STR"   -> val("str", Available(i, flags))
        [] row.set = "VEC"   -> val("strv", Available(i, flags))
        [] row.set = "NAME"  -> IF read THEN [kind |-> "name", of |-> t, cache |-> cache]
                                        ELSE Zero

\* 'failed' is the result whose strdup failed, 0 for none.
pids_assign_results(h, t, flags, cache, failed) ==
  [i \in DOMAIN h |->
     IF i > Len(func_array) THEN h[i]
     ELSE [item |-> h[i].item,
           val  |-> IF i = failed THEN Zero ELSE Set(i, h[i].val, t, flags, cache)]]

\* Strings on hand once the stacks in 'order' have been filled, in hd2.
Accounted(hd1, hd2, order) ==
  LET filled == ToSet(order)
  IN  strings
      - Cardinality({p \in Owned(hd1, filled) : p[2] <= Len(func_array) /\ Frees(p[2])})
      + Cardinality({p \in Owned(hd2, filled) : p[2] <= Len(func_array) /\ Frees(p[2])})

\* Stacks are numbered as they are allocated, and are freed all at once.
Allocated == Len(anchor) + IF get_ext = 0 THEN 0 ELSE 1

\* An extent of new stacks after the first 'from'.
Extent(from, n) == from + 1 .. from + n

pids_stacks_alloc(new) ==
  [s \in Stack |->
     IF s \in new
       THEN pids_itemize_stack([i \in 1 .. Len(items) + 1 |-> [item |-> "noop", val |-> Zero]], items)
       ELSE head[s]]

--------------------------------------------------------------------------------
(* The container caches.                                                    *)

\* A cache in use for a day is dropped, and with it every name in it.
CacheDropped == containers_yes /\ sav_secs = "old"

CurrentNames == IF CacheDropped THEN names + 1 ELSE names

pids_containers_check ==
  /\ names' = CurrentNames
  /\ sav_secs' = IF containers_yes THEN "young" ELSE sav_secs

OneDay ==
  /\ sav_secs = "young"
  /\ names < MaxDays
  /\ sav_secs' = "old" /\ aged' = (shown # <<>>)
  /\ UNCHANGED <<refcount, config, memory, results, scanner, names, shown, last, fault>>

--------------------------------------------------------------------------------
(* The life of a context.                                                   *)

procps_pids_new(list) ==
  /\ refcount = 0 /\ ~fault
  /\ refcount' = 1
  /\ items' = list
  /\ func_array' = pids_prep_func_array(list)
  /\ oldflags' = pids_libflags_set(list)
  /\ UNCHANGED <<memory, results, scanner, caches, shown, last, fault>>

procps_pids_ref ==
  /\ refcount \in 1 .. MaxRef - 1 /\ ~fault
  /\ refcount' = refcount + 1
  /\ UNCHANGED <<config, memory, results, scanner, caches, shown, last, fault>>

\* The last unref closes get's scan only when get has a stack.
procps_pids_unref ==
  /\ refcount > 0 /\ ~fault
  /\ refcount' = refcount - 1
  /\ IF refcount > 1
       THEN UNCHANGED <<config, memory, results, scanner, aged, shown, last>>
       ELSE /\ items' = <<>> /\ func_array' = <<>> /\ oldflags' = {}
            /\ extents' = {} /\ head' = [s \in Stack |-> <<>>] /\ anchor' = <<>>
            /\ strings' = strings - Cardinality(CleanupFrees(Live))
            /\ get_PT' = IF get_ext # 0 THEN NULL ELSE get_PT
            /\ get_ext' = 0 /\ get_type' = FALSE /\ read_something' = FALSE
            /\ results' = <<>> /\ aged' = FALSE /\ shown' = <<>> /\ last' = Nothing
  /\ UNCHANGED <<sav_secs, names, fault>>

Deeper(list) == Len(items) < Len(list)

\* All stacks are freed, with everything that points to them.
drop_extents ==
  /\ extents' = {}
  /\ head' = [s \in Stack |-> <<>>]
  /\ anchor' = <<>>
  /\ get_PT' = IF get_ext # 0 THEN NULL ELSE get_PT
  /\ get_ext' = 0

\* The caller may no longer use the results it was shown.
procps_pids_reset(list) ==
  LET clean == pids_cleanup_stacks_all
  IN  /\ refcount > 0 /\ ~fault
      /\ strings' = strings - Cardinality(CleanupFrees(Live))
      /\ results' = <<>> /\ aged' = FALSE /\ shown' = <<>>
      /\ last' = Nothing
      /\ IF items = list
           THEN /\ head' = clean
                /\ UNCHANGED <<config, extents, anchor, get_ext, get_PT>>
           ELSE /\ items' = list
                /\ func_array' = pids_prep_func_array(list)
                /\ oldflags' = pids_libflags_set(list)
                /\ IF Deeper(list)
                     THEN drop_extents
                     ELSE /\ head' = pids_itemize_stacks_all(clean, list)
                          /\ UNCHANGED <<extents, anchor, get_ext, get_PT>>
      /\ UNCHANGED <<refcount, get_type, read_something, sav_secs, names, fault>>

--------------------------------------------------------------------------------
(* get                                                                      *)

\* A scan is opened for the first get, and for one of the other type.
FreshStart(threads) == get_ext = 0 \/ get_type # threads

\* The stack of get and its memory, allocated if need be.
GetStack == IF get_ext = 0 THEN Allocated + 1 ELSE get_ext

GetExtents == IF get_ext = 0 THEN extents \cup {Extent(Allocated, 1)} ELSE extents

\* All stacks cleaned before a get.
GetHead_cleans == IF get_ext = 0 THEN pids_stacks_alloc(Extent(Allocated, 1)) ELSE pids_cleanup_stacks_all

GetHead == IF get_ext = 0 THEN pids_stacks_alloc(Extent(Allocated, 1)) ELSE head

MayGet == refcount > 0 /\ items # <<>> /\ ~fault

\* openproc failed; get_type and read_something are as they were.
get_open_fails(threads) ==
  /\ MayGet
  /\ FreshStart(threads)
  /\ extents' = GetExtents
  /\ head' = GetHead
  /\ get_ext' = GetStack
  /\ get_PT' = NULL
  /\ last' = Nothing
  /\ UNCHANGED <<refcount, config, anchor, strings, results, get_type,
                 read_something, caches, shown, fault>>

\* The scan of the last get was never opened and is read all the same.
get_no_scan(threads) ==
  /\ MayGet
  /\ ~FreshStart(threads)
  /\ get_PT = NULL
  /\ pids_containers_check
  /\ fault' = TRUE
  /\ last' = Nothing
  /\ UNCHANGED <<refcount, config, memory, results, scanner, aged, shown>>

\* Reading task t, or no task (t = 0) at the end of the scan.
procps_pids_get(threads, t, failed) ==
  LET flags == IF FreshStart(threads) THEN oldflags ELSE get_PT
      s     == GetStack
      hd    == GetHead
      full  == [hd EXCEPT ![s] =
                  pids_assign_results(hd[s], t, flags, CurrentNames, failed)]
  IN  /\ MayGet
      /\ FreshStart(threads) \/ get_PT # NULL
      /\ failed # 0 => /\ t # 0
                       /\ failed <= Len(func_array)
                       /\ Duplicates(failed, flags)
      /\ pids_containers_check
      /\ extents' = GetExtents
      /\ get_ext' = s
      /\ get_PT' = flags
      /\ get_type' = threads
      /\ read_something' = IF FreshStart(threads) THEN threads ELSE read_something
      /\ head' = IF t = 0 THEN hd ELSE full
      /\ strings' = IF t = 0 THEN strings ELSE Accounted(hd, full, <<s>>)
      /\ last' = IF t = 0 \/ failed # 0 THEN Nothing
                 ELSE [call |-> "get", asreader |-> read_something' = threads,
                       stacks |-> {s}]
      /\ UNCHANGED <<refcount, config, anchor, results, aged, shown, fault>>

--------------------------------------------------------------------------------
(* reap, select and sort                                                    *)

\* How many extents of STACKS_GROW it takes for n more tasks.
Growths(n) == IF n <= 0 THEN 0 ELSE (n + STACKS_GROW - 1) \div STACKS_GROW

\* Tasks 1..n are found; the strdup of result 'failed' of task n fails.
pids_stacks_fetch(n, threads, flags, failed) ==
  LET first  == IF anchor = <<>> THEN STACKS_INIT ELSE 0
      times  == Growths(n - (Len(anchor) + first))
      more   == first + times * STACKS_GROW
      blocks == {Extent(Allocated + first + (k - 1) * STACKS_GROW, STACKS_GROW) : k \in 1 .. times}
      all    == anchor \o [k \in 1 .. more |-> Allocated + k]
      used   == SubSeq(all, 1, n)
      hd     == pids_stacks_alloc(Extent(Allocated, more))
      full   == [s \in Stack |->
                   IF s \notin ToSet(used) THEN hd[s]
                   ELSE LET t == CHOOSE i \in 1 .. n : used[i] = s
                        IN  pids_assign_results(hd[s], t, flags, CurrentNames,
                                                IF t = n THEN failed ELSE 0)]
  IN  /\ failed # 0 => /\ n > 0
                       /\ failed <= Len(func_array)
                       /\ Duplicates(failed, flags)
      /\ extents' = extents \cup blocks
                    \cup (IF first > 0 THEN {Extent(Allocated, first)} ELSE {})
      /\ anchor' = all
      /\ head' = full
      /\ strings' = Accounted(hd, full, used)
      /\ read_something' = threads
      /\ aged' = FALSE
      /\ IF failed # 0
           THEN results' = <<>> /\ shown' = <<>> /\ last' = Nothing
           ELSE /\ results' = used
                /\ shown' = [s \in ToSet(used) |-> full[s]]
                /\ last' = [call |-> "fetch", asreader |-> read_something' = threads,
                            stacks |-> ToSet(used)]

\* The scan is closed at the end; a reap that finds nothing returns NULL.
procps_pids_reap(threads, n, failed) ==
  /\ MayGet
  /\ pids_containers_check
  /\ pids_stacks_fetch(n, threads, oldflags, failed)
  /\ UNCHANGED <<refcount, config, get_ext, get_PT, get_type, fault>>

procps_pids_select(threads, n, failed) ==
  /\ MayGet
  /\ pids_containers_check
  /\ pids_stacks_fetch(n, threads, oldflags \cup {"PROC_PID"}, failed)
  /\ UNCHANGED <<refcount, config, get_ext, get_PT, get_type, fault>>

\* The program's own process is selected.
fatal_proc_unmounted ==
  procps_pids_select(FALSE, 1, 0)

fetch_open_fails ==
  /\ MayGet
  /\ pids_containers_check
  /\ last' = Nothing
  /\ UNCHANGED <<refcount, config, memory, results, scanner, aged, shown, fault>>

\* The result of a stack that the sort looks at.
Offset(item) == CHOOSE i \in DOMAIN items : items[i] = item /\ \A j \in 1 .. i - 1 : items[j] # item

procps_pids_sort(item, ascend) ==
  LET n == Len(results)
      key(s) == head[s][Offset(item)].val.of
  IN  /\ refcount > 0 /\ ~fault
      /\ shown # <<>> /\ n > 1
      /\ item \in ToSet(items)
      /\ results' \in [1 .. n -> ToSet(results)]
      /\ ToSet(results') = ToSet(results)
      /\ \A i \in 1 .. n - 1 : IF ascend THEN key(results'[i]) <= key(results'[i + 1])
                                         ELSE key(results'[i]) >= key(results'[i + 1])
      /\ UNCHANGED <<refcount, config, memory, scanner, caches, shown, last, fault>>

--------------------------------------------------------------------------------

\* The result whose strdup fails, 0 for none.
Failures == 0 .. 2

Next ==
  \/ OneDay
  \/ \E list \in ItemLists \cup {<<>>} : procps_pids_new(list)
  \/ procps_pids_ref
  \/ procps_pids_unref
  \/ \E list \in ItemLists : procps_pids_reset(list)
  \/ \E threads \in BOOLEAN : get_open_fails(threads)
  \/ \E threads \in BOOLEAN : get_no_scan(threads)
  \/ \E threads \in BOOLEAN, t \in 0 .. 1, failed \in Failures :
       procps_pids_get(threads, t, failed)
  \/ \E threads \in BOOLEAN, n \in 0 .. MaxTasks, failed \in Failures :
       procps_pids_reap(threads, n, failed)
  \/ \E threads \in BOOLEAN, n \in 0 .. 1, failed \in Failures :
       procps_pids_select(threads, n, failed)
  \/ fatal_proc_unmounted
  \/ fetch_open_fails
  \/ \E item \in DOMAIN Item_table, ascend \in BOOLEAN : procps_pids_sort(item, ascend)

Spec == Init /\ [][Next]_vars

--------------------------------------------------------------------------------
(* Properties.                                                              *)

Val  == [kind : {"zero", "num", "str", "strv", "name"}, of : 0 .. MaxTasks, cache : 0 .. MaxDays]
Slot == [item : DOMAIN Item_table \cup {END}, val : Val]

\* Every variable has the type the C declarations give it; extents share no
\* stack and only live ones have memory.
TypeOK ==
  /\ refcount \in 0 .. MaxRef
  /\ items \in ItemLists \cup {<<>>}
  /\ \A e, f \in extents : e # f => e \cap f = {}
  /\ \A s \in Stack : /\ head[s] # <<>> <=> s \in Live
                      /\ \A i \in DOMAIN head[s] : head[s][i] \in Slot
  /\ get_ext \in Stack \cup {0}
  /\ get_type \in BOOLEAN /\ read_something \in BOOLEAN /\ fault \in BOOLEAN
  /\ names \in 0 .. MaxDays /\ sav_secs \in {"unset", "young", "old"}
  /\ strings \in Nat

\* Whatever was reset in between, every stack there is can hold the current
\* items, names them in order, and is delimited right after them: the set
\* functions and the caller go by position alone.
Itemized ==
  /\ func_array = items
  /\ \A s \in Live :
       /\ Len(head[s]) > Len(items)
       /\ SubSeq(head[s], 1, Len(items) + 1) =
            [i \in 1 .. Len(items) + 1 |->
               [item |-> Append(items, END)[i], val |-> head[s][i].val]]

\* A value is always of the type its item's free function expects: no number
\* or cached name is ever passed to free, also after the item of a slot was
\* changed by reset.
SlotsOwn ==
  \A s \in Live : \A i \in 1 .. EndOf(head[s]) - 1 :
    LET row == Item_table[head[s][i].item]
        kind == head[s][i].val.kind
    IN  /\ row.freefunc # "none" => kind \in {"zero", row.freefunc}
        /\ row.freefunc = "none" => kind \notin {"str", "strv"}

\* Every string given to a stack is in exactly one result of a live stack
\* until it is freed: none is lost by get, fetch, reset or the last unref, and
\* none is freed twice.
StringsOwned == strings = Cardinality(Owned(head, Live))

\* The stacks a fetch and a get will write are live, all different, and get
\* has one of its own; without one no scan of get is open, so that
\* the last unref closes it.
Anchored ==
  /\ ToSet(anchor) \subseteq Live
  /\ Cardinality(ToSet(anchor)) = Len(anchor)
  /\ get_ext # 0 => get_ext \in Live \ ToSet(anchor)
  /\ get_PT # NULL => get_ext # 0

\* What reap or select returned stays in place, whatever gets and sorts follow, until
\* the next fetch, a reset or the last unref.
ResultsKept ==
  shown # <<>> =>
    /\ ToSet(results) = DOMAIN shown
    /\ Len(results) = Cardinality(DOMAIN shown)
    /\ \A s \in DOMAIN shown : head[s] = shown[s]

\* No name in these stacks is one of a dropped cache.
NamesOf(stacks) ==
  \A s \in stacks : \A i \in DOMAIN head[s] :
    head[s][i].val.kind = "name" => head[s][i].val.cache = names

\* No value of a stack that was just returned is a name of a dropped cache, and
\* no value of what reap or select last returned becomes one, whatever gets
\* follow, until a day has passed: then the next call drops the caches with the
\* names the caller still holds.
NamesLive == NamesOf(last.stacks) /\ (~aged => NamesOf(DOMAIN shown))

\* A returned stack was read by the reader asked for, and every result that
\* is the first of its item holds what was read of a task for it.
Answers ==
  /\ last.asreader
  /\ \A s \in last.stacks : \A i \in DOMAIN items :
       Item_table[items[i]].set \in {"REG", "DUP", "STR", "VEC", "NAME"}
         /\ (\A j \in 1 .. i - 1 : items[j] # items[i])
       => head[s][i].val.of # 0

\* reap and select return the items and the tasks that were asked for, as
\* they are at the time of the call.
FetchAnswers == last.call = "fetch" => Answers

\* A get whose scan could not be opened reports it, and the next one does not
\* read through the PROCTAB that is not there.
NoFault == ~fault

\* After any calls of the API the stacks are sound: typed, itemized, anchored
\* once, with values their items can free and strings that have one owner.
StacksSound == TypeOK /\ Itemized /\ SlotsOwn /\ Anchored /\ StringsOwned

\* What reap and select returned is what was asked for and stays as it is until
\* the next fetch; the names in it are not freed unless a day passes meanwhile.
AnswersHold == FetchAnswers /\ NamesLive /\ ResultsKept
================================================================================
