--------------------------------- MODULE Ps ---------------------------------
(***************************************************************************)
(* A run of ps: the words of the command line are parsed one by one, maybe   *)
(* a second time as BSD options, the columns, keys and bits are worked out    *)
(* (arg_parse), conflicts with the quick look-up of process numbers are       *)
(* settled, the items to fetch are collected, the tasks are fetched, selected *)
(* and ordered, and the rows are shown with their headings (display.c and     *)
(* show_one_proc of output.c).  A fetch is one step here: what the library    *)
(* does while processes come and go is ReadProc's matter.                     *)
(***************************************************************************)
EXTENDS PsOptions, FiniteSets

CONSTANTS PIDSITEMS,    \* slots in Pids_items
          OUTBUF_SIZE,  \* the widest line
          MaxRows       \* bound on the rows a listing is followed for

VARIABLES argv,       \* the command line: a sequence of words
          env,        \* [personality, PS_FORMAT, tasks]
          thisarg,    \* words already parsed
          force_bsd,  \* the second parse
          o,          \* the options
          pc,
          list,       \* [columns, keys, bits]: format_list, sort_list, select_bits
          items,      \* Pids_items: [slots, past], the items in it and those written past it
          todo,       \* rows still to show
          rows,       \* rows and headings written
          header      \* [next, gap]: lines_to_next_header, header_gap

vars == <<argv, env, thisarg, force_bsd, o, pc, list, items, todo, rows, header>>

NoItems == [slots |-> <<>>, past |-> {}]
NoList == [columns |-> <<>>, keys |-> <<>>, bits |-> {}]

PsInit ==
  /\ thisarg = 0
  /\ force_bsd = FALSE
  /\ o = Start(env.personality)
  /\ pc = IF "FORCE_BSD" \in o.personality THEN "try_bsd" ELSE "parse"
  /\ list = NoList
  /\ items = NoItems
  /\ todo = <<>>
  /\ rows = <<>>
  /\ header = [next |-> 1, gap |-> -1]

Display == <<list, items, todo, rows, header>>

-----------------------------------------------------------------------------
(* parse_all_options: one word a step. *)

Word == argv[thisarg + 1]
More == SubSeq(argv, thisarg + 2, Len(argv))
Alone == Len(argv) = 1

Parsed(q, took) ==
  /\ o' = q
  /\ thisarg' = thisarg + 1 + took
  /\ pc' = CASE q.err         -> IF force_bsd THEN "total_failure" ELSE "try_bsd"
             [] q.exit # None -> "exit"
             [] OTHER         -> "parse"
  /\ UNCHANGED <<argv, env, force_bsd, Display>>

Parsing == pc = "parse" /\ thisarg < Len(argv)

ParseGnu ==
  /\ Parsing /\ Word.type = "GNU"
  /\ \E s \in {parse_gnu_option(o, Word, More, Alone)} : Parsed(s.o, s.took)

ParseSysv ==
  /\ Parsing /\ Word.type = "SYSV" /\ ~force_bsd
  /\ \E s \in {parse_sysv_option(o, Word, More, Alone)} : Parsed(s.o, s.took)

(* A BSD word in the second chance is refused ("way bad"), unless the        *)
(* personality has every line parsed this way.                                *)
ParseBsd ==
  /\ Parsing
  /\ Word.type = "BSD" \/ (Word.type = "SYSV" /\ force_bsd)
  /\ IF Word.type = "BSD" /\ force_bsd /\ "FORCE_BSD" \notin o.personality
     THEN Parsed(Failed(o), 0)
     ELSE \E s \in {parse_bsd_option([o EXCEPT !.prefer_bsd_defaults = TRUE], Word, More, Alone)} :
            Parsed(s.o, s.took)

ParseTrailing ==
  /\ Parsing /\ Word.type \in {"PID", "PGRP", "SESS"}
  /\ Parsed(parse_trailing_pids([o EXCEPT !.prefer_bsd_defaults = TRUE], <<Word>> \o More), Len(More))

ParseGarbage ==
  /\ Parsing /\ Word.type = "FAIL"
  /\ Parsed(Failed(o), 0)

(* The rest of arg_parse: thread_option_check, process_sf_options,           *)
(* select_bits_setup and choose_dimensions.                                   *)
Finish ==
  /\ pc = "parse" /\ thisarg >= Len(argv)
  /\ \E t \in {thread_option_check(o)} :
     \E f \in {process_sf_options(t, env.PS_FORMAT)}, s \in {select_bits_setup(t)} :
       LET failed == t.err \/ f.res = "err" \/ (f.res = "ok" /\ s.res = "err")
       IN
         /\ pc' = CASE ~t.err /\ f.res = "crash" -> "crash"
                    [] failed -> IF force_bsd THEN "total_failure" ELSE "try_bsd"
                    [] OTHER -> "conflicts"
         /\ o' = CASE t.err -> t
                   [] ~t.err /\ f.res # "ok" -> Failed(t)
                   [] OTHER -> IF failed THEN Failed(s.o) ELSE choose_dimensions(s.o, OUTBUF_SIZE)
         /\ list' = IF t.err THEN list
                    ELSE [columns |-> f.columns, keys |-> f.keys, bits |-> IF failed THEN list.bits ELSE s.bits]
  /\ UNCHANGED <<argv, env, thisarg, force_bsd, items, todo, rows, header>>

TryBsd ==
  /\ pc = "try_bsd"
  /\ o' = SecondChance(o, env.personality)
  /\ thisarg' = 0
  /\ force_bsd' = TRUE
  /\ pc' = "parse"
  /\ list' = [list EXCEPT !.columns = <<>>, !.keys = <<>>]
  /\ UNCHANGED <<argv, env, items, todo, rows, header>>

TotalFailure ==
  /\ pc = "total_failure"
  /\ pc' = "exit"
  /\ UNCHANGED <<argv, env, thisarg, force_bsd, o, Display>>

-----------------------------------------------------------------------------
(* A single list of -p is looked up directly unless something speaks against *)
(* it; -q insists.                                                            *)
OfType(code) == {k \in 1..Len(o.selection_list) : o.selection_list[k].typecode = code}

arg_check_conflicts ==
  /\ pc = "conflicts"
  /\ LET quick == OfType("PID_QUICK")
         try == OfType("PID_TRY_QUICK")
         ordered == o.forest_type # None \/ list.keys # <<>>
         slow == \/ Cardinality(try) > 1
                 \/ quick # {}
                 \/ Len(o.selection_list) > Cardinality(try) + Cardinality(quick)
                 \/ ordered
                 \/ o.negate_selection
         has == Cardinality(quick) + IF slow THEN 0 ELSE Cardinality(try)
     IN  /\ o' = [o EXCEPT !.selection_list =
                    [k \in DOMAIN @ |-> IF k \in try THEN [@[k] EXCEPT !.typecode = IF slow THEN "PID" ELSE "PID_QUICK"]
                                        ELSE @[k]]]
         /\ pc' = IF \/ has > 1
                     \/ has > 0 /\ (Len(o.selection_list) > has \/ ordered \/ o.negate_selection)
                  THEN "exit" ELSE "finalize"
  /\ UNCHANGED <<argv, env, thisarg, force_bsd, Display>>

(* The items selection, state, signals and times need in any case. *)
Needed ==
  <<"CMD", "ID_EGID", "ID_EUID", "ID_FGID", "ID_FUID", "ID_PID", "ID_PPID", "ID_RGID", "ID_RUID", "ID_SESSION",
    "ID_SGID", "ID_SUID", "ID_TGID", "STATE", "TTY", "ID_PGRP", "ID_TPGID", "NICE", "NLWP", "RSS", "VM_RSS_LOCKED",
    "SIGBLOCKED", "SIGCATCH", "SIGIGNORE", "SIGNALS", "SIGPENDING", "TICS_ALL", "TICS_ALL_C", "TIME_ALL",
    "TIME_ELAPSED", "TICS_BEGAN", "extra", "noop">>

(* chkREL: an item that has no place yet is stored at Pids_index, and only   *)
(* then is the index compared with the size: once all slots are taken it goes  *)
(* one past the array (.past) and the column reads noop instead.               *)
chkREL_OneLess(have, item) ==
  CASE Contains(have.slots, item) -> have
    [] ~Contains(have.slots, item) /\ Len(have.slots) < PIDSITEMS - 1 -> [have EXCEPT !.slots = Append(@, item)]
    [] OTHER -> [have EXCEPT !.past = @ \cup {item}]

chkREL(have, item) ==
  CASE Contains(have.slots, item) -> have
    [] ~Contains(have.slots, item) /\ Len(have.slots) < PIDSITEMS -> [have EXCEPT !.slots = Append(@, item)]
    [] OTHER -> [have EXCEPT !.past = @ \cup {item}]

(* All that the columns and the keys ask for, in their order. *)
AskedItems ==
  FlattenSeq([i \in 1..Len(list.columns) |->
                IF list.columns[i].pr = None THEN <<>> ELSE PrItems[list.columns[i].pr]] \o
             [i \in 1..Len(list.keys) |-> PrItems[list.keys[i].xe]])

(* check_headers of lists_and_needs: what the heading option makes of the    *)
(* count of lines to the next heading.                                        *)
check_headers(columns) ==
  CASE o.header_type = "MULTI" -> [next |-> 1, gap |-> o.screen.rows - 1]
    [] o.header_type = "NONE"  -> [next |-> -1, gap |-> -1]
    [] OTHER -> [next |-> IF \E i \in 1..Len(columns) : columns[i].name # "" /\ columns[i].pr # None THEN 1 ELSE -1,
                 gap |-> -1]

finalize_stacks ==
  /\ pc = "finalize"
  /\ items' = FoldLeft(chkREL, NoItems, Needed \o AskedItems)
  /\ header' = check_headers(list.columns)
  /\ pc' = "fetch"
  /\ UNCHANGED <<argv, env, thisarg, force_bsd, o, list, todo, rows>>

-----------------------------------------------------------------------------
(* Fetching, selecting and ordering. *)

Row(t, kind, level) == [task |-> t, kind |-> kind, level |-> level]

want(t) == want_this_proc(o, list.bits, t)

Threads == o.thread_flags \cap {"loose_tasks", "show_task"} # {}

IsLeader(t) == t.pid = t.tgid

(* The field an item sorts on (the items of the bounded instances). *)
SortField ==
  [ID_TGID |-> "tgid", ID_PID |-> "pid", ID_PPID |-> "ppid", ID_EUSER |-> "euid", ID_EUID |-> "euid",
   TICS_BEGAN |-> "start", VM_SIZE |-> "vsz", VSIZE_BYTES |-> "vsz", VM_RSS |-> "vsz"]

(* qsort_r on one item, equal tasks staying in their order. *)
StableSort(ts, field, reverse) ==
  LET Before(i, j) == LET a == ts[i][field] b == ts[j][field]
                      IN  \/ a # b /\ (IF reverse = 1 THEN a < b ELSE a > b)
                          \/ a = b /\ i < j
      order == SortSeq([i \in 1..Len(ts) |-> i], Before)
  IN  [i \in 1..Len(ts) |-> ts[order[i]]]

(* procps_pids_sort leaves the tasks alone when the item was not fetched or  *)
(* the order is neither of the two.                                           *)
procps_pids_sort(ts, key) ==
  IF Len(ts) < 2 \/ key.reverse \notin {1, -1} \/ ~Contains(items.slots, key.sr) \/ key.sr \notin DOMAIN SortField THEN ts
  ELSE StableSort(ts, SortField[key.sr], key.reverse)

(* -q looks its processes up in the order given, with their threads when      *)
(* these are wanted; otherwise all tasks are read.                            *)
Quick == o.selection_list # <<>> /\ o.selection_list[1].typecode = "PID_QUICK"

Fetched ==
  LET all == IF Threads THEN env.tasks ELSE SelectSeq(env.tasks, IsLeader)
      Of(n) == SelectSeq(all, LAMBDA t : t.tgid = n)
      u == Reverse(o.selection_list[1].u)
  IN  IF Quick THEN FlattenSeq([i \in 1..Len(u) |-> Of(u[i])]) ELSE all

(* m and -m: a wanted process, then every task of its group; an entry of     *)
(* another group goes back to the test.  A thread that is wanted without its  *)
(* leader is shown as a process and is not passed over.                       *)
RECURSIVE ProcsAndThreads(_, _, _, _)
ProcsAndThreads_LeaderOnce(ts, i, self, acc) ==
  IF i > Len(ts) \/ Len(acc) > MaxRows THEN acc
  ELSE IF self # 0 /\ ts[i].tgid = self THEN ProcsAndThreads(ts, i + 1, self, Append(acc, Row(ts[i], "task", 0)))
  ELSE IF want(ts[i]) THEN ProcsAndThreads(ts, i + 1, ts[i].pid, Append(acc, Row(ts[i], "proc", 0)))
  ELSE ProcsAndThreads(ts, i + 1, 0, acc)

ProcsAndThreads(ts, i, self, acc) ==
  IF i > Len(ts) \/ Len(acc) > MaxRows THEN acc
  ELSE IF self # 0 /\ ts[i].tgid = self THEN ProcsAndThreads(ts, i + 1, self, Append(acc, Row(ts[i], "task", 0)))
  ELSE IF want(ts[i]) THEN ProcsAndThreads(ts, i, ts[i].pid, Append(acc, Row(ts[i], "proc", 0)))
  ELSE ProcsAndThreads(ts, i + 1, 0, acc)

simple_spew ==
  /\ pc = "fetch" /\ o.forest_type = None /\ list.keys = <<>>
  /\ \E ts \in {Fetched} : \E wanted \in {SelectSeq(ts, want)} :
     LET kind == IF "show_task" \in o.thread_flags \/ "loose_tasks" \in o.thread_flags THEN "task" ELSE "proc"
     IN  todo' = IF {"show_proc", "show_task"} \subseteq o.thread_flags
                 THEN ProcsAndThreads(StableSort(StableSort(ts, "start", 1), "tgid", 1), 1, 0, <<>>)
                 ELSE [i \in 1..Len(wanted) |-> Row(wanted[i], kind, 0)]
  /\ pc' = "show"
  /\ UNCHANGED <<argv, env, thisarg, force_bsd, o, list, items, rows, header>>

(* prep_forest_sort: by start time unless the user has keys, and in the end   *)
(* by parent.                                                                 *)
prep_forest_sort(keys) ==
  (IF keys = <<>> THEN <<do_one_sort_spec("start_time", 1)>> ELSE keys) \o <<do_one_sort_spec("ppid", 1)>>

(* A process and, below it, the run of entries that have it as parent. *)
RECURSIVE show_tree(_, _, _)
show_tree(ps, self, level) ==
  LET kids == {i \in 1..Len(ps) : ps[i].ppid = ps[self].pid}
      first == First(kids)
      last == First({i \in first..Len(ps) : i = Len(ps) \/ ps[i + 1].ppid # ps[self].pid})
  IN  <<Row(ps[self], "proc", level)>> \o
      IF kids = {} THEN <<>>
      ELSE FlattenSeq([k \in 1..(last - first + 1) |-> show_tree(ps, first + k - 1, level + 1)])

(* Trees grow from the entries whose parent is not there, the last first. *)
show_forest(ps) ==
  LET roots == SelectSeq(Reverse([i \in 1..Len(ps) |-> i]),
                         LAMBDA i : \A j \in 1..Len(ps) : ps[j].pid # ps[i].ppid)
  IN  FlattenSeq([k \in 1..Len(roots) |-> show_tree(ps, roots[k], 0)])

fancy_spew ==
  /\ pc = "fetch" /\ (o.forest_type # None \/ list.keys # <<>>)
  /\ \E all \in {IF "loose_tasks" \in o.thread_flags THEN env.tasks ELSE SelectSeq(env.tasks, IsLeader)},
        keys \in {IF o.forest_type # None THEN prep_forest_sort(list.keys) ELSE list.keys} :
     \E wanted \in {SelectSeq(all, want)} :
     \E sorted \in {FoldLeft(procps_pids_sort, wanted, keys)} :
         todo' = CASE wanted = <<>> -> <<>>
                   [] o.forest_type # None -> show_forest(sorted)
                   [] OTHER -> [i \in 1..Len(sorted) |-> Row(sorted[i], "proc", 0)]
  /\ pc' = "show"
  /\ UNCHANGED <<argv, env, thisarg, force_bsd, o, list, items, rows, header>>

-----------------------------------------------------------------------------
(* show_one_proc: a heading when the count of lines comes to zero. *)

Heading1 == [task |-> None, kind |-> "heading", level |-> 0]

CountDown ==
  header' = IF header.next - 1 = 0 THEN [header EXCEPT !.next = header.gap] ELSE [header EXCEPT !.next = @ - 1]

show_one_proc ==
  /\ pc = "show" /\ todo # <<>>
  /\ rows' = rows \o (IF header.next - 1 = 0 THEN <<Heading1>> ELSE <<>>) \o <<todo[1]>>
  /\ todo' = SubSeq(todo, 2, Len(todo))
  /\ CountDown
  /\ UNCHANGED <<argv, env, thisarg, force_bsd, o, pc, list, items>>

(* At the end: a heading if nothing was shown, and then a status of 1. *)
ShowLast ==
  /\ pc = "show" /\ todo = <<>>
  /\ IF rows = <<>>
     THEN CountDown /\ rows' = IF header.next - 1 = 0 THEN <<Heading1>> ELSE <<>>
     ELSE UNCHANGED <<header, rows>>
  /\ pc' = "done"
  /\ UNCHANGED <<argv, env, thisarg, force_bsd, o, list, items, todo>>

PsNext ==
  \/ ParseGnu \/ ParseSysv \/ ParseBsd \/ ParseTrailing \/ ParseGarbage \/ Finish \/ TryBsd \/ TotalFailure
  \/ arg_check_conflicts \/ finalize_stacks \/ simple_spew \/ fancy_spew \/ show_one_proc \/ ShowLast

-----------------------------------------------------------------------------
(* The state: the words parsed are words of the line, the list is made of    *)
(* columns and keys the tables know, and no item has two slots.               *)
PsTypeOK ==
  /\ thisarg \in 0..(Len(argv) + 1)
  /\ force_bsd \in BOOLEAN
  /\ pc \in {"parse", "try_bsd", "total_failure", "conflicts", "finalize", "fetch", "show", "done", "exit", "crash"}
  /\ \A i \in 1..Len(list.columns) : list.columns[i].pr = None \/ list.columns[i].pr \in DOMAIN PrItems
  /\ \A i \in 1..Len(list.keys) : list.keys[i].reverse \in {-1, 0, 1}
  /\ list.bits \subseteq 0..15
  /\ \A i, j \in 1..Len(items.slots) : items.slots[i] = items.slots[j] => i = j

Shown == SelectSeq(rows, LAMBDA r : r.kind # "heading")
Done == pc = "done"
Both == "show_both" \in o.thread_flags

(* What the manual says of the selection options, in its words: the default  *)
(* of either style, and otherwise whatever meets one of the criteria given.   *)
Given(t) ==
  LET s == o.simple_select
      style(x) == x \in s
      bsd == s \cap {"B_a", "B_g", "B_x"} # {}
      g == "NO_DEFAULT_g" \notin o.personality \/ style("B_g")
      Bsd(all, notty) == (all \/ t.euid = cached_euid) /\ (notty \/ t.tty # 0) /\ (g \/ t.sess # t.tgid)
      default == s = {} /\ o.selection_list = <<>> /\ ~o.all_processes
  IN  \/ o.all_processes
      \/ style("U_a") /\ t.sess # t.tgid /\ t.tty # 0
      \/ style("U_d") /\ t.sess # t.tgid
      \/ bsd /\ Bsd(style("B_a"), style("B_x"))
      \/ \E k \in 1..Len(o.selection_list) : Matches(o.selection_list[k], t)
      \/ default /\ IF o.prefer_bsd_defaults THEN Bsd(FALSE, FALSE) ELSE t.euid = cached_euid /\ t.tty = cached_tty

ManSelect(t) == LET kept == Given(t) /\ (o.running_only => t.state \in {"R", "D"})
                IN  IF o.negate_selection THEN ~kept ELSE kept

Leaders(ts) == {i \in 1..Len(ts) : ts[i].pid = ts[i].tgid}
ShownLeaders == {Shown[i].task.pid : i \in {k \in 1..Len(Shown) : Shown[k].task.pid = Shown[k].task.tgid}}
MeantLeaders == {env.tasks[i].pid : i \in {k \in Leaders(env.tasks) : ManSelect(env.tasks[k])}}

(* The processes shown are those the manual's words select, whatever way the *)
(* line was parsed.  -a with -d (the union of the two and session leaders     *)
(* with a terminal besides), a running thread shown for its process under m   *)
(* and a single list of -p, looked up without regard to -e, a, x and the      *)
(* others, are not covered.                                                   *)
Selected ==
  Done /\ ~Quick /\ ~({"U_a", "U_d"} \subseteq o.simple_select) /\ ~(Both /\ o.running_only)
    => ShownLeaders = MeantLeaders

(* The quick look-up shows its processes in the order of the list as it was  *)
(* written, those that exist.                                                 *)
QuickInOrder ==
  Done /\ Quick /\ ~Threads =>
    \E i \in 1..Len(argv) : \E text \in {argv[i].text, argv[i].tail} :
      LET asked == SelectSeq(text.items, LAMBDA it : \E k \in Leaders(env.tasks) :
                                            env.tasks[k].pid = it.num /\ (o.running_only => running(env.tasks[k])))
      IN  [k \in 1..Len(asked) |-> asked[k].num] = [k \in 1..Len(Shown) |-> Shown[k].task.pid]

(* Under m and -m a process is followed by its threads, all of them and each *)
(* once, when every wanted thread belongs to a wanted process.                *)
ThreadsFollow ==
  Done /\ Both /\ list.keys = <<>> /\ (\A i \in 1..Len(env.tasks) : want(env.tasks[i]) =>
                                         \E k \in Leaders(env.tasks) : env.tasks[k].pid = env.tasks[i].tgid
                                                                        /\ want(env.tasks[k])) =>
    /\ \A i \in 1..Len(Shown) : Shown[i].kind = "task" =>
         \E j \in 1..(i - 1) : /\ Shown[j].kind = "proc" /\ Shown[j].task.pid = Shown[i].task.tgid
                               /\ \A k \in (j + 1)..i : Shown[k].kind = "task"
    /\ \A i \in 1..Len(Shown) : Shown[i].kind = "proc" =>
         \A k \in 1..Len(env.tasks) : env.tasks[k].tgid = Shown[i].task.pid =>
           Cardinality({j \in 1..Len(Shown) : Shown[j].kind = "task" /\ Shown[j].task = env.tasks[k]}) =
           Cardinality({j \in 1..Len(Shown) : Shown[j].kind = "proc" /\ Shown[j].task = Shown[i].task})

(* man/ps.1 of m: "Show threads after processes."  A listing ends: no task   *)
(* has more than a row as a process and a row as a thread.                    *)
ListingEnds == pc = "show" => Len(todo) <= 2 * Len(env.tasks)

(* In a forest every selected process has one row, that of its parent comes  *)
(* before it, one level up, and nothing but the parent's subtree is between.  *)
Acyclic == \A i \in 1..Len(env.tasks) : env.tasks[i].ppid < env.tasks[i].pid
Forest ==
  Done /\ o.forest_type # None /\ Acyclic =>
    /\ Len(Shown) = Cardinality({i \in Leaders(env.tasks) : want(env.tasks[i])})
    /\ \A i, j \in 1..Len(Shown) : Shown[i].task = Shown[j].task => i = j
    /\ \A i, j \in 1..Len(Shown) : Shown[j].task.ppid = Shown[i].task.pid =>
         i < j /\ Shown[j].level = Shown[i].level + 1 /\ \A k \in (i + 1)..j : Shown[k].level > Shown[i].level

(* --sort and k order by the first key given, then the second and so on;     *)
(* keys of these names have their items fetched.                              *)
SortMeaning == [pid |-> "pid", ppid |-> "ppid", vsz |-> "vsz", uid |-> "euid", start_time |-> "start"]
SortTexts == SelectSeq(o.sf_list, LAMBDA sf : sf.code = "sort")
Sorted ==
  Done /\ SortTexts # <<>> /\ o.forest_type = None /\ ~Threads =>
    LET keys == SortTexts[1].text.items
        Value(i, k) == Shown[i].task[SortMeaning[keys[k].name]] * IF keys[k].sign = "-" THEN -1 ELSE 1
    IN  (\A k \in 1..Len(keys) : keys[k].name \in DOMAIN SortMeaning) =>
          \A i \in 1..(Len(Shown) - 1) :
            \/ \A k \in 1..Len(keys) : Value(i, k) = Value(i + 1, k)
            \/ \E k \in 1..Len(keys) : /\ Value(i, k) < Value(i + 1, k)
                                      /\ \A l \in 1..(k - 1) : Value(i, l) = Value(i + 1, l)

(* Headings: none, one before everything, or one at the top of each screen.  *)
HeaderPaced ==
  pc \in {"show", "done"} /\ rows # <<>> =>
    \A i \in 1..Len(rows) :
      rows[i].kind = "heading" <=>
        CASE o.header_type = "NONE"  -> FALSE
          [] o.header_type = "MULTI" -> i % o.screen.rows = 1 % o.screen.rows
          [] OTHER -> i = 1 /\ \E c \in 1..Len(list.columns) : list.columns[c].name # "" /\ list.columns[c].pr # None

(* Every column and every key finds the items it asks for in the slots, and  *)
(* nothing else takes one, as long as there are slots for all of them.  With  *)
(* more the slots are full, and what found none was written past the array.   *)
ItemsOwn ==
  pc \in {"fetch", "show", "done"} =>
    LET asked == Range(Needed) \cup Range(AskedItems)
        have == Range(items.slots)
    IN  /\ have \cup items.past = asked
        /\ have \cap items.past = {}
        /\ Len(items.slots) = IF Cardinality(asked) <= PIDSITEMS THEN Cardinality(asked) ELSE PIDSITEMS

(* The second parse starts as the first did, as a BSD line, whatever the     *)
(* first had set before it failed ("bug: must reset the list first"); what    *)
(* remains are the settings that no reset covers.                             *)
RetryClean ==
  pc = "parse" /\ force_bsd /\ thisarg = 0 =>
    LET s == Start(env.personality)
    IN  /\ list = NoList
        /\ \A f \in DOMAIN s \ {"kept", "prefer_bsd_defaults", "personality"} : o[f] = s[f]

(* The columns of -o come out in the order of the command line, over all of   *)
(* its options.                                                               *)
Asked == FlattenSeq([i \in 1..Len(o.sf_list) |-> [k \in 1..Len(o.sf_list[i].text.items) |->
                                                    o.sf_list[i].text.items[k].name]])
ColumnsInOrder ==
  Done /\ o.sf_list # <<>> /\ (\A i \in 1..Len(o.sf_list) : o.sf_list[i].code = "o" /\ FormatOk(o.sf_list[i].text))
       /\ (\A i \in 1..Len(Asked) : ~search_macro_array(Asked[i])) =>
    [i \in 1..Len(list.columns) |-> list.columns[i].spec] = Asked

(* sortformat.c: "avoid duplicate columns from -FP and -Fly".  No generated   *)
(* format has a column twice.                                                 *)
GeneratedDistinct ==
  pc = "conflicts" /\ o.sf_list = <<>> /\ env.PS_FORMAT = NoText /\ PredefinedSpec(o) = None =>
    \A i, j \in 1..Len(list.columns) : list.columns[i] = list.columns[j] => i = j

=============================================================================
