-------------------------------- MODULE MCPs --------------------------------
(***************************************************************************)
(* Instances for TLC: one run of ps, or one line laid out.  The command      *)
(* lines are made of up to two phrases, an option with its argument each,    *)
(* for a table with a service, a shell, a program with a running thread and   *)
(* a process of another user.                                                 *)
(***************************************************************************)
EXTENDS Ps, PsLayout

VARIABLE which

MCUserId == [root |-> 0, alice |-> 1, bob |-> 2]
MCGroupId == [staff |-> 5]
MCTtyDev == [tty1 |-> 1, tty2 |-> 2]
MCScreen == [rows |-> 3, cols |-> 80]
MCSamePrefix == {<<"daemon_of_fifte", "daemon_of_fifteen">>}

Task(pid, tgid, ppid, uid, tty, sess, state, cmd, start, vsz) ==
  [pid |-> pid, tgid |-> tgid, ppid |-> ppid, euid |-> uid, ruid |-> IF uid = 2 THEN 1 ELSE uid, egid |-> 5 * (uid % 2),
   rgid |-> 0, pgrp |-> tgid, sess |-> sess, tty |-> tty, state |-> state, cmd |-> cmd, start |-> start, vsz |-> vsz]

Tasks ==
  << Task(1, 1, 0, 0, 0, 1, "S", "init", 1, 2), Task(2, 2, 1, 1, 1, 2, "S", "sh", 3, 3),
     Task(3, 3, 2, 1, 1, 2, "S", "vi", 4, 3), Task(4, 3, 2, 1, 1, 2, "R", "vi", 6, 3),
     Task(5, 5, 1, 2, 2, 5, "R", "sh", 2, 1), Task(6, 6, 1, 1, 0, 6, "D", "daemon_of_fifte", 5, 1) >>

-----------------------------------------------------------------------------
(* Words and phrases. *)

Item(name, num) == [name |-> name, num |-> num, sign |-> None, head |-> None, width |-> 0]
Signed(name, sign) == [Item(name, 0) EXCEPT !.sign = sign]
Text(list1) == [NoText EXCEPT !.items = list1]

Word1(type, flags, n, tail, text) == [type |-> type, flags |-> flags, at |-> n, tail |-> tail, text |-> text]
Sysv(flags) == Word1("SYSV", flags, 0, NoText, Garbage)
Bsd1(flags) == Word1("BSD", flags, 0, NoText, Garbage)
Gnu(name) == Word1("GNU", <<name>>, 0, NoText, Garbage)
GnuWith(name, text) == Word1("GNU", <<name>>, 1, text, Garbage)

(* An argument of its own: not an option if it stands alone. *)
Arg(text) == Word1("BSD", <<"?">>, 0, NoText, text)
Number(type, n) == Word1(type, IF type = "PID" THEN <<"2">> ELSE <<"?">>, 0, NoText, Text(<<Item("", n)>>))

Pids2 == Text(<<Item("", 3), Item("", 2)>>)
Cols == Text(<<Item("pid", 0), Item("comm", 0)>>)
(* More items than there are slots. *)
ManyNames ==
  << "ag_id", "ag_nice", "args", "cgname", "cgroup", "cgroupns", "class", "cpu", "docker", "drs", "egroup",
     "eip", "esp", "euser", "exe", "f", "fds", "fgroup", "fsuser", "htprv", "htshr", "intpri", "ipcns", "lim",
     "longtname", "lsession", "luid", "lxc", "machine", "maj_flt", "min_flt", "mntns", "netns", "ni", "numa",
     "oom", "oomadj", "ouid" >>
Many == Text([i \in 1..Len(ManyNames) |-> Item(ManyNames[i], 0)])
Keys == Text(<<Signed("vsz", "-"), Signed("pid", None)>>)

(* One phrase each. *)
SysvSwitches == {<<Sysv(<<c>>)>> : c \in {"e", "a", "d", "N", "H", "L", "T", "m", "f", "l", "j", "F", "c", "y", "P",
                                         "M", "w", "x", "V"}}
SysvPhrases ==
  {<<Sysv(<<"p">>), Arg(Pids2)>>, <<Word1("SYSV", <<"p", "3">>, 1, Pids2, Garbage)>>, <<Sysv(<<"q">>), Arg(Pids2)>>,
   <<Sysv(<<"C">>), Arg(Text(<<Item("daemon_of_fifteen", 0)>>))>>, <<Sysv(<<"U">>), Arg(Text(<<Item("alice", 0)>>))>>,
   <<Sysv(<<"u">>), Arg(Text(<<Item("nobody", 0)>>))>>, <<Sysv(<<"g">>), Arg(Text(<<Item("staff", 0)>>))>>,
   <<Sysv(<<"g">>), Arg(Text(<<Item("", 2)>>))>>, <<Sysv(<<"t">>), Arg(Text(<<Item("tty2", 0), Item("?", 0)>>))>>,
   <<Sysv(<<"o">>), Arg(Cols)>>, <<Sysv(<<"O">>), Arg(Cols)>>, <<Sysv(<<"o">>)>>,
   <<Sysv(<<"D">>), Arg(Text(<<Item("%F", 0)>>))>>}
BsdSwitches == {<<Bsd1(<<c>>)>> : c \in {"a", "x", "g", "r", "T", "t", "u", "v", "X", "h", "m", "H", "f", "Z", "w",
                                        "n", "S", "L", "V"}}
BsdPhrases ==
  {<<Bsd1(<<"O">>), Arg([NoText EXCEPT !.letters = <<"U", "-", "p">>])>>, <<Bsd1(<<"O">>), Arg(Cols)>>,
   <<Bsd1(<<"k">>), Arg(Keys)>>, <<Bsd1(<<"o">>), Arg([NoText EXCEPT !.aix = <<"p", "fill", "c">>])>>,
   <<Bsd1(<<"U">>), Arg(Text(<<Item("bob", 0)>>))>>,
   <<Word1("BSD", <<"x", "5">>, 1, Text(<<Item("", 5)>>), Garbage)>>}
GnuSwitches == {<<Gnu(n)>> : n \in {"forest", "headers", "no-headers", "deselect", "cumulative", "signames", "context",
                                    "info", "help", "bogus"}}
GnuPhrases ==
  {<<GnuWith("sort", Keys)>>, <<Gnu("sort"), Arg(Text(<<Signed("uid", None), Signed("start_time", "-")>>))>>,
   <<GnuWith("ppid", Text(<<Item("", 1)>>))>>, <<GnuWith("rows", Text(<<Item("", 2)>>))>>,
   <<GnuWith("forest", Cols)>>, <<GnuWith("delimiter", [NoText EXCEPT !.letters = <<":">>])>>,
   <<GnuWith("format", Many)>>}
Trailing == {<<Number("PID", 3)>>, <<Number("PGRP", 5)>>, <<Number("SESS", 2), Number("PID", 5)>>,
             <<Word1("FAIL", <<"?">>, 0, NoText, Garbage)>>}

Phrases == SysvSwitches \cup SysvPhrases \cup BsdSwitches \cup BsdPhrases \cup GnuSwitches \cup GnuPhrases \cup Trailing

(* The words formats are built from. *)
Formats == {<<Sysv(<<"F", "l", "y">>)>>} \cup
          {<<Sysv(<<"e">> \o <<c, d>>)>> : c \in {"f", "F", "l", "j"}, d \in {"c", "y", "P", "L", "M", "l"}}

Env(personality, format) == [personality |-> personality, PS_FORMAT |-> format, tasks |-> Tasks]
Personalities == {"bsd", "old", "debian", "linux", "aix", "tru64", "sunos4", "irix", "390", "hp", "svr4"}

Lines ==
     {<<p \o q, Env("unknown", NoText)>> : p, q \in Phrases}
\cup {<<p, Env(e, NoText)>> : p \in Phrases \cup Formats, e \in Personalities}
\cup {<<p, Env("unknown", f)>> : p \in Phrases \cup {<<>>} \cup Formats, f \in {NoText, Cols}}

-----------------------------------------------------------------------------
(* Columns to lay out: of both sides, unlimited, of signals and of text. *)
Column(width, just) == [width |-> width, just |-> just, pr |-> just # "AIX"]
MCColumns == {Column(9, "LEFT"), Column(5, "RIGHT"), Column(4, "UNLIMITED"), Column(2, "WCHAN"), Column(9, "SIGNAL"),
              Column(2, "SIGNAL"), Column(1, "AIX")}

PsLines ==
  /\ which = "ps"
  /\ \E l \in Lines : argv = l[1] /\ env = l[2]
  /\ PsInit
  /\ cols = <<>> /\ delimited = FALSE /\ line = "none" /\ at = 0 /\ pos = Origin
  /\ written = [heading |-> <<>>, row |-> <<>>]

PsLayouts ==
  /\ which = "layout"
  /\ LayoutInit
  /\ argv = {} /\ env = {} /\ thisarg = 0 /\ force_bsd = FALSE /\ o = {} /\ pc = "none" /\ list = {} /\ items = {}
  /\ todo = {} /\ rows = {} /\ header = {}

Init == PsLines \/ PsLayouts
Next == \/ which = "ps" /\ PsNext /\ UNCHANGED <<which, layoutVars>>
        \/ which = "layout" /\ LayoutNext /\ UNCHANGED <<which, vars>>
Spec == Init /\ [][Next]_<<which, vars, layoutVars>>

(* The variables have the types of the module that runs. *)
TypeOK == which = "ps" => PsTypeOK

(* The processes shown are those the manual selects (want_this_proc). *)
SelectedAsMeant == which = "ps" => Selected

(* A second parse starts as the first did, but for the settings that no     *)
(* reset covers (arg_parse).                                                 *)
SecondParseClean == which = "ps" => RetryClean

(* "Show threads after processes": the listing has an end                   *)
(* (simple_spew).                                                            *)
ThreadListingEnds == which = "ps" => ListingEnds

(* Parts of the properties below, see Ps. *)
QuickKeepsOrder == which = "ps" => QuickInOrder
ThreadsAfterProcess == which = "ps" => ThreadsFollow
ForestWhole == which = "ps" => Forest
SortedByKeys == which = "ps" => Sorted
HeadersPaced == which = "ps" => HeaderPaced
ItemsFetched == which = "ps" => ItemsOwn
ColumnOrderKept == which = "ps" => ColumnsInOrder
NoColumnTwice == which = "ps" => GeneratedDistinct

(* Rows come in the order asked for: of the list, of the keys, of the forest, *)
(* threads after their process, with headings at their distance.              *)
RowsInOrder == QuickKeepsOrder /\ ThreadsAfterProcess /\ ForestWhole /\ SortedByKeys /\ HeadersPaced

(* The lists that both parsers leave are sound: typed, columns as written and *)
(* none twice, and every column and key finds the items it asks for, while    *)
(* there are slots (chkREL writes past the array when there are none).        *)
ListsSound == TypeOK /\ ItemsFetched /\ ColumnOrderKept /\ NoColumnTwice
=============================================================================
