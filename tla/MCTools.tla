------------------------------- MODULE MCTools -------------------------------
(***************************************************************************)
(* Instances for TLC: one invocation of pgrep, pkill or pidwait (MCPgrep), *)
(* one of sysctl, or one stream of procio.  The others stay at their start *)
(* while one of them runs.                                                 *)
(* The parameters have a word with a separator inside (eth0.1), one that   *)
(* may not be written, one whose open fails, one whose value the kernel    *)
(* refuses, one to be skipped and one outside /proc/sys.                   *)
(***************************************************************************)
EXTENDS MCPgrep, Sysctl, ProcIO

VARIABLE which

Parameter(d, r, w, o, t) ==
  [dir |-> d, r |-> r, w |-> w, opens |-> o, takes |-> t, value |-> "0", was |-> "0"]
Dir == Parameter(TRUE, TRUE, TRUE, TRUE, TRUE)
File == Parameter(FALSE, TRUE, TRUE, TRUE, TRUE)

Net == <<"net">>
Eth0 == <<"net", "/", "eth0">>
Vlan == <<"net", "/", "eth0", ".", "1">>
Lo == <<"net", "/", "lo">>
Vm == <<"vm">>
Stat == <<"vm", "/", "stat_refresh">>
Swap == <<"vm", "/", "swap">>
Old == <<"net", "/", "retrans_time">>
Above == <<"..", "/", "version">>

MCTrees ==
  LET base == (Net :> Dir) @@ (Eth0 :> File) @@ (Vlan :> File) @@ (Lo :> File)
              @@ (Vm :> Dir) @@ (Stat :> File) @@ (Old :> File) @@ (Above :> File)
  IN {base @@ (Swap :> s) : s \in {File,
        Parameter(FALSE, TRUE, TRUE, FALSE, TRUE), Parameter(FALSE, TRUE, TRUE, TRUE, FALSE),
        Parameter(FALSE, TRUE, FALSE, TRUE, TRUE), Parameter(FALSE, FALSE, TRUE, TRUE, TRUE)}}

Line(minus, key, eq, value) ==
  [comment |-> FALSE, minus |-> minus, key |-> key, eq |-> eq, value |-> value]
Comment == [comment |-> TRUE, minus |-> FALSE, key |-> <<"net">>, eq |-> TRUE, value |-> "9"]

\* Lines for one parameter, for a glob, exclusions, and lines to be ignored.
Own == {Line(m, k, TRUE, v) : m \in BOOLEAN, v \in {"1", "2"},
          k \in {Swap, <<"net", ".", "eth0", "/", "1">>, <<"net", ".", "gone">>}}
Globs == {Line(FALSE, <<"net", ".", "*">>, TRUE, "3"), Line(FALSE, <<"vm", "/", "*">>, TRUE, "4")}
Outs == {Line(TRUE, <<"net", ".", "*">>, FALSE, ""), Line(TRUE, Eth0, FALSE, "")}
Odd == {Comment, Line(FALSE, Lo, FALSE, "")}
FirstLines == Own \cup Globs \cup Outs \cup Odd

MCFileSets ==
     {(<<7, 0>> :> <<l, k>>) : l \in FirstLines, k \in Own \cup Globs}
\cup {(<<1, 2>> :> <<a>>) @@ (<<3, 2>> :> <<b>>) @@ (<<3, 1>> :> <<c>>) @@ (<<SYSCONF, 0>> :> <<d>>) :
        a \in {Line(FALSE, Swap, TRUE, "1"), Line(FALSE, <<"net", ".", "*">>, TRUE, "3")},
        b \in {Line(FALSE, Swap, TRUE, "2")}, c \in Globs \cup {Line(FALSE, Swap, TRUE, "5")},
        d \in {Comment, Line(FALSE, Swap, TRUE, "6"), Line(TRUE, <<"net", ".", "*">>, FALSE, "")}}

Plain == [all |-> FALSE, load |-> FALSE, system |-> FALSE, write |-> FALSE, DryRun |-> FALSE,
          Quiet |-> FALSE, NameOnly |-> FALSE, IgnoreError |-> FALSE, IgnoreDeprecated |-> TRUE,
          pattern |-> "", args |-> <<>>]
Names == {Swap, <<"vm">>, <<"net", ".", "eth0", "/", "1">>, Lo, <<"net", ".", "gone">>, Stat, Old}
Ask(k) == Line(FALSE, k, FALSE, "")

MCInvocations ==
     {[Plain EXCEPT !.load = TRUE, !.args = a, !.DryRun = d, !.pattern = p] :
         a \in {<<7>>, <<7, 8>>, <<>>}, d \in BOOLEAN, p \in {"", "net"}}
\cup {[Plain EXCEPT !.system = TRUE, !.IgnoreError = TRUE, !.Quiet = q, !.args = a] :
         q \in BOOLEAN, a \in {<<>>, <<Ask(Swap)>>}}
\cup {[Plain EXCEPT !.all = TRUE, !.NameOnly = n, !.IgnoreDeprecated = d] : n, d \in BOOLEAN}
\cup {[Plain EXCEPT !.args = <<Ask(j), Ask(k)>>, !.IgnoreError = e] :
         j \in Names \cup {Above}, k \in Names, e \in BOOLEAN}
\cup {[Plain EXCEPT !.args = <<Ask(k), l>>] : k \in {Lo, Above}, l \in Own}
\cup {[Plain EXCEPT !.args = <<k, l>>, !.write = TRUE] : k \in {Ask(Lo)} \cup Own, l \in Own \cup Outs}

Idle == Init /\ argv = CHOOSE l \in CommandLines : TRUE

NoSysctl ==
  /\ opt = Plain /\ tree = <<>> /\ files = <<>> /\ setlist = <<>> /\ stage = "main"
  /\ todo = <<>> /\ walk = {} /\ cfgs = <<>> /\ input = <<>> /\ shown = {} /\ rc = 0
  /\ dir_rc = 0 /\ vanished = {}

NoStream == pfile = ProcFile(<<>>, LINELEN) /\ PInit

PgrepInit == which = "pgrep" /\ Init /\ NoSysctl /\ NoStream

\* The files matter to --load and --system only.
SysctlInit ==
  /\ which = "sysctl" /\ Idle /\ NoStream
  /\ SInit
  /\ \/ opt.load /\ (<<7, 0>> \in DOMAIN files \/ opt.args = <<>>) /\ vanished = {}
     \/ opt.system /\ <<1, 2>> \in DOMAIN files
     \/ ~opt.load /\ ~opt.system /\ files = CHOOSE f \in MCFileSets : TRUE

ProcIOInit == which = "procio" /\ Idle /\ NoSysctl /\ PInit

ToolsInit == PgrepInit \/ SysctlInit \/ ProcIOInit

PgrepRuns == which = "pgrep" /\ UNCHANGED <<which, svars, pvars>>

ToolsNext == \/ Next /\ PgrepRuns
             \/ which = "sysctl" /\ SNext /\ UNCHANGED <<which, vars, pvars>>
             \/ which = "procio" /\ PNext /\ UNCHANGED <<which, vars, svars>>

\* Fairness is pgrep's: see Pgrep.
ToolsSpec ==
  /\ ToolsInit /\ [][ToolsNext]_<<which, vars, svars, pvars>>
  /\ WF_<<which, vars, svars, pvars>>(Program /\ PgrepRuns)
=============================================================================
