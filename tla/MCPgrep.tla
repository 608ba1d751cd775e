-------------------------------- MODULE MCPgrep --------------------------------
(* Process 1 is init, 5 is pgrep and 2 its shell; 3 started in the same tick  *)
(* as 2, and 4 may start with the pid that 2 or 3 had.                        *)
EXTENDS Pgrep

MCPidOf == <<1, 2, 3, 2, 5>>

MCAttr ==
  LET a(start, ppid, euid, mine, regex, flag) ==
        [start |-> start, ppid |-> ppid, ns |-> [mnt |-> euid, user |-> start],
         mine |-> mine, regex |-> regex, env |-> flag, older |-> flag,
         handler |-> flag, euid |-> euid, pgrp |-> ppid, pid |-> 0]
      p == << a(1, 0, 0, FALSE, TRUE, FALSE), a(2, 1, 7, TRUE, TRUE, TRUE),
              a(2, 1, 7, TRUE, TRUE, FALSE), a(3, 1, 0, TRUE, FALSE, TRUE),
              a(3, 2, 7, TRUE, TRUE, TRUE) >>
  IN  [k \in Proc |-> [p[k] EXCEPT !.pid = MCPidOf[k]]]

None == [o \in ListOption |-> <<>>]

Command(prog, flags, patterns) ==
  [prog |-> prog, flags |-> flags, long |-> flags \cap {"E"}, words |-> None, pidfile |-> NOFILE,
   locked |-> TRUE, ns |-> NONS, nslist |-> <<>>, patterns |-> patterns]

Long(line) == [line EXCEPT !.long = line.flags]

With(line, o, words) == [line EXCEPT !.words[o] = words]

MCCommandLines ==
  { Command("pgrep", {}, 0), Command("pgrep", {}, 2), Command("pgrep", {"n", "v"}, 1),
    Command("pgrep", {"v", "l"}, 1), Command("pgrep", {"n"}, 1), Command("pgrep", {"o"}, 0),
    Command("pgrep", {"E"}, 0), Command("pgrep", {"H"}, 0), Command("pgrep", {"O", "A"}, 0),
    Command("pgrep", {"L"}, 1),
    With(Command("pgrep", {"o", "l"}, 0), "euid", <<7>>),
    With(Command("pgrep", {}, 0), "euid", <<BAD>>),
    With(Command("pgrep", {"a"}, 0), "pgrp", <<0, 1>>),
    [Command("pgrep", {}, 0) EXCEPT !.pidfile = 3],
    [Command("pgrep", {"L"}, 0) EXCEPT !.pidfile = 3, !.locked = FALSE],
    [Command("pgrep", {"L"}, 0) EXCEPT !.pidfile = BAD],
    [Command("pgrep", {}, 0) EXCEPT !.ns = 2],
    [Command("pgrep", {}, 0) EXCEPT !.ns = 2, !.nslist = <<"mnt">>],
    [Command("pgrep", {}, 0) EXCEPT !.ns = 0], [Command("pgrep", {}, 0) EXCEPT !.ns = BAD],
    [Command("pgrep", {}, 0) EXCEPT !.ns = 2, !.nslist = <<"mnt", "nothing">>],
    Command("pkill", {"v"}, 1), Long(Command("pkill", {"v", "m"}, 1)), Long(Command("pidwait", {"v", "l"}, 1)),
    Command("pkill", {"e"}, 1), Command("pkill", {"m"}, 1), Command("pkill", {"A", "e"}, 1),
    With(Command("pkill", {}, 0), "euid", <<7, 0>>),
    Command("pidwait", {}, 1), With(Command("pidwait", {"A"}, 0), "euid", <<7>>) }
================================================================================
