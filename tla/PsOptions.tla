------------------------------ MODULE PsOptions -----------------------------
(***************************************************************************)
(* The command line of ps, from parser.c and the personalities of global.c.  *)
(* Every word is tried as a SysV, BSD or GNU option or as trailing numbers;   *)
(* when anything fails, all globals are reset and the whole line is parsed a  *)
(* second time with the dashes ignored, as a BSD line.                        *)
(*                                                                           *)
(* A word is [type, flags, at, tail, text]: its type as arg_type tells it,    *)
(* the letters of its flags (a GNU name is one letter), the text that is      *)
(* attached after flag number at (0: none), and the text it is when an        *)
(* option takes it as its argument.                                           *)
(***************************************************************************)
EXTENDS PsFormat, PsSelect

CONSTANTS UserId,    \* the users that exist: name -> uid
          GroupId,   \* the groups that exist: name -> gid
          TtyDev,    \* the terminals that exist: name -> device
          Screen     \* [rows, cols] of the terminal

ASSUME PsAssumption == Screen.rows \in Nat \ {0, 1} /\ Screen.cols \in Nat \ {0}

NoText == [letters |-> <<>>, items |-> <<>>, aix |-> <<>>]

(* A text no list and no format can be made of. *)
Garbage == [NoText EXCEPT !.items = <<[name |-> "?garbage", num |-> 0, sign |-> None, head |-> None, width |-> 0]>>]

(* set_personality: what the environment's personality sets. *)
NoFormats ==
  [sysv_f |-> None, sysv_fl |-> None, sysv_j |-> None, sysv_l |-> None, bsd_j |-> "OL_j", bsd_l |-> "OL_l",
   bsd_s |-> "OL_s", bsd_u |-> "OL_u", bsd_v |-> "OL_v"]

FreeBsd == [NoFormats EXCEPT !.bsd_j = "FB_j", !.bsd_l = "FB_l", !.bsd_u = "FB_u", !.bsd_v = "FB_v"]

set_personality(name) ==
  LET Set(flags, bsd, formats) == [flags |-> flags, bsd |-> bsd, formats |-> formats]
  IN  CASE name = "bsd" -> Set({"FORCE_BSD", "BSD_h", "BSD_m"}, TRUE, FreeBsd)
        [] name = "old" -> Set({"FORCE_BSD", "OLD_m"}, TRUE, NoFormats)
        [] name \in {"debian", "gnu"} ->
             Set({"GOOD_o", "OLD_m"}, TRUE, [NoFormats EXCEPT !.sysv_f = "RD_f", !.sysv_j = "RD_j", !.sysv_l = "RD_l"])
        [] name = "linux" -> Set({"GOOD_o", "ZAP_ADDR", "SANE_USER"}, FALSE, NoFormats)
        [] name = "aix" -> Set({}, FALSE, FreeBsd)
        [] name \in {"tru64", "compaq", "digital"} ->
             Set({"GOOD_o", "BSD_h"}, TRUE,
                 [sysv_f |-> "F5FMT", sysv_fl |-> "FL5FMT", sysv_j |-> "JFMT", sysv_l |-> "L5FMT", bsd_j |-> "JFMT",
                  bsd_l |-> "LFMT", bsd_s |-> "SFMT", bsd_u |-> "UFMT", bsd_v |-> "VFMT"])
        [] name = "sunos4" -> Set({"NO_DEFAULT_g"}, TRUE, FreeBsd)
        [] name \in {"irix", "sgi"} -> Set({"IRIX_l"}, FALSE, NoFormats)
        [] name \in {"os390", "s390", "390"} -> Set({}, FALSE, [NoFormats EXCEPT !.sysv_j = "J390"])
        [] name \in {"hp", "hpux"} -> Set({"HPUX_x"}, FALSE, NoFormats)
        [] name \in {"svr4", "sysv", "sco"} -> Set({"SVR4_x"}, FALSE, NoFormats)
        [] OTHER -> Set({}, FALSE, NoFormats)

(* The options at their start values. *)
Start(name) ==
  LET p == set_personality(name)
  IN  [err |-> FALSE, exit |-> None, all_processes |-> FALSE, simple_select |-> {}, selection_list |-> <<>>,
       running_only |-> FALSE, negate_selection |-> FALSE, forest_type |-> None, thread_flags |-> {},
       format_flags |-> {}, format_modifiers |-> {}, header_type |-> "SINGLE", screen |-> Screen, w_count |-> 0,
       sf_list |-> <<>>, gnu_sort |-> FALSE, misc |-> {}, kept |-> {}, prefer_bsd_defaults |-> p.bsd,
       personality |-> p.flags, formats |-> p.formats]

(* reset_global, assignment by assignment: the screen's size, the            *)
(* environment's personality and the globals of the options.  It leaves alone *)
(* what reset_parser and reset_sortformat reset, and the date format, the      *)
(* delimiter and the signal names (.kept), which nobody resets.               *)
reset_global_ListKept(o, name) ==
  LET p == set_personality(name)
  IN  [o EXCEPT !.screen = Screen, !.personality = p.flags, !.prefer_bsd_defaults = p.bsd, !.formats = p.formats,
                !.all_processes = FALSE, !.forest_type = None, !.format_flags = {}, !.format_modifiers = {},
                !.header_type = "SINGLE", !.negate_selection = FALSE, !.running_only = FALSE,
                !.simple_select = {}, !.thread_flags = {},
                !.misc = @ \ {"bsd_c_option", "bsd_e_option", "include_dead_children", "unix_f_option", "numbers"}]

reset_global(o, name) ==
  LET p == set_personality(name)
  IN  [o EXCEPT !.screen = Screen, !.personality = p.flags, !.prefer_bsd_defaults = p.bsd, !.formats = p.formats,
                !.all_processes = FALSE, !.forest_type = None, !.format_flags = {}, !.format_modifiers = {},
                !.header_type = "SINGLE", !.negate_selection = FALSE, !.running_only = FALSE,
                !.selection_list = <<>>, !.simple_select = {}, !.thread_flags = {},
                !.misc = @ \ {"bsd_c_option", "bsd_e_option", "include_dead_children", "unix_f_option", "numbers"}]

reset_parser(o) == [o EXCEPT !.w_count = 0]

reset_sortformat(o) == [o EXCEPT !.sf_list = <<>>, !.gnu_sort = FALSE]

(* The second chance: the resets, and then a BSD line is preferred.  The      *)
(* error of the first parse is forgotten.                                     *)
SecondChance(o, name) ==
  [reset_sortformat(reset_parser(reset_global(o, name))) EXCEPT
     !.err = FALSE, !.format_flags = {}, !.prefer_bsd_defaults = TRUE,
     !.personality = IF @ \cap {"OLD_m", "BSD_m"} = {} THEN @ \cup {"OLD_m"} ELSE @]

-----------------------------------------------------------------------------
(* Lists: the values of a text, or <<>> when one of them is wrong. *)

Failed(o) == [o EXCEPT !.err = TRUE]

ParseOne(fn, it, negate) ==
  CASE fn = "pid" -> IF it.num > 0 THEN <<it.num>> ELSE <<>>
    [] fn = "cmd" -> <<it.name>>
    [] fn = "uid" -> CASE it.num > 0 -> <<it.num>>
                       [] it.num = 0 /\ it.name \in DOMAIN UserId -> <<UserId[it.name]>>
                       [] OTHER -> IF negate THEN <<-1>> ELSE <<>>
    [] fn = "gid" -> CASE it.num > 0 -> <<it.num>>
                       [] it.num = 0 /\ it.name \in DOMAIN GroupId -> <<GroupId[it.name]>>
                       [] OTHER -> IF negate THEN <<-1>> ELSE <<>>
    [] fn = "tty" -> IF it.name \in DOMAIN TtyDev THEN <<TtyDev[it.name]>>
                     ELSE IF it.name = "?" THEN <<0>> ELSE <<>>

(* A new node in front of the lists; the values are stored last first.       *)
AddNode(o, typecode, u) == [o EXCEPT !.selection_list = <<[typecode |-> typecode, u |-> u]>> \o @]

parse_list(o, text, fn, typecode) ==
  LET u == FoldLeft(LAMBDA acc, it : ParseOne(fn, it, o.negate_selection) \o acc, <<>>, text.items)
  IN  IF text.items = <<>> \/ Len(u) # Len(text.items) THEN Failed(o) ELSE AddNode(o, typecode, u)

defer_sf_option(o, text, code) ==
  [o EXCEPT !.sf_list = Append(@, [text |-> text, code |-> IF code = "m" THEN "sort" ELSE code]),
            !.gnu_sort = @ \/ code = "sort"]

-----------------------------------------------------------------------------
(* One flag of a word.  Each operator gives the options after it, whether    *)
(* the word is finished with it, and how many further words it took.          *)

On(o, field, x) == [o EXCEPT ![field] = @ \cup {x}]

sysv_switch(o, c) ==
  CASE c \in {"A", "e"} -> [o EXCEPT !.all_processes = TRUE]
    [] c = "F" -> On(On(On(o, "format_modifiers", "F"), "format_flags", "Uf"), "misc", "unix_f_option")
    [] c = "H" -> [o EXCEPT !.forest_type = "u"]
    [] c = "L" -> On(o, "thread_flags", "U_L")
    [] c = "T" -> On(o, "thread_flags", "U_T")
    [] c = "m" -> On(o, "thread_flags", "U_m")
    [] c \in {"M", "Z"} -> On(o, "format_modifiers", "M")
    [] c \in {"P", "c", "y"} -> On(o, "format_modifiers", c)
    [] c = "N" -> [o EXCEPT !.negate_selection = TRUE]
    [] c = "a" -> On(o, "simple_select", "U_a")
    [] c = "d" -> On(o, "simple_select", "U_d")
    [] c = "f" -> On(On(o, "format_flags", "Uf"), "misc", "unix_f_option")
    [] c = "j" -> IF o.formats.sysv_j # None THEN On(o, "format_flags", "Uj") ELSE On(o, "format_modifiers", "j")
    [] c = "l" -> On(o, "format_flags", "Ul")
    [] c = "w" -> [o EXCEPT !.w_count = @ + 1]
    [] c = "x" -> CASE "SVR4_x" \in o.personality -> On(o, "format_modifiers", "y")
                    [] "HPUX_x" \in o.personality -> On([o EXCEPT !.w_count = @ + 2], "misc", "unix_f_option")
                    [] OTHER -> Failed(o)
    [] OTHER -> Failed(o)

(* The lists of SysV options: what is parsed and the type of the list. *)
SysvLists ==
  [C |-> <<"cmd", "COMM">>, G |-> <<"gid", "RGID">>, U |-> <<"uid", "RUID">>, p |-> <<"pid", "PID_TRY_QUICK">>,
   q |-> <<"pid", "PID_QUICK">>, s |-> <<"pid", "SESS">>, t |-> <<"tty", "TTY">>, u |-> <<"uid", "EUID">>]

SysvDeferred == [O |-> "U_O", o |-> "o"]

bsd_switch(o, c) ==
  CASE c = "H" -> On(o, "thread_flags", "B_H")
    [] c = "M" -> On(o, "thread_flags", "B_m")
    [] c = "S" -> On(o, "misc", "include_dead_children")
    [] c = "T" -> AddNode(o, "TTY", <<cached_tty>>)
    [] c = "X" -> On(o, "format_flags", "LX")
    [] c = "Z" -> On(o, "format_modifiers", "M")
    [] c = "a" -> On(o, "simple_select", "B_a")
    [] c = "g" -> On(o, "simple_select", "B_g")
    [] c = "x" -> On(o, "simple_select", "B_x")
    [] c = "c" -> On(o, "misc", "bsd_c_option")
    [] c = "e" -> On(o, "misc", "bsd_e_option")
    [] c = "f" -> [o EXCEPT !.forest_type = "b"]
    [] c = "h" -> IF o.header_type # "SINGLE" THEN Failed(o)
                  ELSE [o EXCEPT !.header_type = IF "BSD_h" \in o.personality THEN "MULTI" ELSE "NONE"]
    [] c \in {"j", "l", "s", "u", "v"} ->
         On(o, "format_flags", [j |-> "Bj", l |-> "Bl", s |-> "Bs", u |-> "Bu", v |-> "Bv"][c])
    [] c = "m" -> CASE "OLD_m" \in o.personality -> On(o, "format_flags", "Lm")
                    [] "BSD_m" \in o.personality /\ "OLD_m" \notin o.personality ->
                         defer_sf_option(o, [NoText EXCEPT !.items = <<[Garbage.items[1] EXCEPT !.name = "pmem"]>>], "m")
                    [] OTHER -> On(o, "thread_flags", "B_m")
    [] c = "n" -> On(o, "misc", "numbers")
    [] c = "r" -> [o EXCEPT !.running_only = TRUE]
    [] c = "w" -> [o EXCEPT !.w_count = @ + 1]
    [] OTHER -> Failed(o)

BsdLists == [U |-> <<"uid", "EUID">>, p |-> <<"pid", "PID_TRY_QUICK">>, q |-> <<"pid", "PID_QUICK">>]

BsdDeferred == [O |-> "B_O", k |-> "sort", o |-> "o"]

Digits == {"0", "1", "2", "3", "4", "5", "6", "7", "8", "9"}

(* get_opt_arg: the text attached to flag i of w, or the next word. *)
get_opt_arg(w, i, more) ==
  CASE i < Len(w.flags)                 -> [has |-> TRUE, took |-> 0, text |-> IF w.at = i THEN w.tail ELSE Garbage]
    [] i = Len(w.flags) /\ more # <<>>  -> [has |-> TRUE, took |-> 1, text |-> more[1].text]
    [] OTHER                            -> [has |-> FALSE, took |-> 0, text |-> NoText]

Step(o, end, took) == [o |-> o, end |-> end \/ o.err \/ o.exit # None, took |-> took]

Exclusive(o, what, alone) == Step(IF alone THEN [o EXCEPT !.exit = what] ELSE Failed(o), TRUE, 0)

(* A flag with a list: -g tries process numbers and then groups. *)
TakeList(o, a, c, lists) ==
  LET s == parse_list(o, a.text, "pid", "SESS")
  IN  CASE ~a.has   -> Step(Failed(o), TRUE, 0)
        [] a.has /\ c = "g" -> Step(IF s.err THEN parse_list(o, a.text, "gid", "EGID") ELSE s, TRUE, a.took)
        [] OTHER    -> Step(parse_list(o, a.text, lists[c][1], lists[c][2]), TRUE, a.took)

TakeDeferred(o, a, code) ==
  IF a.has THEN Step(defer_sf_option(o, a.text, code), TRUE, a.took) ELSE Step(Failed(o), TRUE, 0)

(* -D keeps going through the flags after it, even if they are its argument. *)
sysv_flag(o, w, i, more, alone) ==
  LET c == w.flags[i]
      a == get_opt_arg(w, i, more)
  IN  CASE c \in DOMAIN SysvLists \cup {"g"} -> TakeList(o, a, c, SysvLists)
        [] c \in DOMAIN SysvDeferred -> TakeDeferred(o, a, SysvDeferred[c])
        [] c = "D" -> IF a.has THEN Step(On(o, "kept", "lstart_format"), FALSE, a.took) ELSE Step(Failed(o), TRUE, 0)
        [] c = "V" -> Exclusive(o, "version", alone)
        [] OTHER -> Step(sysv_switch(o, c), FALSE, 0)

bsd_flag(o, w, i, more, alone) ==
  LET c == w.flags[i]
      a == get_opt_arg(w, i, more)
  IN  CASE c \in Digits -> Step(parse_list(o, IF w.at = i - 1 THEN w.tail ELSE Garbage, "pid", "PID"), TRUE, 0)
        [] c \in DOMAIN BsdLists -> TakeList(o, a, c, BsdLists)
        [] c \in DOMAIN BsdDeferred -> TakeDeferred(o, a, BsdDeferred[c])
        [] c = "t" -> IF a.has THEN Step(parse_list(o, a.text, "tty", "TTY"), TRUE, a.took)
                      ELSE Step(AddNode(o, "TTY", <<cached_tty>>), TRUE, 0)
        [] c = "L" -> Exclusive(o, "specifiers", alone)
        [] c = "V" -> Exclusive(o, "version", alone)
        [] OTHER -> Step(bsd_switch(o, c), FALSE, 0)

Flags(o, w, more, alone, flag(_, _, _, _, _)) ==
  FoldLeft(LAMBDA st, i : IF st.end THEN st
                          ELSE LET n == flag(st.o, w, i, more, alone)
                               IN  [n EXCEPT !.took = @ + st.took],
           Step(o, FALSE, 0), [i \in 1..Len(w.flags) |-> i])

parse_sysv_option(o, w, more, alone) == Flags(o, w, more, alone, sysv_flag)

parse_bsd_option(o, w, more, alone) == Flags(o, w, more, alone, bsd_flag)

-----------------------------------------------------------------------------
(* GNU long options. *)

GnuLists ==
  ("Group" :> <<"gid", "RGID">>) @@ ("User" :> <<"uid", "RUID">>) @@ ("group" :> <<"gid", "EGID">>) @@
  ("pid" :> <<"pid", "PID_TRY_QUICK">>) @@ ("quick-pid" :> <<"pid", "PID_QUICK">>) @@
  ("ppid" :> <<"pid", "PPID">>) @@ ("sid" :> <<"pid", "SESS">>) @@ ("tty" :> <<"tty", "TTY">>) @@
  ("user" :> <<"uid", "EUID">>)

GnuDeferred == [format |-> "o", sort |-> "sort"]

Heading(o, type) == IF o.header_type # "SINGLE" THEN Failed(o) ELSE [o EXCEPT !.header_type = type]

GnuSizes == [cols |-> "cols", columns |-> "cols", width |-> "cols", rows |-> "rows", lines |-> "rows"]

GnuNone == {"cumulative", "deselect", "no-headers", "headers", "forest"}

gnu_switch(o, n) ==
  CASE n = "cumulative" -> On(o, "misc", "include_dead_children")
    [] n = "deselect"   -> [o EXCEPT !.negate_selection = TRUE]
    [] n = "no-headers" -> Heading(o, "NONE")
    [] n = "headers"    -> Heading(o, "MULTI")
    [] n = "forest"     -> [o EXCEPT !.forest_type = "g"]
    [] n = "signames"   -> On(o, "kept", "signal_names")
    [] n = "context"    -> On(o, "format_flags", "Fc")
    [] OTHER            -> Failed(o)

parse_gnu_option(o, w, more, alone) ==
  LET n == w.flags[1]
      a == CASE w.at = 1                 -> [has |-> TRUE, took |-> 0, text |-> w.tail]
             [] w.at = 0 /\ more # <<>>  -> [has |-> TRUE, took |-> 1, text |-> more[1].text]
             [] OTHER                    -> [has |-> FALSE, took |-> 0, text |-> NoText]
      num == IF a.has /\ a.text.items # <<>> THEN a.text.items[1].num ELSE 0
  IN  CASE n \in DOMAIN GnuLists -> TakeList(o, a, n, GnuLists)
        [] n \in DOMAIN GnuDeferred -> TakeDeferred(o, a, GnuDeferred[n])
        [] n \in DOMAIN GnuSizes -> Step(IF num > 0 THEN [o EXCEPT !.screen[GnuSizes[n]] = num] ELSE Failed(o),
                                         TRUE, a.took)
        [] n \in {"date-format", "delimiter"} ->
             Step(IF a.has /\ (n = "delimiter" => Len(a.text.letters) = 1) THEN On(o, "kept", n) ELSE Failed(o),
                  TRUE, a.took)
        [] n \in {"version", "info"} -> Exclusive(o, n, alone)
        [] n = "help" -> Step([o EXCEPT !.exit = "help"], TRUE, 0)
        [] OTHER -> Step(IF n \in GnuNone /\ w.at = 1 THEN Failed(o) ELSE gnu_switch(o, n), TRUE, 0)

(* All the words that are left are process, group (-n) and session (+n)      *)
(* numbers, one node for each kind that occurs.                               *)
parse_trailing_pids(o, words) ==
  LET Kind(w) == IF w.type \in {"PID", "PGRP", "SESS"} /\ w.text.items[1].num > 0 THEN w.type ELSE None
      Nums(type) == LET ws == SelectSeq(words, LAMBDA w : w.type = type)
                    IN  [i \in 1..Len(ws) |-> ws[i].text.items[1].num]
      Add(q, type) == IF Nums(type) = <<>> THEN q ELSE AddNode(q, type, Nums(type))
  IN  IF \E i \in 1..Len(words) : Kind(words[i]) = None THEN Failed(o)
      ELSE Add(Add(Add(o, "PID"), "PGRP"), "SESS")

-----------------------------------------------------------------------------
(* After the words. *)

thread_option_check(o) ==
  LET f == o.thread_flags
      m == f \cap {"B_m", "U_m"} # {}
      LT == f \cap {"U_L", "U_T"} # {}
      styled == (IF "B_H" \in f THEN {"show_proc", "loose_tasks"} ELSE {}) \cup
                (IF m THEN {"show_proc", "show_task", "show_both"} ELSE {}) \cup
                (IF LT THEN (IF m \/ "B_H" \in f THEN {"must_use"} ELSE {"show_task"}) ELSE {})
  IN  CASE f = {} -> [o EXCEPT !.thread_flags = {"show_proc"}]
        [] f # {} /\ (\/ o.forest_type # None
                      \/ "B_H" \in f /\ m
                      \/ {"B_m", "U_m"} \subseteq f
                      \/ {"U_L", "U_T"} \subseteq f) -> Failed(o)
        [] OTHER -> [o EXCEPT !.thread_flags = f \cup styled]

choose_dimensions(o, OUTBUF_SIZE) ==
  LET wide == IF o.w_count > 0 /\ o.screen.cols < 132 THEN 132 ELSE o.screen.cols
  IN  [o EXCEPT !.screen.cols = IF o.w_count > 1 THEN OUTBUF_SIZE ELSE wide]

=============================================================================
