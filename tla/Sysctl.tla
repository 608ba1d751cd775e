------------------------------- MODULE Sysctl -------------------------------
(***************************************************************************)
(* The sysctl program (src/sysctl.c): one invocation, from its options to  *)
(* its exit status, against a tree of kernel parameters and the            *)
(* configuration files of the machine.                                     *)
(*                                                                         *)
(* A key is a sequence of words and of the separators "." and "/"; the     *)
(* word "*" is a glob.  A path is such a sequence below /proc/sys.  A      *)
(* configuration line is a record; file names are numbers, in the order    *)
(* that strcmp gives them.  Parameters may vanish at any time (a network   *)
(* interface that is removed).                                             *)
(***************************************************************************)
EXTENDS Integers, Sequences, SequencesExt, FiniteSetsExt

CONSTANTS Trees,        \* the parameter trees: paths -> parameters
          FileSets,     \* the configuration files: directory, name -> lines
          Invocations,  \* the options and the arguments
          MaxVanish     \* bound: parameters that vanish

Seps == {".", "/"}
NULL == "(null)"        \* what printf makes of a missing value
Words == STRING \cup Seps \cup {NULL}
DEPRECATED == {"base_reachable_time", "retrans_time"}
VERBOTEN == {"stat_refresh"}

\* What the kernel's tree is like: the first separator of a path is a slash, as
\* no directory of /proc/sys itself has a dot in its name, every path below
\* /proc/sys has its directories in the tree, and files only are ever deprecated.
Rooted(p) == \A i \in 1..Len(p) : p[i] = "." => \E j \in 1..(i - 1) : p[j] = "/"
Parameters == [dir : BOOLEAN, r : BOOLEAN, w : BOOLEAN, opens : BOOLEAN, takes : BOOLEAN,
               value : Words, was : Words]
Placed(t, p) ==
  /\ p \in Seq(Words) /\ p # <<>> /\ Rooted(p) /\ t[p] \in Parameters
  /\ p[1] # ".." =>
       /\ p[1] # "/" /\ p[Len(p)] # "/"
       /\ \A i \in 2..Len(p) : p[i] = "/" =>
            /\ p[i - 1] \notin DEPRECATED \cup VERBOTEN \cup {"/"}
            /\ SubSeq(p, 1, i - 1) \in DOMAIN t /\ t[SubSeq(p, 1, i - 1)].dir
Tree(t) == IsFiniteSet(DOMAIN t) /\ \A p \in DOMAIN t : Placed(t, p)

\* A line of a file or an argument.
Lines == [comment : BOOLEAN, minus : BOOLEAN, key : Seq(Words) \ {<<>>}, eq : BOOLEAN,
          value : Words]
Options == {"all", "load", "system", "write", "DryRun", "Quiet", "NameOnly", "IgnoreError",
            "IgnoreDeprecated"}

ASSUME SysctlAssumption ==
  /\ MaxVanish \in Nat
  /\ \A t \in Trees : Tree(t) /\ \A p \in DOMAIN t : t[p].value = t[p].was
  /\ \A f \in FileSets : /\ IsFiniteSet(DOMAIN f) /\ DOMAIN f \subseteq Nat \X Nat
                         /\ \A n \in DOMAIN f : f[n] \in Seq(Lines)
  /\ \A i \in Invocations : /\ \A o \in Options : i[o] \in BOOLEAN
                            /\ i.args \in IF i.load THEN Seq(Nat) ELSE Seq(Lines)

VARIABLES opt,          \* the option variables and the arguments left
          tree,         \* /proc/sys
          files,        \* the configuration files
          setlist,      \* SettingList
          stage,        \* where main is
          todo,         \* the work of the stage that is left
          walk,         \* DisplayAll: entries to visit, and whether they count
          cfgs,         \* PreloadSystem: the files found so far
          input,        \* Preload: the lines of the open file that are left
          shown,        \* what was printed: name, path and value
          rc,           \* ReturnCode
          dir_rc,       \* the status of the DisplayAll under way
          vanished      \* paths that are gone

svars == <<opt, tree, files, setlist, stage, todo, walk, cfgs, input, shown, rc, dir_rc, vanished>>

FAILURE == 1
DirOrder == 1..5        \* the directories of PreloadSystem, and
SYSCONF == 6            \* /etc/sysctl.conf, DEFAULT_PRELOAD

Or(a, b) == IF a = 0 THEN b ELSE a
------------------------------------------------------------------------------

\* slashdot: nothing to do when the first separator is the wanted one already.
slashdot(key, new) ==
  LET at == {i \in DOMAIN key : key[i] \in Seps}
      old == CHOOSE c \in Seps : c # new
  IN IF at = {} \/ key[Min(at)] = new THEN key
     ELSE [i \in DOMAIN key |-> IF key[i] \in Seps THEN (IF key[i] = old THEN new ELSE old)
                                ELSE key[i]]

string_is_glob(path) == "*" \in ToSet(path)

\* fnmatch lets the glob stand for separators too, glob() does not.
fnmatch(pat, path) ==
  IF ~string_is_glob(pat) THEN pat = path
  ELSE LET star == CHOOSE i \in DOMAIN pat : pat[i] = "*"
           pre == SubSeq(pat, 1, star - 1)
           post == SubSeq(pat, star + 1, Len(pat))
       IN /\ Len(path) > Len(pre) + Len(post)
          /\ IsPrefix(pre, path) /\ IsSuffix(post, path)

Depth(path) == Len(SelectSeq(path, LAMBDA c : c = "/"))
glob(pat) == {p \in DOMAIN tree : fnmatch(pat, p) /\ Depth(p) = Depth(pat)}

\* A regular expression of one word.
pattern_match(key, pat) == pat \in ToSet(key)

setting_new(line) ==
  [path |-> slashdot(line.key, "/"), value |-> IF line.eq THEN line.value ELSE NULL,
   ignore_failure |-> line.eq /\ line.minus, glob_exclude |-> ~line.eq]

Settings == [path : Seq(Words), value : Words, ignore_failure : BOOLEAN, glob_exclude : BOOLEAN]

\* parse_setting_line: the settings a line gives, none or one.
parse_setting_line(line) ==
  IF \/ line.comment
     \/ opt.pattern # "" /\ ~pattern_match(line.key, opt.pattern)
     \/ ~line.eq /\ ~line.minus
  THEN <<>>
  ELSE <<setting_new(line)>>

\* The first entry whose path it is, or an exclusion that covers it.
settinglist_findpath(path) ==
  \E i \in DOMAIN setlist :
     \/ setlist[i].path = path
     \/ setlist[i].glob_exclude /\ fnmatch(setlist[i].path, path)

\* One expansion of write_setting_list: the paths a setting is written to.
write_targets(s) ==
  IF s.glob_exclude THEN {}
  ELSE IF string_is_glob(s.path) THEN {p \in glob(s.path) : ~settinglist_findpath(p)}
  ELSE {s.path}

------------------------------------------------------------------------------
\* What readdir gives of a directory (with its "/") and DisplayAll keeps; files
\* of the directory count for its status, those of one below it do not.
Listed(dir, counts) ==
  {<<p, counts>> : p \in {q \in DOMAIN tree :
     LET name == SubSeq(q, Len(dir) + 1, Len(q))
     IN /\ IsStrictPrefix(dir, q) /\ "/" \notin ToSet(name) /\ q[1] # ".."
        /\ opt.IgnoreDeprecated => Last(name) \notin DEPRECATED
        /\ Last(name) \notin VERBOTEN}}
------------------------------------------------------------------------------
SInit == /\ opt \in Invocations /\ tree \in Trees /\ files \in FileSets
         /\ setlist = <<>> /\ stage = "main" /\ todo = <<>> /\ walk = {} /\ cfgs = <<>> /\ input = <<>>
         /\ shown = {} /\ rc = 0 /\ dir_rc = 0 /\ vanished = {}

Go(next, work) == stage' = next /\ todo' = work

\* main, after the options.
main ==
  /\ stage = "main"
  /\ walk' = IF opt.all THEN Listed(<<>>, TRUE) ELSE {}
  /\ CASE opt.all -> Go("show", <<>>)
       [] ~opt.all /\ opt.load -> Go("load", IF opt.args = <<>> THEN <<SYSCONF>> ELSE opt.args)
       [] ~opt.all /\ ~opt.load /\ opt.system -> Go("dirs", [d \in DirOrder |-> d])
       [] OTHER -> Go("args", opt.args)
  /\ dir_rc' = 0
  /\ UNCHANGED <<opt, tree, files, setlist, cfgs, input, shown, rc, vanished>>

\* PreloadSystem: the next directory; a name that is known already is left out.
LaterDirWins(dir) ==
  SelectSeq(cfgs, LAMBDA c : <<dir, c[2]>> \notin DOMAIN files)
  \o SetToSeq({<<dir, n>> : n \in {f[2] : f \in {g \in DOMAIN files : g[1] = dir}}})

KnownFirst(dir) ==
  cfgs \o SetToSeq({f \in DOMAIN files : /\ f[1] = dir
                                         /\ \A i \in DOMAIN cfgs : cfgs[i][2] # f[2]})

PreloadSystem ==
  /\ stage = "dirs"
  /\ todo # <<>>
  /\ cfgs' = KnownFirst(todo[1])
  /\ todo' = Tail(todo)
  /\ UNCHANGED <<walk, opt, tree, files, setlist, stage, input, shown, rc, dir_rc, vanished>>

\* The numbers of S from the least on.
Rising(S) ==
  CHOOSE s \in [1..Cardinality(S) -> S] : \A i, j \in DOMAIN s : i < j => s[i] < s[j]

\* Files in the order of their names, no two of which are the same.
ByName(pairs) ==
  LET names == Rising({f[2] : f \in pairs})
  IN [k \in DOMAIN names |-> CHOOSE f \in pairs : f[2] = names[k]]

\* Its qsort by name, and /etc/sysctl.conf after all of them.
sortpairs ==
  /\ stage = "dirs"
  /\ todo = <<>>
  /\ Go("load", ByName(ToSet(cfgs))
                \o IF <<SYSCONF, 0>> \in DOMAIN files THEN <<<<SYSCONF, 0>>>> ELSE <<>>)
  /\ UNCHANGED <<walk, opt, tree, files, setlist, cfgs, input, shown, rc, dir_rc, vanished>>

\* Preload of the next file.  The files of -p are named, those of --system
\* are pairs of directory and name.
FileOf(f) == IF opt.load THEN <<f, 0>> ELSE f
Preload ==
  /\ stage = "load"
  /\ input = <<>>
  /\ todo # <<>>
  /\ LET f == FileOf(todo[1])
     IN IF f \in DOMAIN files THEN input' = files[f] /\ rc' = rc
        ELSE input' = <<>> /\ rc' = Or(rc, FAILURE)
  /\ todo' = Tail(todo)
  /\ UNCHANGED <<walk, opt, tree, files, setlist, stage, cfgs, shown, dir_rc, vanished>>

\* Its loop over the lines.
PreloadLine ==
  /\ stage = "load"
  /\ input # <<>>
  /\ setlist' = setlist \o parse_setting_line(input[1])
  /\ input' = Tail(input)
  /\ UNCHANGED <<walk, opt, tree, files, stage, todo, cfgs, shown, rc, dir_rc, vanished>>

\* write_setting_list starts: the settings in the order they were read.
Loaded ==
  /\ stage = "load"
  /\ input = <<>>
  /\ todo = <<>>
  /\ Go("write", [i \in DOMAIN setlist |-> i])
  /\ UNCHANGED <<walk, opt, tree, files, setlist, cfgs, input, shown, rc, dir_rc, vanished>>

------------------------------------------------------------------------------
\* What stat, the checks and fprocopen of WriteSetting come to.  A parameter
\* may vanish between stat and the open.
WriteOutcomes(path) ==
  IF path \notin DOMAIN tree THEN {"nostat"}
  ELSE IF path[1] = ".." THEN {"outside"}
  ELSE IF ~tree[path].w THEN {"EPERM"}
  ELSE IF tree[path].dir THEN {"EISDIR"}
  ELSE IF opt.DryRun THEN {"dry"}
  ELSE (IF ~tree[path].opens THEN {"EACCES"} ELSE IF tree[path].takes THEN {"ok"} ELSE {"refused"})
       \cup (IF Cardinality(vanished) < MaxVanish THEN {"ENOENT"} ELSE {})

WriteStatus(s, how) ==
  CASE how \in {"ok", "dry"} -> 0
    [] how = "nostat" -> IF opt.IgnoreError THEN 0 ELSE FAILURE
    [] how = "ENOENT" -> IF opt.IgnoreError \/ s.ignore_failure THEN 0 ELSE FAILURE
    [] how = "EACCES" -> IF s.ignore_failure THEN 0 ELSE FAILURE
    [] OTHER -> FAILURE

WriteEffect(path, s, how) ==
  CASE how = "ok" -> tree' = [tree EXCEPT ![path].value = s.value] /\ UNCHANGED vanished
    [] how = "ENOENT" -> /\ tree' = [p \in DOMAIN tree \ {path} |-> tree[p]]
                         /\ vanished' = vanished \cup {path}
    [] OTHER -> UNCHANGED <<tree, vanished>>

WriteSetting(path, s) ==
  \E how \in WriteOutcomes(path) :
     /\ WriteEffect(path, s, how)
     /\ rc' = Or(rc, WriteStatus(s, how))
     /\ shown' = shown \cup
          IF \/ how = "dry"
             \/ WriteStatus(s, how) = 0 /\ how # "nostat" /\ ~opt.Quiet
          THEN {[name |-> slashdot(path, "."), path |-> path, value |-> s.value]}
          ELSE {}

\* The next setting; a glob is expanded when its turn comes, and its paths
\* are written one after the other.
write_setting_list ==
  /\ stage = "write"
  /\ todo # <<>>
  /\ cfgs' = SetToSeq(write_targets(setlist[todo[1]]))
  /\ Go("expand", todo)
  /\ UNCHANGED <<walk, opt, tree, files, setlist, input, shown, rc, dir_rc, vanished>>

WriteNext ==
  /\ stage = "expand"
  /\ cfgs # <<>>
  /\ WriteSetting(cfgs[1], setlist[todo[1]])
  /\ cfgs' = Tail(cfgs)
  /\ UNCHANGED <<walk, opt, files, setlist, stage, todo, input, dir_rc>>

WroteAll ==
  /\ stage = "expand"
  /\ cfgs = <<>>
  /\ Go("write", Tail(todo))
  /\ UNCHANGED <<walk, opt, tree, files, setlist, cfgs, input, shown, rc, dir_rc, vanished>>

\* After --system the arguments that follow are handled as usual.
Written ==
  /\ stage = "write"
  /\ todo = <<>>
  /\ IF opt.load \/ opt.args = <<>> THEN Go("done", <<>>) ELSE Go("args", opt.args)
  /\ UNCHANGED <<walk, opt, tree, files, setlist, cfgs, input, shown, rc, dir_rc, vanished>>

------------------------------------------------------------------------------
\* ReadSetting of a parameter: name is how it was spelled.
ReadOutcomes(path) ==
  IF path \notin DOMAIN tree THEN {"nostat"}
  ELSE IF ~tree[path].r THEN {"skip"}
  ELSE IF path[1] = ".." THEN {"outside"}
  ELSE IF tree[path].dir THEN {"dir"}
  ELSE IF opt.pattern # "" /\ ~pattern_match(path, opt.pattern) THEN {"skip"}
  ELSE IF opt.NameOnly \/ tree[path].opens THEN {"ok"}
  ELSE {"EACCES"}

ReadStatus(how) ==
  CASE how = "nostat" -> IF opt.IgnoreError THEN 0 ELSE FAILURE
    [] how = "outside" -> -1
    [] how = "EACCES" -> FAILURE
    [] OTHER -> 0

Printed(name, path, how) ==
  IF how = "ok" THEN {[name |-> slashdot(name, "."), path |-> path, value |-> tree[path].value]}
  ELSE {}

\* A failing variable that hides the failure of an earlier one.
SumOfLast(status) == status
SumOf(status) == rc + status

\* The next argument of main: a setting (-w, or with '=') or a name.
Argument ==
  /\ stage = "args"
  /\ todo # <<>>
  /\ LET a == todo[1]
     IN IF opt.write \/ a.eq
        THEN /\ IF parse_setting_line(a) = <<>>
                THEN rc' = Or(rc, FAILURE) /\ UNCHANGED <<tree, shown, vanished>>
                ELSE \E s \in {parse_setting_line(a)[1]} : WriteSetting(s.path, s)
             /\ Go("args", Tail(todo))
             /\ UNCHANGED <<dir_rc, walk>>
        ELSE LET path == slashdot(a.key, "/")
             IN \E how \in ReadOutcomes(path) :
                  /\ shown' = shown \cup Printed(a.key, path, how)
                  /\ IF how = "dir"
                     THEN /\ Go("show", Tail(todo)) /\ dir_rc' = 0
                          /\ walk' = Listed(Append(path, "/"), TRUE) /\ UNCHANGED rc
                     ELSE /\ Go("args", Tail(todo)) /\ rc' = SumOf(ReadStatus(how))
                          /\ UNCHANGED <<dir_rc, walk>>
                  /\ UNCHANGED <<tree, vanished>>
  /\ UNCHANGED <<opt, files, setlist, cfgs, input>>

\* The next entry of DisplayAll: a directory is walked in its place.
WalkInto(e) == Listed(Append(e[1], "/"), FALSE)
WalkStep(e) == (walk \ {e}) \cup IF tree[e[1]].dir THEN WalkInto(e) ELSE {}

DisplayAll ==
  /\ stage = "show"
  /\ \E e \in walk :
       IF e[1] \notin DOMAIN tree
       THEN walk' = walk \ {e} /\ UNCHANGED <<shown, dir_rc>>
       ELSE \E how \in (IF tree[e[1]].dir THEN {"dir"} ELSE ReadOutcomes(e[1])) :
              /\ walk' = WalkStep(e)
              /\ shown' = shown \cup Printed(e[1], e[1], how)
              /\ dir_rc' = IF e[2] THEN Or(dir_rc, ReadStatus(how)) ELSE dir_rc
  /\ UNCHANGED <<opt, tree, files, setlist, stage, todo, cfgs, input, rc, vanished>>

Displayed ==
  /\ stage = "show"
  /\ walk = {}
  /\ rc' = SumOf(dir_rc)
  /\ IF opt.all THEN Go("done", <<>>) ELSE Go("args", todo)
  /\ UNCHANGED <<opt, tree, files, setlist, walk, cfgs, input, shown, dir_rc, vanished>>

Arguments ==
  /\ stage = "args"
  /\ todo = <<>>
  /\ Go("done", <<>>)
  /\ UNCHANGED <<opt, tree, files, setlist, walk, cfgs, input, shown, rc, dir_rc, vanished>>

\* A parameter is removed by the kernel.
Vanish ==
  /\ Cardinality(vanished) < MaxVanish
  /\ stage \in {"show", "expand"}
  /\ \E p \in {q \in DOMAIN tree : ~tree[q].dir} :
       /\ vanished' = vanished \cup {p}
       /\ tree' = [q \in DOMAIN tree \ {p} |-> tree[q]]
  /\ UNCHANGED <<opt, files, setlist, stage, todo, walk, cfgs, input, shown, rc, dir_rc>>

SNext == \/ main \/ PreloadSystem \/ sortpairs \/ Preload \/ PreloadLine \/ Loaded
         \/ write_setting_list \/ WriteNext \/ WroteAll \/ Written
         \/ Argument \/ Arguments \/ DisplayAll \/ Displayed \/ Vanish

SSpec == SInit /\ [][SNext]_svars
------------------------------------------------------------------------------
Done == stage = "done"

\* The lines that the precedence of sysctl(8) makes count: of each name the
\* file of the first directory that has it, in the order of the names, and
\* /etc/sysctl.conf last.
TextsInForce ==
  IF opt.load
  THEN LET named == IF opt.args = <<>> THEN <<SYSCONF>> ELSE opt.args
       IN [i \in DOMAIN named |-> IF <<named[i], 0>> \in DOMAIN files
                                  THEN files[<<named[i], 0>>] ELSE <<>>]
  ELSE LET names == Rising({f[2] : f \in {g \in DOMAIN files : g[1] \in DirOrder}})
           first(n) == Min({d \in DirOrder : <<d, n>> \in DOMAIN files})
       IN [k \in DOMAIN names |-> files[<<first(names[k]), names[k]>>]]
          \o IF <<SYSCONF, 0>> \in DOMAIN files THEN <<files[<<SYSCONF, 0>>]>> ELSE <<>>
LinesInForce == FlattenSeq(TextsInForce)

\* The place of the line that decides p, 0 for none: the last one for p
\* itself, and failing that the last glob unless p is excluded.
Decides(p, lines) ==
  LET path(i) == slashdot(lines[i].key, "/")
      says(i) == ~lines[i].comment /\ (lines[i].eq \/ lines[i].minus)
                 /\ (opt.pattern = "" \/ pattern_match(lines[i].key, opt.pattern))
      own == {i \in DOMAIN lines : says(i) /\ lines[i].eq /\ path(i) = p}
      out == {i \in DOMAIN lines : says(i) /\ ~lines[i].eq /\ fnmatch(path(i), p)}
      by == {i \in DOMAIN lines : says(i) /\ lines[i].eq /\ p \in glob(path(i))}
  IN CASE own # {} -> Max(own)
       [] own = {} /\ out = {} /\ by # {} -> Max(by)
       [] OTHER -> 0

STypeOK ==
  /\ stage \in {"main", "dirs", "load", "write", "expand", "args", "show", "done"}
  /\ Tree(tree) /\ setlist \in Seq(Settings) /\ input \in Seq(Lines)
  /\ rc \in Int /\ dir_rc \in {0, FAILURE}
  /\ \A x \in shown : DOMAIN x = {"name", "path", "value"}
  /\ vanished \cap DOMAIN tree = {}

\* A load that ends with status 0 left every parameter with the value of the
\* line that decides it (a later line for the same parameter wins, an own
\* line beats a glob wherever it stands, an exclusion stops globs only), and
\* the others as they were.  Only a line that starts with "-" may have failed.
\* A name with a star in it is always taken for a glob.
Applied ==
  (Done /\ rc = 0 /\ ~opt.all /\ (opt.load \/ opt.system) /\ ~opt.DryRun
        /\ (opt.system => opt.args = <<>>)) =>
  \A p \in {q \in DOMAIN tree : ~tree[q].dir /\ ~string_is_glob(q)} :
     LET i == Decides(p, LinesInForce)
     IN \/ tree[p].value = IF i = 0 THEN tree[p].was ELSE LinesInForce[i].value
        \/ i # 0 /\ LinesInForce[i].minus /\ ~tree[p].opens

\* When the list was gone through without a failure, every parameter that is
\* still there has the value of the last setting that is written to it, or as
\* it was without one; only a setting that may fail was not taken.
Writes(i, p) == i \in DOMAIN setlist /\ p \in write_targets(setlist[i])
ListApplied ==
  (stage = "write" /\ todo = <<>> /\ rc = 0 /\ ~opt.DryRun) =>
  \A p \in DOMAIN tree :
     \/ tree[p].value = tree[p].was /\ \A i \in DOMAIN setlist : ~Writes(i, p)
     \/ \E i \in DOMAIN setlist :
          /\ Writes(i, p) /\ \A j \in DOMAIN setlist : Writes(j, p) => j <= i
          /\ tree[p].value = setlist[i].value \/ (setlist[i].ignore_failure /\ ~tree[p].opens)

\* --dry-run and reading never change a parameter, whatever else was asked.
DryIsDry ==
  (opt.DryRun \/ opt.all) => \A p \in DOMAIN tree : tree[p].value = tree[p].was

\* The name that is printed for a parameter, given back to sysctl, names the
\* same parameter, also when a word of it has a separator inside.
NamesRead == \A x \in shown : slashdot(x.name, "/") = x.path

\* Names on the command line: status 0 means that each of them was shown, or
\* may not be read by anybody, was a directory, or has been removed.  A name
\* that leads out of /proc/sys counts -1, which hides the failure of another.
NoneOutside == \A i \in DOMAIN opt.args : slashdot(opt.args[i].key, "/")[1] # ".."
Told(a) ==
  LET p == slashdot(a.key, "/")
  IN \/ opt.write \/ a.eq
     \/ p \in vanished
     \/ \E x \in shown : x.path = p
     \/ p \in DOMAIN tree /\ (tree[p].dir \/ ~tree[p].r)
ReadOrTold ==
  (Done /\ rc = 0 /\ ~opt.all /\ ~opt.load /\ ~opt.IgnoreError /\ opt.pattern = "" /\ NoneOutside)
  => \A i \in DOMAIN opt.args : Told(opt.args[i])

\* -a shows every parameter that is there, can be read and is not left out
\* for being deprecated or verboten, at any depth.
LeftOut(p) ==
  \/ tree[p].dir \/ ~tree[p].r \/ ~tree[p].opens \/ p[1] = ".."
  \/ Last(p) \in VERBOTEN \/ (Last(p) \in DEPRECATED /\ opt.IgnoreDeprecated)
AllListed ==
  (Done /\ opt.all /\ opt.pattern = "") =>
  \A p \in DOMAIN tree : LeftOut(p) \/ \E x \in shown : x.path = p

\* sysctl leaves every parameter with the value of the line that decides it, and
\* without a write asked for as it was (write_setting_list).
WritesRight == STypeOK /\ Applied /\ ListApplied /\ DryIsDry

\* sysctl shows what is there under names that read back, and its status tells
\* what could not be shown (ReadSetting, DisplayAll).
ShowsRight == NamesRead /\ ReadOrTold /\ AllListed
=============================================================================
