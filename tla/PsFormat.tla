------------------------------ MODULE PsFormat ------------------------------
(***************************************************************************)
(* The columns and the sort keys of ps, from sortformat.c: format and sort   *)
(* specifications are deferred while the options are parsed and worked out   *)
(* here, the predefined formats are built from macros or backwards by        *)
(* generate_sysv_list, and the output modifiers then insert and delete       *)
(* columns by their headings.                                                *)
(*                                                                           *)
(* A text is what a user wrote as one option argument, in the three ways     *)
(* the code reads one: .letters (one-letter codes), .items (a list of names, *)
(* each with a sign, a number, a heading and a width override) and .aix (AIX *)
(* codes, "fill" for the text between them; AIX headings are those of the    *)
(* columns).  Every predefined format has a PID column, so the errors of -L   *)
(* and -T for a format without one are left out.                              *)
(***************************************************************************)
EXTENDS PsTables, Integers, Sequences, SequencesExt

None == "none"

format_array == format_array_AM \cup format_array_NZ

FormatOf == [s \in {t[1] : t \in format_array} |-> CHOOSE t \in format_array : t[1] = s]

search_format_array(s) == s \in DOMAIN FormatOf

search_macro_array(s) == s \in DOMAIN macro_array

Ruined == [name |-> "", spec |-> "", pr |-> None, rows |-> "ET"]

(* A column of text only, as AIX formats and the Irix long format have. *)
Filler == [Ruined EXCEPT !.name = ":"]

ColumnNode(spec, override) ==
  LET t == FormatOf[spec]
  IN  [name |-> IF override = None THEN t[2] ELSE override, spec |-> spec, pr |-> t[3], rows |-> t[4]]

(* One specifier: a column, or the columns of a macro last first; <<>> when  *)
(* there is neither (NULL).  A macro's own specifiers are assumed to be       *)
(* columns.                                                                  *)
do_one_spec(spec, override) ==
  IF search_format_array(spec) THEN <<ColumnNode(spec, override)>>
  ELSE IF search_macro_array(spec)
       THEN Reverse([i \in 1..Len(macro_array[spec]) |-> ColumnNode(macro_array[spec][i], override)])
       ELSE <<>>

One(spec) == do_one_spec(spec, None)[1]

(* The columns of a user's list, last first, or an error. *)
FormatOk(text) ==
  /\ text.items # <<>>
  /\ \A i \in 1..Len(text.items) :
       LET it == text.items[i]
       IN  /\ it.sign = None
           /\ search_format_array(it.name) \/ (search_macro_array(it.name) /\ it.width = 0)

AixOk(text) == /\ text.aix # <<>>
               /\ \A i \in 1..Len(text.aix) : text.aix[i] \in DOMAIN aix_array \cup {"fill"}

aix_format_parse(text) ==
  FoldLeft(LAMBDA cooked, a : (IF a = "fill" THEN <<Filler>> ELSE do_one_spec(aix_array[a], None)) \o cooked,
           <<>>, text.aix)

format_parse(text) ==
  CASE FormatOk(text) ->
         [err |-> FALSE,
          cooked |-> FoldLeft(LAMBDA cooked, it : do_one_spec(it.name, it.head) \o cooked, <<>>, text.items)]
    [] ~FormatOk(text) /\ AixOk(text) -> [err |-> FALSE, cooked |-> aix_format_parse(text)]
    [] OTHER -> [err |-> TRUE, cooked |-> <<>>]

(* -O and O: the user's columns go between the pid and the usual trailer. *)
O_wrap(cooked, bsd) ==
  do_one_spec(IF bsd THEN "END_BSD" ELSE "END_SYS5", None) \o cooked \o do_one_spec("pid", None)

SortItem(spec) ==
  IF spec \in DOMAIN SortOther THEN SortOther[spec] ELSE PrItems[FormatOf[spec][3]][1]

(* A sort key: the item to sort on, the print function that is asked to      *)
(* fetch its items, and the direction: 1, -1, or the 0 that is neither.       *)
do_one_sort_spec(spec, reverse) ==
  [spec |-> spec, sr |-> SortItem(spec), xe |-> FormatOf[spec][3], reverse |-> reverse]

long_sort_parse(text) ==
  IF /\ text.items # <<>>
     /\ \A i \in 1..Len(text.items) : search_format_array(text.items[i].name)
  THEN [err |-> FALSE,
        cooked |-> FoldLeft(LAMBDA cooked, it : <<do_one_sort_spec(it.name, IF it.sign = "-" THEN -1 ELSE 1)>>
                                                  \o cooked, <<>>, text.items)]
  ELSE [err |-> TRUE, cooked |-> <<>>]

ShortSortLetters == DOMAIN shortsort_array \cup {"K", "+", "-"}

(* Whether an argument of O can be a sort order at all. *)
verify_short_sort(text, forest) ==
  LET w == text.letters
  IN  /\ w # <<>>
      /\ \A i \in 1..Len(w) :
           /\ w[i] \in ShortSortLetters
           /\ w[i] \in {"+", "-"} => i < Len(w) /\ w[i + 1] \notin {"+", "-"}
           /\ w[i] = "P" => forest = None
           /\ w[i] \notin {"+", "-"} => \A j \in 1..(i - 1) : w[j] # w[i]

(* The direction is ascending for the first key and nothing for a later one  *)
(* without a sign; a letter without a column ends the list.                   *)
ShortKey(st, c) ==
  CASE st.done                   -> st
    [] ~st.done /\ c = "+"       -> [st EXCEPT !.direction = 1]
    [] ~st.done /\ c = "-"       -> [st EXCEPT !.direction = -1]
    [] OTHER ->
         IF c \in DOMAIN shortsort_array /\ search_format_array(shortsort_array[c])
         THEN [st EXCEPT !.cooked = <<do_one_sort_spec(shortsort_array[c], st.direction)>> \o @, !.direction = 0]
         ELSE [st EXCEPT !.done = TRUE]

short_sort_parse(text) ==
  FoldLeft(ShortKey, [done |-> FALSE, direction |-> 1, cooked |-> <<>>], text.letters).cooked

-----------------------------------------------------------------------------
(* parse_O_option works the deferred options off in the order they were      *)
(* given; process_sf_options then merges the columns onto format_list, each  *)
(* cooked list back to front.  o is the record of the options (PsOptions).    *)

AddFormat(st, r, wrapped) ==
  IF r.err THEN [st EXCEPT !.err = TRUE]
  ELSE [st EXCEPT !.formatted = TRUE, !.columns = @ \o Reverse(IF wrapped = <<>> THEN r.cooked ELSE wrapped)]

parse_O_option(o, st, sf) ==
  LET r == format_parse(sf.text)
  IN  CASE st.err -> st
        [] ~st.err /\ sf.code = "o" -> AddFormat(st, r, <<>>)
        [] ~st.err /\ sf.code = "U_O" ->
             IF st.formatted THEN [st EXCEPT !.err = TRUE] ELSE AddFormat(st, r, O_wrap(r.cooked, FALSE))
        [] ~st.err /\ sf.code = "B_O" ->
             IF ~o.gnu_sort /\ ~st.sorted /\ verify_short_sort(sf.text, o.forest_type)
             THEN [st EXCEPT !.sorted = TRUE, !.keys = @ \o short_sort_parse(sf.text)]
             ELSE IF st.formatted THEN [st EXCEPT !.err = TRUE] ELSE AddFormat(st, r, O_wrap(r.cooked, TRUE))
        [] ~st.err /\ sf.code = "sort" ->
             LET s == long_sort_parse(sf.text)
             IN  IF st.sorted \/ s.err THEN [st EXCEPT !.err = TRUE]
                 ELSE [st EXCEPT !.sorted = TRUE, !.keys = @ \o s.cooked]

Deferred(o) ==
  FoldLeft(LAMBDA st, sf : parse_O_option(o, st, sf),
           [err |-> FALSE, formatted |-> FALSE, sorted |-> FALSE, columns |-> <<>>, keys |-> <<>>], o.sf_list)

-----------------------------------------------------------------------------
(* Columns found, added and deleted by heading. *)

Places(list, name) == {i \in 1..Len(list) : list[i].name = name}

First(S) == CHOOSE i \in S : \A j \in S : i <= j

fmt_add_after(list, findme, putme) ==
  IF Places(list, findme) = {} THEN list ELSE InsertAt(list, First(Places(list, findme)) + 1, putme)

fmt_delete(list, findme) ==
  IF Places(list, findme) = {} THEN list ELSE RemoveAt(list, First(Places(list, findme)))

fmt_delete_all(list, names) == FoldLeft(fmt_delete, list, names)

AfterAny(list, names, putme) ==
  LET found == {i \in 1..Len(names) : Places(list, names[i]) # {}}
  IN  IF found = {} THEN list ELSE fmt_add_after(list, names[First(found)], putme)

(* "avoid duplicate columns from -FP": the processor of -P is taken instead.  *)
ExtraPsr(F, P) == F /\ ~P

(* The SysV formats, pushed back to front: each condition with its column.   *)
generate_sysv_list(o) ==
  LET f == "Uf" \in o.format_flags    l == "Ul" \in o.format_flags    bsd == o.prefer_bsd_defaults
      y == "y" \in o.format_modifiers c == "c" \in o.format_modifiers P == "P" \in o.format_modifiers
      F == "F" \in o.format_modifiers j == "j" \in o.format_modifiers M == "M" \in o.format_modifiers
      L == "U_L" \in o.thread_flags   T == "U_T" \in o.thread_flags
      irix == "IRIX_l" \in o.personality
      zap == irix \/ "ZAP_ADDR" \in o.personality
      sane == "SANE_USER" \in o.personality
      push == << <<bsd /\ o.format_flags # {}, "cmd">>, <<bsd /\ o.format_flags = {}, "args">>,
                 <<bsd, "bsdtime">>, <<bsd /\ ~l, "stat">>, <<~bsd /\ f, "cmd">>, <<~bsd /\ ~f, "ucmd">>,
                 <<~bsd, "time">>, <<TRUE, "tname">>, <<f, "stime">>, <<ExtraPsr(F, P), "psr">>,
                 <<F /\ ~(l /\ y), "rss">>, <<l, "wchan">>, <<l /\ ~y /\ irix, "sgi_rss">>,
                 <<l /\ ~y /\ irix, ":">>, <<F \/ l, "sz">>, <<l /\ y, "rss">>, <<l /\ ~y /\ zap, "sgi_p">>,
                 <<l /\ ~y /\ ~zap, "addr_1">>, <<c, "pri">>, <<c, "class">>, <<~c /\ l, "ni">>,
                 <<~c /\ l /\ irix, "priority">>, <<~c /\ l /\ ~irix, "opri">>, <<L /\ f, "nlwp">>,
                 <<(f \/ l) /\ ~c, "c">>, <<P, "psr">>, <<L, "lwp">>, <<j, "sid">>, <<j, "pgid">>,
                 <<f \/ l, "ppid">>, <<T, "spid">>, <<TRUE, "pid">>, <<f /\ sane, "user">>,
                 <<f /\ ~sane, "uid_hack">>, <<~f /\ l, "uid">>, <<l, "s">>, <<l /\ ~y, "f">>, <<M, "label">> >>
      kept == SelectSeq(push, LAMBDA p : p[1])
  IN  Reverse([i \in 1..Len(kept) |-> IF kept[i][2] = ":" THEN Filler ELSE One(kept[i][2])])

(* The format flags that go together, and the macro of each: None leaves     *)
(* the format to generate_sysv_list.                                          *)
PredefinedSpec(o) ==
  LET ff == o.format_flags
  IN  CASE ff = {}           -> None
        [] ff = {"Uf", "Ul"} -> o.formats.sysv_fl
        [] ff = {"Uf"}       -> o.formats.sysv_f
        [] ff = {"Ul"}       -> o.formats.sysv_l
        [] ff = {"Uj"}       -> o.formats.sysv_j
        [] ff = {"Uj", "Ul"} -> "RD_lj"
        [] ff = {"Uj", "Uf"} -> "RD_fj"
        [] ff = {"Bj"}       -> o.formats.bsd_j
        [] ff = {"Bl"}       -> o.formats.bsd_l
        [] ff = {"Bs"}       -> o.formats.bsd_s
        [] ff = {"Bu"}       -> o.formats.bsd_u
        [] ff = {"Bv"}       -> o.formats.bsd_v
        [] ff = {"LX"}       -> "OL_X"
        [] ff = {"Lm"}       -> "OL_m"
        [] ff = {"Fc"}       -> "FLASK_context"
        [] OTHER             -> "conflict"

(* What each modifier does to a predefined format; "crash" stands for        *)
(* catastrophic_failure.                                                     *)
Modify_j(list) ==
  LET one == AfterAny(list, <<"PPID", "PID">>, One("pgid"))
  IN  fmt_add_after(one, "PGID", One("sid"))

Modify_y(list) ==
  LET one == fmt_delete(list, "F")
  IN  IF Places(one, "ADDR") = {} THEN one ELSE fmt_delete(fmt_add_after(one, "ADDR", One("rss")), "ADDR")

Modify_c(list) ==
  LET one == fmt_delete_all(list, <<"%CPU", "CPU", "CP", "C", "NI">>)
      two == fmt_delete(fmt_add_after(one, "PRI", One("class")), "PRI")
  IN  IF Places(one, "PRI") = {} THEN <<Ruined>> ELSE fmt_add_after(two, "CLS", One("pri"))

Modify_L(list) ==
  fmt_add_after(AfterAny(list, <<"SID", "SESS", "PGID", "PGRP", "PPID", "PID">>, One("lwp")), "%CPU", One("nlwp"))

Swap(list, name, spec) ==
  IF Places(list, name) = {} THEN list ELSE fmt_delete(fmt_add_after(list, name, One(spec)), name)

If(test, list, then) == IF test THEN then ELSE list

(* The modifiers in their order: first those that can fail, then the others. *)
ModifiedFirst(o, list) ==
  LET J(l) == If("j" \in o.format_modifiers, l, Modify_j(l))
      Y(l) == If("y" \in o.format_modifiers, l, Modify_y(l))
      C(l) == If("c" \in o.format_modifiers, l, Modify_c(l))
  IN  C(Y(J(list)))

ModifiedLast(o, list) ==
  LET T(l) == If("U_T" \in o.thread_flags, l, fmt_add_after(l, "PID", One("spid")))
      L(l) == If("U_L" \in o.thread_flags, l, Modify_L(l))
      M(l) == If("M" \in o.format_modifiers, l, <<One("label")>> \o l)
      Z(l) == If("ZAP_ADDR" \in o.personality /\ "Ul" \in o.format_flags, l, Swap(l, "ADDR", "sgi_p"))
      S(l) == If("SANE_USER" \in o.personality /\ "Uf" \in o.format_flags, l, Swap(l, "UID", "user"))
  IN  S(Z(M(L(T(list)))))

Modified(o, first) ==
  IF \E i \in 1..Len(first) : first[i] = Ruined THEN [res |-> "crash", columns |-> <<>>]
  ELSE [res |-> "ok", columns |-> ModifiedLast(o, first)]

(* The columns when the user gave none. *)
Predefined(o, spec) ==
  CASE spec = "conflict" -> [res |-> "err", columns |-> <<>>]
    [] spec = None ->
         IF "y" \in o.format_modifiers /\ "Ul" \notin o.format_flags THEN [res |-> "err", columns |-> <<>>]
         ELSE [res |-> "ok", columns |-> generate_sysv_list(o)]
    [] OTHER -> Modified(o, ModifiedFirst(o, Reverse(do_one_spec(spec, None))))

(* [res, columns]: what is shown, of the deferred options d and the          *)
(* environment's format e; on an error what format_list already has.          *)
ChooseFormat(o, PS_FORMAT, d, e) ==
  LET must == "must_use" \in o.thread_flags
      flags == o.format_flags # {} \/ o.format_modifiers # {}
      usable == ~flags /\ d.columns = <<>> /\ PS_FORMAT.items # <<>>
  IN  CASE d.err -> [res |-> "err", columns |-> <<>>]
        [] ~d.err /\ ((usable /\ must) \/ (d.columns # <<>> /\ (flags \/ must))) ->
             [res |-> "err", columns |-> d.columns]
        [] ~d.err /\ usable /\ ~must /\ ~e.err -> [res |-> "ok", columns |-> Reverse(e.cooked)]
        [] ~d.err /\ d.columns # <<>> /\ ~flags /\ ~must -> [res |-> "ok", columns |-> d.columns]
        [] OTHER -> Predefined(o, PredefinedSpec(o))

process_sf_options(o, PS_FORMAT) ==
  LET With(d, c) == [res |-> c.res, columns |-> c.columns, keys |-> IF d.err THEN <<>> ELSE d.keys]
      Choose1(d) == With(d, ChooseFormat(o, PS_FORMAT, d, format_parse(PS_FORMAT)))
  IN  Choose1(Deferred(o))

=============================================================================
