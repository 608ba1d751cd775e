------------------------------ MODULE PsSelect ------------------------------
(***************************************************************************)
(* Which processes ps shows, from select.c: sixteen bits say for each        *)
(* combination of four facts about a process whether the simple options      *)
(* accept it, the lists are searched one after the other, and -e, r and -N    *)
(* come around that.  o is the record of the options (PsOptions).             *)
(***************************************************************************)
EXTENDS Integers, Sequences

CONSTANTS cached_euid,   \* the user who runs ps
          cached_tty,    \* the terminal ps runs on, 0 for none
          SamePrefix     \* <<comm, pattern>>: a comm of 15 characters and a pattern that begins with it

BitsOf(w) == {i \in 0..15 : (w \div 2^i) % 2 = 1}

(* [res, bits, o]: the bits for the simple options, or a conflict; a with g   *)
(* and x becomes -e.                                                         *)
select_bits_setup(o) ==
  LET g == "NO_DEFAULT_g" \notin o.personality /\ o.simple_select \cap {"U_a", "U_d"} = {}
      val == IF g THEN o.simple_select \cup {"B_g"} ELSE o.simple_select
      Bits(w) == [res |-> "ok", bits |-> BitsOf(w), o |-> o]
  IN  CASE o.simple_select = {} /\ ~o.prefer_bsd_defaults -> Bits(\hAA00)
        [] OTHER ->
             CASE val = {"U_a", "U_d"}        -> Bits(\h3F3F)
               [] val = {"U_a"}               -> Bits(\h0303)
               [] val = {"U_d"}               -> Bits(\h3333)
               [] val = {}                    -> Bits(\h0202)
               [] val = {"B_a"}               -> Bits(\h0303)
               [] val = {"B_x"}               -> Bits(\h2222)
               [] val = {"B_x", "B_a"}        -> Bits(\h3333)
               [] val = {"B_g"}               -> Bits(\h0A0A)
               [] val = {"B_g", "B_a"}        -> Bits(\h0F0F)
               [] val = {"B_g", "B_x"}        -> Bits(\hAAAA)
               [] val = {"B_g", "B_x", "B_a"} ->
                    [res |-> "ok", bits |-> {},
                     o |-> [o EXCEPT !.all_processes = TRUE, !.simple_select = {}]]
               [] OTHER -> [res |-> "err", bits |-> {}, o |-> o]

has_our_euid(t) == t.euid = cached_euid
on_our_tty(t) == t.tty = cached_tty
running(t) == t.state \in {"R", "D"}
session_leader(t) == t.sess = t.tgid
without_a_tty(t) == t.tty = 0

table_accept(bits, t) ==
  LET Bit(fact, n) == IF fact THEN 2^n ELSE 0
  IN  Bit(has_our_euid(t), 0) + Bit(session_leader(t), 1) + Bit(without_a_tty(t), 2) + Bit(on_our_tty(t), 3)
        \in bits

(* What a list of each kind is compared with. *)
ListField ==
  [RUID |-> "ruid", EUID |-> "euid", RGID |-> "rgid", EGID |-> "egid", PGRP |-> "pgrp", PID |-> "tgid",
   PID_QUICK |-> "tgid", PPID |-> "ppid", TTY |-> "tty", SESS |-> "sess"]

Matches(node, t) ==
  IF node.typecode = "COMM"
  THEN \E i \in 1..Len(node.u) : node.u[i] = t.cmd \/ <<t.cmd, node.u[i]>> \in SamePrefix
  ELSE \E i \in 1..Len(node.u) : node.u[i] = t[ListField[node.typecode]]

proc_was_listed(o, t) == \E k \in 1..Len(o.selection_list) : Matches(o.selection_list[k], t)

want_this_proc_NegatedFirst(o, bits, t) ==
  LET accepted == \/ o.all_processes
                  \/ (o.simple_select # {} \/ o.selection_list = <<>>) /\ table_accept(bits, t)
                  \/ proc_was_listed(o, t)
  IN  (o.negate_selection # accepted) /\ (o.running_only => running(t))

want_this_proc(o, bits, t) ==
  LET accepted == \/ o.all_processes
                  \/ (o.simple_select # {} \/ o.selection_list = <<>>) /\ table_accept(bits, t)
                  \/ proc_was_listed(o, t)
      kept == accepted /\ (o.running_only => running(t))
  IN  IF o.negate_selection THEN ~kept ELSE kept

=============================================================================
