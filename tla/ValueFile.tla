------------------------------- MODULE ValueFile -------------------------------
(****************************************************************************)
(* What library/vmstat.c and library/meminfo.c share: a context over one    *)
(* file of /proc that holds a number for each of many names.  The context   *)
(* keeps the numbers of the last read and of the read before it.  get       *)
(* answers for one item and reads at most once a second, select fills a     *)
(* stack of items and always reads.  Both move the one history on.          *)
(*                                                                          *)
(* The definitions are those of vmstat.c; modules Vmstat and Meminfo say    *)
(* what the names are and what is made of the numbers.  Any read may fail.  *)
(* Left out: failed allocations, and arguments that are no context.         *)
(****************************************************************************)
EXTENDS Integers, Sequences

CONSTANTS
  Text,         \* the contents the file may have: functions of names
  Field,        \* the names of the numbers a context keeps
  Parse(_),     \* the numbers after a text was read into zeroes
  Half,         \* a change is stored in a signed type of 2 * Half values
  GetItems,     \* the items that get is asked for
  ItemLists,    \* the item arrays that select is called with
  MaxSecs, MaxRef   \* bounds on the clock and on the references

VARIABLES
  text, secs,       \* the kernel: the file and the clock
  refcount,         \* 0 while there is no context
  fd,               \* whether the file is open
  new, old,         \* the numbers of the last read and of the one before
  items, stack,     \* what the stack is made for, and its values
  sav_secs,         \* the second of the last read that get made
  reads,            \* history: the last two reads, latest first
  out               \* history: what the last call returned

kernel  == <<text, secs>>
hist    == <<fd, new, old, reads>>
context == <<refcount, items, stack, sav_secs>>
vars    == <<kernel, hist, context, out>>

Zero    == [f \in Field |-> 0]
NoRead  == [ok |-> TRUE, data |-> Zero, at |-> 0, by |-> "none"]
Nothing == [call |-> "none", items |-> <<>>, vals |-> <<>>]

\* An item is noop, extra, a number or the change of a number.
Item == {<<"noop", "">>, <<"extra", "">>} \cup ({"new", "delta"} \X Field)

--------------------------------------------------------------------------------

\* Remembered after the numbers were cleared.
read_failed_late(r, by) ==
  /\ old' = Zero
  /\ new' = IF r = "ok" THEN Parse(text) ELSE Zero
  /\ fd' = (r # "noopen")
  /\ reads' = <<[ok |-> r = "ok", data |-> new', at |-> secs, by |-> by], reads[1]>>

\* One read: what there was becomes the past and the numbers are cleared
\* before anything can fail.  The file is left closed only if it could not be
\* opened, or opened again after a seek that is not possible.
read_failed(r, by) ==
  /\ old' = new
  /\ new' = IF r = "ok" THEN Parse(text) ELSE Zero
  /\ fd' = (r # "noopen")
  /\ reads' = <<[ok |-> r = "ok", data |-> new', at |-> secs, by |-> by], reads[1]>>

Outcome == {"ok", "noopen", "error"}

\* A difference as the type of a change stores it: its lowest bits.
Signed(d) == ((d + Half) % (2 * Half)) - Half

REG_set(f) == new'[f]
HST_set(f) == Signed(new'[f] - old'[f])

\* noop leaves the value alone, extra clears it.
Item_table(item, was) ==
  CASE item[1] = "noop"  -> was
    [] item[1] = "extra" -> 0
    [] item[1] = "new"   -> REG_set(item[2])
    [] item[1] = "delta" -> HST_set(item[2])

assign_results(list, vals) == [k \in DOMAIN list |-> Item_table(list[k], vals[k])]

\* A stack for a list of items, its values cleared.
stacks_alloc(list) == [k \in DOMAIN list |-> 0]

--------------------------------------------------------------------------------

\* A context is made with a first read; without it there is none.
new_context(r) ==
  /\ refcount = 0
  /\ old' = Zero
  /\ IF r = "ok"
       THEN refcount' = 1 /\ new' = Parse(text) /\ fd' = TRUE
       ELSE refcount' = 0 /\ new' = Zero /\ fd' = FALSE
  /\ reads' = <<[ok |-> r = "ok", data |-> new', at |-> secs, by |-> "new"], NoRead>>
  /\ items' = <<>> /\ stack' = <<>> /\ sav_secs' = 0
  /\ out' = Nothing
  /\ UNCHANGED kernel

ref ==
  /\ refcount \in 1 .. MaxRef - 1
  /\ refcount' = refcount + 1
  /\ out' = Nothing
  /\ UNCHANGED <<kernel, hist, items, stack, sav_secs>>

\* The last reference closes the file and frees everything.
unref ==
  /\ refcount > 0
  /\ refcount' = refcount - 1
  /\ IF refcount > 1
       THEN UNCHANGED <<fd, new, old, items, stack, sav_secs, reads>>
       ELSE /\ fd' = FALSE /\ new' = Zero /\ old' = Zero /\ reads' = <<NoRead, NoRead>>
            /\ items' = <<>> /\ stack' = <<>> /\ sav_secs' = 0
  /\ out' = Nothing
  /\ UNCHANGED kernel

\* The second is noted also when the read has failed.
get_notes_first(item, r) ==
  /\ refcount > 0
  /\ IF secs - sav_secs >= 1
       THEN read_failed(r, "get") /\ sav_secs' = secs
       ELSE r = "ok" /\ UNCHANGED <<hist, sav_secs>>
  /\ out' = IF secs - sav_secs >= 1 /\ r # "ok" THEN Nothing
            ELSE [call |-> "get", items |-> <<item>>, vals |-> <<Item_table(item, 0)>>]
  /\ UNCHANGED <<kernel, refcount, items, stack>>

get(item, r) ==
  /\ refcount > 0
  /\ IF secs - sav_secs >= 1
       THEN read_failed(r, "get") /\ sav_secs' = IF r = "ok" THEN secs ELSE sav_secs
       ELSE r = "ok" /\ UNCHANGED <<hist, sav_secs>>
  /\ out' = IF secs - sav_secs >= 1 /\ r # "ok" THEN Nothing
            ELSE [call |-> "get", items |-> <<item>>, vals |-> <<Item_table(item, 0)>>]
  /\ UNCHANGED <<kernel, refcount, items, stack>>

\* The stack is made anew for other items than last time.
Changed(list) == items # list

items_check_failed(list) == list = <<>> \/ \E k \in DOMAIN list : list[k] \notin Item

select(list, r) ==
  /\ refcount > 0
  /\ IF items_check_failed(list)
       THEN out' = Nothing /\ UNCHANGED <<hist, items, stack>>
       ELSE LET fresh == IF Changed(list) THEN stacks_alloc(list) ELSE stack
            IN  /\ items' = IF Changed(list) THEN list ELSE items
                /\ read_failed(r, "select")
                /\ stack' = IF r = "ok" THEN assign_results(items', fresh) ELSE fresh
                /\ out' = IF r = "ok"
                            THEN [call |-> "select", items |-> list, vals |-> stack']
                            ELSE Nothing
  /\ UNCHANGED <<kernel, refcount, sav_secs>>

--------------------------------------------------------------------------------
(* The kernel.                                                              *)

Change(t) ==
  /\ text' = t /\ t # text
  /\ out' = Nothing
  /\ UNCHANGED <<secs, hist, context>>

Tick ==
  /\ secs < MaxSecs
  /\ secs' = secs + 1
  /\ out' = Nothing
  /\ UNCHANGED <<text, hist, context>>

Init ==
  /\ text \in Text /\ secs = 1
  /\ refcount = 0 /\ fd = FALSE /\ new = Zero /\ old = Zero
  /\ items = <<>> /\ stack = <<>> /\ sav_secs = 0
  /\ reads = <<NoRead, NoRead>> /\ out = Nothing

Next ==
  \/ \E r \in Outcome : new_context(r)
  \/ ref
  \/ unref
  \/ \E item \in GetItems, r \in Outcome : get(item, r)
  \/ \E list \in ItemLists, r \in Outcome : select(list, r)
  \/ \E t \in Text : Change(t)
  \/ Tick

Spec == Init /\ [][Next]_vars

--------------------------------------------------------------------------------
(* Properties.                                                              *)

TypeOK ==
  /\ refcount \in 0 .. MaxRef /\ fd \in BOOLEAN
  /\ DOMAIN new = Field /\ DOMAIN old = Field
  /\ DOMAIN stack = DOMAIN items /\ sav_secs \in 0 .. secs
  /\ refcount = 0 => ~fd /\ items = <<>>

\* A change is answered for the time between the two last reads, whichever
\* calls made them, not since the caller asked last; a read that failed counts
\* as one that found nothing but zeroes.  A change that its type cannot hold is
\* answered as some other number of that type.
Storable == -Half .. Half - 1

DeltaSpansReads ==
  out.call # "none" =>
    \A k \in DOMAIN out.items :
      out.items[k][1] = "delta" =>
        LET change == reads[1].data[out.items[k][2]] - reads[2].data[out.items[k][2]]
        IN  out.vals[k] \in Storable /\ (change \in Storable => out.vals[k] = change)

\* get answers with numbers that were read in this very second, unless a select
\* of this second failed and has cleared them.
GetIsRecent ==
  out.call = "get" =>
    \/ reads[1].ok /\ reads[1].at = secs
    \/ ~reads[1].ok /\ reads[1].by = "select" /\ reads[1].at = secs

\* select answers what it was asked, from a read of its own, also right after
\* a select of as many other items.
SelectAnswers ==
  out.call = "select" =>
    /\ Len(out.vals) = Len(out.items) /\ reads[1].by = "select" /\ reads[1].ok
    /\ \A k \in DOMAIN out.items :
         out.items[k][1] = "new" => out.vals[k] = reads[1].data[out.items[k][2]]

\* get and select answer what they are asked, get with numbers of this second.
AnswersRight == TypeOK /\ GetIsRecent /\ SelectAnswers
================================================================================
