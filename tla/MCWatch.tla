-------------------------------- MODULE MCWatch --------------------------------
(* watch with small screens and texts. *)
EXTENDS Watch

Char(c)   == [c |-> c, n |-> <<>>]
Sgr(list) == [c |-> "escape", n |-> list]

\* One row; two rows, so that the second is lost on a small screen; colours
\* that are left on, a tab, and a row that does not fit.
MCOutputs == {
  <<Char("a")>>,
  <<Char("a"), Char("newline"), Sgr(<<<<1, 0>>, <<97, 0>>>>), Char("b")>>,
  <<Sgr(<<<<48, 15>>, <<38, 99>>>>), Char("b"), Char("tab"), Char("a"), Sgr(<<>>)>>}

Call(o, lines, colors, r) == [opts |-> o, LINES |-> lines, COLORS |-> colors, rows |-> r]
MCCalls == {
  Call({"CHGEXIT", "COLOR"}, FALSE, 8, 4),
  Call({"DIFF", "EQUEXIT", "NOWRAP", "PRECISE", "COLOR"}, FALSE, 256, 4),
  Call({"DIFF", "CUMUL", "ERREXIT", "NORERUN"}, FALSE, 8, 3),
  Call({"NOTITLE"}, TRUE, 8, 4)}
================================================================================
