----------------------------- MODULE MCPidsContext -----------------------------
(* Item lists for PidsContext: two of one depth that differ in what has to  *)
(* be freed, a deeper one, and one that names an item twice.                *)
EXTENDS PidsContext

MCItemLists == { <<"CMDLINE">>, <<"LXCNAME">>, <<"CMDLINE_V", "CMDLINE_V">> }

\* Bound: a context with a second reference is followed through its first day,
\* one with a single reference through all.
FirstDay == refcount < MaxRef \/ (names = 0 /\ sav_secs # "old")
================================================================================
