------------------------------- MODULE MCTop -------------------------------
(* Instances of the task windows of top. *)
EXTENDS TopWindows

(* 1 is the ancestor of all; 3 is a thread of 2; 4 is a child of 2.        *)
MCParent == 1 :> 0 @@ 2 :> 1 @@ 3 :> 1 @@ 4 :> 2
MCTgid == 1 :> 1 @@ 2 :> 2 @@ 3 :> 2 @@ 4 :> 4
MCBegan == 1 :> 1 @@ 2 :> 2 @@ 3 :> 3 @@ 4 :> 4
MCTics == 1 :> 1 @@ 2 :> 3 @@ 3 :> 2 @@ 4 :> 0
MCTables == {{1, 2, 3, 4}, {1, 4}, {}}
============================================================================
