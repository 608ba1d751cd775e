------------------------------ MODULE MCDiskstats ------------------------------
(* Item lists are only compared with each other.                            *)
EXTENDS Diskstats

Lists == Permutations(ItemLists)
================================================================================
