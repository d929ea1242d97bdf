------------------------------ MODULE MCApply -------------------------------
(* Small instances of Apply: two locks, each building its own system, and   *)
(* a clock of a few seconds.                                               *)
EXTENDS Apply

CONSTANTS l1, l2, s1, s2

MCLocks == {l1, l2}
MCSystems == {s1, s2}
MCSystemOf == [l \in MCLocks |-> IF l = l1 THEN s1 ELSE s2]
=============================================================================
