------------------------------ MODULE MCMounts ------------------------------
(* Instances of Mounts for TLC.                                            *)
EXTENDS Mounts, TLC

CONSTANTS m1, m2, r1, r2

TwoProcesses == [r \in Request |-> IF r = r1 THEN m1 ELSE m2]
=============================================================================
