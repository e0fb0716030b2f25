---------------------------- MODULE MCTunerPool ----------------------------
(* TunerPool on small instances.                                           *)
EXTENDS TunerPool, TLC

\* Every process runs with --device auto.
AllAuto == [p \in Procs |-> 1..N]

CONSTANT Pinned

\* The processes of Pinned name the last tuner, the others run with auto.
SomePinned == [p \in Procs |-> IF p \in Pinned THEN {N} ELSE 1..N]

ProcSymmetry == Permutations(Procs)
=============================================================================
