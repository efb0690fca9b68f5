-------------------------- MODULE MCClientElection --------------------------
(***************************************************************************)
(* Instances of ClientElection.                                            *)
(***************************************************************************)
EXTENDS ClientElection

CONSTANTS p1, p2, p3

Ranks == [p \in Procs |-> IF p = p1 THEN 1 ELSE IF p = p2 THEN 2 ELSE 3]
InSync == [p \in Procs |-> 0]
=============================================================================
