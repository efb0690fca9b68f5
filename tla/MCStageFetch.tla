---------------------------- MODULE MCStageFetch ----------------------------
(***************************************************************************)
(* Instances of StageFetch.                                                *)
(***************************************************************************)
EXTENDS StageFetch

CONSTANTS p1, p2, h1, h2

\* The first stage of an image.
FirstStage == {[pos |-> 1, ts |-> 1]}

TwoHosts == [p \in Procs |-> IF p = p1 THEN h1 ELSE h2]
=============================================================================
