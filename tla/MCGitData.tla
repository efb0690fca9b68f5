----------------------------- MODULE MCGitData -----------------------------
(* Two processes, two keys; a process asks for the remote repository as an *)
(* include or as a git mapping does, under two names of one URL.           *)
EXTENDS GitData, TLC

CONSTANTS p1, p2
=============================================================================
