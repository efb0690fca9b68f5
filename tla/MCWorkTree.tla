----------------------------- MODULE MCWorkTree -----------------------------
(* Two processes, two paths and three commits: the ancestor, one with      *)
(* submodules and one that moves them.                                     *)
EXTENDS WorkTree

C(a, b, s) == [tree |-> [x \in Paths |-> IF x = "a" THEN a ELSE b], sub |-> s]

MCBase == C(0, 0, 0)
One == C(1, 0, 1)
Two == C(0, 1, 2)
Plain == C(0, 1, 0)

R(op, c, f, e) == [op |-> op, commit |-> c, from |-> f, excluded |-> e]

MCRequests ==
  {R("archive", MCBase, MCBase, {}), R("archive", C(1, 1, 1), MCBase, {}),
   R("patch", One, Two, {}), R("patch", MCBase, One, {}),
   R("merge", One, Plain, {}), R("merge", One, Two, {}), R("merge", Plain, One, {}),
   R("service", MCBase, MCBase, {}), R("service", MCBase, MCBase, {"b"}),
   R("service", Plain, MCBase, {"b"})}
=============================================================================
