---------------------------- MODULE MCHostCleanup ----------------------------
(* Two builds, two images, one of them with two tags.                    *)
EXTENDS HostCleanup, TLC

CONSTANTS a1, a2, b1, a, b

MCImageOf == a1 :> a @@ a2 :> a @@ b1 :> b
MCSize == a :> 2 @@ b :> 1
=============================================================================
