--------------------------- MODULE MCLiveSession ---------------------------
(* Instances of LiveSession for TLC. *)
EXTENDS LiveSession, TLC

CONSTANTS h1, h2, u1, u2, k1, k2, cam, backup

\* Two encoders with the first key of the creator, or the second with a new one.
OneKey  == u1 :> k1 @@ u2 :> k1
TwoKeys == u1 :> k1 @@ u2 :> k2

\* Both publish under one name, as after a reconnect, or under two.
SameStream == u1 :> cam @@ u2 :> cam
TwoStreams == u1 :> cam @@ u2 :> backup
HandlerSymmetry == Permutations({h1, h2})
=============================================================================
