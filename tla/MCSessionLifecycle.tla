------------------------ MODULE MCSessionLifecycle ------------------------
(* Constant values for the runs of SessionLifecycle. *)
EXTENDS SessionLifecycle, TLC

CONSTANTS tea, e1, a, p1

OneUser     == {tea}
OneEnder    == {e1}
OneStroke   == {a}
OnePage     == {p1}
OnFirst     == a :> p1
OneAndAll   == {a, p1}
NoErasure   == {}

NoFaults    == {}
AllFaults   == {"s3", "io", "restart", "expiry"}
=============================================================================
