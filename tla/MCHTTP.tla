------------------------------- MODULE MCHTTP -------------------------------
(* TLC instances of HTTP. *)
EXTENDS HTTP

CONSTANTS w1, w2
TwoWorkers == {w1, w2}
=============================================================================
