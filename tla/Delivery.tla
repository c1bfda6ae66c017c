----------------------------- MODULE Delivery ------------------------------
(***************************************************************************)
(* What a sender promises its caller: the bytes handed to it before it is  *)
(* started reach the peer in order and without gaps, and it reports        *)
(* completion only when all of them have; it may abort at any time.        *)
(***************************************************************************)
EXTENDS Sequences, SequencesExt

VARIABLES promised, delivered, state

vars == <<promised, delivered, state>>

Init == promised = <<>> /\ delivered = <<>> /\ state = "open"

Hand ==
  /\ state = "open" /\ state' = "open"
  /\ IsPrefix(promised, promised')
  /\ UNCHANGED delivered

Start ==
  /\ state = "open" /\ state' = "sending"
  /\ UNCHANGED <<promised, delivered>>

\* Some more bytes reach the peer; with the last of them the delivery may be
\* reported complete.
Deliver ==
  /\ state = "sending"
  /\ IsPrefix(delivered, delivered') /\ IsPrefix(delivered', promised)
  /\ \/ state' = "sending"
     \/ state' = "complete" /\ delivered' = promised
  /\ UNCHANGED promised

Abort ==
  /\ state = "sending" /\ state' = "aborted"
  /\ UNCHANGED <<promised, delivered>>

Next == Hand \/ Start \/ Deliver \/ Abort

Spec == Init /\ [][Next]_vars
=============================================================================
