------------------------------ MODULE MCNBIO -------------------------------
(* TLC instances of NBIO.  Sizes are in units of which two fill the read   *)
(* buffer and two are one mapping, so that every input can need more than  *)
(* one read, mapping or write.                                             *)
EXTENDS NBIO

Offer(kind, size, limit) == [kind |-> kind, size |-> size, limit |-> limit]

\* Every kind; a length for a non-blocking object below, at and above its
\* size, and lengths of the other kinds that the object does deliver.
AllOffers ==
  {Offer("str", 2, -1),
   Offer("obj", 0, -1), Offer("obj", 5, -1), Offer("obj", 3, 2),
   Offer("obj", 1, 2),
   Offer("block", 0, -1), Offer("block", 3, 3), Offer("block", 3, -1),
   Offer("mmap", 3, 3)}

\* For the longer lists: strings and non-blocking objects.
ObjOffers ==
  {Offer("str", 1, -1), Offer("obj", 2, -1), Offer("obj", 3, 2)}
=============================================================================
