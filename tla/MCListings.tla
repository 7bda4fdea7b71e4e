----------------------------- MODULE MCListings -----------------------------
(* Instances of Listings for TLC.                                          *)
EXTENDS Listings

CONSTANTS alice, bob, registry

(* Either listing is followed from the start; the other one stands still.  *)
EitherListing ==
  \/ OriInit /\ release = "this" /\ reader.owner = alice
  \/ IdxInit /\ admin = alice
=============================================================================
