----------------------------- MODULE MCRegistry -----------------------------
(* Instances of Registry for TLC.                                          *)
EXTENDS Registry, TLC

CONSTANTS alice, bob, carol, inv1

Accounts3 == {alice, bob, carol}
=============================================================================
