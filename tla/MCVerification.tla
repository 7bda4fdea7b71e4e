--------------------------- MODULE MCVerification ---------------------------
(* Instance of Verification for TLC.                                       *)
EXTENDS Verification

CONSTANTS v1, v2, v3, document, tax

VerifierTypeSymmetry == Permutations({v1, v2, v3}) \cup Permutations({document, tax})
=============================================================================
