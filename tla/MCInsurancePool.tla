--------------------------- MODULE MCInsurancePool ---------------------------
(* Instances of InsurancePool for TLC.                                     *)
EXTENDS InsurancePool, TLC

(***************************************************************************)
(* insurance/src/lib.rs:951-953 on pay_out: "get_stake sums always equal   *)
(* get_pool_total and unstake can never overdraw the pool".  Rounding can  *)
(* leave the last staker with a negative balance, and then the stakes of   *)
(* the others exceed the total they withdraw from.                         *)
(***************************************************************************)
UnstakeNeverOverdraws == pool_total >= 0
=============================================================================
