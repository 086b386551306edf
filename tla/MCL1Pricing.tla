---------------------------- MODULE MCL1Pricing ----------------------------
(* Settings for model checking L1Pricing: one with a cap and inertia, one  *)
(* where the owner has set the divisors to zero and the charge per batch   *)
(* below zero.                                                             *)
EXTENDS L1Pricing

MCParams == {[reward |-> 1, capBips |-> 5000, equil |-> 4, inertia |-> 2,
              perBatch |-> 1, floor |-> 3],
             [reward |-> 0, capBips |-> 0, equil |-> 0, inertia |-> 0,
              perBatch |-> -2, floor |-> 0]}
=============================================================================
