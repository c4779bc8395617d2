-------------------------- MODULE MCContractHistory --------------------------
(* ContractHistory with four runs, two fingerprints and one resolution row. *)
EXTENDS ContractHistory
=============================================================================
