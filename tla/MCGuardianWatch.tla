---------------------------- MODULE MCGuardianWatch ----------------------------
(* Instances of GuardianWatch for TLC. *)
EXTENDS GuardianWatch

CONSTANTS chief, guard, governance, none

MCAccounts == {chief, guard}
=============================================================================
