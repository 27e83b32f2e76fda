---------------------------- MODULE MCPipelines ----------------------------
(***************************************************************************)
(* Four instances of CredentialPipeline in one run: a behaviour picks one  *)
(* of them at the start and stays in it, so that each keeps the bounds     *)
(* that make its own cases happen.  The constants of this module bound all *)
(* four; the actors of an instance are some of those declared here, and    *)
(* the others stay idle.                                                   *)
(*   recovery: two wallets, crashes, failures, retries, expiries, unlinks  *)
(*   admin:    two workers under bans, resets and overrunning jobs         *)
(*   double:   two workers, two jobs of a session at a time, any one fault *)
(*   badge:    the showcase token under resets, self-revocation, expiry    *)
(***************************************************************************)
EXTENDS CredentialPipeline, TLC

CONSTANTS
  SingleCopies, RecoveryWorkers, RecoveryUsers, RecoveryFaults, RecoveryInterventions,
  AdminWorkers, AdminUsers, AdminRetryLimit, AdminFaults, AdminMaxFaults,
  AdminInterventions, AdminMaxRows, DoubleMaxFaults, DoubleInterventions,
  BadgeFaults, BadgeMaxFaults, BadgeInterventions

ASSUME InstancesFit ==
  /\ RecoveryWorkers \cup AdminWorkers \subseteq Workers
  /\ RecoveryUsers \cup AdminUsers \subseteq Users
  /\ SingleCopies <= MaxCopies
  /\ AdminRetryLimit <= RetryLimit /\ AdminMaxFaults <= MaxFaults /\ BadgeMaxFaults <= MaxFaults

VARIABLE instance

Recovery == INSTANCE CredentialPipeline WITH
  Workers <- RecoveryWorkers, Users <- RecoveryUsers, MaxCopies <- SingleCopies, Faults <- RecoveryFaults,
  Interventions <- RecoveryInterventions

Admin == INSTANCE CredentialPipeline WITH
  Workers <- AdminWorkers, Users <- AdminUsers, RetryLimit <- AdminRetryLimit,
  MaxCopies <- SingleCopies, Faults <- AdminFaults, MaxFaults <- AdminMaxFaults,
  Interventions <- AdminInterventions, MaxRows <- AdminMaxRows

Double == INSTANCE CredentialPipeline WITH
  Workers <- AdminWorkers, Users <- AdminUsers, RetryLimit <- AdminRetryLimit,
  MaxFaults <- DoubleMaxFaults, Interventions <- DoubleInterventions,
  MaxRows <- AdminMaxRows

Badge == INSTANCE CredentialPipeline WITH
  Workers <- RecoveryWorkers, Users <- AdminUsers, RetryLimit <- AdminRetryLimit,
  MaxCopies <- SingleCopies,
  Faults <- BadgeFaults, MaxFaults <- BadgeMaxFaults, Interventions <- BadgeInterventions

MCInit == Init /\ instance \in {"recovery", "admin", "double", "badge"}

MCNext ==
  \/ instance = "recovery" /\ Recovery!Next /\ UNCHANGED instance
  \/ instance = "admin" /\ Admin!Next /\ UNCHANGED instance
  \/ instance = "double" /\ Double!Next /\ UNCHANGED instance
  \/ instance = "badge" /\ Badge!Next /\ UNCHANGED instance

MCSpec == MCInit /\ [][MCNext]_<<vars, instance>>

Identical == Permutations(AdminWorkers) \cup Permutations(RecoveryUsers)
=============================================================================
