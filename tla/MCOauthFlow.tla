----------------------------- MODULE MCOauthFlow -----------------------------
(***************************************************************************)
(* Three instances of OauthFlow in one run: a behaviour picks one of them  *)
(* at the start and stays in it.  The constants of this module bound all   *)
(* three; the actors of an instance are some of those declared here.       *)
(*   recovery   one customer; a transaction rolls back, the grant worker   *)
(*              dies, a transaction on the chain reverts                   *)
(*   decisions  two customers who can take each other's request            *)
(*   levels     one customer who consents again, at another level          *)
(***************************************************************************)
EXTENDS OauthFlow, TLC

CONSTANTS
  Alone, Pair, Concurrent, Single, OneLevel,
  AloneMaxEvents, LevelsFaults, LevelsMaxEvents

ASSUME InstancesFit ==
  /\ Alone \cup Pair \subseteq Users /\ Concurrent \cup Single \subseteq Calls
  /\ OneLevel \subseteq Scopes /\ LevelsFaults \subseteq Faults
  /\ AloneMaxEvents <= MaxEvents /\ LevelsMaxEvents <= MaxEvents

VARIABLE instance

Recovery == INSTANCE OauthFlow WITH
  Users <- Alone, Calls <- Concurrent, Scopes <- OneLevel, MaxEvents <- AloneMaxEvents
Decisions == INSTANCE OauthFlow WITH
  Users <- Pair, Calls <- Concurrent, Scopes <- OneLevel, Faults <- {}
Reconsent == INSTANCE OauthFlow WITH
  Users <- Alone, Calls <- Single, Faults <- LevelsFaults, MaxEvents <- LevelsMaxEvents

MCInit == Init /\ instance \in {"recovery", "decisions", "levels"}

MCNext ==
  \/ instance = "recovery" /\ Recovery!Next /\ UNCHANGED instance
  \/ instance = "decisions" /\ Decisions!Next /\ UNCHANGED instance
  \/ instance = "levels" /\ Reconsent!Next /\ UNCHANGED instance

MCSpec == MCInit /\ [][MCNext]_<<vars, instance>>

Interchangeable == Permutations(Pair) \cup Permutations(Requests) \cup Permutations(Concurrent)
=============================================================================
