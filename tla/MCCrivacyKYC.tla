---------------------------- MODULE MCCrivacyKYC ----------------------------
(***************************************************************************)
(* Two instances of CrivacyKYC in one run: a behaviour picks one of them   *)
(* at the start and stays in it.  The constants of this module bound both; *)
(* the holders of an instance are some of those declared here.             *)
(*   holders  two holders, time and two tokens                             *)
(*   rewrites one holder, whose record is overwritten between two grants,  *)
(*            or issued anew between a grant and the next                  *)
(***************************************************************************)
EXTENDS CrivacyKYC, TLC

CONSTANTS Pair, Sole, PairMaxSerial, SoleMaxTime, SoleMaxTokenId

ASSUME InstancesFit ==
  /\ Pair \cup Sole \subseteq Users
  /\ PairMaxSerial <= MaxSerial /\ SoleMaxTime <= MaxTime
  /\ SoleMaxTokenId \in TokenIds

VARIABLE instance

Holders == INSTANCE CrivacyKYC WITH Users <- Pair, MaxSerial <- PairMaxSerial
Rewrites == INSTANCE CrivacyKYC WITH
  Users <- Sole, MaxTime <- SoleMaxTime, MaxTokenId <- SoleMaxTokenId

MCInit == Init /\ instance \in {"holders", "rewrites"}

MCNext ==
  \/ instance = "holders" /\ Holders!Next /\ UNCHANGED instance
  \/ instance = "rewrites" /\ Rewrites!Next /\ UNCHANGED instance

MCSpec == MCInit /\ [][MCNext]_<<vars, instance>>

PartySymmetry == Permutations(Pair) \cup Permutations(Operators)
=============================================================================
