---------------------------- MODULE CredentialSlot ----------------------------
(***************************************************************************)
(* What kyc_credentials_meta promises to those who read a customer's       *)
(* credential from it: there is one slot, which a numbered credential      *)
(* fills.  A new credential is only put into an empty slot, under the next *)
(* number; one that has left the slot never comes back.  Between a         *)
(* credential and the one that replaces it the slot is seen empty.         *)
(***************************************************************************)
EXTENDS Naturals

VARIABLES
  issued,    \* how many credentials there have been
  current    \* the number of the one in the slot, or 0

SlotInit == issued = 0 /\ current = 0

Fill ==
  /\ current = 0
  /\ issued' = issued + 1
  /\ current' = issued + 1

Clear ==
  /\ current # 0
  /\ current' = 0
  /\ UNCHANGED issued

SlotNext == Fill \/ Clear
SlotSpec == SlotInit /\ [][SlotNext]_<<issued, current>>
=============================================================================
