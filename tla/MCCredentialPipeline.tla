------------------------ MODULE MCCredentialPipeline ------------------------
(* Instances of CredentialPipeline for TLC. *)
EXTENDS CredentialPipeline, TLC

CONSTANTS w1, w2, u1, u2, id1, ad1

Identical == Permutations(Workers) \cup Permutations(Users)
=============================================================================
