------------------------------- MODULE OnceOnly -------------------------------
(***************************************************************************)
(* What an Idempotency-Key promises to the calls that carry it: one of     *)
(* them at a time works on the operation, none once it has been carried    *)
(* out, and every answer a call is given is that of a call that carried it *)
(* out.  Until the key is forgotten there is thus one execution and one    *)
(* answer.  How claims, polls, late stores and releases of a row achieve   *)
(* this is Idempotency's business.                                         *)
(***************************************************************************)
CONSTANTS Calls, NoCall

VARIABLES
  engaged,    \* calls that work on the operation, or have carried it out
  done,       \* those that have carried it out
  told,       \* per call, the one whose answer it was given
  forgotten   \* the promise has run out

OnceInit ==
  /\ engaged = {} /\ done = {}
  /\ told = [c \in Calls |-> NoCall]
  /\ forgotten = FALSE

Engage(c) ==
  /\ engaged = {} \/ forgotten
  /\ engaged' = engaged \cup {c}
  /\ UNCHANGED <<done, told, forgotten>>

CarryOut(c) ==
  /\ c \in engaged \ done
  /\ done' = done \cup {c}
  /\ UNCHANGED <<engaged, told, forgotten>>

GiveUp(c) ==
  /\ c \in engaged \ done
  /\ engaged' = engaged \ {c}
  /\ UNCHANGED <<done, told, forgotten>>

Tell(c, d) ==
  /\ d \in done
  /\ told[c] = NoCall
  /\ told' = [told EXCEPT ![c] = d]
  /\ UNCHANGED <<engaged, done, forgotten>>

Forget ==
  /\ forgotten' = TRUE
  /\ UNCHANGED <<engaged, done, told>>

OnceNext ==
  \/ \E c \in Calls : Engage(c) \/ CarryOut(c) \/ GiveUp(c) \/ \E d \in Calls : Tell(c, d)
  \/ Forget

OnceSpec == OnceInit /\ [][OnceNext]_<<engaged, done, told, forgotten>>
=============================================================================
