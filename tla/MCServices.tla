----------------------------- MODULE MCServices -----------------------------
(***************************************************************************)
(* Safety of six components that share no state, in one run.  A behaviour *)
(* picks an instance of one of them at the start and stays in it, while    *)
(* the others rest in their initial states.                                *)
(*   idempotency  three calls with one key and two bodies                  *)
(*   edited       one delivery, two workers, a failed job and an edit      *)
(*   deliveries   two deliveries, two workers, a failed job                *)
(*   tokens       three requests, two tiers                                *)
(*   sessions     one session by the cap, every verdict, one fault         *)
(*   restarts     two sessions: an old link, a block or a dying request    *)
(*   starts       two requests that start a session at once                *)
(*   ownership    six requests on one ticket, one after the other          *)
(*   races        three requests on one ticket, two at a time              *)
(*   lockout      one tab, wrong passwords, a moderator and its five acts  *)
(*   signins      two tabs that sign in, refresh and set passwords         *)
(***************************************************************************)
EXTENDS Idempotency, WebhookDelivery, TokenBucket, KycSessions, Tickets, SignIn

VARIABLE instance

webhookVars == vars  \* those of WebhookDelivery

\* Two tiers, as in the code with a rate and a capacity of their own.
FirmTiers == {[capacity |-> 2, rate |-> 1], [capacity |-> 4, rate |-> 3]}

Edited == INSTANCE WebhookDelivery WITH
  Emitted <- {"d1"}, Edits <- {"disable", "enable", "delete", "replay"}

Restarts == INSTANCE KycSessions WITH
  Cap <- 2, Verdicts <- {"approved", "declined"},
  Faults <- {"block", "duplicate", "die", "rehosted"}
Starts == INSTANCE KycSessions WITH
  KycRequests <- {"p1", "p2"}, Verdicts <- {"declined"}, Faults <- {}

Ownership == INSTANCE Tickets WITH
  Staff <- {"a"}, Support <- {"b"}, Requests <- {"p1"}
Races == INSTANCE Tickets WITH
  MaxRequests <- 3, NewStatuses <- {},
  Operations <- {"update", "invite", "answer", "remove", "join", "takeOver"}

SignInRaces == INSTANCE SignIn WITH
  Tabs <- {"t1", "t2"}, Ways <- {"password", "wallet", "refresh", "logout", "change", "reset"},
  Acts <- {"suspend", "ban"}, MaxSignIns <- 3, MaxActs <- 1

MCInit ==
  /\ IdempotencyInit /\ BucketInit /\ TicketsInit /\ Init
  /\ \/ /\ instance \in {"idempotency", "edited", "deliveries", "tokens", "sessions",
                         "restarts", "ownership", "races", "lockout"}
        /\ KycInit /\ SignInInit
     \/ instance = "starts" /\ Starts!KycInit /\ SignInInit
     \/ instance = "signins" /\ KycInit /\ SignInRaces!SignInInit
  /\ instance # "tokens" => tier = CHOOSE t \in Tiers : TRUE

MCNext ==
  \/ /\ instance = "tokens" /\ BucketNext
     /\ UNCHANGED <<instance, idempotencyVars, webhookVars, kycVars, ticketVars, signInVars>>
  \/ /\ instance = "idempotency" /\ IdempotencyNext
     /\ UNCHANGED <<instance, bucketVars, webhookVars, kycVars, ticketVars, signInVars>>
  \/ /\ \/ instance = "edited" /\ Edited!Next
        \/ instance = "deliveries" /\ Next
     /\ UNCHANGED <<instance, bucketVars, idempotencyVars, kycVars, ticketVars, signInVars>>
  \/ /\ \/ instance = "sessions" /\ KycNext
        \/ instance = "restarts" /\ Restarts!KycNext
        \/ instance = "starts" /\ Starts!KycNext
     /\ UNCHANGED <<instance, bucketVars, idempotencyVars, webhookVars, ticketVars, signInVars>>
  \/ /\ \/ instance = "ownership" /\ Ownership!TicketsNext
        \/ instance = "races" /\ Races!TicketsNext
     /\ UNCHANGED <<instance, bucketVars, idempotencyVars, webhookVars, kycVars, signInVars>>
  \/ /\ \/ instance = "lockout" /\ SignInNext
        \/ instance = "signins" /\ SignInRaces!SignInNext
     /\ UNCHANGED <<instance, bucketVars, idempotencyVars, webhookVars, kycVars, ticketVars>>

MCSpec ==
  MCInit /\ [][MCNext]_<<instance, bucketVars, idempotencyVars, webhookVars, kycVars, ticketVars,
                        signInVars>>

-----------------------------------------------------------------------------
(* The other properties of the run are those of the modules above. *)

\* The type invariant of the component that runs.
ServicesTypeOK ==
  /\ instance = "tokens" => TokenBucketTypeOK
  /\ instance = "idempotency" => IdempotencyTypeOK
  /\ instance \in {"edited", "deliveries"} => WebhookTypeOK
  /\ instance \in {"sessions", "restarts"} => KycSessionsTypeOK
  /\ instance = "starts" => Starts!KycSessionsTypeOK
  /\ instance \in {"ownership", "races"} => TicketsTypeOK
  /\ instance = "lockout" => SignInTypeOK
  /\ instance = "signins" => SignInRaces!SignInTypeOK
=============================================================================
