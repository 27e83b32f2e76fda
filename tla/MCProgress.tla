----------------------------- MODULE MCProgress -----------------------------
(***************************************************************************)
(* Liveness of five components that share no state, in one run, under the  *)
(* fairness each module states.  A behaviour picks one of them at the      *)
(* start and stays in it, while the others rest in their initial states.   *)
(*   idempotency  two calls with one key and two bodies                    *)
(*   webhooks     two deliveries, one worker, a failed job                 *)
(*   sessions     one identity session, one fault                          *)
(*   grants       one customer's consents and the grant sweep              *)
(*   pipeline     crashes and failures of the credential pipeline          *)
(***************************************************************************)
VARIABLES
  component,
  slot, call, executed, lapsed,
  endpoint, row, jobs, worker, queued, faults, edits, posts, streak, blurred, forked, replayed,
  didit, inbox, kycRow, newest, customer, credential, cut, queue, kycAudit, handler, kycFaults,
  clientRevoked, req, consents, codes, tokens, oauthCall, grants, batch, verdict,
  oauthFaults, events, overtaken,
  content, status, badge, readers,
  account, wallet, session, latest, decided, job, rows, pipelineWorker, admin, expirer,
  minter, audit, pipelineFaults, interventions, raced, disturbed, doubled

idempotencyVars == <<slot, call, executed, lapsed>>
webhookVars == <<endpoint, row, jobs, worker, queued, faults, edits, posts, streak, blurred,
                 forked, replayed>>
kycVars == <<didit, inbox, kycRow, newest, customer, credential, cut, queue, kycAudit, handler,
             kycFaults>>
oauthVars == <<clientRevoked, req, consents, codes, tokens, oauthCall, grants, batch, verdict,
               oauthFaults, events, overtaken>>
pipelineVars == <<content, status, badge, readers, account, wallet, session, latest, decided,
                  job, rows, pipelineWorker, admin, expirer, minter, audit, pipelineFaults,
                  interventions, raced, disturbed, doubled>>

Idem == INSTANCE Idempotency WITH
  Calls <- {"c1", "c2"}, NoCall <- "nobody", Bodies <- {"b1", "b2"}, NoBody <- "nothing"

Hook == INSTANCE WebhookDelivery WITH
  Deliveries <- {"d1", "d2"}, NoDelivery <- "nothing", Emitted <- {"d1", "d2"},
  Workers <- {"w1"}, MaxAttempts <- 2, Threshold <- 2, RetryLimit <- 1, MaxFaults <- 1,
  Edits <- {}, MaxEdits <- 0

Kyc == INSTANCE KycSessions WITH
  MaxSessions <- 1, Cap <- 1, KycRequests <- {"p1"}, Worker <- "w1",
  Verdicts <- {"in_progress", "approved", "declined", "expired"},
  Faults <- {"forget", "block", "revoke", "die"}, MaxKycFaults <- 1,
  audit <- kycAudit

Oauth == INSTANCE OauthFlow WITH
  Users <- {"alice"}, NoUser <- "nobody", Requests <- {"r1", "r2"}, NoRequest <- "nothing",
  Scopes <- {"enhanced"}, Calls <- {"c1"}, MaxAttempts <- 2,
  Faults <- {"db", "reverted", "crash"}, MaxFaults <- 1, Events <- {"revoke"}, MaxEvents <- 1,
  call <- oauthCall, faults <- oauthFaults

Pipeline == INSTANCE CredentialPipeline WITH
  Users <- {"u1"}, Firms <- {}, Contents <- {"basic", "enhanced"}, NoContent <- "nothing",
  Workers <- {"w1"}, Sessions <- {"id1", "ad1"}, Address <- {"ad1"}, NoSession <- "nothing",
  NoWallet <- "nothing", RetryLimit <- 1, MaxCopies <- 1,
  Faults <- {"crash", "chain", "db", "auditAfterCommit"}, MaxFaults <- 2,
  Interventions <- {}, MaxInterventions <- 0, MaxRows <- 3,
  worker <- pipelineWorker, faults <- pipelineFaults

MCInit ==
  /\ component \in {"idempotency", "webhooks", "sessions", "grants", "pipeline"}
  /\ Idem!IdempotencyInit /\ Hook!Init /\ Kyc!KycInit /\ Oauth!Init /\ Pipeline!Init

MCNext ==
  \/ /\ component = "idempotency" /\ Idem!IdempotencyNext
     /\ UNCHANGED <<component, webhookVars, kycVars, oauthVars, pipelineVars>>
  \/ /\ component = "webhooks" /\ Hook!Next
     /\ UNCHANGED <<component, idempotencyVars, kycVars, oauthVars, pipelineVars>>
  \/ /\ component = "sessions" /\ Kyc!KycNext
     /\ UNCHANGED <<component, idempotencyVars, webhookVars, oauthVars, pipelineVars>>
  \/ /\ component = "grants" /\ Oauth!Next
     /\ UNCHANGED <<component, idempotencyVars, webhookVars, kycVars, pipelineVars>>
  \/ /\ component = "pipeline" /\ Pipeline!Next
     /\ UNCHANGED <<component, idempotencyVars, webhookVars, kycVars, oauthVars>>

MCVars == <<component, idempotencyVars, webhookVars, kycVars, oauthVars, pipelineVars>>
MCSpec ==
  /\ MCInit /\ [][MCNext]_MCVars
  /\ Idem!IdempotencyFairness /\ Hook!Fairness /\ Kyc!KycFairness
  /\ Oauth!Fairness /\ Pipeline!Fairness

-----------------------------------------------------------------------------
(* The components' properties, under the names of their modules.           *)

\* A claim gives way, whatever became of its holder.
ClaimGivesWay == Idem!ClaimGivesWay
\* A queued delivery settles.
QueuedDeliverySettles == Hook!QueuedDeliverySettles
\* The reconciler learns what lost webhooks said.
DecisionIsLearned == Kyc!DecisionIsLearned
\* The reverse-drift pass finishes a revocation.
OrphansAreClosed == Kyc!OrphansAreClosed
\* A grant row is granted, or parked with its retries used up.
GrantsSettle == Oauth!GrantsSettle
\* An approved identity verification is minted.
IdentityIsMinted == Pipeline!IdentityIsMinted
=============================================================================
