---------------------------- MODULE KycSessions ----------------------------
(***************************************************************************)
(* The identity verification sessions of one customer: how Didit's         *)
(* decisions reach their rows.                                             *)
(*                                                                         *)
(* Didit pushes every decision as a webhook, at least once, in any order,  *)
(* perhaps too late; the page that waits for it, a resumed session and the *)
(* reconciler pull it.  All of them write the same rows with no            *)
(* transaction around what they read, and starts, revocations and the      *)
(* reverse-drift pass write them too.  The credential itself is            *)
(* CredentialPipeline's subject and one action here.                       *)
(***************************************************************************)
EXTENDS Naturals, FiniteSets

CONSTANTS
  MaxSessions,  \* bound: rows the model has room for
  Cap,          \* MONTHLY_SESSION_CAP_PER_CUSTOMER
  KycRequests,  \* HTTP requests in flight
  Worker,       \* the process that runs the reconciler's cycles
  Verdicts,     \* bound: the decisions Didit comes to
  Faults, MaxKycFaults  \* bound: kinds of faults, and how many

\* The bounds are numbers.
ASSUME KycSessionsAssumption == MaxSessions \in Nat /\ MaxKycFaults \in Nat

Sessions == 1..MaxSessions
Handlers == KycRequests \cup {Worker}

VARIABLES
  didit,     \* the decision Didit holds for each session
  inbox,     \* webhooks sent; one that is lost stays here for ever
  kycRow,    \* kyc_sessions.status
  newest,    \* the latest session, in the order of created_at
  customer,  \* customers: verified (kyc_level above kyc_0), revoked (revoked_at), declines
  credential, \* the customer's row of kyc_credentials_meta
  cut,       \* the latest session when the credential was revoked
  queue,     \* credential pipeline jobs, by session
  audit,     \* which of kyc_started and kyc_completed or kyc_revoked were written
  handler,   \* program counter and locals of each request or pass
  kycFaults

kycVars == <<didit, inbox, kycRow, newest, customer, credential, cut, queue, audit, handler,
             kycFaults>>

\* What Didit may say; "in_progress" stands for its in_review and resubmitted
\* too, "expired" for its abandoned.  Of a session not started ("created") it is
\* taken to send nothing, but a pull may learn it.
Decisions == {"in_progress", "approved", "declined", "expired", "kyc_expired"}
Message(s, d) == [session |-> s, decision |-> d]
Blocked == Message(0, "blocked")  \* the user.* webhook

\* mapDiditStatusToInternal, of an identity session.
Mapped(d) == CASE d = "approved" -> "identity_approved" [] d = "declined" -> "rejected" [] OTHER -> d

ActiveStatuses == {"pending", "in_progress", "identity_approved"}  \* and those left out
TerminalStatuses == {"rejected", "expired", "revoked"}             \* TERMINAL_STATUSES
Closed == TerminalStatuses \cup {"kyc_expired"}
KycStatuses == {"absent"} \cup ActiveStatuses \cup Closed

IdleHandler == [pc |-> "idle", session |-> 0, decision |-> "none", revoked |-> FALSE]
Do(p, pc, s, d) ==
  handler' = [handler EXCEPT ![p] = [IdleHandler EXCEPT !.pc = pc, !.session = s, !.decision = d]]
Finish(p) == handler' = [handler EXCEPT ![p] = IdleHandler]
HandlerAt(p, pc) == handler' = [handler EXCEPT ![p].pc = pc]

KycInit ==
  /\ didit = [s \in Sessions |-> "none"]
  /\ inbox = {} /\ newest = 0 /\ cut = 0 /\ queue = {} /\ audit = {} /\ kycFaults = 0
  /\ kycRow = [s \in Sessions |-> "absent"]
  /\ customer = [verified |-> FALSE, revoked |-> FALSE, declines |-> 0]
  /\ credential = "none"
  /\ handler = [p \in Handlers |-> IdleHandler]

Fault(f) == f \in Faults /\ kycFaults < MaxKycFaults /\ kycFaults' = kycFaults + 1

\* kyc_sessions_customer_workflow_active_key: a write that breaks it fails.
Fits(new) == Cardinality({s \in Sessions : new[s] \in ActiveStatuses}) <= 1

-----------------------------------------------------------------------------
(* Didit.                                                                  *)

DiditDecides(s, d) ==
  /\ \/ didit[s] \in {"created", "in_progress"} /\ d \in Decisions \ {"kyc_expired"}
     \/ didit[s] = "approved" /\ d = "kyc_expired"
  /\ d # didit[s]
  /\ didit' = [didit EXCEPT ![s] = d]
  /\ inbox' = inbox \cup {Message(s, d)}
  /\ UNCHANGED <<kycRow, newest, customer, credential, cut, queue, audit, handler, kycFaults>>

\* The session, or the user with it, is deleted at Didit: lookups answer 404.
Forget(s) ==
  /\ Fault("forget") /\ didit[s] \notin {"none", "gone"}
  /\ didit' = [didit EXCEPT ![s] = "gone"]
  /\ UNCHANGED <<inbox, kycRow, newest, customer, credential, cut, queue, audit, handler>>

BlockUser ==
  /\ Fault("block")
  /\ inbox' = inbox \cup {Blocked}
  /\ UNCHANGED <<didit, kycRow, newest, customer, credential, cut, queue, audit, handler>>

-----------------------------------------------------------------------------
(* handleStartIdentity.                                                    *)

\* The customer was read before; a row that is active is resumed, unless its
\* link points to a host no longer in use.
Start(p) ==
  /\ handler[p] = IdleHandler /\ ~customer.verified /\ newest < MaxSessions
  /\ (\E s \in Sessions : kycRow[s] \in ActiveStatuses) => "rehosted" \in Faults
  /\ handler' = [handler EXCEPT
       ![p] = [IdleHandler EXCEPT !.pc = "start", !.revoked = customer.revoked]]
  /\ UNCHANGED <<didit, inbox, kycRow, newest, customer, credential, cut, queue, audit, kycFaults>>

WithinBudget == newest < Cap

\* The transaction under the advisory lock: a row a sibling request has just
\* inserted is resumed, one that is older or rehosted expires, and Didit
\* creates a session for the new row.
StartInTx(p) ==
  LET live == {s \in Sessions : kycRow[s] \in ActiveStatuses}
      swept == [s \in Sessions |-> IF s \in live THEN "expired" ELSE kycRow[s]]
  IN /\ handler[p].pc = "start"
     /\ \/ live # {} /\ UNCHANGED <<didit, kycRow, newest>> /\ Finish(p)
        \/ ~WithinBudget /\ kycRow' = swept /\ UNCHANGED <<didit, newest>> /\ Finish(p)
        \/ /\ WithinBudget /\ newest < MaxSessions
           /\ newest' = newest + 1
           /\ kycRow' = [swept EXCEPT ![newest'] = "pending"]
           /\ didit' = [didit EXCEPT ![newest'] = "created"]
           /\ HandlerAt(p, "started")
     /\ UNCHANGED <<inbox, customer, credential, cut, queue, audit, kycFaults>>

WriteStarted(p) ==
  /\ handler[p].pc = "started"
  /\ audit' = audit \cup {"started"}
  /\ IF handler[p].revoked THEN HandlerAt(p, "clear") ELSE Finish(p)
  /\ UNCHANGED <<didit, inbox, kycRow, newest, customer, credential, cut, queue, kycFaults>>

\* revoked_at goes, whatever it is by now.
ClearRevoked(p) ==
  /\ handler[p].pc = "clear"
  /\ customer' = [customer EXCEPT !.revoked = FALSE]
  /\ Finish(p)
  /\ UNCHANGED <<didit, inbox, kycRow, newest, credential, cut, queue, audit, kycFaults>>

-----------------------------------------------------------------------------
(* handleCustomerWebhook and handleUserEntityWebhook.                      *)

Consume(m) ==
  \/ inbox' = inbox \ {m} /\ UNCHANGED kycFaults
  \/ Fault("duplicate") /\ UNCHANGED inbox

\* One UPDATE by id, whatever the row holds; Didit repeats a delivery that
\* fails on the index.
ReceiveDecision(p, m) ==
  LET new == [kycRow EXCEPT ![m.session] = Mapped(m.decision)]
  IN /\ handler[p] = IdleHandler /\ m \in inbox /\ m # Blocked
     /\ Fits(new) /\ kycRow' = new
     /\ Consume(m)
     /\ CASE m.decision = "declined" -> Do(p, "strike", m.session, m.decision)
          [] m.decision = "approved" -> Do(p, "enqueue", m.session, m.decision)
          [] m.decision = "kyc_expired" -> Do(p, "revoke", m.session, m.decision)
          [] OTHER -> UNCHANGED handler
     /\ UNCHANGED <<didit, newest, customer, credential, cut, queue, audit>>

\* A customer at kyc_0 is taken to be revoked already.
ReceiveBlock(p) ==
  /\ handler[p] = IdleHandler /\ Blocked \in inbox
  /\ Consume(Blocked)
  /\ IF customer.verified THEN Do(p, "revoke", 0, "blocked") ELSE UNCHANGED handler
  /\ UNCHANGED <<didit, kycRow, newest, customer, credential, cut, queue, audit>>

\* revokeActiveCredentials; its failure is swallowed, and ends a block but not
\* an expiry.
RevokeCredential(p) ==
  /\ handler[p].pc = "revoke"
  /\ \/ /\ IF credential = "active" THEN credential' = "revoked" /\ cut' = newest
                                    ELSE UNCHANGED <<credential, cut>>
        /\ HandlerAt(p, "reset") /\ UNCHANGED kycFaults
     \/ /\ Fault("revoke")
        /\ IF handler[p].decision = "blocked" THEN Finish(p) ELSE HandlerAt(p, "reset")
        /\ UNCHANGED <<credential, cut>>
  /\ UNCHANGED <<didit, inbox, kycRow, newest, customer, queue, audit>>

\* kycResetCustomerPatch; a block stamps revoked_at too.
ResetCustomer(p) ==
  /\ handler[p].pc = "reset"
  /\ customer' = [customer EXCEPT !.verified = FALSE,
                                  !.revoked = @ \/ handler[p].decision = "blocked"]
  /\ HandlerAt(p, "sweep")
  /\ UNCHANGED <<didit, inbox, kycRow, newest, credential, cut, queue, audit, kycFaults>>

\* revokeActiveKycSessions, for a webhook or the reverse-drift pass.
RevokedIfPending(r) == [s \in Sessions |-> IF r[s] = "pending" THEN "revoked" ELSE r[s]] \* mutation
RevokedIfActive(r) == [s \in Sessions |-> IF r[s] \in ActiveStatuses THEN "revoked" ELSE r[s]]

RevokeSessions(p) ==
  /\ handler[p].pc = "sweep"
  /\ kycRow' = RevokedIfActive(kycRow)
  /\ audit' = IF handler[p].decision = "blocked" THEN audit \cup {"completed"} ELSE audit
  /\ Finish(p)
  /\ UNCHANGED <<didit, inbox, newest, customer, credential, cut, queue, kycFaults>>

\* incrementDecline
Strike(p) ==
  /\ handler[p].pc = "strike"
  /\ customer' = [customer EXCEPT !.declines = @ + 1]
  /\ Finish(p)
  /\ UNCHANGED <<didit, inbox, kycRow, newest, credential, cut, queue, audit, kycFaults>>

EnqueuePipeline(p) ==
  /\ handler[p].pc = "enqueue"
  /\ queue' = queue \cup {handler[p].session}
  /\ Finish(p)
  /\ UNCHANGED <<didit, inbox, kycRow, newest, customer, credential, cut, audit, kycFaults>>

-----------------------------------------------------------------------------
(* Pulls: pullAndApplyDiditDecision for the waiting page and the callback, *)
(* handleResumeSession, and the reconciler's reconcileCustomer.            *)

\* A pull compares with the row it has read: an answer that says the same ends
\* it there.
Answer(d) ==
  CASE d \in {"gone", "overdue"} -> "expired" [] d = "created" -> "pending" [] OTHER -> Mapped(d)

Pull(p, s) ==
  /\ handler[p] = IdleHandler /\ kycRow[s] \in ActiveStatuses /\ kycRow[s] # Answer(didit[s])
  /\ Do(p, "pull", s, didit[s])
  /\ UNCHANGED <<didit, inbox, kycRow, newest, customer, credential, cut, queue, audit, kycFaults>>

\* A resumed session may be past expires_at; its start is noticed while the row
\* is pending.
Resume(p, s) ==
  /\ handler[p] = IdleHandler /\ kycRow[s] \notin TerminalStatuses \cup {"absent"}
  /\ \/ "overdue" \in Faults /\ Do(p, "resume", s, "overdue")
     \/ /\ \/ didit[s] \in {"approved", "declined"}
           \/ didit[s] = "in_progress" /\ kycRow[s] = "pending"
        /\ Do(p, "resume", s, didit[s])
  /\ UNCHANGED <<didit, inbox, kycRow, newest, customer, credential, cut, queue, audit, kycFaults>>

\* findDriftCandidates, and the latest session of the one it finds.
Drifted ==
  /\ "started" \in audit /\ "completed" \notin audit
  /\ credential # "active" /\ ~customer.revoked

Reconcile ==
  /\ handler[Worker] = IdleHandler /\ Drifted /\ newest > 0 /\ kycRow[newest] \notin Closed
  /\ Do(Worker, "reconcile", newest, didit[newest])
  /\ UNCHANGED <<didit, inbox, kycRow, newest, customer, credential, cut, queue, audit, kycFaults>>

\* UPDATE ... WHERE status IN PULL_OVERWRITABLE_STATUSES, which Active stands for.
AnySession(s) == kycRow[s] # "absent"  \* mutation: by id only
OverwritableIfPending(s) == kycRow[s] = "pending"  \* mutation: a status is missing from the list
Overwritable(s) == kycRow[s] \in ActiveStatuses

\* The reconciler queues an approval without writing it, and leaves alone what
\* Didit has not decided.
WriteDecision(p) ==
  LET s == handler[p].session
      d == handler[p].decision
      reconciling == handler[p].pc = "reconcile"
      written == Overwritable(s) /\ ~(reconciling /\ d \in {"approved", "created", "in_progress"})
  IN /\ handler[p].pc \in {"pull", "reconcile"}
     /\ kycRow' = IF written THEN [kycRow EXCEPT ![s] = Answer(d)] ELSE kycRow
     /\ CASE d = "declined" /\ written -> HandlerAt(p, "strike")
          [] d = "approved" /\ (written \/ reconciling) -> HandlerAt(p, "enqueue")
          [] OTHER -> Finish(p)
     /\ UNCHANGED <<didit, inbox, newest, customer, credential, cut, queue, audit, kycFaults>>

\* handleResumeSession writes by id, and does not count a decline.
WriteResumed(p) ==
  LET new == [kycRow EXCEPT ![handler[p].session] = Answer(handler[p].decision)]
  IN /\ handler[p].pc = "resume"
     /\ IF Fits(new) THEN kycRow' = new ELSE UNCHANGED kycRow
     /\ IF Fits(new) /\ handler[p].decision = "approved" THEN HandlerAt(p, "enqueue") ELSE Finish(p)
     /\ UNCHANGED <<didit, inbox, newest, customer, credential, cut, queue, audit, kycFaults>>

\* findReverseDriftCandidates: a revoked customer, or a revoked credential and
\* no session begun since.
RevokedLong ==
  credential = "revoked" /\ \A s \in Sessions : kycRow[s] \in ActiveStatuses => s <= cut

ReverseDrifted == customer.revoked \/ RevokedLong

ReverseDrift ==
  /\ handler[Worker] = IdleHandler /\ ReverseDrifted
  /\ \E s \in Sessions : kycRow[s] \in ActiveStatuses
  /\ Do(Worker, "sweep", 0, "drift")
  /\ UNCHANGED <<didit, inbox, kycRow, newest, customer, credential, cut, queue, audit, kycFaults>>

-----------------------------------------------------------------------------
\* The credential pipeline's job, as CredentialPipeline has it in detail.
Mint(s) ==
  /\ s \in queue
  /\ queue' = queue \ {s}
  /\ IF didit[s] = "approved" /\ credential # "active"
     THEN /\ credential' = "active"
          /\ customer' = [customer EXCEPT !.verified = TRUE]
          /\ audit' = audit \cup {"completed"}
     ELSE UNCHANGED <<credential, customer, audit>>
  /\ UNCHANGED <<didit, inbox, kycRow, newest, cut, handler, kycFaults>>

\* The process dies, or the statement of its next step fails.
HandlerDies(p) ==
  /\ handler[p] # IdleHandler /\ Fault("die")
  /\ Finish(p)
  /\ UNCHANGED <<didit, inbox, kycRow, newest, customer, credential, cut, queue, audit>>

HandlerStep(p) ==
  \/ StartInTx(p) \/ WriteStarted(p) \/ ClearRevoked(p) \/ RevokeCredential(p)
  \/ ResetCustomer(p) \/ RevokeSessions(p) \/ Strike(p) \/ EnqueuePipeline(p)
  \/ WriteDecision(p) \/ WriteResumed(p)

KycNext ==
  \/ \E s \in Sessions : (\E d \in Verdicts : DiditDecides(s, d)) \/ Forget(s) \/ Mint(s)
  \/ BlockUser
  \/ \E p \in KycRequests :
       \/ Start(p) \/ ReceiveBlock(p)
       \/ \E m \in inbox : ReceiveDecision(p, m)
       \/ \E s \in Sessions : Pull(p, s) \/ Resume(p, s)
  \/ Reconcile \/ ReverseDrift
  \/ \E p \in Handlers : HandlerStep(p) \/ HandlerDies(p)

KycSpec == KycInit /\ [][KycNext]_kycVars

(* What has begun goes on; every cycle of the reconciler runs both passes, *)
(* and the pipeline's queue serves its jobs.  Nothing is asked of Didit,   *)
(* of the webhooks' arrival or of the customer.                            *)
KycFairness ==
  /\ \A p \in Handlers : WF_kycVars(HandlerStep(p))
  /\ SF_kycVars(Reconcile) /\ SF_kycVars(ReverseDrift)
  /\ \A s \in Sessions : WF_kycVars(Mint(s))
KycFairSpec == KycSpec /\ KycFairness

-----------------------------------------------------------------------------
(* Properties.                                                             *)

KycSessionsTypeOK ==
  /\ didit \in [Sessions -> {"none", "created", "gone"} \cup Decisions]
  /\ inbox \subseteq [session : Sessions, decision : Decisions] \cup {Blocked}
  /\ kycRow \in [Sessions -> KycStatuses] /\ newest \in 0..MaxSessions /\ cut \in 0..MaxSessions
  /\ customer \in [verified : BOOLEAN, revoked : BOOLEAN, declines : Nat]
  /\ credential \in {"none", "active", "revoked"}
  /\ queue \subseteq Sessions /\ audit \subseteq {"started", "completed"}
  /\ handler \in [Handlers ->
        [pc : {"idle", "start", "started", "clear", "strike", "enqueue", "revoke", "reset",
               "sweep", "pull", "resume", "reconcile"},
         session : 0..MaxSessions, revoked : BOOLEAN,
         decision : {"none", "created", "gone", "overdue", "blocked", "drift"} \cup Decisions]]
  /\ kycFaults \in 0..MaxKycFaults

\* A closed session is opened again by a late webhook or by a resume that read
\* it before; no pull, pass or start does so with what it read earlier.
OnlyDiditReopens ==
  [][\A s \in Sessions :
       kycRow[s] \in Closed /\ kycRow'[s] \in ActiveStatuses =>
         \/ \E m \in inbox : m.session = s
         \/ \E p \in Handlers : handler[p].pc = "resume" /\ handler[p].session = s]_kycVars

\* Although every webhook is lost and nobody opens the page, what Didit decided
\* about the latest session of a customer without a credential takes effect.
DecisionIsLearned ==
  \A s \in Sessions :
    (newest = s /\ kycRow[s] \in ActiveStatuses /\ Drifted
       /\ didit[s] \in {"approved", "declined", "expired", "gone"})
      ~> kycRow[s] \in Closed \/ ~Drifted \/ newest # s

\* A revocation that died before it closed the sessions is finished by the
\* reverse-drift pass.
OrphansAreClosed ==
  ReverseDrifted /\ (\E s \in Sessions : kycRow[s] \in ActiveStatuses)
    ~> ~ReverseDrifted \/ \A s \in Sessions : kycRow[s] \notin ActiveStatuses
=============================================================================
