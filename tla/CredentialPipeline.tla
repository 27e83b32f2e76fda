------------------------- MODULE CredentialPipeline -------------------------
(***************************************************************************)
(* How an approved verification becomes a credential, for one customer of  *)
(* the self-service flow.  A delivery (webhook, pull or resume) enqueues a *)
(* job; a worker turns the job into a transaction on the chain, and then   *)
(* into a row of kyc_credentials_meta, in many separately committed steps. *)
(* Bans, resets, expiry sweeps, wallet changes and badge mints run between *)
(* any two of them, and so do crashes and retries.                         *)
(*                                                                         *)
(* Names kept from the code: a row is a kyc_credentials_meta row, `level`  *)
(* of a row is basic or enhanced, kyc_0/kyc_3/kyc_4 are customer levels.   *)
(***************************************************************************)
EXTENDS CredentialLedger, Integers, Sequences

CONSTANTS
  Workers,           \* processes that consume the credential-pipeline queue
  Sessions,          \* kyc_sessions rows of the customer
  Address,           \* those of the address workflow; the others are identity
  NoSession, NoWallet,
  RetryLimit,        \* pg-boss retries of a job
  MaxCopies,         \* bound: unfinished jobs of one session
  Faults,            \* which of the faults below may occur
  MaxFaults,         \* bound: how many of them
  Interventions,     \* which of Ban, Reset... may occur
  MaxInterventions,  \* bound: how many of them
  MaxRows            \* bound: deliveries stop once there are so many rows

ASSUME PipelineAssumption ==
  /\ Address \subseteq Sessions
  /\ Contents = {"basic", "enhanced"}
  /\ NoSession \notin Sessions
  /\ NoWallet \notin Users
  /\ "queued" \notin Workers /\ "none" \notin Workers
  /\ RetryLimit \in Nat /\ MaxFaults \in Nat /\ MaxInterventions \in Nat /\ MaxRows \in Nat
  /\ MaxCopies \in Nat \ {0}

Copies == 1..MaxCopies
Jobs == Sessions \X Copies

VARIABLES
  account,   \* the customers row: status and kycLevel
  wallet,    \* the linked evm_wallet, or NoWallet
  session,   \* kyc_sessions.status; "approved" stands for identity_approved too
  latest,    \* the session started last
  decided,   \* sessions the verification provider has approved
  job,       \* the queue: of each session, so many copies of its job
  rows,      \* kyc_credentials_meta of the customer, in insertion order
  worker,    \* program counter and locals of each worker
  admin,     \* the ban or reset in progress
  expirer,   \* the row an expiry sweep has selected, or 0
  minter,    \* the showcase-token request in progress
  audit,     \* audit actions inside the reconciler's lookback
  faults, interventions,   \* counts, for the bounds
  raced,     \* history: a worker was past the status gate when the ban began, or
             \* the ban's request has died
  disturbed, \* history: row and chain may differ, by what Disturbs names, and
             \* some row has been live or some worker at work ever since
  doubled    \* history: sessions that two workers have been at work on at once

pipelineVars == <<account, wallet, session, latest, decided, job, rows, worker,
                  admin, expirer, minter, audit, faults, interventions, raced>>
systemVars == <<ledgerVars, pipelineVars>>
vars == <<systemVars, disturbed, doubled>>

\* An approval is taken to have every flag of its workflow set: fewer flags make
\* a level (kyc_1, kyc_2) from which no phase starts, and the same row.
Level(s) == IF s \in Address THEN "enhanced" ELSE "basic"
KycLevel(s) == IF s \in Address THEN "kyc_4" ELSE "kyc_3"

IdleWorker ==
  [pc |-> "idle", session |-> NoSession, copy |-> 0, wallet |-> NoWallet, old |-> 0]
IdleAdmin  == [op |-> "none", pc |-> "idle", row |-> 0, burn |-> FALSE]
IdleMinter == [pc |-> "idle", row |-> 0, wallet |-> NoWallet]

\* Rows the partial unique index (firm_id, user_ref) counts; the pipeline
\* inserts no other status than active.
Live == {i \in DOMAIN rows : rows[i].status = "active"}
LiveRow == IF Live = {} THEN 0 ELSE CHOOSE i \in Live : TRUE
SetRow(i, st) == rows' = [rows EXCEPT ![i].status = st]

Init ==
  /\ LedgerInit
  /\ account = [status |-> "active", level |-> "kyc_0"]
  /\ wallet = NoWallet
  /\ session = [s \in Sessions |-> "none"]
  /\ latest = NoSession
  /\ decided = {}
  /\ job = [j \in Jobs |-> [at |-> "none", tries |-> 0]]
  /\ rows = <<>>
  /\ worker = [w \in Workers |-> IdleWorker]
  /\ admin = IdleAdmin
  /\ expirer = 0
  /\ minter = IdleMinter
  /\ audit = {}
  /\ faults = 0 /\ interventions = 0
  /\ raced = FALSE
  /\ disturbed = FALSE /\ doubled = {}

Fault(f) ==
  /\ f \in Faults /\ faults < MaxFaults
  /\ faults' = faults + 1

Intervene(i) ==
  /\ i \in Interventions /\ interventions < MaxInterventions
  /\ interventions' = interventions + 1

-----------------------------------------------------------------------------
(* The customer, the provider, and the deliveries that enqueue.            *)

\* handleStartIdentity / handleStartAddress: the levels of the phase registry.
StartSession(s) ==
  /\ session[s] = "none"
  /\ account.status = "active"
  /\ wallet # NoWallet
  /\ account.level = IF s \in Address THEN "kyc_3" ELSE "kyc_0"
  /\ \A t \in Sessions : session[t] = "started" => Level(t) # Level(s)
  /\ session' = [session EXCEPT ![s] = "started"]
  /\ latest' = s
  /\ audit' = audit \cup {"started"}
  /\ UNCHANGED <<ledgerVars, account, wallet, decided, job, rows, worker, admin,
                 expirer, minter, faults, interventions, raced>>

\* The provider approves the verification.
Decide(s) ==
  /\ session[s] = "started"
  /\ decided' = decided \cup {s}
  /\ UNCHANGED <<ledgerVars, account, wallet, session, latest, job, rows, worker,
                 admin, expirer, minter, audit, faults, interventions, raced>>

Unused(s) == {c \in Copies : job[<<s, c>>].at = "none"}
Put(j) == job' = [job EXCEPT ![j] = [at |-> "queued", tries |-> 0]]

\* mutation: the key blocks a failed job's successor
EnqueueUnlessFailed(s) == \E c \in Unused(s) : job[<<s, c>>].tries = 0 /\ Put(<<s, c>>)

\* enqueueCredentialPipeline.  The singleton key does not keep a second job of
\* the session out: the queue is created without a policy, and pg-boss reads the
\* key of such a queue only together with a time window, which is not given.
Enqueue(s) == Unused(s) # {} /\ Put(<<s, CHOOSE c \in Unused(s) : TRUE>>)

\* The webhook sets the session's status whatever it was and then enqueues; it
\* may come never, late, or again, and the enqueue may fail after the update.
Deliver(s) ==
  /\ s \in decided
  /\ Len(rows) < MaxRows
  /\ session' = [session EXCEPT ![s] = "approved"]
  /\ Enqueue(s) \/ UNCHANGED job
  /\ UNCHANGED <<ledgerVars, account, wallet, latest, decided, rows, worker, admin,
                 expirer, minter, audit, faults, interventions, raced>>

LinkWallet(u) ==
  /\ wallet = NoWallet
  /\ wallet' = u
  /\ UNCHANGED <<ledgerVars, account, session, latest, decided, job, rows, worker,
                 admin, expirer, minter, audit, faults, interventions, raced>>

UnlinkWallet ==
  /\ Intervene("unlink")
  /\ wallet # NoWallet
  /\ Live = {}
  /\ wallet' = NoWallet
  /\ UNCHANGED <<ledgerVars, account, session, latest, decided, job, rows, worker,
                 admin, expirer, minter, audit, faults, raced>>

-----------------------------------------------------------------------------
(* processCredentialPipelineCustomer, one step per committed effect or     *)
(* remote read.                                                            *)

Goto(w, pc) == worker' = [worker EXCEPT ![w].pc = pc]

JobOf(w) == <<worker[w].session, worker[w].copy>>

\* The handler returns: pg-boss completes the job if this worker still has it.
Finish(w) ==
  /\ job' = IF job[JobOf(w)].at = w THEN [job EXCEPT ![JobOf(w)].at = "none"] ELSE job
  /\ worker' = [worker EXCEPT ![w] = IdleWorker]

RetryForEver(j) == job' = [job EXCEPT ![j] = [at |-> "queued", tries |-> @.tries + 1]]   \* mutation

\* Back in the queue while retries are left.
Retry(j) ==
  job' = [job EXCEPT ![j] = IF @.tries < RetryLimit
                            THEN [at |-> "queued", tries |-> @.tries + 1]
                            ELSE [at |-> "none", tries |-> @.tries]]

\* The handler throws.
Throw(w) ==
  /\ IF job[JobOf(w)].at = w THEN Retry(JobOf(w)) ELSE UNCHANGED job
  /\ worker' = [worker EXCEPT ![w] = IdleWorker]

\* Fetch the decision; nothing is enqueued for a session not decided.
Take(w, j) ==
  /\ worker[w].pc = "idle"
  /\ job[j].at = "queued"
  /\ job' = [job EXCEPT ![j].at = w]
  /\ worker' = [worker EXCEPT ![w] = [IdleWorker EXCEPT !.pc = "customer",
                                                        !.session = j[1], !.copy = j[2]]]
  /\ UNCHANGED <<ledgerVars, account, wallet, session, latest, decided, rows, admin,
                 expirer, minter, audit, faults, interventions, raced>>

\* getDecision answers 404: expire the session where a pull may overwrite it.
\* (approved is overwritable for the identity workflow, identity_approved.)
ProviderForgot(w) ==
  /\ worker[w].pc = "customer"
  /\ Fault("gone")
  /\ LET s == worker[w].session IN
       session' = IF session[s] = "started" \/ (session[s] = "approved" /\ s \notin Address)
                  THEN [session EXCEPT ![s] = "expired"] ELSE session
  /\ Finish(w)
  /\ UNCHANGED <<ledgerVars, account, wallet, latest, decided, rows, admin, expirer,
                 minter, audit, interventions, raced>>

LoadAnyCustomer(w) ==   \* mutation
  /\ worker[w].pc = "customer"
  /\ Goto(w, "guard")
  /\ UNCHANGED <<ledgerVars, account, wallet, session, latest, decided, job, rows,
                 admin, expirer, minter, audit, faults, interventions, raced>>

\* The status gate: only an active customer is minted for.
LoadCustomer(w) ==
  /\ worker[w].pc = "customer"
  /\ IF account.status = "active"
     THEN Goto(w, "guard") /\ UNCHANGED job
     ELSE Finish(w)
  /\ UNCHANGED <<ledgerVars, account, wallet, session, latest, decided, rows, admin,
                 expirer, minter, audit, faults, interventions, raced>>

ReplayedIfLive(s) ==   \* mutation
  IF s \in Address THEN \E i \in Live : rows[i].session = s ELSE Live # {}

\* Identity stops at any live row of the customer, address at any row that the
\* session itself produced.
Replayed(s) ==
  IF s \in Address THEN \E i \in DOMAIN rows : rows[i].session = s ELSE Live # {}

ReplayGuard(w) ==
  /\ worker[w].pc = "guard"
  /\ IF Replayed(worker[w].session)
     THEN Finish(w)
     ELSE Goto(w, "wallet") /\ UNCHANGED job
  /\ UNCHANGED <<ledgerVars, account, wallet, session, latest, decided, rows, admin,
                 expirer, minter, audit, faults, interventions, raced>>

ReadWallet(w) ==
  /\ worker[w].pc = "wallet"
  /\ IF wallet = NoWallet
     THEN Throw(w)
     ELSE /\ worker' = [worker EXCEPT ![w].wallet = wallet,
                          ![w].pc = IF worker[w].session \in Address THEN "check" ELSE "issue"]
          /\ UNCHANGED job
  /\ UNCHANGED <<ledgerVars, account, wallet, session, latest, decided, rows, admin,
                 expirer, minter, audit, faults, interventions, raced>>

RecordAssumed(u) == FALSE   \* mutation

\* The upgrade wants a record at the wallet, of any status.  The client turns an
\* RPC error into "no record", so the handler's fail-open branch never runs.
NoRecord(u) == status[u] = "None"

CheckChain(w) ==
  /\ worker[w].pc = "check"
  /\ \/ /\ IF NoRecord(worker[w].wallet)
           THEN Throw(w) ELSE Goto(w, "issue") /\ UNCHANGED job
        /\ UNCHANGED faults
     \/ Fault("rpc") /\ Throw(w)
  /\ UNCHANGED <<ledgerVars, account, wallet, session, latest, decided, rows, admin,
                 expirer, minter, audit, interventions, raced>>

\* createCredential; a failed call may or may not have reached the chain.
IssueOnChain(w) ==
  LET s == worker[w].session
      u == worker[w].wallet
  IN /\ worker[w].pc = "issue"
     /\ \/ /\ Issue(u, Level(s))
           /\ Goto(w, IF s \in Address THEN "find" ELSE "insert")
           /\ UNCHANGED <<job, faults>>
        \/ /\ Fault("chain") /\ Throw(w)
           /\ Issue(u, Level(s)) \/ UNCHANGED ledgerVars
     /\ UNCHANGED <<account, wallet, session, latest, decided, rows, admin, expirer,
                    minter, audit, interventions, raced>>

\* The upgrade reads the live row, then flips it by id, before the insert.
FindOld(w) ==
  /\ worker[w].pc = "find"
  /\ worker' = [worker EXCEPT ![w].old = LiveRow, ![w].pc = "flip"]
  /\ UNCHANGED <<ledgerVars, account, wallet, session, latest, decided, job, rows,
                 admin, expirer, minter, audit, faults, interventions, raced>>

SupersedeNothing(i) == rows' = rows   \* mutation
Supersede(i) == IF i = 0 THEN UNCHANGED rows ELSE SetRow(i, "superseded")

FlipOld(w) ==
  /\ worker[w].pc = "flip"
  /\ Supersede(worker[w].old)
  /\ Goto(w, "insert")
  /\ UNCHANGED <<ledgerVars, account, wallet, session, latest, decided, job, admin,
                 expirer, minter, audit, faults, interventions, raced>>

NewRow(w) ==
  [session |-> worker[w].session, level |-> Level(worker[w].session),
   status |-> "active", wallet |-> worker[w].wallet, nft |-> FALSE]

InsertThenLevel(w) ==   \* mutation
  /\ worker[w].pc = "insert"
  /\ account' = [account EXCEPT !.level = KycLevel(worker[w].session)]
  /\ \/ Live = {} /\ rows' = Append(rows, NewRow(w)) /\ Goto(w, "finish") /\ UNCHANGED faults
     \/ Fault("db") /\ Goto(w, "compensate") /\ UNCHANGED rows
  /\ UNCHANGED <<ledgerVars, wallet, session, latest, decided, job, admin, expirer,
                 minter, audit, interventions, raced>>

\* The transaction: the row and the customer's level together, or neither.  The
\* same try block still writes the decline-counter audit after the commit, and
\* the client may not learn of a commit: then a committed insert looks failed.
Insert(w) ==
  /\ worker[w].pc = "insert"
  /\ \/ /\ Live = {}
        /\ rows' = Append(rows, NewRow(w))
        /\ account' = [account EXCEPT !.level = KycLevel(worker[w].session)]
        /\ \/ Goto(w, "finish") /\ UNCHANGED faults
           \/ Fault("auditAfterCommit") /\ Goto(w, "compensate")
     \/ /\ Fault("db") \/ (Live # {} /\ UNCHANGED faults)
        /\ Goto(w, "compensate")
        /\ UNCHANGED <<rows, account>>
  /\ UNCHANGED <<ledgerVars, wallet, session, latest, decided, job, admin, expirer,
                 minter, audit, interventions, raced>>

\* The compensating revoke, then the rethrow.
Compensate(w) ==
  /\ worker[w].pc = "compensate"
  /\ \/ Revoke(worker[w].wallet, FALSE) /\ UNCHANGED faults
     \/ Fault("chain") /\ UNCHANGED ledgerVars
  /\ Throw(w)
  /\ UNCHANGED <<account, wallet, session, latest, decided, rows, admin, expirer,
                 minter, audit, interventions, raced>>

\* Webhooks and notifications swallow their errors; the audits do not.
CompleteJob(w) ==
  /\ worker[w].pc = "finish"
  /\ audit' = audit \cup {"completed"}
  /\ Finish(w)
  /\ UNCHANGED <<ledgerVars, account, wallet, session, latest, decided, rows, admin,
                 expirer, minter, faults, interventions, raced>>

\* A query outside the insert's try block fails.
QueryFails(w) ==
  /\ worker[w].pc \in {"customer", "guard", "wallet", "find", "flip", "insert", "finish"}
  /\ Fault("db")
  /\ Throw(w)
  /\ UNCHANGED <<ledgerVars, account, wallet, session, latest, decided, rows, admin,
                 expirer, minter, audit, interventions, raced>>

Crash(w) ==
  /\ worker[w].pc # "idle"
  /\ Fault("crash")
  /\ worker' = [worker EXCEPT ![w] = IdleWorker]
  /\ UNCHANGED <<ledgerVars, account, wallet, session, latest, decided, job, rows, admin,
                 expirer, minter, audit, interventions, raced>>

\* pg-boss gives up on an active job after expireInSeconds: its worker has died...
ExpireJob(j) ==
  /\ job[j].at \in Workers
  /\ JobOf(job[j].at) # j
  /\ Retry(j)
  /\ UNCHANGED <<ledgerVars, account, wallet, session, latest, decided, rows, worker,
                 admin, expirer, minter, audit, faults, interventions, raced>>

\* ... or has only been slow, and goes on running the handler.
Overrun(j) ==
  /\ job[j].at \in Workers
  /\ JobOf(job[j].at) = j
  /\ Fault("overrun")
  /\ Retry(j)
  /\ UNCHANGED <<ledgerVars, account, wallet, session, latest, decided, rows, worker,
                 admin, expirer, minter, audit, interventions, raced>>

WorkerStep(w) ==
  \/ \E j \in Jobs : Take(w, j)
  \/ LoadCustomer(w) \/ ReplayGuard(w) \/ ReadWallet(w) \/ CheckChain(w)
  \/ IssueOnChain(w) \/ FindOld(w) \/ FlipOld(w) \/ Insert(w) \/ Compensate(w)
  \/ CompleteJob(w)

-----------------------------------------------------------------------------
(* Ban, reset, and what they share: revokeActiveCredentials.               *)

PastGate == {"guard", "wallet", "check", "issue", "find", "flip", "insert", "compensate", "finish"}

\* ACTION_VALID_FROM and ACTION_EXTRA_CHECKS, of the statuses modelled.
ValidFrom(action) ==
  CASE action = "reset"    -> account.status # "banned" /\ account.level # "kyc_0"
    [] action = "activate" -> account.status = "banned"

\* banCustomer writes the status before it looks for anything to revoke.
Ban ==
  /\ Intervene("ban")
  /\ admin.op = "none"
  /\ account.status # "banned"
  /\ account' = [account EXCEPT !.status = "banned"]
  /\ admin' = [IdleAdmin EXCEPT !.op = "ban", !.pc = "select"]
  /\ raced' = \E w \in Workers : worker[w].pc \in PastGate
  /\ UNCHANGED <<ledgerVars, wallet, session, latest, decided, job, rows, worker,
                 expirer, minter, audit, faults>>

\* The branch reset_kyc, from its revocation of the credentials on.
Reset ==
  /\ Intervene("reset")
  /\ admin.op = "none"
  /\ ValidFrom("reset")
  /\ admin' = [IdleAdmin EXCEPT !.op = "reset", !.pc = "select"]
  /\ UNCHANGED <<ledgerVars, account, wallet, session, latest, decided, job, rows,
                 worker, expirer, minter, audit, faults, raced>>

Activate ==
  /\ Intervene("activate")
  /\ admin.op = "none"
  /\ ValidFrom("activate")
  /\ account' = [account EXCEPT !.status = "active"]
  /\ raced' = FALSE
  /\ UNCHANGED <<ledgerVars, wallet, session, latest, decided, job, rows, worker,
                 admin, expirer, minter, audit, faults>>

AfterRevocation == IF admin.op = "reset" THEN "patch" ELSE "sessions"

\* One snapshot of the rows; whether a token is burnt is decided here.
SelectRows ==
  /\ admin.pc = "select"
  /\ admin' = IF Live = {}
              THEN [admin EXCEPT !.pc = AfterRevocation]
              ELSE [admin EXCEPT !.pc = "chain", !.row = LiveRow, !.burn = rows[LiveRow].nft]
  /\ UNCHANGED <<ledgerVars, account, wallet, session, latest, decided, job, rows,
                 worker, expirer, minter, audit, faults, interventions, raced>>

\* Best effort: an error is logged and the row is revoked all the same.
RevokeOnChain ==
  /\ admin.pc = "chain"
  /\ \/ Revoke(rows[admin.row].wallet, admin.burn) /\ UNCHANGED faults
     \/ Fault("chain") /\ UNCHANGED ledgerVars
  /\ admin' = [admin EXCEPT !.pc = "row"]
  /\ UNCHANGED <<account, wallet, session, latest, decided, job, rows, worker,
                 expirer, minter, audit, interventions, raced>>

RevokeRow ==
  /\ admin.pc = "row"
  /\ SetRow(admin.row, "revoked")
  /\ admin' = [admin EXCEPT !.pc = AfterRevocation]
  /\ UNCHANGED <<ledgerVars, account, wallet, session, latest, decided, job, worker,
                 expirer, minter, audit, faults, interventions, raced>>

\* kycResetCustomerPatch
ResetLevel ==
  /\ admin.pc = "patch"
  /\ account' = [account EXCEPT !.level = "kyc_0"]
  /\ admin' = [admin EXCEPT !.pc = "sessions"]
  /\ UNCHANGED <<ledgerVars, wallet, session, latest, decided, job, rows, worker,
                 expirer, minter, audit, faults, interventions, raced>>

\* revokeActiveKycSessions, and the audit that ends the handler.
RevokeSessions ==
  /\ admin.pc = "sessions"
  /\ session' = [s \in Sessions |->
                   IF session[s] \in {"started", "approved"} THEN "revoked" ELSE session[s]]
  /\ audit' = IF admin.op = "reset" THEN audit \cup {"reset"} ELSE audit
  /\ admin' = IdleAdmin
  /\ UNCHANGED <<ledgerVars, account, wallet, latest, decided, job, rows, worker,
                 expirer, minter, faults, interventions, raced>>

AdminStep == SelectRows \/ RevokeOnChain \/ RevokeRow \/ ResetLevel \/ RevokeSessions

\* The request dies between two of these steps; nothing resumes it.
AdminCrash ==
  /\ admin.op # "none"
  /\ Fault("adminCrash")
  /\ admin' = IdleAdmin
  /\ raced' = (raced \/ admin.op = "ban")
  /\ UNCHANGED <<ledgerVars, account, wallet, session, latest, decided, job, rows,
                 worker, expirer, minter, audit, interventions>>

-----------------------------------------------------------------------------
(* The expiry sweep: select an aged live row, later flip it by id.  No      *)
(* transaction is sent: the chain compares validUntil itself.               *)

SelectAged ==
  /\ Intervene("expire")
  /\ expirer = 0
  /\ Live # {}
  /\ expirer' = LiveRow
  /\ UNCHANGED <<ledgerVars, account, wallet, session, latest, decided, job, rows,
                 worker, admin, minter, audit, faults, raced>>

FlipAged ==
  /\ expirer # 0
  /\ SetRow(expirer, "expired")
  /\ expirer' = 0
  /\ UNCHANGED <<ledgerVars, account, wallet, session, latest, decided, job, worker,
                 admin, minter, audit, faults, interventions, raced>>

-----------------------------------------------------------------------------
(* handleMintNft: under the advisory lock re-check the row, send the mint,  *)
(* and only after the lock is gone write the token into the row.            *)

Mintable(i) == rows[i].status = "active" /\ rows[i].level = "enhanced" /\ ~rows[i].nft

\* claimCredentialNftMinted: only a row still mintable takes the token.
Claim(i) == rows' = IF Mintable(i) THEN [rows EXCEPT ![i].nft = TRUE] ELSE rows

LockAndRecord ==   \* mutation
  /\ "mint" \in Interventions
  /\ minter.pc = "idle"
  /\ account.status = "active"
  /\ wallet # NoWallet
  /\ \E i \in Live :
       /\ Mintable(i)
       /\ minter' = [pc |-> "mint", row |-> i, wallet |-> wallet]
       /\ Claim(i)
  /\ UNCHANGED <<ledgerVars, account, wallet, session, latest, decided, job, worker,
                 admin, expirer, audit, faults, interventions, raced>>

LockAndRecheck ==
  /\ "mint" \in Interventions
  /\ minter.pc = "idle"
  /\ account.status = "active"
  /\ wallet # NoWallet
  /\ \E i \in Live :
       /\ Mintable(i)
       /\ minter' = [pc |-> "mint", row |-> i, wallet |-> wallet]
  /\ UNCHANGED <<ledgerVars, account, wallet, session, latest, decided, job, rows,
                 worker, admin, expirer, audit, faults, interventions, raced>>

\* A token at the wallet reverts the mint; a receipt that times out may hide one.
MintOnChain ==
  /\ minter.pc = "mint"
  /\ \/ /\ MintBadge(minter.wallet)
        /\ minter' = [minter EXCEPT !.pc = "claim"]
        /\ UNCHANGED faults
     \/ /\ badge[minter.wallet]
        /\ minter' = IdleMinter
        /\ UNCHANGED <<ledgerVars, faults>>
     \/ /\ Fault("chain")
        /\ MintBadge(minter.wallet) \/ UNCHANGED ledgerVars
        /\ minter' = IdleMinter
  /\ UNCHANGED <<account, wallet, session, latest, decided, job, rows, worker, admin,
                 expirer, audit, interventions, raced>>

RecordMint ==
  /\ minter.pc = "claim"
  /\ Claim(minter.row)
  /\ minter' = IdleMinter
  /\ UNCHANGED <<ledgerVars, account, wallet, session, latest, decided, job, worker,
                 admin, expirer, audit, faults, interventions, raced>>

\* The reconciler's orphan pass asks the chain for the row's own wallet.
TokenOnChain(i) == badge[rows[i].wallet]

ReconcileOrphanNft ==
  /\ "mint" \in Interventions
  /\ \E i \in Live : Mintable(i) /\ TokenOnChain(i) /\ Claim(i)
  /\ UNCHANGED <<ledgerVars, account, wallet, session, latest, decided, job, worker,
                 admin, expirer, minter, audit, faults, interventions, raced>>

\* revokeMine, from any wallet, whatever the database thinks.
SelfRevoke(u) ==
  /\ Intervene("selfRevoke")
  /\ Revoke(u, TRUE)
  /\ UNCHANGED <<account, wallet, session, latest, decided, job, rows, worker, admin,
                 expirer, minter, audit, faults, raced>>

-----------------------------------------------------------------------------
(* The reconciler: a customer whose verification started, with no later     *)
(* completion or reset on record and no live row, is looked at again.       *)

Drifted ==
  /\ "started" \in audit
  /\ audit \cap {"completed", "reset"} = {}
  /\ Live = {}

Reconcile ==
  /\ Drifted
  /\ session[latest] \in {"started", "approved"}
  /\ latest \in Address => \E i \in Live : rows[i].level = "basic"
  /\ latest \in decided
  /\ Enqueue(latest)
  /\ UNCHANGED <<ledgerVars, account, wallet, session, latest, decided, rows, worker,
                 admin, expirer, minter, audit, faults, interventions, raced>>

\* Seven days later the older audit rows are out of the query's window.
LookbackPasses ==
  /\ audit \cap {"completed", "reset"} # {}
  /\ audit' = audit \cap {"started"}
  /\ UNCHANGED <<ledgerVars, account, wallet, session, latest, decided, job, rows,
                 worker, admin, expirer, minter, faults, interventions, raced>>

-----------------------------------------------------------------------------
(* The history.                                                            *)

\* From the replay guard to the end of the insert or of its undoing.
AtWork == {"wallet", "check", "issue", "find", "flip", "insert", "compensate"}
OnOneSession(s) ==
  \E v, w \in Workers : /\ v # w /\ worker[v].pc \in AtWork /\ worker[w].pc \in AtWork
                        /\ worker[v].session = s /\ worker[w].session = s
Overlap ==
  \E v, w \in Workers : v # w /\ worker[v].pc \in AtWork /\ worker[w].pc \in AtWork

\* What may part the row from the chain: two runs of the handler at once, the
\* undoing of an insert that did commit, and a revocation by anyone else.
Disturbs ==
  \/ Overlap'
  \/ \E w \in Workers : worker[w].pc = "insert" /\ worker'[w].pc = "compensate" /\ rows' # rows
  \/ status' # status /\ worker' = worker

\* The next credential starts afresh once no row is live and nobody at work.
AtRest == Live = {} /\ \A w \in Workers : worker[w].pc \notin AtWork

History ==
  /\ disturbed' = ((disturbed \/ Disturbs) /\ ~AtRest')
  /\ doubled' = doubled \cup {s \in Sessions : OnOneSession(s)'}

-----------------------------------------------------------------------------
Step ==
  \/ \E s \in Sessions : StartSession(s) \/ Decide(s) \/ Deliver(s)
  \/ \E j \in Jobs : ExpireJob(j) \/ Overrun(j)
  \/ \E w \in Workers : WorkerStep(w) \/ ProviderForgot(w) \/ QueryFails(w) \/ Crash(w)
  \/ \E u \in Users : LinkWallet(u) \/ SelfRevoke(u)
  \/ UnlinkWallet
  \/ Ban \/ Reset \/ Activate \/ AdminStep \/ AdminCrash
  \/ SelectAged \/ FlipAged
  \/ LockAndRecheck \/ MintOnChain \/ RecordMint \/ ReconcileOrphanNft
  \/ Reconcile \/ LookbackPasses

Next == Step /\ History

Spec == Init /\ [][Next]_vars

(* Workers poll and take jobs oldest first, so that no job waits for ever;   *)
(* pg-boss times jobs out, the reconciler runs on a cron and a request once  *)
(* accepted runs on.  Nothing makes a webhook arrive, a customer act or a    *)
(* provider decide.                                                          *)
Fairness ==
  /\ \A w \in Workers : WF_systemVars(WorkerStep(w))
  /\ \A w \in Workers, j \in Jobs : SF_systemVars(Take(w, j))
  /\ \A j \in Jobs : WF_systemVars(ExpireJob(j))
  /\ WF_systemVars(Reconcile)
  /\ WF_systemVars(AdminStep)
FairSpec == Spec /\ Fairness

-----------------------------------------------------------------------------
(* Properties.                                                             *)

Row == [session : Sessions, level : {"basic", "enhanced"},
        status : {"active", "superseded", "revoked", "expired"},
        wallet : Users, nft : BOOLEAN]

\* Every variable keeps its shape; the level only takes the values of KycLevel.
PipelineTypeOK ==
  /\ LedgerTypeOK
  /\ account \in [status : {"active", "banned"}, level : {"kyc_0", "kyc_3", "kyc_4"}]
  /\ wallet \in Users \cup {NoWallet}
  /\ session \in [Sessions -> {"none", "started", "approved", "expired", "revoked"}]
  /\ latest \in Sessions \cup {NoSession}
  /\ decided \subseteq Sessions
  /\ job \in [Jobs -> [at : {"none", "queued"} \cup Workers, tries : 0..RetryLimit]]
  /\ rows \in Seq(Row)
  /\ worker \in [Workers -> [pc : PastGate \cup {"idle", "customer"},
                             session : Sessions \cup {NoSession},
                             copy : 0..MaxCopies, wallet : Users \cup {NoWallet}, old : 0..Len(rows)]]
  /\ admin \in [op : {"none", "ban", "reset"}, row : 0..Len(rows), burn : BOOLEAN,
                pc : {"idle", "select", "chain", "row", "patch", "sessions"}]
  /\ expirer \in 0..Len(rows)
  /\ minter \in [pc : {"idle", "mint", "claim"}, row : 0..Len(rows),
                 wallet : Users \cup {NoWallet}]
  /\ audit \subseteq {"started", "completed", "reset"}
  /\ faults \in 0..MaxFaults /\ interventions \in 0..MaxInterventions
  /\ raced \in BOOLEAN /\ disturbed \in BOOLEAN /\ doubled \subseteq Sessions

\* A customer's level is never ahead of the rows: kyc_3 and kyc_4 are only ever
\* written together with a row of that level (the insert's transaction).
LevelHasRow ==
  account.level # "kyc_0" =>
    \E i \in DOMAIN rows : KycLevel(rows[i].session) = account.level

ChainBacks(i) ==
  /\ status[rows[i].wallet] = "Active"
  /\ rows[i].level = "enhanced" => content[rows[i].wallet] = "enhanced"

\* The chain backs the live row: the credential is active, and at least at the
\* row's level, however workers crashed, failed or were retried, unless what
\* Disturbs names came between.
ActiveRowIsLive == ~disturbed => \A i \in Live : ChainBacks(i)

\* An address session produces at most one row, however often it is delivered,
\* queued, retried, expired or reconciled, unless two workers were at work on it
\* at once: the replay guard is durable.
SessionMintsOnce ==
  \A i, j \in DOMAIN rows :
    rows[i].session = rows[j].session /\ rows[i].session \in Address \ doubled => i = j

\* No split credential: an enhanced credential is only ever written over a
\* record that the wallet already had (the phase-2 wallet-consistency guard).
NoSplitCredential ==
  [][\A u \in DOMAIN content : content[u] = NoContent => content'[u] # "enhanced"]_vars

\* A ban that found no worker past the status gate, and whose request ran to its
\* end, leaves nothing behind: no live row then, or at any time while it stands.
BanIsFinal ==
  account.status = "banned" /\ admin.op = "none" /\ ~raced => Live = {}

\* The same without the proviso: the status gate makes the ban win.
BannedNeverMinted ==
  account.status = "banned" /\ admin.op = "none" => Live = {}

\* A live row of the linked wallet records a token only where the wallet has one,
\* unless what Disturbs names came between.
RecordedTokenExists ==
  ~disturbed => \A i \in Live : rows[i].nft /\ rows[i].wallet = wallet => badge[wallet]

\* An approved identity verification is minted, whatever deliveries are lost.
IdentityIsMinted ==
  \A s \in Sessions \ Address : s \in decided ~> \E i \in DOMAIN rows : rows[i].session = s

\* And an approved address verification is.
AddressIsMinted ==
  \A s \in Address : s \in decided ~> \E i \in DOMAIN rows : rows[i].session = s
=============================================================================
