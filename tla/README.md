# Crivacy: a TLA+ model of the credential system

Crivacy verifies a customer's identity once, records the result as an encrypted
credential on an fhEVM chain, and lets firms learn a yes/no verdict about it
after the customer consents. This directory holds the TLA+ specifications of the
code that makes, keeps, shows and withdraws those credentials and of the services
around it, the TLC configurations that check them, and machine-checked proofs.

Paths below are relative to the repository (`src/` in `PROJECT.json`); `web/`
stands for `apps/web/src/`.

- [1 The system](#1-the-system)
- [2 Modules and how they correspond to the code](#2-modules-and-how-they-correspond-to-the-code)
- [3 Runs](#3-runs)
- [4 Fairness](#4-fairness)
- [5 Proofs](#5-proofs)
- [6 Where code and documentation disagree](#6-where-code-and-documentation-disagree)
- [7 Not modelled](#7-not-modelled)
- [8 Plan](#8-plan)

## 1 The system

| component | state it keeps | operations | talks to |
|---|---|---|---|
| `CrivacyKYC.sol` | `_cred`, `_grant`, operator, linked token contract, the coprocessor's ACL | set, grant, revoke access, revoke (operator or holder), erase, migrate validator, roles | calls the token contract's `burn`; called by the backend's FHE client and by holders |
| `CrivacyKycNFT.sol` | ERC721 owners, `_meta`, `tokenOfCustomer`, `_nextId`, operator, registry | mint, burn, transfer (refused), roles | called by `CrivacyKYC` and the backend |
| credential pipeline (`web/server/jobs`) | `kyc_credentials_meta` rows, the customer's level, pg-boss jobs | take a job, gate, replay guard, on-chain write, row write, compensation, retry | the queue, PostgreSQL, the chain, the verification provider |
| ban, reset, activate (`web/lib/fraud`, admin handlers) | customer status and level, credential rows, sessions | one request each, in several committed steps | PostgreSQL, the chain |
| expiry sweep, badge mint, reconciler | the same rows, audit log | cron and customer requests | PostgreSQL, the chain, the queue |
| OAuth (`web/server/handlers/oauth-*`) | authorization requests, consents, codes, tokens | authorize, view, reject, approve, exchange, revoke | PostgreSQL |
| firm-grant worker | `firm_credential_grants` | periodic sweep: admit the firm on chain | PostgreSQL, the chain |
| KYC sessions and the Didit webhook | `kyc_sessions`, decline counter | start, receive, pull, resume, revoke, reconcile | provider, queue |
| webhook delivery | deliveries, endpoint circuit breaker | deliver, retry, dead-letter | customers' servers, queue |
| idempotency keys | one row per subject, endpoint and key | claim, poll, store, release, sweep | PostgreSQL |
| rate limits, quota | token buckets, counters | consume | PostgreSQL |
| sign-in | account status and lockout, sessions and refresh tokens, reset codes | sign in, refresh, log out, change and reset the password; suspend, lock, ban | PostgreSQL |
| support tickets | `tickets.assigned_to` and status, participants, messages | claim, transfer, invite, answer, remove, take over, reply | PostgreSQL |
| audit log | rows; a hash chain computed at export | append, export | PostgreSQL |
| notifications, dashboards, admin console, SDKs | rows | CRUD | PostgreSQL |

`PROJECT.json` lists every component with its files and how far it is modelled.

**What is hard here.** No transaction spans the chain and the database. Every
operation on a credential is therefore a sequence of separately committed steps,
and bans, resets, sweeps, wallet changes, retries and crashes run between any
two of them. The queue delivers at least once; providers deliver zero or more
times, in any order; a chain call that fails may have landed. Inside the
database most transactions run under READ COMMITTED, and most handlers read and
check before they open one, so correctness rests on conditional updates
(`... WHERE used_at IS NULL`), a few row locks and partial unique indexes. In
the contracts a ciphertext handle is useless in later transactions unless the
right `allow` was called, and an `allow` is for ever.

**What must hold**, per component:

- *contracts*: nobody but holder and issuer decrypts a field and a firm only its
  own verdict; stored handles stay usable; verdicts are computed from the
  current, active record of their own user; the token's maps agree and tokens
  never move; the pair of contracts behaves as one ledger.
- *pipeline*: the live row is backed by the chain; a session mints at most once;
  the enhanced level never lands on a wallet without a first-phase record; a
  level is backed by a row; a decided identity is eventually minted; a ban wins.
- *badge*: a recorded token exists.
- *OAuth*: one outcome per request, one token per code, reuse kills what the code
  minted, tokens follow the customer who decided, live tokens rest on live
  consents.
- *grant worker*: the chain admits a firm only at a consented level, and every
  requested grant settles.
- *KYC sessions*: what Didit decided is learned although its webhooks are lost; a
  closed session is not opened by somebody's old reading; sessions of a revoked
  credential are closed.
- *webhooks*: a queued delivery is delivered or given up, and stays so; the
  breaker opens on failures in a row only.
- *idempotency*: one execution per key while its row lasts, the answer of a body
  for that body, and no key is locked by a dead holder.
- *rate limits*: what is let through was granted or earned by time, at the tier of
  that time.
- *sign-in*: one refresh token is alive; a session that ended stays ended; a new
  password, a suspension and a ban sign out.
- *tickets*: the two copies of a ticket's ownership agree, and nobody takes a
  ticket from its assignee but a superadmin.

The `hazards` list in `PROJECT.json` says at which line each of these can go
wrong and which property would catch it.

## 2 Modules and how they correspond to the code

```
CredentialLedger           what the chain promises
   ^ implemented by CrivacyKYC (LedgerImplemented / ContractsImplementLedger)
   |        CrivacyKYC  EXTENDS  CrivacyKycNFT                  CrivacyKYCProofs
   |
   used by  CredentialPipeline                          CredentialPipelineProofs
            (its Issue, Revoke, MintBadge are the ledger's: PipelineSendsTransactions)
              |
              v implements (RowsImplementTheSlot)
CredentialSlot             what the table of credentials promises its readers

OauthFlow         authorization code flow, firm-grant worker    OauthProofs
   | implements (TablesImplementGrants)
   v
AuthorizationGrants        what a request promises the customer and the firm

KycSessions       identity sessions and their decisions         KycSessionsProofs
WebhookDelivery   deliveries, queue, circuit breaker            WebhookDeliveryProofs
Idempotency       Idempotency-Key                               ServiceProofs
   | implements (KeyImplementsOnceOnly)
   v
OnceOnly                   what a key promises the calls that carry it

TokenBucket rate-limit bucket ServiceProofs Tickets ownership of a support ticket
ServiceProofs SignIn password, status and sessions of a customer SignInProofs
TableRows: lemmas about tables kept as sequences (SignIn, Oauth, Pipeline)

MCCredentialPipeline                      symmetry for one module
MCCrivacyKYC, MCPipelines, MCOauthFlow    several instances of one module
MCServices, MCProgress                    several modules that share no state
```

An operator marked `mutation` (or "a mutant") is a plausible slip in the operator
next to it (a dropped guard, a swapped order). No specification uses it;
`PROJECT.json` pairs it with the property that notices the slip.

Several modules have *history* variables or fields: no guard reads them, they only
let a property say which races it excludes (`raced`, `disturbed`, `doubled`,
`overtaken`, `behind`, `late`, `lapsed`, `blurred`, `forked`, `changed`) or count what
happened (`posts`, `streak`, `spent`, `granted`, `earned`, `origin`, `stamped`,
`rewound`, `repriced`, `issued`, `era`).

**CrivacyKycNFT** (`fhevm/contracts/CrivacyKycNFT.sol`). One action per external
function: `Mint`, `Burn`, `TransferFrom`, `SetRegistry`, `SetNftOperator`.
`ownerOf` is OpenZeppelin's `_owners`; `Move` and `MayMove` are `_update` with
the contract's soulbound override. A call that would revert is not a step.

**CrivacyKYC** (`fhevm/contracts/CrivacyKYC.sol`). Composes both contracts,
because revocation and erasure call `burn` in the same transaction. A handle is
a record of what it encrypts: `fields` (the six encrypted fields, always written
and permitted together) or `verdict`. `acl` is the coprocessor's permission
table: a set of (handle, party) pairs that only grows. `Eligible` is the
homomorphic comparison of `grantAccess`, done on the plaintexts inside the
record. `View`/`ReadsVerdict` are the view functions.

**CredentialLedger**. The abstract chain: per user a status, contents, a badge,
and the firms that were let in. `CrivacyKYC!Ledger` is the refinement mapping:
status and contents from `_cred`, badge from `tokenOfCustomer`, readers from
`acl`. An expired credential stays `Active` in the ledger, as in the contract:
`validUntil` is only compared when somebody reads.

**CredentialSlot**. The table seen by those who look up a customer's credential
(`findCredentialByUserRef`, the grant worker, the reconciler): one slot and the
number of the credential in it. Filling it needs it empty, which is the partial
unique index `kyc_credentials_meta_firm_user_active_key`. The mapping sends the
slot to the live row and the number to the count of rows; an upgrade is two steps,
`Clear` and `Fill`, as in the code, where a reader may look in between.

**CredentialPipeline** (`processCredentialPipelineCustomer` in
`web/server/jobs/credential-pipeline-worker.ts`, and the handlers that touch the
same rows). One customer. A worker's program counter names the next committed
effect or remote read:

| pc | action | code |
|---|---|---|
| `idle` | `Take` | pg-boss fetch, provider decision |
| `customer` | `LoadCustomer` | status gate |
| `guard` | `ReplayGuard` | replay guard of each phase |
| `wallet`, `check` | `ReadWallet`, `CheckChain` | linked wallet; phase-2 record check |
| `issue` | `IssueOnChain` | `createCredential` |
| `find`, `flip` | `FindOld`, `FlipOld` | supersede the previous row |
| `insert` | `Insert` | row and level in one transaction |
| `compensate` | `Compensate` | the undo in the catch block |
| `finish` | `CompleteJob` | completion audit, return |

The queue (`job`) may hold several jobs of a session, `MaxCopies` at most:
`createQueue` is called without a policy (`credential-pipeline-worker.ts:1201`),
and of such a queue pg-boss reads a `singletonKey` only together with a time window,
which `enqueueCredentialPipeline` does not give. `WebhookDelivery` reads the key of
its own queue in the same way.

`Ban`, `Reset`, `Activate` and `AdminStep` are `banCustomer`, the reset and
activate handlers and the `revokeActiveCredentials` they share; `SelectAged` /
`FlipAged` the expiry worker; `LockAndRecheck` / `MintOnChain` / `RecordMint`
`handleMintNft`; `Reconcile` and `ReconcileOrphanNft` the reconciler's passes.
Faults (a failed chain call, a failed query, a crash, a job overrun, a flaky
RPC, a provider's 404) are enabled by name in the configurations. `History` keeps
two histories: `disturbed`, that row and chain may differ by one of the three
things `Disturbs` names (section 5), until no row is live and nobody at work; and
`doubled`, the sessions that two workers have been at work on at once.

**OauthFlow** (`web/server/handlers/oauth-authorize.ts`, `oauth-consent.ts`,
`oauth-token.ts`, `oauth-shared.ts`, `web/server/repositories/oauth.ts`,
`web/server/jobs/firm-grant-worker.ts`). One client of one firm. A *call* is an
HTTP request in progress; it has a step of its own wherever another transaction
can slip in: load, attach the user, level gate, reject/approve, hand over; look
up the code, detect reuse, burn, insert the token. The worker takes a snapshot of
due rows (`StartSweep`) and handles them one by one (`Grant`), marking each by id.

**AuthorizationGrants**. A request as the customer and the firm see it: its stage
(open, rejected, approved, a token out, withdrawn), its owner and the scopes asked
for. The mapping `StageOf` reads the stage off the request's row and off the tokens
of its codes; the decision, the token and the withdrawal are one abstract step each,
whatever calls, replays and rollbacks surround them.

**KycSessions** (`web/server/handlers/customer-kyc.ts`, `didit-webhook.ts`,
`web/server/jobs/kyc-reconciler-worker.ts`). The identity sessions of one
customer; `kycRow` is `kyc_sessions.status`, `didit` what the provider would answer,
`inbox` the webhooks under way (one that stays there for ever is lost).

| actions | code |
|---|---|
| `DiditDecides`, `Forget`, `BlockUser` | Didit: a decision with its webhook, a deletion (404), the `user.*` webhook |
| `Start`, `StartInTx`, `WriteStarted`, `ClearRevoked` | `handleStartIdentity`: the reads, the transaction under the advisory lock, the audit row, the update of `revoked_at` |
| `ReceiveDecision`, `Strike`, `EnqueuePipeline` | `handleCustomerWebhook`, one update by id and what follows it |
| `ReceiveBlock`, `RevokeCredential`, `ResetCustomer`, `RevokeSessions` | `handleUserEntityWebhook` and the revocation of an expired verification |
| `Pull`, `Resume`, `WriteDecision`, `WriteResumed` | `pullAndApplyDiditDecision`, `handleResumeSession`: the reading and the later write |
| `Reconcile`, `ReverseDrift` | the reconciler's two passes over sessions |
| `Mint` | the credential pipeline, as one action |
| `HandlerDies` | a process or statement that fails between any two steps |

**WebhookDelivery** (`web/server/jobs/webhook-worker.ts`, `web/lib/webhook/*`).
One endpoint and its deliveries. `processDelivery` has no transaction and is
modelled statement by statement: `LoadDelivery`, `LoadEndpoint` (with
`markDelivering`), `Post`, `Record`, `EnqueueRetry`, `UpdateBreaker`, `Complete`;
`JobFails` is an exception or a dead process at any of them, after which pg-boss
hands the job out again. `Emit` creates a row, `EnqueueDelivery` its first job;
`ReplayDelivery`, `SetActive` and `DeleteEndpoint` are the firm's.

**Idempotency** (`web/lib/http/idempotency.ts`, `with-idempotency.ts`). One key.
`Claim`, `Read`, `Poll`, `PollGivesUp` are `lookupIdempotencyKey`;
`HandlerAnswers`, `HandlerFails`, `Store`, `StoreAnew` and `Release`
`withIdempotency` around a handler; `Dies` a holder that ends anywhere; `Expire`
and `Sweep` the row's `expires_at` and the sweeper. The row is written by body,
not by holder: `Ours` is the whole guard of a store.

**OnceOnly**. The key without its row: the calls engaged in the operation, those
that have carried it out, whose answer each call was given, and whether the promise
has run out. The mapping takes for `engaged` the calls that run or have answered
(`Active`), for `told` the answer a call ended with, for `forgotten` the first expiry.

**TokenBucket** (`web/lib/ratelimit/*`). A tier is a capacity and a refill rate,
and a change of tier may change either or both. `Arrive` reads the clock and the
tier; `ConsumeBucket` is the transaction under the row's lock (`ReconcileTier`,
`Refill`, spend, stamp), run in whatever order the lock is granted; `Tick` and
`ChangeTier` move the world on in between. The histories keep accounts: `earned`
is what the time was worth at the tier of each moment, `stamped` and `origin` its
value at `last_refill_at` and when the row was made, and `repriced` what refills
paid above that, because the tier in force when a request consumes sets the rate
for all of the time since `last_refill_at`.

**Tickets** (`web/server/handlers/tickets.ts`, `firm-tickets.ts`,
`web/lib/ticket`). One ticket: its status, `assigned_to` and the participant
rows. Each handler checks permissions on what it reads and writes in a later
transaction that locks nothing it read, so each is a `Begin...` (which keeps the
reading in `request`) and a `Commit...`: `Update` (status, claim, transfer,
release, the cascade that finds a successor), `Invite`, `Answer`, `Remove`,
`Join`, `TakeOver`, `Reply`, `Message`. `IndexAllows` is the partial unique index
on the active assignee; a transaction it refuses is rolled back.

**SignIn** (`web/lib/customer/login.ts`, the refresh, wallet and password routes,
`lib/customer/reset.ts`, `admin-customers.ts`, `lib/fraud/ban.ts`). One customer.
A request reads the rows it needs once and then writes what that reading called
for; `todo` is the set of its writes still to come, in the order `Turn`.

| actions | code |
|---|---|
| `Login`, `WalletLogin`, `WrongPassword` | the credential, the status of the row read; the one `UPDATE` that counts and locks |
| `WriteAccount` | unlock, clear the counter, silent rehash: by id, whatever the row has become |
| `OpenSession`; `RevokeOthers`, `InsertSession` | the serialized transaction of `loginCustomer`; the two statements of `loginViaWallet` |
| `Refresh`, `CheckStatus`, `Rotate`, `DetectReuse`, `Logout` | the refresh route with its compare-and-set, logout |
| `BeginChange`/`CommitChange`, `BeginReset`/`CommitReset` | change-password and reset |
| `Decide`, `Suspend`, `LockByAdmin`, `LiftRestriction`, `Ban`/`EndBanned` | moderation; a ban sets the status and ends the sessions in separate statements |
| `TimePasses` | a lock runs out, the window of failed logins closes |

**Sums.** `MCServices`, `MCProgress`, `MCPipelines`, `MCOauthFlow` and `MCCrivacyKYC`
put several instances into one run: a variable chosen in `Init` says which instance the
behaviour follows, its `Next` is the only one that steps, and the variables of the
other modules rest at their initial values. Since no variable is shared between
modules, the reachable states are the disjoint union of those of the instances,
and a property of one of them is violated by the sum exactly when it is violated
by that instance (the others, at rest, satisfy it). `MCPipelines`, `MCOauthFlow`
and `MCCrivacyKYC` check the module's own properties: their constants include those of
every instance, so a bound or an actor an instance does not have is merely one
that never moves.

## 3 Runs

Passing runs:

| run | instances | what it shows |
|---|---|---|
| `kyc_contracts` | 1 operator, 1 firm; *holders*: 2 holders, 2 tokens, 2 handles, time 0..1; *rewrites*: 1 holder, 1 token, 3 handles | types; a firm decrypts a verdict and nothing else; stored handles stay usable; verdicts belong to their user; the token maps agree; the contracts implement the ledger |
| `oauth_decisions` | 2 requests; *recovery*: 2 concurrent calls, 1 customer, 1 fault, 1 event; *decisions*: 2 concurrent calls, 2 customers, 2 events; *levels*: 2 levels, 1 customer, one call at a time, 1 reverted transaction or dead worker, 1 event | one outcome, one token, ownership, reuse detection, revocation, provenance of on-chain grants |
| `pipelines` | *recovery*: 1 worker, 2 wallets, both phases, a retry, 2 faults of five kinds, unlink and expiry; *admin*: 2 workers, 1 overrun, 2 of ban/reset/activate; *double*: 2 workers, 2 jobs of a session at a time, 1 fault of seven kinds; *badge*: mint and its reconciler, 1 fault, 2 of reset/expiry/self-revocation | level backed by a row; live row backed by the chain; a session on which no two workers were at work at once mints once; no split credential; a ban that found no worker past the gate is final; a recorded token exists |
| `services` | see below | what overlapping calls, workers and passes may do to the rows they share |
| `progress` | idempotency 2 calls; webhooks 2 deliveries, 1 failed job; sessions 1 session, 1 fault; grants 2 requests, 2 attempts, 1 fault; pipeline 1 worker, 1 retry, 2 faults | claims give way, queued deliveries settle, decisions are learned, orphaned sessions are closed, grants settle, an approved identity is minted |

Instances of `services`:

| instance | bounds | properties it exercises |
|---|---|---|
| `idempotency` | 3 calls, 2 bodies | `StoredAnswerFits`, `RunsOnce`, `AnswerStays` |
| `edited` | 1 emitted delivery, 2 workers, 2 attempts, 1 failed job, 1 edit or replay | `OutcomeIsFinal` |
| `deliveries` | 2 deliveries, 2 workers, 2 attempts, threshold 2, 1 failed job | `BreakerIsJust`, `OutcomeIsFinal` |
| `tokens` | 3 requests that cost 2, tiers of capacity 2 at rate 1 and capacity 4 at rate 3, time 0..3 | `SpendIsFunded` |
| `sessions`, `restarts`, `starts` | 1 session by the cap, every verdict, 1 of six faults; 2 sessions and an old link, a block or a dying request; 2 requests that start at once | `OnlyDiditReopens` |
| `ownership`, `races` | 6 requests one after the other; 3 requests two at a time; one superadmin and two admins | `CopiesAgree`, `OwnersAreNotDisplaced` |
| `lockout`, `signins` | 1 tab, wrong passwords, 2 of five moderation acts; 2 tabs, 3 sign-ins, 2 tokens and 2 passwords, a suspension or a ban | `OneTokenAlive`, `EndedSessionsStayEnded`, `PasswordChangeSignsOut`, `RestrictionSignsOut` |

`oauth_decisions` reaches 3.0 million distinct states, `pipelines` 2.7, `services` 1.6,
`kyc_contracts` 166 thousand, `progress` 43 thousand (with the liveness checks).

Each run also checks the type invariant of the module that runs. Runs that end in
a counterexample on purpose are in section 6.

**Bounds.** They are constants named where they are declared, used only in guards.

- *Contracts.* `MaxSerial` bounds the handles ever created: two let a record be
  overwritten, or issued and granted, once; the three of *rewrites* let a record be
  granted, overwritten and granted again, or overwritten and then granted, with the
  handles of the old record still around (the proofs do away with this bound).
  `MaxTime` 1 gives an expired and an unexpired instant. Two holders are enough
  for a token or verdict to go to the wrong one.
- *Pipeline.* `MaxRows` stops deliveries at three (two) rows: first phase, second
  phase, and one more after a reset. `MaxFaults` and `MaxInterventions` 2 allow a
  fault during the recovery from a fault, and an intervention between the two
  halves of another. Two copies of a job are what two workers on one session need;
  the instance that has them has one fault and no intervention.
- *OAuth.* Two calls are what a race needs; two requests let a second approval
  meet the consent, code and grant row of the first. With two customers there are
  two events, with faults one, to keep each instance small. A second level needs no
  second call: what meets the re-consent is the grant worker's sweep, which runs
  beside the calls.
- *Idempotency.* Three calls: the holder, the one that overtakes it, and the
  poller who sees both; two bodies to tell them apart.
- *WebhookDelivery.* Two attempts make a first, a retried and a dead-lettered
  post; threshold 2 is reached by two deliveries or two attempts; two workers
  overlap. A failed job is what lets the same delivery be posted twice.
- *KycSessions.* Two rows: an old and a new session; one handler that has read the
  old one, and the worker.
- *TokenBucket.* Three requests arrive in any order; three units of time are worth
  more than either capacity, so a refill is clamped; a request costs more than the
  lower tier earns in a unit of time and less than the higher does.
- *Tickets.* Two at a time are what a race needs and a third request lets one
  overtake and prepare the next; six in sequence let an admin claim, give up, be
  invited, be revived and meet the index. One superadmin, two others of the same
  or of different rank.
- *SignIn.* Two tabs race; the third sign-in is the one that overtakes; two token
  generations are needed for a reuse, `MaxFailed` 2 for a count below and at the
  limit.

Everything not listed under `Faults`, `Interventions`, `Events`, `Edits`, `Ways`,
`Acts` or `Operations` of an instance is off in that instance; the runs together
exercise every action.

`CHECK_DEADLOCK FALSE` is used throughout: once counters are at their bounds, or
when nobody acts, the systems rest.

## 4 Fairness

*Pipeline*: a worker process that has a job goes on (`WF` of its steps); pg-boss
hands out jobs oldest first, so a queued job is taken even if others keep
arriving (`SF` of `Take`); it times out a job whose worker died (`WF` of
`ExpireJob`); the reconciler is a cron job (`WF` of `Reconcile`); a request
handler that started goes on. **Not** fair: webhooks (`Deliver`), the provider,
customers, the reconciler's audit window. `IdentityIsMinted` thus holds by the
reconciler alone.

*OAuth*: the grant sweep is scheduled every minute with a single consumer (`WF`
of `StartSweep`, `WF` of `Grant` per row of its snapshot). HTTP calls are not
fair.

*Idempotency*: time passes and the sweeper is a cron job (`WF` of `Expire` and
`Sweep`). Nothing is asked of the calls: `ClaimGivesWay` holds although the holder
never does another step.

*WebhookDelivery*: `WF` of a worker's steps, `SF` of `Take` per delivery, as for
the pipeline. The emitting side and the firm are not fair.

*KycSessions*: what a handler began goes on (`WF`); every cycle of the reconciler
runs both passes, so neither can be starved by candidates of the other (`SF` of
`Reconcile` and `ReverseDrift`); the queue serves its jobs (`WF` of `Mint`).
Nothing is asked of Didit, of the webhooks' arrival or of the customer.

Faults are bounded in number, which is what "eventually" needs of any retry.

## 5 Proofs

Eight modules hold proofs; each theorem holds for any sets of actors and any
bounds. `TableRows` has the two facts about tables kept as sequences (stamping
the rows keeps the sequence's type and length; appending one keeps the rows
before it) that three of the others cite. Every safety property of a passing run
is the statement of a theorem (`ServicesTypeOK` of six). No theorem has a hypothesis
besides the named assumptions on constants.

| theorem | statement |
|---|---|
| *CrivacyKYCProofs* | |
| `TypeCorrect` | `Spec => []TypeOK` |
| `FirmsLearnVerdictsOnly` | `Spec => []OnlyTheVerdictReachesAFirm` |
| `HandlesStayUsable` | `Spec => []StoredHandlesAreUsable` |
| `VerdictProvenance` | `Spec => []VerdictsComeFromTheirUser` |
| `TokensStayConsistent` | `Spec => []OneTokenPerCustomer` |
| `GrantsNeedActive` | `Spec => GrantsOnlyOnActive` |
| `OnlyIssuanceRevives` | `Spec => RevivedOnlyByIssuance` |
| `TokensAreSoulbound` | `Spec => Soulbound` |
| `ErasureTakesTheToken` | `Spec => NoTokenOutlivesErasure` |
| `ContractsImplementLedger` | `Spec => Ledger!LedgerSpec` |
| *OauthProofs* | |
| `OauthTypes` | `Spec => []OauthTypeOK` |
| `OneOutcome` | `Spec => []OneOutcomePerRequest` |
| `OneToken` | `Spec => []OneTokenPerCode` |
| `OwnersFollowed` | `Spec => []TokensFollowTheOwner` |
| `ReuseIsPunished` | `Spec => []ReusedCodeIsWorthless` |
| `RevocationReachesTokens` | `Spec => []LiveTokenHasConsent` |
| `GrantsAreConsented` | `Spec => []GrantHasConsent` |
| `TablesImplementGrants` | `Spec => Grants!GrantsSpec` |
| *CredentialPipelineProofs* | |
| `PipelineTypes` | `Spec => []PipelineTypeOK` |
| `LevelsAreBacked` | `Spec => []LevelHasRow` |
| `NoCredentialIsSplit` | `Spec => NoSplitCredential` |
| `BansAreFinal` | `Spec => []BanIsFinal` |
| `AddressSessionsMintOnce` | `Spec => []SessionMintsOnce` |
| `LiveRowsAreBacked` | `Spec => []ActiveRowIsLive` |
| `RecordedTokensExist` | `Spec => []RecordedTokenExists` |
| `PipelineSendsTransactions` | `Spec => LedgerSpec` |
| `RowsImplementTheSlot` | `Spec => Slot!SlotSpec` |
| *WebhookDeliveryProofs* | |
| `WebhookTypes` | `Spec => []WebhookTypeOK` |
| `OutcomesAreFinal` | `Spec => OutcomeIsFinal` |
| `BreakerOpensJustly` | `Spec => []BreakerIsJust` |
| *KycSessionsProofs* | |
| `KycSessionTypes` | `KycSpec => []KycSessionsTypeOK` |
| `OneActiveSession` | `KycSpec => []Fits(kycRow)` |
| `ReopenedByDiditOnly` | `KycSpec => OnlyDiditReopens` |
| *ServiceProofs* | |
| `IdempotencyTypes` | `IdempotencySpec => []IdempotencyTypeOK` |
| `AnswersFitTheirBody` | `IdempotencySpec => []StoredAnswerFits` |
| `HandlerRunsOnce` | `IdempotencySpec => []RunsOnce` |
| `StoredAnswersStay` | `IdempotencySpec => AnswerStays` |
| `KeyImplementsOnceOnly` | `IdempotencySpec => Once!OnceSpec` |
| `BucketTypes` | `BucketSpec => []TokenBucketTypeOK` |
| `BucketFunded` | `BucketSpec => []SpendIsFunded` |
| `TicketTypes` | `TicketsSpec => []TicketsTypeOK` |
| `OwnershipAgrees` | `TicketsSpec => []CopiesAgree` |
| `AssigneesKeepTheirTicket` | `TicketsSpec => OwnersAreNotDisplaced` |
| *SignInProofs* | |
| `SignInTypes` | `SignInSpec => []SignInTypeOK` |
| `OneTokenIsAlive` | `SignInSpec => []OneTokenAlive` |
| `NewPasswordSignsOut` | `SignInSpec => []PasswordChangeSignsOut` |
| `RestrictionsSignOut` | `SignInSpec => []RestrictionSignsOut` |
| `SessionsStayEnded` | `SignInSpec => EndedSessionsStayEnded` |

*Assumptions.* `NftAssumption`, `KycAssumption`, `LedgerAssumption`,
`PipelineAssumption`, `OauthAssumption`, `WebhookAssumption`,
`KycSessionsAssumption`, `TokenBucketAssumption`, `TicketsAssumption` and
`SignInAssumption` are named in the modules that declare the constants: bounds are
naturals, null values are no actors, the two contract addresses are not accounts
of holders, the statuses a PATCH asks for are statuses. TLC evaluates them in each
run.

*What the pipeline's properties set apart.* Four of them hold up to events that do
refute them, and each names its event by a history variable; every fault and
intervention is otherwise allowed.

- `BanIsFinal` says nothing of a ban that found a worker past the status gate, or
  whose request died between the ban and the revocation (`raced`): both leave
  the row live (section 6).
- `SessionMintsOnce` says nothing of a session that two workers have been at work on
  at once (`doubled`), whether for two jobs of it or because its job overran its
  expiry: each looks for a row before either inserts one. Other sessions are not
  affected.
- `ActiveRowIsLive` and `RecordedTokenExists` hold while nothing has `disturbed` the
  rows. Three things do: a second run of the handler at work beside the first, of
  whatever session, because the loser of the insert revokes by wallet what the winner
  recorded (the queue is consumed one job at a time by each process,
  `credential-pipeline-worker.ts:1205`, so this takes two processes or an overrun); the
  undo of an insert that did commit; and a revocation by anyone but a worker (a ban or
  reset, the holder), between which and the row's update row and chain differ as
  they must. Once no row is live and nobody at work the history is cleared, so
  the next credential is covered again.
- `RecordedTokenExists` speaks of live rows of the linked wallet: the token is minted
  to the wallet linked now and recorded in the row of the wallet linked then, which
  after a change of wallet are two.

*Arguments.*

- *Contracts.* The handle properties are not inductive one by one: that a verdict
  comes from its user's fields needs that stored fields belong to the user and
  are permitted to the registry, and that a new handle differs from every old
  one. `HandleInv` conjoins them with `HandlesBelowCounter` (no permitted handle
  has a serial above the counter); only `SetCredential` and `GrantAccess` change
  the permission table, and `HandleInvQuiet` disposes of all other transactions at
  once. `OneTokenPerCustomer` is inductive over typed states. The refinement uses
  both: each transaction maps to one ledger step or a stutter, and the cascade
  burn maps to the `burn` flag of `Revoke`/`Erase` because the token maps agree.
- *OAuth.* `OauthInv` adds to the checked invariants what rows say of each other
  (`RequestsFit`, `CodesFit`, `TokensFit`), what a call in flight may still rely
  on of what it has read (`Fits`: its request is still its customer's, the code
  whose burn it holds is still unused, its consent is still of that customer and
  revoked only if marked), that one call at most holds a code's burn (`CallsFit`),
  and that rows, snapshot and chain only speak of consented levels (`GrantsFit`).
  Rows are appended or stamped and never otherwise changed (`Lasting`), so a fit
  survives what others do; each action has one of four effects on the tables
  (`QuietTables`, `StampedTables`, `MintedTables`, `ApprovedTables`), proved to
  keep the invariant once each. For the refinement a request that has an outcome has
  an owner (`DecidedByOwner`), and a stage is moved by three things only: the
  row's outcome; a token, which comes while its code is unused and hence is the
  request's first (`TokensFit`, `OneOutcomePerRequest`); and the end of that token.
- *Pipeline.* `PipelineInv` adds to the types what an actor may rely on of what it
  has read: that its row exists and that its wallet is an address, and for an
  upgrade about to be written that the chain still has a record at that wallet
  (`Fits`, with `LedgerFits`), which is what rules out a split credential. Rows are
  rewritten but never deleted (`RowsKept`), hence levels keep their rows. The ban
  rests on two facts more: one row at most is live (`OneLive`, the unique index),
  and while an unraced ban stands no worker gets past the gate and what the admin
  has selected is all there is (`BanHolds`). For the address sessions, two
  workers on one session are noted as soon as they are (`Noted`), so nobody else
  inserts between the replay guard and the insert of one that is alone (`Fresh`).
  `Moves` sums up what the eleven steps of a worker and its failures leave of the
  other workers and of itself.
- *Pipeline, row and chain.* While nothing is disturbed at most one worker is at work,
  and it may rely on what it has read of the rows (`Standing`): past its replay guard
  an identity worker knows that no row is live, an upgrade that has looked for the
  old row knows that no other is, so that whatever `Compensate` revokes no live row
  rests on, and what `Insert` records is what `IssueOnChain` left at the wallet. For
  the token, a request that mints for a live row does so to the wallet still linked
  (`MinterLinked`), and a live row not of another wallet than the linked one
  (`Linked`) which records the token or is about to (`Tokened`) has it on the chain
  (`TokensBacked`); burning it under a live row would be a revocation that disturbs
  (`BadgesStay`).
- *Pipeline, refinements.* Each step sends one transaction of the ledger or none,
  with an address for a holder and a level for contents, which is what
  `PipelineInv` says of the readings it is sent from; with
  `ContractsImplementLedger` the backend's calls are the contracts'. The slot needs
  `OneLive`: a step that inserts nothing leaves the same live row or none.
- *WebhookDelivery.* `WebhookInv`: a delivery that has not forked has one job,
  waiting or with a worker (`OneJob`), and whoever has loaded the row found it
  unsettled (`NotSettled`), so nobody rewrites an outcome. One worker at most is
  about to write the breaker, and its columns lag behind the streak by what that
  worker will write (`BreakerFits`); any other overlap is marked as `blurred`.
- *KycSessions.* `KycInv`: handlers, messages and decisions are about sessions that
  were begun (`HandlersFit`, `OnlyBegun`), hence a start inserts where there is no
  row, and sweeps the older active ones in the same transaction (`OneActive`, the
  partial unique index).
- *Idempotency.* `KeyInv`: an answer is stored by a call whose handler has run
  (`CallsInv`), and until the row first expires it exists beside whoever is active,
  of which there is one (`ClaimHeld`). In the refinement a claim is an `Engage`,
  allowed because `ClaimHeld` leaves no claimable row beside an active call; an
  answer is told only after its call has run, which is what `CallsInv` says of a
  call's own answer and `StoredAnswerFits` of a replayed one.
- *TokenBucket.* `Funded` restates the property at `last_refill_at`, in what had been
  earned by then, which no request pushes beyond what has been earned by now; a
  request that sets it back is charged to `rewound`, one that pays the time since
  above its worth to `repriced`. `Steady`: as long as a firm keeps its tier, time and
  worth are proportional, so nothing is repriced.
- *Tickets.* `OwnershipInv`: a request that no commit has outdated may still rely
  on its checks (`Current`), so its transaction writes both copies alike; a PATCH
  releases only a row whose admin it is or which a superadmin displaces
  (`Authority`).
- *SignIn.* `SignInInv`: a sign-in in flight fits the account or is marked as
  overtaken (`InFlight`), and a tab's session is one that exists
  (`KnownSession`); every write of a session goes through a guard that the row is
  not revoked.

*Only model-checked.* All liveness (`progress`), which is out of the prover's reach.
`ServicesTypeOK` puts together, for the instances of its run, type invariants that
are proved one by one.

## 6 Where code and documentation disagree

Seven runs state what a comment or document says, and TLC refutes it:

- `kyc_revoked_reads_empty`. The README's Case C says that a firm's read after
  `revokeMine` returns an empty handle. Revocation changes the status and leaves
  `_grant` and the permission table alone: the read returns the old verdict and
  it still decrypts. An erasure leaves both alone in the same way.
- `pipeline_ban_race`. The status gate is read once, before the mint; a ban that
  runs between the gate and the insert leaves a banned customer with a live
  row. `BanIsFinal` (passing) says this is the only way.
- `pipeline_lost_address`. The reconciler asks for an address session with
  no live row *and* a basic live row, which cannot both hold: a lost delivery of
  the second phase is never found.
- `oauth_regrant`. The unique index on consents counts rows that are not
  revoked, the lookup only rows that are not expired. After a consent has
  expired the next approval violates the index and rolls back, every time.
- `idempotency_replay`. The request hash is compared once, before the poll. The
  polled row may lapse and be taken over by a call with another body, whose
  answer the poller then returns.
- `ticket_ownership`. A superadmin who gave a ticket up and replies to it is
  joined by an upsert that revives their row with its old role: they are the
  active assignee of a ticket that is assigned to nobody, and later claims fail
  on the index.
- `ban_is_terminal`. A wrong password at the limit locks any account that is not
  locked, a banned one included; when the lock has run out the account becomes
  active.

Met while modelling, described here without a run of their own.

*Credentials.* The audit of the decline counter is written after the insert's
commit but inside the same `try`: if it fails, the compensation revokes a
credential whose row is live (`credential-pipeline-worker.ts:856`). Two
workers can be at work on one session: after an overrun, and whenever an approval
is delivered twice, since the key of `credential-pipeline-worker.ts:1631`
("deduplicate by session + phase") keeps no second job out. The loser of the insert
then compensates by wallet and revokes what the winner recorded, and an address
session may be minted twice, one row superseding the other, without any fault;
`ActiveRowIsLive` and `SessionMintsOnce` set these cases apart (`disturbed`,
`doubled`). `handleMintNft`
mints to the wallet linked now and records the token in the live row, which after
a change of wallet during a job is another wallet's. An on-chain revocation that
fails during a ban is logged and not repaired (`ban.ts:276`).

*OAuth.* A revoked consent does not stop a code approved under it
(`oauth-token.ts:450`), and a revocation that runs inside an exchange leaves that
exchange's token alive (`overtaken`). The grant worker marks rows by id from a
snapshot: a level raised during a sweep is marked granted at the old level; a
mined but reverted transaction counts as granted. Of two exchanges racing for one
code the loser is refused, but does not run the reuse detection that a later
replay would. A unique violation aborts the transaction, so the read that follows
it as a fallback (`oauth-token.ts:467`) cannot succeed.

*KYC sessions.* A decline is counted by every write of it, so a webhook after a
pull, or a repeated webhook, counts it twice, against the comment at
`didit-webhook.ts:1423-1426`; a decline learned by a resume is not counted;
`resetDecline`, of which `decline-counter.ts:16` speaks, is never called. A late
webhook for `in_progress` or `approved` reopens a closed row, and a resume that
was read before a revocation revives the revoked row; a webhook for a superseded
session is refused by the unique index for as long as another one is active. A
process that dies between the transaction of a start and the `kyc_started` audit
row takes the customer out of the reconciler's sight. The reverse-drift pass
revokes a session a blocked customer has begun afresh, as long as `revoked_at` is
set.

*Webhooks.* No emitter enqueues a first job: `enqueueDelivery` is called by the
worker's own retry only (`emit.ts:123`, against `instrumentation.ts:201-203`); the
model hands rows to the queue by an action of its own. Overlapping deliveries lose
updates of the breaker; a tripped breaker is closed again by a success that was
under way when it tripped and by nothing else; and a delivery that finds its
endpoint unusable stays pending for good.

*Idempotency and rate limits.* `releaseClaim` deletes a pending row whoever holds
it. `consumeToken` stamps `last_refill_at` with the request's own time even when
that lies before the present stamp, so the time between is refilled twice
(`rewound`); switching tiers to and fro grants the difference at each upgrade. A
change of tier stores the new rate and keeps `last_refill_at`
(`token-bucket.ts:206-211`), so the next refill pays all of the time since, the time
before the change included, at the new rate (`repriced`), against "future refills use
the new rate" (`token-bucket.ts:181-182`).

*Tickets.* When another admin is the active assignee, the reply described above
ends in a unique violation instead. Requests computed from outdated readings part
the two copies (`overtaken`); a message computed from an open ticket reopens one
closed meanwhile; a PATCH from closed to `waiting_customer` keeps the closing
times; accepting an invitation answers "active" and is audited although its
update matched nothing after the invitation was withdrawn; the edit lock of a
message is checked before its update; the cap on open tickets is a count followed
by an insert, and says five in a comment (`tickets.ts:314`) and two in the
constant (`tickets.ts:94`). A take-over writes the participants before the
ticket, a PATCH the ticket first: the two can deadlock in the database.

*Sign-in.* A lock that is noticed by a login in its last moment can overwrite a
suspension or ban committed since (the unlock goes by id); suspension is lost to
wrong passwords in the same way as a ban. The silent rehash of a login writes the
old password over one set meanwhile (`login.ts:366-390`). Once the window
of failed logins has passed, wrong passwords reach the limit a second time while
the account is still locked, and the notice of the lock is sent again
(`login.ts:218-223`). A reset code invalidated
by a password change is still honoured by a reset that had read it
(`reset.ts:173-178`). A refresh that takes longer than the grace period makes an
honest second tab count as reuse, while a token two generations old is answered
as invalid and ends nothing. The refresh route sets the cookie's lifetime from
the configuration and not from "remember me", and the cleanup worker deletes
remembered sessions after seven idle days. `handleRefresh` of
`dashboard-auth.ts` is not routed.

## 7 Not modelled

Abstracted in the parts that are modelled:

- *Everywhere*: cryptography (encryption, PKCE, client secrets, password hashes,
  signatures) and input validation; logging and audit rows nothing reads.
- *Pipeline*: notifications and webhooks sent at the end of a job, which swallow
  their errors; `supersededBy` and profile locks, which nothing modelled reads;
  suspended and locked accounts; the stuck-mint pass (no writer creates pending
  rows). `approved` stands for `identity_approved` too, an approval has all flags
  of its workflow, expiry is nondeterministic, and the check and delete of a
  wallet unlink are one step.
- *OAuth*: the level at the gate is nondeterministic; access-token expiry is left
  out (it only removes authority), as are registering, editing and rotating
  clients, IP binding and redirect checks.
- *KycSessions*: the address workflow, face matching, the mint-pending window, the
  seven-day age-out and the reconciler's look-back; `in_review` and resubmission
  are merged into `in_progress`, Didit's Expired and Abandoned (one status inside,
  `expired`) into one verdict; Not Started (`pending`) sends no webhook here and is
  learned by a pull; Didit's times are choices.
- *WebhookDelivery*: the choice of endpoints, the envelope, signatures and
  delays between retries.
- *TokenBucket*: fractions of a token, by the choice of the units of time and of
  tokens; the monthly quota and the sliding windows, which are single statements.
- *Tickets*: messages, attachments, categories, priority, mutes, the open-ticket
  cap and the rate limits; the unlocked reads of a handler are one step and its
  transaction another; who of equal candidates the cascade takes, and who is locked out,
  are choices.
- *SignIn*: Google sign-in, `pending_verification`, firm and admin sessions,
  access tokens, refresh expiry, second factors; grace period, lock and window are
  choices; two hashes of one password are equal.

External and modelled from its use: OpenZeppelin's ERC721, the FHE
coprocessor's permission table, pg-boss, PostgreSQL's row locks and unique
indexes, Didit, the chain's answer to a transaction.

Not modelled, for good: user interfaces, SDK and HTTP clients, CRUD guarded by
roles, mail, OpenAPI, deployment, row-level security (enforced in PostgreSQL).
These are the greater part of the repository's lines.

## 8 Plan

What remains worth doing:

1. The B2B pipeline (`processCredentialPipelineB2b`) and its sessions, composed
   with the ledger; account erasure, which revokes on chain before one
   transaction over most tables.
2. Verification codes and TOTP: a count of attempts across three statements.
   Firm and admin sessions, which share the refresh code with `SignIn`.
3. Abstract specifications of a KYC session (decided once, then closed) and of a
   delivery (settled once), in the way of `AuthorizationGrants` and `OnceOnly`.
4. `disturbed` narrowed to runs of the handler that overlap on one wallet: which of
   two runs a row may rely on when their sessions differ.
