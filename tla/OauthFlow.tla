----------------------------- MODULE OauthFlow -----------------------------
(***************************************************************************)
(* "Sign in with Crivacy": one OAuth client of one firm, its customers,    *)
(* and the worker that carries their consents to the chain.                *)
(*                                                                         *)
(* A customer decides an authorization request; the approval leaves a      *)
(* consent and a code; the firm exchanges the code for a token; a pending  *)
(* row asks the grant worker to admit the firm on chain.  Two browsers, a  *)
(* replayed exchange, a revocation and the sweep run between any two       *)
(* steps of any of them: a step here is what the code does between two     *)
(* awaits that matter, and a transaction is split where READ COMMITTED     *)
(* lets another one in.                                                    *)
(***************************************************************************)
EXTENDS Naturals, Sequences

CONSTANTS
  Users, NoUser,
  Requests, NoRequest,
  Scopes,       \* a scope set, named by the level it requires (maxRequiredLevel)
  Calls,        \* HTTP requests in progress: decisions and token exchanges
  MaxAttempts,  \* FIRM_GRANT_MAX_ATTEMPTS
  Faults,       \* which faults may occur
  MaxFaults,    \* bound: how many
  Events,       \* which revocations and expiries may occur
  MaxEvents     \* bound: how many

Levels == {"none", "basic", "enhanced"}

ASSUME OauthAssumption ==
  /\ NoUser \notin Users /\ NoRequest \notin Requests
  /\ Scopes \subseteq Levels
  /\ MaxAttempts \in Nat \ {0} /\ MaxFaults \in Nat /\ MaxEvents \in Nat

VARIABLES
  clientRevoked,  \* oauth_clients.revoked_at
  req,            \* oauth_authorization_requests
  consents,       \* oauth_consents, in insertion order
  codes,          \* oauth_authorization_codes
  tokens,         \* oauth_access_tokens
  call,           \* program counter and locals of each HTTP request
  grants,         \* firm_credential_grants, one row per customer
  batch,          \* the sweep's snapshot: minLevel per customer, none if not in it
  verdict,        \* on chain: the level the firm's grant on a customer tests
  faults, events, \* counts, for the bounds
  overtaken       \* history: consents revoked under an exchange that had read them

oauthVars == <<req, consents, codes, tokens>>
grantVars == <<grants, batch, verdict>>
boundVars == <<faults, events>>
vars == <<clientRevoked, oauthVars, call, grantVars, boundVars, overtaken>>

\* A scope set that requires no level is granted at basic.
MinLevel(s) == IF s = "none" THEN "basic" ELSE s

Idle == [pc |-> "idle", user |-> NoUser, request |-> NoRequest, act |-> "none",
         code |-> 0, consent |-> 0]
NoRow == [status |-> "absent", min |-> "none", attempts |-> 0]

\* The sweep has nothing left to do.
NoBatch == \A u \in DOMAIN batch : batch[u] = "none"

Init ==
  /\ clientRevoked = FALSE
  /\ req = [r \in Requests |-> [made |-> FALSE, user |-> NoUser, scope |-> "none",
                                outcome |-> "none", expired |-> FALSE]]
  /\ consents = <<>> /\ codes = <<>> /\ tokens = <<>>
  /\ call = [d \in Calls |-> Idle]
  /\ grants = [u \in Users |-> NoRow]
  /\ batch = [u \in Users |-> "none"]
  /\ verdict = [u \in Users |-> "none"]
  /\ faults = 0 /\ events = 0
  /\ overtaken = {}

Fault(f) ==
  /\ f \in Faults /\ faults < MaxFaults
  /\ faults' = faults + 1
  /\ UNCHANGED events

Event(e) ==
  /\ e \in Events /\ events < MaxEvents
  /\ events' = events + 1
  /\ UNCHANGED faults

Goto(d, pc) == call' = [call EXCEPT ![d].pc = pc]
End(d) == call' = [call EXCEPT ![d] = Idle]

\* Rows the unique index oauth_consents_active_idx counts, and those of them
\* findActiveConsent returns: the index cannot look at expires_at.
Unrevoked(u, s) ==
  {i \in DOMAIN consents : consents[i].user = u /\ consents[i].scope = s /\ ~consents[i].revoked}
Active(u, s) == {i \in Unrevoked(u, s) : ~consents[i].expired}

NewConsent(u, s) == [user |-> u, scope |-> s, revoked |-> FALSE, expired |-> FALSE]
NewCode(r, u) ==
  [request |-> r, user |-> u, scope |-> req[r].scope, used |-> FALSE,
   expired |-> FALSE, replayed |-> FALSE]
NewToken(c, i) == [code |-> c, user |-> codes[c].user, consent |-> i, revoked |-> FALSE]

\* Access tokens in a set of indices, stamped revoked.
RevokeTokens(dead) ==
  tokens' = [t \in DOMAIN tokens |->
               IF t \in dead THEN [tokens[t] EXCEPT !.revoked = TRUE] ELSE tokens[t]]

-----------------------------------------------------------------------------
(* The authorization request and the customer's decision.                  *)

\* handleOauthAuthorize: bound to the session's customer, or to nobody yet.
Authorize(r, u, s) ==
  /\ ~req[r].made /\ ~clientRevoked
  /\ req' = [req EXCEPT ![r].made = TRUE, ![r].user = u, ![r].scope = s]
  /\ UNCHANGED <<clientRevoked, consents, codes, tokens, call, grantVars,
                 boundVars, overtaken>>

\* The row is loaded once, by the consent page (view) or the decision; a
\* request of another customer, a decided or an expired one ends the call.
LoadRequest(d, u, r, act) ==
  /\ call[d] = Idle
  /\ req[r].made /\ req[r].outcome = "none" /\ ~req[r].expired
  /\ req[r].user = NoUser \/ (req[r].user = u /\ act # "view")
  /\ call' = [call EXCEPT ![d] =
       [Idle EXCEPT !.user = u, !.request = r, !.act = act,
                    !.pc = IF req[r].user = u THEN "gate" ELSE "attach"]]
  /\ UNCHANGED <<clientRevoked, oauthVars, grantVars, boundVars, overtaken>>

\* mutation: no WHERE user_id IS NULL
AttachAnyway(d) ==
  /\ req' = [req EXCEPT ![call[d].request].user = call[d].user]
  /\ IF call[d].act = "view" THEN End(d) ELSE Goto(d, "gate")

\* ensureAuthRequestOwnership: claim the unbound row; the loser of a race reads
\* it again and goes on only if the row is its own.
Claim(d) ==
  LET owner == req[call[d].request].user
      mine  == owner \in {NoUser, call[d].user}
  IN  /\ req' = IF owner = NoUser
                THEN [req EXCEPT ![call[d].request].user = call[d].user] ELSE req
      /\ IF mine /\ call[d].act # "view" THEN Goto(d, "gate") ELSE End(d)

Attach(d) ==
  /\ call[d].pc = "attach"
  /\ Claim(d)
  /\ UNCHANGED <<clientRevoked, consents, codes, tokens, grantVars, boundVars,
                 overtaken>>

\* The client must be alive, and for an approval the credential high enough:
\* its level is what the credential pipeline has made it by now, any level here.
Gate(d) ==
  /\ call[d].pc = "gate"
  /\ \/ ~clientRevoked /\ Goto(d, call[d].act)
     \/ (clientRevoked \/ call[d].act = "approve") /\ End(d)
  /\ UNCHANGED <<clientRevoked, oauthVars, grantVars, boundVars, overtaken>>

\* mutation: the claim does not look whether the request is completed
CompleteAgain(r) == TRUE

\* markAuthorizationRequestCompleted's WHERE; it does not look at the expiry.
Unclaimed(r) == req[r].outcome = "none"

Reject(d) ==
  /\ call[d].pc = "reject"
  /\ req' = IF Unclaimed(call[d].request)
            THEN [req EXCEPT ![call[d].request].outcome = "rejected"] ELSE req
  /\ End(d)
  /\ UNCHANGED <<clientRevoked, consents, codes, tokens, grantVars, boundVars,
                 overtaken>>

\* mutation: the hand-over does not wait for the commit
HandOverAnyway(d) == Goto(d, "handover")

\* The transaction's callback threw: nothing after it runs.
RolledBack(d) == End(d)

\* The approval's transaction: claim, find or insert the consent, insert the
\* code.  A lost claim and a duplicate consent roll all of it back.
Approve(d) ==
  LET r == call[d].request  u == call[d].user  s == req[r].scope IN
  /\ call[d].pc = "approve"
  /\ \/ /\ Unclaimed(r) /\ (Active(u, s) # {} \/ Unrevoked(u, s) = {})
        /\ req' = [req EXCEPT ![r].outcome = "approved"]
        /\ codes' = Append(codes, NewCode(r, u))
        /\ \/ Active(u, s) # {} /\ End(d) /\ UNCHANGED consents
           \/ /\ Active(u, s) = {} /\ Goto(d, "handover")
              /\ consents' = Append(consents, NewConsent(u, s))
     \/ /\ ~Unclaimed(r) \/ (Active(u, s) = {} /\ Unrevoked(u, s) # {})
        /\ RolledBack(d) /\ UNCHANGED <<req, codes, consents>>
  /\ UNCHANGED <<clientRevoked, tokens, grantVars, boundVars, overtaken>>

\* upsertPendingGrant, after the commit and only for a new consent.
HandOver(d) ==
  /\ call[d].pc = "handover"
  /\ grants' = [grants EXCEPT ![call[d].user] =
       [status |-> "pending", min |-> MinLevel(req[call[d].request].scope), attempts |-> 0]]
  /\ End(d)
  /\ UNCHANGED <<clientRevoked, oauthVars, batch, verdict, boundVars, overtaken>>

-----------------------------------------------------------------------------
(* The token endpoint.                                                     *)

\* Client and code are looked up; what the code was, the rest goes by.
PresentCode(d, c) ==
  /\ call[d] = Idle
  /\ ~clientRevoked /\ ~codes[c].expired
  /\ call' = [call EXCEPT ![d] =
       [Idle EXCEPT !.code = c, !.pc = IF codes[c].used THEN "reuse" ELSE "burn"]]
  /\ UNCHANGED <<clientRevoked, oauthVars, grantVars, boundVars, overtaken>>

\* A code seen used: every token it minted is revoked, and an alarm raised.
DetectReuse(d) ==
  /\ call[d].pc = "reuse"
  /\ RevokeTokens({t \in DOMAIN tokens : tokens[t].code = call[d].code})
  /\ codes' = [codes EXCEPT ![call[d].code].replayed = TRUE]
  /\ End(d)
  /\ UNCHANGED <<clientRevoked, req, consents, grantVars, boundVars, overtaken>>

\* The uncommitted burn locks the row: a second one waits for the outcome.
Locked(c) == \E d \in Calls : call[d].pc = "insert" /\ call[d].code = c

\* mutation: the burn commits on its own, ahead of the token
BurnFirst(d, c) ==
  IF codes[c].used THEN End(d) /\ UNCHANGED <<consents, codes, tokens>>
  ELSE /\ codes' = [codes EXCEPT ![c].used = TRUE]
       /\ Active(codes[c].user, codes[c].scope) # {}
       /\ call' = [call EXCEPT ![d].pc = "insert",
            ![d].consent = CHOOSE i \in Active(codes[c].user, codes[c].scope) : TRUE]
       /\ UNCHANGED <<consents, tokens>>

\* mutation: the code is read, not burnt, before the token is inserted
BurnUnlocked(d, c) ==
  /\ Active(codes[c].user, codes[c].scope) # {}
  /\ call' = [call EXCEPT ![d].pc = "insert",
       ![d].consent = CHOOSE i \in Active(codes[c].user, codes[c].scope) : TRUE]
  /\ UNCHANGED <<consents, codes, tokens>>

\* From the burn to the consent.  A consent that must be inserted is seen by
\* nobody before the commit, so that transaction is one step; one that was
\* found can be revoked before the token is inserted.  A duplicate key aborts
\* the transaction (runOrCatchUnique has no savepoint), the burn with it.
BurnAndFind(d, c) ==
  LET u == codes[c].user  s == codes[c].scope IN
  \/ /\ codes[c].used \/ (Active(u, s) = {} /\ Unrevoked(u, s) # {})
     /\ End(d) /\ UNCHANGED <<consents, codes, tokens>>
  \/ /\ ~codes[c].used /\ \E i \in Active(u, s) :
          call' = [call EXCEPT ![d].pc = "insert", ![d].consent = i]
     /\ UNCHANGED <<consents, codes, tokens>>
  \/ /\ ~codes[c].used /\ Unrevoked(u, s) = {}
     /\ consents' = Append(consents, NewConsent(u, s))
     /\ codes' = [codes EXCEPT ![c].used = TRUE]
     /\ tokens' = Append(tokens, NewToken(c, Len(consents) + 1))
     /\ End(d)

Exchange(d) ==
  /\ call[d].pc = "burn" /\ ~Locked(call[d].code)
  /\ BurnAndFind(d, call[d].code)
  /\ UNCHANGED <<clientRevoked, req, grantVars, boundVars, overtaken>>

\* insertAccessToken and the commit, which publishes the burn.
InsertToken(d) ==
  /\ call[d].pc = "insert"
  /\ tokens' = Append(tokens, NewToken(call[d].code, call[d].consent))
  /\ codes' = [codes EXCEPT ![call[d].code].used = TRUE]
  /\ End(d)
  /\ UNCHANGED <<clientRevoked, req, consents, grantVars, boundVars, overtaken>>

\* An error rolls a transaction back, and after the commit loses the hand-over
\* (swallowed, a crash, or no wallet on either side); a reuse goes unpunished.
CallFails(d) ==
  /\ call[d].pc \in {"approve", "handover", "burn", "insert", "reuse"}
  /\ Fault("db")
  /\ End(d)
  /\ UNCHANGED <<clientRevoked, oauthVars, grantVars, overtaken>>

-----------------------------------------------------------------------------
(* Revocation and expiry.                                                  *)

Held == {call[d].consent : d \in {e \in Calls : call[e].pc = "insert"}}

\* mutation: the consent alone is stamped
Uncascaded(dead) == {}

\* The tokens of the revoked consents go in the same transaction.
Cascade(dead) == {t \in DOMAIN tokens : tokens[t].consent \in dead}

RevokeConsent(i) ==
  /\ Event("revoke")
  /\ ~consents[i].revoked
  /\ consents' = [consents EXCEPT ![i].revoked = TRUE]
  /\ RevokeTokens(Cascade({i}))
  /\ overtaken' = overtaken \cup ({i} \cap Held)
  /\ UNCHANGED <<clientRevoked, req, codes, call, grantVars>>

\* handleDashboardRevokeOauthClient: the client, its tokens, its consents.
RevokeClient ==
  /\ Event("revokeClient")
  /\ ~clientRevoked
  /\ clientRevoked' = TRUE
  /\ consents' = [i \in DOMAIN consents |-> [consents[i] EXCEPT !.revoked = TRUE]]
  /\ RevokeTokens(DOMAIN tokens)
  /\ overtaken' = overtaken \cup Held
  /\ UNCHANGED <<req, codes, call, grantVars>>

Expire ==
  /\ Event("expire")
  /\ \/ /\ \E i \in DOMAIN consents :
             ~consents[i].expired /\ consents' = [consents EXCEPT ![i].expired = TRUE]
        /\ UNCHANGED <<req, codes>>
     \/ /\ \E r \in Requests :
             req[r].made /\ ~req[r].expired /\ req' = [req EXCEPT ![r].expired = TRUE]
        /\ UNCHANGED <<consents, codes>>
     \/ /\ \E c \in DOMAIN codes :
             ~codes[c].expired /\ codes' = [codes EXCEPT ![c].expired = TRUE]
        /\ UNCHANGED <<consents, req>>
  /\ UNCHANGED <<clientRevoked, tokens, call, grantVars, overtaken>>

-----------------------------------------------------------------------------
(* The grant sweep: one consumer, rows of a batch one after the other.     *)

\* mutation: a failed row is not tried again
ClaimablePending(u) == grants[u].status = "pending"

\* mutation: the retry budget is not looked at
ClaimableForEver(u) == grants[u].status \in {"pending", "failed"}

Claimable(u) ==
  grants[u].status \in {"pending", "failed"} /\ grants[u].attempts < MaxAttempts

StartSweep ==
  /\ NoBatch
  /\ \E u \in Users : Claimable(u)
  /\ batch' = [u \in DOMAIN grants |-> IF Claimable(u) THEN grants[u].min ELSE "none"]
  /\ UNCHANGED <<clientRevoked, oauthVars, call, grants, verdict, boundVars, overtaken>>

\* markGrantGranted and markGrantFailed go by the row's id alone.
MarkGranted(u) == grants' = [grants EXCEPT ![u].status = "granted"]
MarkFailed(u) ==
  grants' = [grants EXCEPT ![u].status = "failed", ![u].attempts = @ + 1]

Admitted(u) == verdict' = [verdict EXCEPT ![u] = batch[u]]

\* grantAccess at the snapshot's level: granted when the client returns, which
\* it does for a transaction that was mined and reverted too; an error leaves
\* open whether the transaction landed.
Grant(u) ==
  /\ batch[u] # "none"
  /\ \/ Admitted(u) /\ MarkGranted(u) /\ UNCHANGED boundVars
     \/ UNCHANGED verdict /\ MarkGranted(u) /\ Fault("reverted")
     \/ (Admitted(u) \/ UNCHANGED verdict) /\ MarkFailed(u) /\ UNCHANGED boundVars
  /\ batch' = [batch EXCEPT ![u] = "none"]
  /\ UNCHANGED <<clientRevoked, oauthVars, call, overtaken>>

\* The worker dies, before or after the transaction in progress landed.
SweepDies ==
  /\ Fault("crash")
  /\ \E u \in Users : batch[u] # "none" /\ (Admitted(u) \/ UNCHANGED verdict)
  /\ batch' = [u \in DOMAIN batch |-> "none"]
  /\ UNCHANGED <<clientRevoked, oauthVars, call, grants, overtaken>>

-----------------------------------------------------------------------------
Decision(d) == Attach(d) \/ Gate(d) \/ Reject(d) \/ Approve(d) \/ HandOver(d)
TokenCall(d) == DetectReuse(d) \/ Exchange(d) \/ InsertToken(d)
Sweep == StartSweep \/ \E u \in Users : Grant(u)

Next ==
  \/ \E r \in Requests, u \in Users \cup {NoUser}, s \in Scopes : Authorize(r, u, s)
  \/ \E d \in Calls, u \in Users, r \in Requests, act \in {"view", "reject", "approve"} :
       LoadRequest(d, u, r, act)
  \/ \E d \in Calls : \E c \in DOMAIN codes : PresentCode(d, c)
  \/ \E d \in Calls : Decision(d) \/ TokenCall(d) \/ CallFails(d)
  \/ \E i \in DOMAIN consents : RevokeConsent(i)
  \/ RevokeClient \/ Expire
  \/ Sweep \/ SweepDies

Spec == Init /\ [][Next]_vars

\* The cron enqueues a sweep every minute and its only consumer drains it.
Fairness == WF_vars(StartSweep) /\ \A u \in Users : WF_vars(Grant(u))
FairSpec == Spec /\ Fairness

-----------------------------------------------------------------------------
(* Properties.                                                             *)

Call ==
  [pc : {"idle", "attach", "gate", "reject", "approve", "handover", "reuse", "burn", "insert"},
   user : Users \cup {NoUser}, request : Requests \cup {NoRequest},
   act : {"none", "view", "reject", "approve"},
   code : DOMAIN codes \cup {0}, consent : DOMAIN consents \cup {0}]

\* The type invariant; a grant row never runs past its retry budget.
OauthTypeOK ==
  /\ clientRevoked \in BOOLEAN
  /\ req \in [Requests -> [made : BOOLEAN, user : Users \cup {NoUser}, scope : Scopes \cup {"none"},
                           outcome : {"none", "approved", "rejected"}, expired : BOOLEAN]]
  /\ \A i \in DOMAIN consents :
       consents[i] \in [user : Users, scope : Scopes, revoked : BOOLEAN, expired : BOOLEAN]
  /\ \A c \in DOMAIN codes :
       codes[c] \in [request : Requests, user : Users, scope : Scopes, used : BOOLEAN,
                     expired : BOOLEAN, replayed : BOOLEAN]
  /\ \A t \in DOMAIN tokens :
       tokens[t] \in [code : DOMAIN codes, user : Users, consent : DOMAIN consents, revoked : BOOLEAN]
  /\ call \in [Calls -> Call]
  /\ grants \in [Users -> [status : {"absent", "pending", "failed", "granted"}, min : Levels,
                           attempts : 0..MaxAttempts]]
  /\ batch \in [Users -> Levels] /\ verdict \in [Users -> Levels]
  /\ overtaken \subseteq DOMAIN consents

\* A request has one outcome, whichever browser tabs race to decide it: a
\* rejected request never yields a code, an approved one exactly one.
OneOutcomePerRequest ==
  /\ \A c, d \in DOMAIN codes : codes[c].request = codes[d].request => c = d
  /\ \A r \in Requests :
       (req[r].outcome = "approved") <=> (\E c \in DOMAIN codes : codes[c].request = r)

\* A code is worth one token, however many exchanges present it at once.
OneTokenPerCode == \A t, v \in DOMAIN tokens : tokens[t].code = tokens[v].code => t = v

\* What a firm learns is about the customer who owns the request: a request that
\* started anonymously is bound once, and code, consent and token follow it.
TokensFollowTheOwner ==
  /\ \A c \in DOMAIN codes : codes[c].user = req[codes[c].request].user
  /\ \A t \in DOMAIN tokens :
       LET c == codes[tokens[t].code]  i == consents[tokens[t].consent]
       IN  tokens[t].user = c.user /\ i.user = c.user /\ i.scope = c.scope

\* Once the reuse of a code has been detected, nothing it minted is alive, nor
\* is anything minted from it later.
ReusedCodeIsWorthless ==
  \A t \in DOMAIN tokens : codes[tokens[t].code].replayed => tokens[t].revoked

\* A live token rests on an unrevoked consent, unless the revocation overtook
\* the exchange that had already read it.
LiveTokenHasConsent ==
  \A t \in DOMAIN tokens : ~tokens[t].revoked =>
    ~consents[tokens[t].consent].revoked \/ tokens[t].consent \in overtaken

\* The chain tests, for this firm, a level the customer has consented to.
GrantHasConsent ==
  \A u \in DOMAIN verdict : verdict[u] # "none" =>
    \E i \in DOMAIN consents : consents[i].user = u /\ MinLevel(consents[i].scope) = verdict[u]

\* A row asking for a grant is granted, or parked with its retries used up, in
\* spite of failed transactions and a worker that dies in mid-sweep.
GrantsSettle ==
  \A u \in Users : grants[u].status \in {"pending", "failed"} ~>
    grants[u].status = "granted" \/ grants[u].attempts = MaxAttempts

(* Statements of the documentation the runs confront with the code. *)

\* oauth-consents.ts: re-granting a revoked or expired consent inserts a new
\* row.  An approval that claims its request is served, then.
RegrantIsServed ==
  [][\A d \in Calls :
       call[d].pc = "approve" /\ Unclaimed(call[d].request) /\ call'[d].pc # "approve" =>
         Len(codes') = Len(codes) + 1]_vars
=============================================================================
