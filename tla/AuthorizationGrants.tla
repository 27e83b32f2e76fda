-------------------------- MODULE AuthorizationGrants --------------------------
(***************************************************************************)
(* What "Sign in with Crivacy" promises a customer about each request of a *)
(* firm: it belongs to one customer and to no other, only that customer    *)
(* decides it, once, and an approval is worth one access token.  A token   *)
(* that was withdrawn is never alive again and no other takes its place.   *)
(* Browser tabs, lost responses, replayed codes, rolled-back transactions  *)
(* and the tables that make it so are OauthFlow's business.                *)
(***************************************************************************)

CONSTANTS Users, NoUser, Requests, Scopes

VARIABLES
  stage,   \* none, open, rejected, approved, live (a token is out) or withdrawn
  owner,   \* the customer it belongs to, or NoUser before anybody took it up
  wanted   \* the scopes the firm asked for

GrantsInit ==
  /\ stage = [r \in Requests |-> "none"]
  /\ owner = [r \in Requests |-> NoUser]
  /\ wanted = [r \in Requests |-> "none"]

Advance(r, from, to) ==
  /\ stage[r] = from
  /\ stage' = [stage EXCEPT ![r] = to]

\* The firm asks, of a customer who is signed in or of whoever signs in next.
Ask(r, u, s) ==
  /\ Advance(r, "none", "open")
  /\ owner' = [owner EXCEPT ![r] = u]
  /\ wanted' = [wanted EXCEPT ![r] = s]

TakeUp(r, u) ==
  /\ stage[r] = "open" /\ owner[r] = NoUser
  /\ owner' = [owner EXCEPT ![r] = u]
  /\ UNCHANGED <<stage, wanted>>

Decide(r) ==
  /\ owner[r] \in Users
  /\ Advance(r, "open", "rejected") \/ Advance(r, "open", "approved")
  /\ UNCHANGED <<owner, wanted>>

Redeem(r) ==
  /\ Advance(r, "approved", "live")
  /\ UNCHANGED <<owner, wanted>>

\* By the customer, the firm's administrator or the detection of a reused code,
\* for one request or for many at once.
Withdraw(gone) ==
  /\ \A r \in gone : stage[r] = "live"
  /\ stage' = [r \in Requests |-> IF r \in gone THEN "withdrawn" ELSE stage[r]]
  /\ UNCHANGED <<owner, wanted>>

GrantsNext ==
  \/ \E r \in Requests, u \in Users \cup {NoUser}, s \in Scopes : Ask(r, u, s)
  \/ \E r \in Requests, u \in Users : TakeUp(r, u)
  \/ \E r \in Requests : Decide(r) \/ Redeem(r)
  \/ \E gone \in SUBSET Requests : Withdraw(gone)

GrantsSpec == GrantsInit /\ [][GrantsNext]_<<stage, owner, wanted>>
================================================================================
