------------------------------- MODULE SignIn -------------------------------
(***************************************************************************)
(* A customer's password, status and browser sessions: login.ts, the       *)
(* refresh, wallet, logout and change-password routes, reset.ts, and the   *)
(* moderators' actions of admin-customers.ts and ban.ts.                   *)
(*                                                                         *)
(* A request reads the rows it needs once and then writes, statement by    *)
(* statement, what that reading called for: "todo" holds the writes still  *)
(* to come, and every other request may commit between two of them.        *)
(*                                                                         *)
(* One customer with a verified address, a password and a linked wallet.   *)
(* Times are what the guards make of them: a lock is running or over, the  *)
(* window of failed logins open or past, and a superseded refresh token    *)
(* within its grace period or not.  Left out: rate limits, notices, audit, *)
(* expiry of the refresh token, and the access tokens.                     *)
(***************************************************************************)
EXTENDS Integers, Sequences

CONSTANTS
  Tabs,         \* requests in flight at once
  Ways,         \* what the customer's side may do
  Moderators,   \* admins, and the fraud classifier, acting at once
  Acts,         \* what they may do
  MaxFailed,    \* customerConfig.maxFailedAttempts
  MaxSignIns, MaxTokens, MaxPasswords, MaxActs   \* bounds

ASSUME SignInAssumption ==
  /\ MaxFailed \in Nat \ {0} /\ MaxSignIns \in Nat /\ MaxTokens \in Nat
  /\ MaxPasswords \in Nat /\ MaxActs \in Nat
  /\ Acts \subseteq {"suspend", "activate", "lock", "unlock", "ban"}

VARIABLES
  account,    \* the row of customers: status, failures, lock and password_hash
  code,       \* the mailed password-reset code
  signIns,    \* the rows of customer_sessions, oldest first
  tab,        \* per request: its writes to come and what it read
  moderator,  \* per moderator: the action whose precondition it has checked
  acts,       \* the number of moderation actions so far
  era,        \* history: how many passwords the customer has set
  issued      \* history: the refresh tokens handed out, per session

signInVars == <<account, code, signIns, tab, moderator, acts, era, issued>>

AtRest == [todo |-> {}, session |-> 0, version |-> 0, hash |-> [word |-> 0, weak |-> FALSE],
           era |-> 0, late |-> {}]

SignInInit ==
  /\ account = [status |-> "active", failed |-> 0, window |-> "none", lock |-> "none",
                hash |-> [word |-> 1, weak |-> TRUE]]
  /\ code = "sent"
  /\ signIns = <<>> /\ issued = <<>>
  /\ tab = [t \in Tabs |-> AtRest]
  /\ moderator = [m \in Moderators |-> "idle"]
  /\ acts = 0 /\ era = 1

Live == {i \in DOMAIN signIns : ~signIns[i].revoked}

\* UPDATE customer_sessions ... WHERE revoked_at IS NULL, for all but those kept.
EndedBut(kept) ==
  [i \in DOMAIN signIns |->
     IF i \in kept THEN signIns[i] ELSE [signIns[i] EXCEPT !.revoked = TRUE]]

\* The order of a request's writes.
Turn == [unlock |-> 1, clear |-> 2, rehash |-> 3, revoke |-> 4, check |-> 5, open |-> 6,
         insert |-> 6, rotate |-> 6, reuse |-> 6, change |-> 6, reset |-> 6]
Doing(t, write) ==
  write \in tab[t].todo /\ \A other \in tab[t].todo : Turn[write] <= Turn[other]

Done(t) == [tab EXCEPT ![t] = AtRest]
Proceed(t, write) == [tab EXCEPT ![t].todo = @ \ {write}]
Write(t, write) == Doing(t, write) /\ tab' = Proceed(t, write)

\* Sign-ins that another commit overtakes between their reading and their session.
SigningIn(t) == tab[t].todo \cap {"open", "insert"} # {}
Overtaken(tabs, why) ==
  [t \in Tabs |-> IF SigningIn(t) THEN [tabs[t] EXCEPT !.late = @ \cup {why}] ELSE tabs[t]]

-----------------------------------------------------------------------------
(* Signing in.                                                             *)

\* mutation: suspended is taken for a lesser status
RefusedIfBanned ==
  account.status = "banned" \/ (account.status = "locked" /\ account.lock = "running")

\* assertCustomerActiveFromRow: a lock that has run out lets the request pass.
Refused ==
  account.status \in {"banned", "suspended"} \/ (account.status = "locked" /\ account.lock = "running")

Needed(write) ==
  CASE write = "unlock" -> account.status = "locked"
    [] write = "clear" -> account.failed > 0 \/ account.window # "none"
    [] write = "rehash" -> account.hash.weak
    [] OTHER -> TRUE

\* The row is read, the credential proved, and the status of that row accepted.
Accept(t, way, writes) ==
  /\ way \in Ways /\ tab[t] = AtRest /\ ~Refused /\ Len(signIns) < MaxSignIns
  /\ tab' = [tab EXCEPT ![t] =
       [AtRest EXCEPT !.todo = {w \in writes : Needed(w)}, !.hash = account.hash, !.era = era]]
  /\ UNCHANGED <<account, code, signIns, moderator, acts, era, issued>>

Login(t) == Accept(t, "password", {"unlock", "clear", "rehash", "open"})
WalletLogin(t) == Accept(t, "wallet", {"unlock", "revoke", "insert"})

\* A wrong password: one UPDATE counts it and, at the limit, locks the account.
Counted(a) ==
  LET decayed == a.window # "open"
      trips == ~decayed /\ a.failed + 1 >= MaxFailed /\ a.status # "locked"
  IN  [a EXCEPT !.failed = IF decayed THEN 1 ELSE IF a.failed > MaxFailed THEN @ ELSE @ + 1,
                !.window = IF trips THEN "none" ELSE "open",
                !.status = IF trips THEN "locked" ELSE @,
                !.lock = IF trips THEN "running" ELSE @]

WrongPassword ==
  /\ "wrong" \in Ways
  /\ account' = Counted(account)
  /\ UNCHANGED <<code, signIns, tab, moderator, acts, era, issued>>

Unlocked(a) == [a EXCEPT !.status = "active", !.lock = "none", !.failed = 0]

\* The writes that follow go by the customer's id, whatever the row has become;
\* a rehash that fails is only logged.
WriteAccount(t) ==
  /\ \/ Write(t, "unlock") /\ account' = Unlocked(account)
     \/ Write(t, "clear") /\ account' = [account EXCEPT !.failed = 0, !.window = "none"]
     \/ Write(t, "rehash") /\ account' \in
          {account, [account EXCEPT !.hash = [word |-> tab[t].hash.word, weak |-> FALSE]]}
  /\ UNCHANGED <<code, signIns, moderator, acts, era, issued>>

Opened(t) == [version |-> 1, revoked |-> FALSE, era |-> tab[t].era, late |-> tab[t].late]

\* The transaction of loginCustomer, serialized by the advisory lock.
OpenSession(t) ==
  /\ Doing(t, "open") /\ Len(signIns) < MaxSignIns
  /\ signIns' = Append(EndedBut({}), Opened(t))
  /\ issued' = Append(issued, 1)
  /\ tab' = Done(t)
  /\ UNCHANGED <<account, code, moderator, acts, era>>

\* loginViaWallet: two statements, and the unique index refuses the second one
\* when another sign-in has come in between.
RevokeOthers(t) ==
  /\ Write(t, "revoke")
  /\ signIns' = EndedBut({})
  /\ UNCHANGED <<account, code, moderator, acts, era, issued>>

InsertSession(t) ==
  /\ Doing(t, "insert") /\ Len(signIns) < MaxSignIns
  /\ \/ Live # {} /\ UNCHANGED <<signIns, issued>>
     \/ Live = {} /\ signIns' = Append(signIns, Opened(t)) /\ issued' = Append(issued, 1)
  /\ tab' = Done(t)
  /\ UNCHANGED <<account, code, moderator, acts, era>>

-----------------------------------------------------------------------------
(* Refreshing and logging out.                                             *)

\* The present token of a live session, or the one before it once its grace
\* period is over: within it, or for any other token, nothing is written.
Refresh(t, i) ==
  /\ "refresh" \in Ways /\ tab[t] = AtRest /\ i \in Live
  /\ \E todo \in {{"check", "rotate"}, {"reuse"}} :
       /\ "reuse" \in todo => signIns[i].version > 1
       /\ tab' = [tab EXCEPT ![t] = [AtRest EXCEPT !.todo = todo, !.session = i,
                                                   !.version = signIns[i].version]]
  /\ UNCHANGED <<account, code, signIns, moderator, acts, era, issued>>

CheckStatus(t) ==
  /\ Doing(t, "check")
  /\ tab' = IF account.status = "active" THEN Proceed(t, "check") ELSE Done(t)
  /\ UNCHANGED <<account, code, signIns, moderator, acts, era, issued>>

\* mutation: the version is not compared
RotatableIfLive(t) == ~signIns[tab[t].session].revoked

\* mutation: revoked_at is not looked at again
RotatableIfCurrent(t) == signIns[tab[t].session].version = tab[t].version

\* The compare-and-set: the version read at first, and not revoked since.
Rotatable(t) ==
  LET s == signIns[tab[t].session] IN s.version = tab[t].version /\ ~s.revoked

Rotate(t) ==
  /\ Doing(t, "rotate") /\ tab[t].version < MaxTokens
  /\ LET i == tab[t].session IN
     \/ /\ Rotatable(t)
        /\ signIns' = [signIns EXCEPT ![i].version = tab[t].version + 1]
        /\ issued' = [issued EXCEPT ![i] = @ + 1]
     \/ ~Rotatable(t) /\ UNCHANGED <<signIns, issued>>
  /\ tab' = Done(t)
  /\ UNCHANGED <<account, code, moderator, acts, era>>

\* A token is presented after its successor was issued: its session ends.
DetectReuse(t) ==
  /\ Doing(t, "reuse")
  /\ signIns' = EndedBut(DOMAIN signIns \ {tab[t].session})
  /\ tab' = Done(t)
  /\ UNCHANGED <<account, code, moderator, acts, era, issued>>

Logout(i) ==
  /\ "logout" \in Ways /\ i \in Live /\ account.status = "active"
  /\ signIns' = EndedBut(DOMAIN signIns \ {i})
  /\ UNCHANGED <<account, code, tab, moderator, acts, era, issued>>

-----------------------------------------------------------------------------
(* A new password.                                                         *)

\* reauthGate: the present password, proved from within a live session.
BeginChange(t, i) ==
  /\ "change" \in Ways /\ tab[t] = AtRest /\ i \in Live /\ account.status = "active"
  /\ tab' = [tab EXCEPT ![t] =
       [AtRest EXCEPT !.todo = {"change"}, !.session = i, !.hash = account.hash]]
  /\ UNCHANGED <<account, code, signIns, moderator, acts, era, issued>>

NewPassword == [word |-> era + 1, weak |-> FALSE]

\* mutation: sessions other than the one it was set from are left alone too
SurvivorWithOthers(own) ==
  [i \in DOMAIN signIns |->
     IF i = own /\ i \in Live THEN [signIns[i] EXCEPT !.era = era + 1] ELSE signIns[i]]

\* A new password leaves the session it was set from, if that is still alive.
Survivor(own) ==
  [i \in DOMAIN signIns |->
     IF i = own /\ i \in Live THEN [signIns[i] EXCEPT !.era = era + 1]
     ELSE [signIns[i] EXCEPT !.revoked = TRUE]]

CommitChange(t) ==
  /\ Doing(t, "change") /\ era < MaxPasswords
  /\ \/ /\ account.hash = tab[t].hash
        /\ account' = [account EXCEPT !.hash = NewPassword]
        /\ signIns' = Survivor(tab[t].session)
        /\ code' = IF code = "sent" THEN "invalidated" ELSE code
        /\ era' = era + 1
        /\ tab' = Overtaken(Done(t), "password")
     \/ /\ account.hash # tab[t].hash
        /\ tab' = Done(t) /\ UNCHANGED <<account, code, signIns, era>>
  /\ UNCHANGED <<moderator, acts, issued>>

\* resetPassword: the code is looked up, then a transaction that only asks
\* whether it has been used.
BeginReset(t) ==
  /\ "reset" \in Ways /\ tab[t] = AtRest /\ code = "sent"
  /\ tab' = [tab EXCEPT ![t].todo = {"reset"}]
  /\ UNCHANGED <<account, code, signIns, moderator, acts, era, issued>>

CommitReset(t) ==
  /\ Doing(t, "reset") /\ era < MaxPasswords
  /\ \/ /\ code # "used"
        /\ code' = "used"
        /\ account' = [account EXCEPT !.hash = NewPassword, !.failed = 0, !.lock = "none",
                         !.status = IF @ = "locked" THEN "active" ELSE @]
        /\ signIns' = EndedBut({})
        /\ era' = era + 1
        /\ tab' = Overtaken(Done(t), "password")
     \/ code = "used" /\ tab' = Done(t) /\ UNCHANGED <<account, code, signIns, era>>
  /\ UNCHANGED <<moderator, acts, issued>>

-----------------------------------------------------------------------------
(* Moderation.                                                             *)

ValidFrom(act) ==
  CASE act = "suspend" -> {"active", "locked"}
    [] act = "activate" -> {"suspended", "locked", "banned"}
    [] act = "lock" -> {"active", "suspended"}
    [] act = "unlock" -> {"locked"}
    [] act = "ban" -> {"active", "suspended", "locked"}

Decide(m, act) ==
  /\ moderator[m] = "idle" /\ act \in Acts /\ acts < MaxActs
  /\ account.status \in ValidFrom(act)
  /\ moderator' = [moderator EXCEPT ![m] = act]
  /\ acts' = acts + 1
  /\ UNCHANGED <<account, code, signIns, tab, era, issued>>

Impose(m, act, status) ==
  /\ moderator[m] = act
  /\ account' = [account EXCEPT !.status = status]
  /\ tab' = Overtaken(tab, "restriction")

\* The status and the sessions, in one transaction.
Suspend(m) ==
  /\ Impose(m, "suspend", "suspended")
  /\ signIns' = EndedBut({})
  /\ moderator' = [moderator EXCEPT ![m] = "idle"]
  /\ UNCHANGED <<code, acts, era, issued>>

LockByAdmin(m) ==
  /\ moderator[m] = "lock"
  /\ account' = [account EXCEPT !.status = "locked", !.lock = "running"]
  /\ signIns' = EndedBut({})
  /\ moderator' = [moderator EXCEPT ![m] = "idle"]
  /\ UNCHANGED <<code, tab, acts, era, issued>>

LiftRestriction(m) ==
  /\ \/ moderator[m] = "activate" /\ account' = [account EXCEPT !.status = "active", !.lock = "none"]
     \/ moderator[m] = "unlock" /\ account' = Unlocked(account)
  /\ moderator' = [moderator EXCEPT ![m] = "idle"]
  /\ UNCHANGED <<code, signIns, tab, acts, era, issued>>

\* banCustomer sets the status first and ends the sessions some statements later.
Ban(m) ==
  /\ Impose(m, "ban", "banned")
  /\ moderator' = [moderator EXCEPT ![m] = "sweep"]
  /\ UNCHANGED <<code, signIns, acts, era, issued>>

EndBanned(m) ==
  /\ moderator[m] = "sweep"
  /\ signIns' = EndedBut({})
  /\ moderator' = [moderator EXCEPT ![m] = "idle"]
  /\ UNCHANGED <<account, code, tab, acts, era, issued>>

TimePasses ==
  /\ \/ account.lock = "running" /\ account' = [account EXCEPT !.lock = "over"]
     \/ account.window = "open" /\ account' = [account EXCEPT !.window = "past"]
  /\ UNCHANGED <<code, signIns, tab, moderator, acts, era, issued>>

-----------------------------------------------------------------------------
SignInNext ==
  \/ \E t \in Tabs :
       \/ Login(t) \/ WalletLogin(t)
       \/ WriteAccount(t) \/ OpenSession(t) \/ RevokeOthers(t) \/ InsertSession(t)
       \/ CheckStatus(t) \/ Rotate(t) \/ DetectReuse(t)
       \/ CommitChange(t) \/ BeginReset(t) \/ CommitReset(t)
       \/ \E i \in DOMAIN signIns : Refresh(t, i) \/ BeginChange(t, i)
  \/ \E i \in DOMAIN signIns : Logout(i)
  \/ WrongPassword \/ TimePasses
  \/ \E m \in Moderators :
       \/ \E act \in Acts : Decide(m, act)
       \/ Suspend(m) \/ LockByAdmin(m) \/ LiftRestriction(m) \/ Ban(m) \/ EndBanned(m)

SignInSpec == SignInInit /\ [][SignInNext]_signInVars

-----------------------------------------------------------------------------
(* Properties.                                                             *)

Hashes == [word : Nat, weak : BOOLEAN]
Accounts ==
  [status : {"active", "suspended", "locked", "banned"}, failed : 0..MaxFailed + 1,
   window : {"none", "open", "past"}, lock : {"none", "running", "over"}, hash : Hashes]
SignIns == [version : Nat \ {0}, revoked : BOOLEAN, era : Nat, late : SUBSET {"password", "restriction"}]
Writes == {"unlock", "clear", "rehash", "open", "revoke", "insert", "check", "rotate", "reuse",
           "change", "reset"}
TabStates ==
  [todo : SUBSET Writes, session : Nat, version : Nat, hash : Hashes, era : Nat,
   late : SUBSET {"password", "restriction"}]

SignInTypeOK ==
  /\ account \in Accounts
  /\ code \in {"sent", "invalidated", "used"}
  /\ signIns \in Seq(SignIns) /\ issued \in Seq(Nat) /\ Len(issued) = Len(signIns)
  /\ tab \in [Tabs -> TabStates]
  /\ moderator \in [Moderators -> {"idle", "suspend", "activate", "lock", "unlock", "ban", "sweep"}]
  /\ acts \in 0..MaxActs /\ era \in Nat

\* A session that has ended stays ended: whatever request had read it alive, its
\* row is not written again, and no refresh token comes of it.
EndedSessionsStayEnded ==
  [][\A i \in DOMAIN signIns : signIns[i].revoked =>
       signIns'[i] = signIns[i] /\ issued'[i] = issued[i]]_signInVars

\* At most one refresh token of the customer can be exchanged: one session is
\* alive, and its tokens were handed out one after the other, however many tabs
\* present the same token at once.
OneTokenAlive ==
  /\ \A i, j \in Live : i = j
  /\ \A i \in DOMAIN signIns : issued[i] = signIns[i].version

\* A new password signs everybody out but its author; what is alive was opened
\* with the present password, or by a sign-in the new password overtook.
PasswordChangeSignsOut ==
  \A i \in Live : signIns[i].era = era \/ "password" \in signIns[i].late

\* A suspended customer has no session, nor a banned one once the ban has been
\* carried out, but for a sign-in that had read the status before.
RestrictionSignsOut ==
  \/ account.status = "suspended"
  \/ account.status = "banned" /\ \A m \in Moderators : moderator[m] # "sweep"
  => \A i \in Live : "restriction" \in signIns[i].late

(* A statement of the source a run confronts with the code. *)

\* admin-customers.ts: "a banned customer must be unbanned first", by activate.
BanIsTerminal ==
  [][account.status = "banned" =>
       account'.status = "banned" \/ \E m \in Moderators : moderator[m] = "activate"]_signInVars
=============================================================================
