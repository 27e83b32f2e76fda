---------------------------- MODULE SignInProofs ----------------------------
(***************************************************************************)
(* For any number of tabs, moderators, sign-ins, tokens and passwords: the *)
(* type invariant of SignIn, that ended sessions stay ended, that one      *)
(* refresh token at most is alive, and whom a new password and a           *)
(* restriction sign out.                                                   *)
(*                                                                         *)
(* The argument: whatever a request has read, the sessions change in five  *)
(* ways only (SessionsChange), and each of them leaves one alive at most;  *)
(* and a sign-in in flight either still agrees with the account it was     *)
(* accepted for, or carries the mark of what overtook it (InFlight).       *)
(***************************************************************************)
EXTENDS SignIn, TableRows, TLAPS

\* A request names a session that exists.
KnownSession ==
  \A t \in Tabs : tab[t].todo \cap {"rotate", "reuse", "change"} # {} =>
    tab[t].session \in DOMAIN signIns

\* A sign-in in flight fits the account as it is, or is marked.
InFlight ==
  \A t \in Tabs : SigningIn(t) =>
    /\ account.status \in {"suspended", "banned"} => "restriction" \in tab[t].late
    /\ tab[t].era = era \/ "password" \in tab[t].late

SignInInv ==
  /\ SignInTypeOK /\ KnownSession /\ OneTokenAlive /\ InFlight
  /\ PasswordChangeSignsOut /\ RestrictionSignsOut

-----------------------------------------------------------------------------
(* The sessions are rows.                                                  *)

LEMMA Rows ==
  ASSUME SignInTypeOK
  PROVE  /\ DOMAIN issued = DOMAIN signIns /\ DOMAIN signIns = 1..Len(signIns)
         /\ Len(signIns) \in Nat
         /\ \A i \in DOMAIN signIns : signIns[i] \in SignIns /\ issued[i] \in Nat
<1>1. signIns \in Seq(SignIns) /\ issued \in Seq(Nat) /\ Len(issued) = Len(signIns)
  BY DEF SignInTypeOK
<1>2. signIns \in [1..Len(signIns) -> SignIns] /\ issued \in [1..Len(issued) -> Nat]
  BY <1>1, LenProperties
<1> QED
  BY <1>1, <1>2, LenProperties

\* A row keeps its type when one of its columns is written.
LEMMA RewrittenRow ==
  ASSUME NEW s \in SignIns
  PROVE  /\ [s EXCEPT !.revoked = TRUE] \in SignIns
         /\ \A v \in Nat \ {0} : [s EXCEPT !.version = v] \in SignIns
         /\ \A e \in Nat : [s EXCEPT !.era = e] \in SignIns
  BY DEF SignIns

LEMMA RewrittenAccount ==
  ASSUME NEW a \in Accounts
  PROVE  /\ \A x \in {"active", "suspended", "locked", "banned"} : [a EXCEPT !.status = x] \in Accounts
         /\ \A x \in {"none", "open", "past"} : [a EXCEPT !.window = x] \in Accounts
         /\ \A x \in {"none", "running", "over"} : [a EXCEPT !.lock = x] \in Accounts
         /\ \A x \in Hashes : [a EXCEPT !.hash = x] \in Accounts
         /\ [a EXCEPT !.failed = 0] \in Accounts
<1>1. 0 \in 0..MaxFailed + 1
  BY SignInAssumption
<1> QED
  BY <1>1 DEF Accounts

\* Ending sessions ends those not kept and changes nothing else.
LEMMA EndedRows ==
  ASSUME SignInTypeOK, NEW kept
  PROVE  /\ EndedBut(kept) \in Seq(SignIns) /\ Len(EndedBut(kept)) = Len(signIns)
         /\ DOMAIN EndedBut(kept) = DOMAIN signIns
         /\ \A i \in DOMAIN signIns :
              /\ i \in kept => EndedBut(kept)[i] = signIns[i]
              /\ i \notin kept => EndedBut(kept)[i].revoked
              /\ signIns[i].revoked => EndedBut(kept)[i] = signIns[i]
              /\ EndedBut(kept)[i].version = signIns[i].version
<1>1. \A i \in DOMAIN signIns : signIns[i] \in SignIns
  BY Rows
<1>2. EndedBut(kept) \in [DOMAIN signIns -> SignIns]
  BY <1>1 DEF EndedBut, SignIns
<1>3. signIns \in Seq(SignIns)
  BY DEF SignInTypeOK
<1>4. /\ EndedBut(kept) \in Seq(SignIns) /\ Len(EndedBut(kept)) = Len(signIns)
      /\ DOMAIN EndedBut(kept) = DOMAIN signIns
  BY <1>2, <1>3, RewrittenRows
<1>5. ASSUME NEW i \in DOMAIN signIns
      PROVE  /\ i \in kept => EndedBut(kept)[i] = signIns[i]
             /\ i \notin kept => EndedBut(kept)[i].revoked
             /\ signIns[i].revoked => EndedBut(kept)[i] = signIns[i]
             /\ EndedBut(kept)[i].version = signIns[i].version
  <2>1. signIns[i] \in SignIns
    BY <1>1
  <2>2. EndedBut(kept)[i] =
          IF i \in kept THEN signIns[i] ELSE [signIns[i] EXCEPT !.revoked = TRUE]
    BY DEF EndedBut
  <2> QED
    BY <2>1, <2>2 DEF SignIns
<1> QED
  BY <1>4, <1>5

-----------------------------------------------------------------------------
(* What a step does to the sessions.                                       *)

EndsSome ==
  issued' = issued /\ \E kept : signIns' = EndedBut(kept) /\ (era' = era \/ kept = {})

SameSessions == signIns' = signIns /\ issued' = issued /\ era' = era

SignsIn ==
  \E t \in Tabs :
    /\ SigningIn(t)
    /\ \/ signIns' = Append(EndedBut({}), Opened(t))
       \/ Live = {} /\ signIns' = Append(signIns, Opened(t))
    /\ issued' = Append(issued, 1)
    /\ account' = account /\ era' = era /\ moderator' = moderator

Rotates ==
  \E i \in Live, v \in Nat :
    /\ signIns[i].version = v
    /\ signIns' = [signIns EXCEPT ![i].version = v + 1]
    /\ issued' = [issued EXCEPT ![i] = @ + 1]
    /\ account' = account /\ era' = era /\ moderator' = moderator

SetsPassword == era' = era + 1 /\ issued' = issued /\ \E own : signIns' = Survivor(own)

LEMMA SessionsChange ==
  ASSUME SignInTypeOK, KnownSession, SignInNext
  PROVE  SameSessions \/ EndsSome \/ SignsIn \/ Rotates \/ SetsPassword
<1>1. ASSUME NEW t \in Tabs, OpenSession(t)  PROVE SignsIn
  BY <1>1 DEF OpenSession, Doing, SignsIn, SigningIn
<1>2. ASSUME NEW t \in Tabs, InsertSession(t)
      PROVE  SameSessions \/ SignsIn
  BY <1>2 DEF SameSessions, InsertSession, Doing, SignsIn, SigningIn
<1>3. ASSUME NEW t \in Tabs, Rotate(t)
      PROVE  SameSessions \/ Rotates
  <2>1. tab[t].session \in DOMAIN signIns /\ tab[t].version \in Nat
    BY <1>3 DEF Rotate, Doing, KnownSession, SignInTypeOK, TabStates
  <2>2. CASE ~Rotatable(t)
    BY <1>3, <2>2 DEF SameSessions, Rotate
  <2>3. CASE Rotatable(t)
    BY <1>3, <2>1, <2>3 DEF Rotate, Rotatable, Rotates, Live
  <2> QED
    BY <2>2, <2>3
<1>4. ASSUME NEW t \in Tabs, CommitChange(t)
      PROVE  SameSessions \/ SetsPassword
  BY <1>4 DEF SameSessions, CommitChange, SetsPassword
<1>5. ASSUME NEW t \in Tabs, CommitReset(t)
      PROVE  SameSessions \/ EndsSome
  BY <1>5 DEF SameSessions, CommitReset, EndsSome
<1>6. ASSUME NEW t \in Tabs, RevokeOthers(t) \/ DetectReuse(t)  PROVE EndsSome
  BY <1>6 DEF RevokeOthers, DetectReuse, EndsSome
<1>7. ASSUME NEW i \in DOMAIN signIns, Logout(i)  PROVE EndsSome
  BY <1>7 DEF Logout, EndsSome
<1>8. ASSUME NEW m \in Moderators, Suspend(m) \/ LockByAdmin(m) \/ EndBanned(m)  PROVE EndsSome
  BY <1>8 DEF Suspend, LockByAdmin, EndBanned, EndsSome
<1>9. ASSUME NEW t \in Tabs,
             Login(t) \/ WalletLogin(t) \/ WriteAccount(t) \/ CheckStatus(t) \/ BeginReset(t)
      PROVE  SameSessions
  BY <1>9 DEF SameSessions, Login, WalletLogin, Accept, WriteAccount, CheckStatus, BeginReset
<1>10. ASSUME NEW t \in Tabs, NEW i \in DOMAIN signIns, Refresh(t, i) \/ BeginChange(t, i)
       PROVE  SameSessions
  BY <1>10 DEF SameSessions, Refresh, BeginChange
<1>11. ASSUME WrongPassword \/ TimePasses  PROVE SameSessions
  BY <1>11 DEF SameSessions, WrongPassword, TimePasses
<1>12. ASSUME NEW m \in Moderators,
              (\E act \in Acts : Decide(m, act)) \/ LiftRestriction(m) \/ Ban(m)
       PROVE  SameSessions
  BY <1>12 DEF SameSessions, Decide, LiftRestriction, Ban
<1> QED
  BY <1>1, <1>2, <1>3, <1>4, <1>5, <1>6, <1>7, <1>8, <1>9, <1>10, <1>11, <1>12 DEF SignInNext

\* Who may live is rewritten for the session a new password was set from.
LEMMA SurvivingRows ==
  ASSUME SignInTypeOK, NEW own
  PROVE  /\ Survivor(own) \in Seq(SignIns) /\ Len(Survivor(own)) = Len(signIns)
         /\ DOMAIN Survivor(own) = DOMAIN signIns
         /\ \A i \in DOMAIN signIns :
              /\ ~Survivor(own)[i].revoked => i \in Live /\ i = own /\ Survivor(own)[i].era = era + 1
              /\ signIns[i].revoked => Survivor(own)[i] = signIns[i]
              /\ Survivor(own)[i].version = signIns[i].version
<1>1. \A i \in DOMAIN signIns : signIns[i] \in SignIns
  BY Rows
<1>2. era \in Nat /\ signIns \in Seq(SignIns)
  BY DEF SignInTypeOK
<1>3. Survivor(own) \in [DOMAIN signIns -> SignIns]
  BY <1>1, <1>2, era + 1 \in Nat, RewrittenRow DEF Survivor
<1>4. /\ Survivor(own) \in Seq(SignIns) /\ Len(Survivor(own)) = Len(signIns)
      /\ DOMAIN Survivor(own) = DOMAIN signIns
  BY <1>2, <1>3, RewrittenRows
<1>5. ASSUME NEW i \in DOMAIN signIns
      PROVE  /\ ~Survivor(own)[i].revoked =>
                  i \in Live /\ i = own /\ Survivor(own)[i].era = era + 1
             /\ signIns[i].revoked => Survivor(own)[i] = signIns[i]
             /\ Survivor(own)[i].version = signIns[i].version
  <2>1. signIns[i] \in SignIns
    BY <1>1
  <2>2. Survivor(own)[i] =
          IF i = own /\ i \in Live THEN [signIns[i] EXCEPT !.era = era + 1]
          ELSE [signIns[i] EXCEPT !.revoked = TRUE]
    BY DEF Survivor
  <2> QED
    BY <2>1, <2>2 DEF SignIns, Live
<1> QED
  BY <1>4, <1>5

\* The session a sign-in opens.
LEMMA OpenedRow ==
  ASSUME SignInTypeOK, NEW t \in Tabs
  PROVE  /\ Opened(t) \in SignIns /\ Opened(t).version = 1 /\ ~Opened(t).revoked
         /\ Opened(t).era = tab[t].era /\ Opened(t).late = tab[t].late
<1>1. tab[t] \in TabStates
  BY DEF SignInTypeOK
<1> QED
  BY <1>1 DEF Opened, SignIns, TabStates

-----------------------------------------------------------------------------
(* Types.                                                                  *)

Sessions(rows, tokens) == rows \in Seq(SignIns) /\ tokens \in Seq(Nat) /\ Len(tokens) = Len(rows)

LEMMA SessionsTyped ==
  ASSUME SignInTypeOK, KnownSession, SignInNext
  PROVE  /\ Sessions(signIns, issued)'
         /\ DOMAIN signIns \subseteq DOMAIN signIns'
<1>1. /\ signIns \in Seq(SignIns) /\ issued \in Seq(Nat) /\ Len(issued) = Len(signIns)
      /\ DOMAIN issued = DOMAIN signIns
  BY Rows DEF SignInTypeOK
<1>2. CASE SameSessions
  BY <1>1, <1>2 DEF Sessions, SameSessions
<1>3. CASE EndsSome
  BY <1>1, <1>3, EndedRows DEF Sessions, EndsSome
<1>4. CASE SignsIn
  <2>1. PICK t \in Tabs :
          /\ \/ signIns' = Append(EndedBut({}), Opened(t))
             \/ signIns' = Append(signIns, Opened(t))
          /\ issued' = Append(issued, 1)
    BY <1>4 DEF SignsIn
  <2>2. issued' \in Seq(Nat) /\ Len(issued') = Len(signIns) + 1
    BY <1>1, <2>1, AppendedRows, 1 \in Nat
  <2>3. Opened(t) \in SignIns
    BY OpenedRow
  <2>4. CASE signIns' = Append(EndedBut({}), Opened(t))
    <3>1. /\ EndedBut({}) \in Seq(SignIns) /\ Len(EndedBut({})) = Len(signIns)
          /\ DOMAIN EndedBut({}) = DOMAIN signIns
      BY EndedRows
    <3> QED
      BY <2>2, <2>3, <2>4, <3>1, AppendedRows DEF Sessions
  <2>5. CASE signIns' = Append(signIns, Opened(t))
    BY <1>1, <2>2, <2>3, <2>5, AppendedRows DEF Sessions
  <2> QED
    BY <2>1, <2>4, <2>5
<1>5. CASE Rotates
  <2>1. PICK i \in Live, v \in Nat :
          /\ signIns' = [signIns EXCEPT ![i].version = v + 1]
          /\ issued' = [issued EXCEPT ![i] = @ + 1]
    BY <1>5 DEF Rotates
  <2>2. \A j \in DOMAIN signIns : signIns[j] \in SignIns /\ issued[j] \in Nat
    BY Rows
  <2>3. [signIns[i] EXCEPT !.version = v + 1] \in SignIns
    BY <2>2, i \in DOMAIN signIns, v + 1 \in Nat \ {0}, RewrittenRow DEF Live
  <2>4. signIns' \in [DOMAIN signIns -> SignIns]
    BY <2>1, <2>2, <2>3
  <2>5. issued[i] + 1 \in Nat
    BY <2>2, i \in DOMAIN signIns DEF Live
  <2>6. issued' \in [DOMAIN issued -> Nat]
    BY <1>1, <2>1, <2>2, <2>5
  <2> QED
    BY <1>1, <2>4, <2>6, RewrittenRows DEF Sessions
<1>6. CASE SetsPassword
  BY <1>1, <1>6, SurvivingRows DEF Sessions, SetsPassword
<1> QED
  BY <1>2, <1>3, <1>4, <1>5, <1>6, SessionsChange

LEMMA CountedTyped == ASSUME account \in Accounts PROVE Counted(account) \in Accounts
<1>1. MaxFailed \in Nat \ {0} /\ account.failed \in 0..MaxFailed + 1
  BY SignInAssumption DEF Accounts
<1>2. (IF account.window # "open" THEN 1
       ELSE IF account.failed > MaxFailed THEN account.failed ELSE account.failed + 1)
        \in 0..MaxFailed + 1
  BY <1>1
<1> QED
  BY <1>2 DEF Counted, Accounts

LEMMA AccountTyped ==
  ASSUME SignInTypeOK, SignInNext
  PROVE  account' \in Accounts /\ code' \in {"sent", "invalidated", "used"} /\ era' \in Nat
<1>1. /\ account \in Accounts /\ code \in {"sent", "invalidated", "used"} /\ era \in Nat
      /\ \A t \in Tabs : tab[t] \in TabStates
  BY DEF SignInTypeOK
<1>2. NewPassword \in Hashes
  BY <1>1 DEF NewPassword, Hashes
<1>3. ASSUME NEW t \in Tabs, WriteAccount(t)
      PROVE  account' \in Accounts /\ code' = code /\ era' = era
  <2>1. tab[t].hash.word \in Nat
    BY <1>1 DEF TabStates, Hashes
  <2>2. [word |-> tab[t].hash.word, weak |-> FALSE] \in Hashes
    BY <2>1 DEF Hashes
  <2>3. Unlocked(account) \in Accounts /\ [account EXCEPT !.failed = 0, !.window = "none"] \in Accounts
    BY <1>1, RewrittenAccount DEF Unlocked
  <2>4. [account EXCEPT !.hash = [word |-> tab[t].hash.word, weak |-> FALSE]] \in Accounts
    BY <1>1, <2>2 DEF Accounts
  <2> QED
    BY <1>1, <1>3, <2>3, <2>4 DEF WriteAccount
<1>4. ASSUME NEW t \in Tabs, CommitChange(t)
      PROVE  account' \in Accounts /\ code' \in {"sent", "invalidated", "used"} /\ era' \in Nat
  <2>1. [account EXCEPT !.hash = NewPassword] \in Accounts
    BY <1>1, <1>2, RewrittenAccount
  <2>2. era + 1 \in Nat
    BY <1>1
  <2>3. CASE account.hash = tab[t].hash
    BY <1>1, <1>4, <2>1, <2>2, <2>3 DEF CommitChange
  <2>4. CASE account.hash # tab[t].hash
    BY <1>1, <1>4, <2>4 DEF CommitChange
  <2> QED
    BY <2>3, <2>4
<1>5. ASSUME NEW t \in Tabs, CommitReset(t)
      PROVE  account' \in Accounts /\ code' \in {"sent", "invalidated", "used"} /\ era' \in Nat
  <2>1. [account EXCEPT !.hash = NewPassword, !.failed = 0, !.lock = "none"] \in Accounts
    BY <1>1, <1>2, RewrittenAccount
  <2>2. account.status \in {"active", "suspended", "locked", "banned"}
    BY <1>1 DEF Accounts
  <2>3. [account EXCEPT !.hash = NewPassword, !.failed = 0, !.lock = "none",
           !.status = IF @ = "locked" THEN "active" ELSE @] \in Accounts
    BY <2>1, <2>2, RewrittenAccount
  <2> QED
    BY <1>1, <1>5, <2>3 DEF CommitReset
<1>6. ASSUME WrongPassword  PROVE account' \in Accounts /\ code' = code /\ era' = era
  BY <1>1, <1>6, CountedTyped DEF WrongPassword
<1>7. ASSUME TimePasses  PROVE account' \in Accounts /\ code' = code /\ era' = era
  BY <1>1, <1>7, RewrittenAccount DEF TimePasses
<1>8. ASSUME NEW m \in Moderators, Suspend(m) \/ LockByAdmin(m) \/ LiftRestriction(m) \/ Ban(m)
      PROVE  account' \in Accounts /\ code' = code /\ era' = era
  <2>1. /\ [account EXCEPT !.status = "suspended"] \in Accounts
        /\ [account EXCEPT !.status = "banned"] \in Accounts
        /\ [account EXCEPT !.status = "locked", !.lock = "running"] \in Accounts
        /\ [account EXCEPT !.status = "active", !.lock = "none"] \in Accounts
        /\ Unlocked(account) \in Accounts
    BY <1>1, RewrittenAccount DEF Unlocked
  <2>2. CASE Suspend(m)
    BY <2>1, <2>2 DEF Suspend, Impose
  <2>3. CASE Ban(m)
    BY <2>1, <2>3 DEF Ban, Impose
  <2>4. CASE LockByAdmin(m)
    BY <2>1, <2>4 DEF LockByAdmin
  <2>5. CASE LiftRestriction(m)
    BY <2>1, <2>5 DEF LiftRestriction
  <2> QED
    BY <1>8, <2>2, <2>3, <2>4, <2>5
<1>9. ASSUME \/ \E t \in Tabs : \/ Login(t) \/ WalletLogin(t) \/ OpenSession(t) \/ RevokeOthers(t)
                                \/ InsertSession(t) \/ CheckStatus(t) \/ Rotate(t)
                                \/ DetectReuse(t) \/ BeginReset(t)
             \/ \E t \in Tabs, i \in DOMAIN signIns : Refresh(t, i) \/ BeginChange(t, i)
             \/ \E i \in DOMAIN signIns : Logout(i)
             \/ \E m \in Moderators : EndBanned(m) \/ \E act \in Acts : Decide(m, act)
      PROVE  account' = account /\ code' = code /\ era' = era
  BY <1>9 DEF Login, WalletLogin, Accept, OpenSession, RevokeOthers, InsertSession, CheckStatus,
              Rotate, DetectReuse, BeginReset, Refresh, BeginChange, Logout, EndBanned, Decide
<1> QED
  BY <1>1, <1>3, <1>4, <1>5, <1>6, <1>7, <1>8, <1>9 DEF SignInNext

\* The writes of a request are taken off one by one.
LEMMA TabsTyped ==
  ASSUME SignInTypeOK, KnownSession, SignInNext
  PROVE  tab' \in [Tabs -> TabStates]
<1>1. /\ tab \in [Tabs -> TabStates] /\ account.hash \in Hashes /\ era \in Nat
      /\ \A i \in DOMAIN signIns : i \in Nat /\ signIns[i].version \in Nat
  <2>1. account \in Accounts /\ tab \in [Tabs -> TabStates] /\ era \in Nat
    BY DEF SignInTypeOK
  <2>2. \A i \in DOMAIN signIns : i \in Nat /\ signIns[i] \in SignIns
    BY Rows
  <2> QED
    BY <2>1, <2>2 DEF Accounts, SignIns
<1>2. AtRest \in TabStates
  <2>1. [word |-> 0, weak |-> FALSE] \in Hashes
    BY DEF Hashes
  <2> QED
    BY <2>1 DEF AtRest, TabStates
<1>3. ASSUME NEW s \in TabStates
      PROVE  /\ \A x \in SUBSET Writes : [s EXCEPT !.todo = x] \in TabStates
             /\ \A x \in Nat : [s EXCEPT !.session = x] \in TabStates
             /\ \A x \in Nat : [s EXCEPT !.version = x] \in TabStates
             /\ \A x \in Hashes : [s EXCEPT !.hash = x] \in TabStates
             /\ \A x \in Nat : [s EXCEPT !.era = x] \in TabStates
             /\ \A why \in {"password", "restriction"} :
                  [s EXCEPT !.late = @ \cup {why}] \in TabStates
  BY DEF TabStates
<1>4. ASSUME NEW t \in Tabs  PROVE Done(t) \in [Tabs -> TabStates]
  BY <1>1, <1>2 DEF Done
<1>5. ASSUME NEW t \in Tabs, NEW write  PROVE Proceed(t, write) \in [Tabs -> TabStates]
  <2>1. tab[t] \in TabStates /\ tab[t].todo \ {write} \in SUBSET Writes
    BY <1>1 DEF TabStates
  <2>2. [tab[t] EXCEPT !.todo = @ \ {write}] \in TabStates
    BY <1>3, <2>1
  <2> QED
    BY <1>1, <2>2 DEF Proceed
<1>6. ASSUME NEW tabs \in [Tabs -> TabStates], NEW why \in {"password", "restriction"}
      PROVE  Overtaken(tabs, why) \in [Tabs -> TabStates]
  BY <1>3, <1>6 DEF Overtaken
<1>7. ASSUME NEW t \in Tabs, NEW x \in SUBSET Writes
      PROVE  /\ [AtRest EXCEPT !.todo = x, !.hash = account.hash, !.era = era] \in TabStates
             /\ \A i \in DOMAIN signIns :
                  /\ [AtRest EXCEPT !.todo = x, !.session = i, !.version = signIns[i].version] \in TabStates
                  /\ [AtRest EXCEPT !.todo = x, !.session = i, !.hash = account.hash] \in TabStates
  BY <1>1, <1>2, <1>3
<1>8. ASSUME NEW t \in Tabs, Login(t)  PROVE tab' \in [Tabs -> TabStates]
  <2>1. {w \in {"unlock", "clear", "rehash", "open"} : Needed(w)} \in SUBSET Writes
    BY DEF Writes
  <2> QED
    BY <1>1, <1>7, <1>8, <2>1 DEF Login, Accept
<1>9. ASSUME NEW t \in Tabs, WalletLogin(t)  PROVE tab' \in [Tabs -> TabStates]
  <2>1. {w \in {"unlock", "revoke", "insert"} : Needed(w)} \in SUBSET Writes
    BY DEF Writes
  <2> QED
    BY <1>1, <1>7, <1>9, <2>1 DEF WalletLogin, Accept
<1>10. ASSUME NEW t \in Tabs, NEW i \in DOMAIN signIns, Refresh(t, i)
       PROVE  tab' \in [Tabs -> TabStates]
  <2>1. {"check", "rotate"} \in SUBSET Writes /\ {"reuse"} \in SUBSET Writes
    BY DEF Writes
  <2>2. PICK todo \in {{"check", "rotate"}, {"reuse"}} :
          tab' = [tab EXCEPT ![t] = [AtRest EXCEPT !.todo = todo, !.session = i,
                                                   !.version = signIns[i].version]]
    BY <1>10 DEF Refresh
  <2>3. todo \in SUBSET Writes
    BY <2>1, <2>2
  <2> QED
    BY <1>1, <1>7, <2>2, <2>3
<1>11. ASSUME NEW t \in Tabs, NEW i \in DOMAIN signIns, BeginChange(t, i)
       PROVE  tab' \in [Tabs -> TabStates]
  <2>1. {"change"} \in SUBSET Writes
    BY DEF Writes
  <2> QED
    BY <1>1, <1>7, <1>11, <2>1 DEF BeginChange
<1>12. ASSUME NEW t \in Tabs, BeginReset(t)  PROVE tab' \in [Tabs -> TabStates]
  <2>1. {"reset"} \in SUBSET Writes /\ tab[t] \in TabStates
    BY <1>1 DEF Writes
  <2>2. [tab[t] EXCEPT !.todo = {"reset"}] \in TabStates
    BY <1>3, <2>1
  <2> QED
    BY <1>1, <1>12, <2>2 DEF BeginReset
<1>13. ASSUME NEW t \in Tabs,
              \/ OpenSession(t) \/ InsertSession(t) \/ CheckStatus(t) \/ Rotate(t) \/ DetectReuse(t)
              \/ WriteAccount(t) \/ RevokeOthers(t)
       PROVE  tab' \in [Tabs -> TabStates]
  BY <1>4, <1>5, <1>13
    DEF OpenSession, InsertSession, CheckStatus, Rotate, DetectReuse, WriteAccount, RevokeOthers, Write
<1>14. ASSUME NEW t \in Tabs, CommitChange(t) \/ CommitReset(t)  PROVE tab' \in [Tabs -> TabStates]
  <2>1. tab' = Done(t) \/ tab' = Overtaken(Done(t), "password")
    BY <1>14 DEF CommitChange, CommitReset
  <2> QED
    BY <1>4, <1>6, <2>1
<1>15. ASSUME NEW m \in Moderators, Suspend(m) \/ Ban(m)  PROVE tab' \in [Tabs -> TabStates]
  <2>1. tab' = Overtaken(tab, "restriction")
    BY <1>15 DEF Suspend, Ban, Impose
  <2> QED
    BY <1>1, <1>6, <2>1
<1>16. ASSUME \/ WrongPassword \/ TimePasses \/ \E i \in DOMAIN signIns : Logout(i)
              \/ \E m \in Moderators : \/ LockByAdmin(m) \/ LiftRestriction(m) \/ EndBanned(m)
                                       \/ \E act \in Acts : Decide(m, act)
       PROVE  tab' = tab
  BY <1>16 DEF WrongPassword, TimePasses, Logout, LockByAdmin, LiftRestriction, EndBanned, Decide
<1> QED
  BY <1>1, <1>8, <1>9, <1>10, <1>11, <1>12, <1>13, <1>14, <1>15, <1>16 DEF SignInNext

ModeratorStates == {"idle", "suspend", "activate", "lock", "unlock", "ban", "sweep"}

LEMMA ModerationTyped ==
  ASSUME SignInTypeOK, SignInNext
  PROVE  moderator' \in [Moderators -> ModeratorStates] /\ acts' \in 0..MaxActs
<1>1. moderator \in [Moderators -> ModeratorStates] /\ acts \in 0..MaxActs
  BY DEF SignInTypeOK, ModeratorStates
<1>2. ASSUME NEW m \in Moderators, NEW act \in Acts, Decide(m, act)
      PROVE  moderator' \in [Moderators -> ModeratorStates] /\ acts' \in 0..MaxActs
  <2>1. act \in ModeratorStates
    BY SignInAssumption DEF ModeratorStates
  <2>2. acts + 1 \in 0..MaxActs
    BY <1>1, <1>2, SignInAssumption DEF Decide
  <2> QED
    BY <1>1, <1>2, <2>1, <2>2 DEF Decide
<1>3. ASSUME NEW m \in Moderators,
             Suspend(m) \/ LockByAdmin(m) \/ LiftRestriction(m) \/ Ban(m) \/ EndBanned(m)
      PROVE  moderator' \in [Moderators -> ModeratorStates] /\ acts' = acts
  <2>1. "idle" \in ModeratorStates /\ "sweep" \in ModeratorStates
    BY DEF ModeratorStates
  <2> QED
    BY <1>1, <1>3, <2>1 DEF Suspend, LockByAdmin, LiftRestriction, Ban, EndBanned
<1>4. ASSUME \/ WrongPassword \/ TimePasses
             \/ \E t \in Tabs :
                  \/ Login(t) \/ WalletLogin(t) \/ WriteAccount(t) \/ OpenSession(t)
                  \/ RevokeOthers(t) \/ InsertSession(t) \/ CheckStatus(t) \/ Rotate(t)
                  \/ DetectReuse(t) \/ CommitChange(t) \/ BeginReset(t) \/ CommitReset(t)
             \/ \E t \in Tabs, i \in DOMAIN signIns : Refresh(t, i) \/ BeginChange(t, i)
             \/ \E i \in DOMAIN signIns : Logout(i)
      PROVE  moderator' = moderator /\ acts' = acts
  BY <1>4 DEF WrongPassword, TimePasses, Login, WalletLogin, Accept, WriteAccount, OpenSession,
              RevokeOthers, InsertSession, CheckStatus, Rotate, DetectReuse, CommitChange,
              BeginReset, CommitReset, Refresh, BeginChange, Logout
<1> QED
  BY <1>1, <1>2, <1>3, <1>4 DEF SignInNext

LEMMA TypeStep ==
  ASSUME SignInTypeOK, KnownSession, [SignInNext]_signInVars
  PROVE  SignInTypeOK'
<1>1. CASE SignInNext
  BY <1>1, SessionsTyped, AccountTyped, TabsTyped, ModerationTyped
    DEF SignInTypeOK, Sessions, ModeratorStates
<1>2. CASE UNCHANGED signInVars
  BY <1>2 DEF signInVars, SignInTypeOK
<1> QED
  BY <1>1, <1>2

-----------------------------------------------------------------------------
(* The requests in flight.                                                 *)

Ongoing(s, u) ==
  /\ u.todo \subseteq s.todo
  /\ u.todo = {} \/ (u.session = s.session /\ u.era = s.era /\ s.late \subseteq u.late)

Signing(u) == u.todo \cap {"open", "insert"} # {}
Naming(u) == u.todo \cap {"rotate", "reuse", "change"} # {}

\* Where the entry of a request may go in a step: it goes on or is done, it
\* begins with a session that exists, or it begins to sign in.
LEMMA TabChange ==
  ASSUME SignInTypeOK, SignInNext, NEW t \in Tabs
  PROVE  \/ Ongoing(tab[t], tab'[t])
         \/ ~Signing(tab'[t]) /\ (Naming(tab'[t]) => tab'[t].session \in DOMAIN signIns)
         \/ /\ ~Naming(tab'[t]) /\ ~Refused /\ tab'[t].era = era
            /\ account' = account /\ era' = era
<1>1. tab \in [Tabs -> TabStates] /\ \A u \in Tabs : tab[u] \in TabStates
  BY DEF SignInTypeOK
<1>2. AtRest.todo = {}
  BY DEF AtRest
<1>3. ASSUME NEW u \in Tabs  PROVE Ongoing(tab[t], Done(u)[t])
  BY <1>1, <1>2 DEF Done, Ongoing
<1>4. ASSUME NEW u \in Tabs, NEW write  PROVE Ongoing(tab[t], Proceed(u, write)[t])
  BY <1>1 DEF Proceed, Ongoing, TabStates
<1>5. ASSUME NEW tabs, NEW why, Ongoing(tab[t], tabs[t]), tabs[t] \in TabStates
      PROVE  Ongoing(tab[t], Overtaken(tabs, why)[t])
  BY <1>5 DEF Overtaken, Ongoing, TabStates
<1>6. Ongoing(tab[t], tab[t])
  BY DEF Ongoing
<1>7. ASSUME NEW u \in Tabs, NEW x \in TabStates, tab' = [tab EXCEPT ![u] = x]
      PROVE  tab'[t] = x \/ Ongoing(tab[t], tab'[t])
  BY <1>1, <1>6, <1>7
<1>8. ASSUME NEW u \in Tabs, Login(u) \/ WalletLogin(u)
      PROVE  \/ Ongoing(tab[t], tab'[t])
             \/ /\ ~Naming(tab'[t]) /\ ~Refused /\ tab'[t].era = era
                /\ account' = account /\ era' = era
  <2>1. PICK x \in SUBSET {"unlock", "clear", "rehash", "open", "revoke", "insert"} :
          /\ tab' = [tab EXCEPT ![u] =
               [AtRest EXCEPT !.todo = x, !.hash = account.hash, !.era = era]]
          /\ ~Refused /\ account' = account /\ era' = era
    <3>1. CASE Login(u)
      <4> DEFINE x == {w \in {"unlock", "clear", "rehash", "open"} : Needed(w)}
      <4>1. x \in SUBSET {"unlock", "clear", "rehash", "open", "revoke", "insert"}
        OBVIOUS
      <4> QED
        BY <3>1, <4>1 DEF Login, Accept
    <3>2. CASE WalletLogin(u)
      <4> DEFINE x == {w \in {"unlock", "revoke", "insert"} : Needed(w)}
      <4>1. x \in SUBSET {"unlock", "clear", "rehash", "open", "revoke", "insert"}
        OBVIOUS
      <4> QED
        BY <3>2, <4>1 DEF WalletLogin, Accept
    <3> QED
      BY <1>8, <3>1, <3>2
  <2>2. CASE t # u
    BY <1>1, <1>6, <2>1, <2>2
  <2>3. CASE t = u
    <3>1. tab'[t] = [AtRest EXCEPT !.todo = x, !.hash = account.hash, !.era = era]
      BY <1>1, <2>1, <2>3
    <3>2. tab'[t].todo = x /\ tab'[t].era = era
      BY <3>1 DEF AtRest
    <3> QED
      BY <2>1, <3>2 DEF Naming
  <2> QED
    BY <2>2, <2>3
<1>9. ASSUME NEW u \in Tabs, NEW i \in DOMAIN signIns, Refresh(u, i) \/ BeginChange(u, i)
      PROVE  \/ Ongoing(tab[t], tab'[t])
             \/ ~Signing(tab'[t]) /\ tab'[t].session \in DOMAIN signIns
  <2>1. PICK x \in {{"check", "rotate"}, {"reuse"}, {"change"}} :
          \/ tab' = [tab EXCEPT ![u] = [AtRest EXCEPT !.todo = x, !.session = i,
                                                      !.version = signIns[i].version]]
          \/ tab' = [tab EXCEPT ![u] = [AtRest EXCEPT !.todo = x, !.session = i,
                                                      !.hash = account.hash]]
    BY <1>9 DEF Refresh, BeginChange
  <2>2. CASE t # u
    BY <1>1, <1>6, <2>1, <2>2
  <2>3. CASE t = u
    <3>1. \/ tab'[t] = [AtRest EXCEPT !.todo = x, !.session = i, !.version = signIns[i].version]
          \/ tab'[t] = [AtRest EXCEPT !.todo = x, !.session = i, !.hash = account.hash]
      BY <1>1, <2>1, <2>3
    <3>2. tab'[t].todo = x /\ tab'[t].session = i
      BY <3>1 DEF AtRest
    <3> QED
      BY <2>1, <3>2 DEF Signing
  <2> QED
    BY <2>2, <2>3
<1>10. ASSUME NEW u \in Tabs, BeginReset(u)
       PROVE  Ongoing(tab[t], tab'[t]) \/ (~Signing(tab'[t]) /\ ~Naming(tab'[t]))
  <2>1. tab' = [tab EXCEPT ![u] = [tab[u] EXCEPT !.todo = {"reset"}]]
    BY <1>10 DEF BeginReset
  <2>2. CASE t # u
    <3>1. tab'[t] = tab[t]
      BY <1>1, <2>1, <2>2
    <3> QED
      BY <3>1 DEF Ongoing
  <2>3. CASE t = u
    <3>1. tab'[t].todo = {"reset"}
      BY <1>1, <2>1, <2>3 DEF TabStates
    <3> QED
      BY <3>1 DEF Signing, Naming
  <2> QED
    BY <2>2, <2>3
<1>11. ASSUME NEW u \in Tabs,
              \/ OpenSession(u) \/ InsertSession(u) \/ CheckStatus(u) \/ Rotate(u) \/ DetectReuse(u)
              \/ WriteAccount(u) \/ RevokeOthers(u)
       PROVE  Ongoing(tab[t], tab'[t])
  BY <1>3, <1>4, <1>11
    DEF OpenSession, InsertSession, CheckStatus, Rotate, DetectReuse, WriteAccount, RevokeOthers, Write
<1>12. ASSUME NEW u \in Tabs, CommitChange(u) \/ CommitReset(u)  PROVE Ongoing(tab[t], tab'[t])
  <2>1. tab' = Done(u) \/ tab' = Overtaken(Done(u), "password")
    BY <1>12 DEF CommitChange, CommitReset
  <2>2. Done(u)[t] \in TabStates
    <3>1. AtRest \in TabStates
      BY DEF AtRest, TabStates, Hashes
    <3> QED
      BY <1>1, <3>1 DEF Done
  <2> QED
    BY <1>3, <1>5, <2>1, <2>2
<1>13. ASSUME NEW m \in Moderators, Suspend(m) \/ Ban(m)  PROVE Ongoing(tab[t], tab'[t])
  <2>1. tab' = Overtaken(tab, "restriction")
    BY <1>13 DEF Suspend, Ban, Impose
  <2> QED
    BY <1>1, <1>5, <1>6, <2>1
<1>14. ASSUME \/ WrongPassword \/ TimePasses \/ \E i \in DOMAIN signIns : Logout(i)
              \/ \E m \in Moderators : \/ LockByAdmin(m) \/ LiftRestriction(m) \/ EndBanned(m)
                                       \/ \E act \in Acts : Decide(m, act)
       PROVE  Ongoing(tab[t], tab'[t])
  BY <1>6, <1>14 DEF WrongPassword, TimePasses, Logout, LockByAdmin, LiftRestriction, EndBanned, Decide
<1> QED
  BY <1>8, <1>9, <1>10, <1>11, <1>12, <1>13, <1>14 DEF SignInNext

LEMMA KnownStep ==
  ASSUME SignInTypeOK, KnownSession, [SignInNext]_signInVars
  PROVE  KnownSession'
<1>1. CASE SignInNext
  <2> SUFFICES ASSUME NEW t \in Tabs, Naming(tab'[t])
               PROVE  tab'[t].session \in DOMAIN signIns'
    BY DEF KnownSession, Naming
  <2>1. DOMAIN signIns \subseteq DOMAIN signIns'
    BY <1>1, SessionsTyped
  <2>2. CASE Ongoing(tab[t], tab'[t])
    BY <2>1, <2>2 DEF Ongoing, Naming, KnownSession
  <2> QED
    BY <1>1, <2>1, <2>2, TabChange
<1>2. CASE UNCHANGED signInVars
  BY <1>2 DEF signInVars, KnownSession
<1> QED
  BY <1>1, <1>2

Restricted == account.status \in {"suspended", "banned"}

\* Whatever restricts the account or sets a password marks the sign-ins in flight.
LEMMA AccountChange ==
  ASSUME SignInTypeOK, SignInNext
  PROVE  /\ Restricted' => Restricted \/ \A t \in Tabs : SigningIn(t) => "restriction" \in tab'[t].late
         /\ era' = era \/ \A t \in Tabs : SigningIn(t) => "password" \in tab'[t].late
<1>1. account \in Accounts /\ \A t \in Tabs : tab[t] \in TabStates
  BY DEF SignInTypeOK
<1>2. ASSUME NEW tabs \in [Tabs -> TabStates], NEW why,
             tab' = Overtaken(tabs, why)
      PROVE  \A t \in Tabs : SigningIn(t) => why \in tab'[t].late
  BY <1>2 DEF Overtaken, TabStates
<1>3. ASSUME NEW m \in Moderators, Suspend(m) \/ Ban(m)
      PROVE  era' = era /\ \A t \in Tabs : SigningIn(t) => "restriction" \in tab'[t].late
  <2>1. tab' = Overtaken(tab, "restriction") /\ era' = era
    BY <1>3 DEF Suspend, Ban, Impose
  <2> QED
    BY <1>2, <2>1 DEF SignInTypeOK
<1>4. ASSUME NEW t \in Tabs, CommitChange(t) \/ CommitReset(t)
      PROVE  /\ Restricted' => Restricted
             /\ era' = era \/ \A u \in Tabs : SigningIn(u) => "password" \in tab'[u].late
  <2>1. Done(t) \in [Tabs -> TabStates]
    <3>1. AtRest \in TabStates
      BY DEF AtRest, TabStates, Hashes
    <3> QED
      BY <3>1 DEF Done, SignInTypeOK
  <2>2. era' = era \/ tab' = Overtaken(Done(t), "password")
    BY <1>4 DEF CommitChange, CommitReset
  <2>3. Restricted' => Restricted
    <3>1. CASE CommitChange(t)
      BY <1>1, <3>1 DEF CommitChange, Restricted, Accounts
    <3>2. CASE CommitReset(t)
      BY <1>1, <3>2 DEF CommitReset, Restricted, Accounts
    <3> QED
      BY <1>4, <3>1, <3>2
  <2> QED
    BY <1>2, <2>1, <2>2, <2>3
<1>5. ASSUME NEW t \in Tabs, WriteAccount(t)  PROVE era' = era /\ (Restricted' => Restricted)
  BY <1>1, <1>5 DEF WriteAccount, Unlocked, Restricted, Accounts
<1>6. ASSUME WrongPassword  PROVE era' = era /\ (Restricted' => Restricted)
  BY <1>1, <1>6 DEF WrongPassword, Counted, Restricted, Accounts
<1>7. ASSUME TimePasses  PROVE era' = era /\ (Restricted' => Restricted)
  BY <1>1, <1>7 DEF TimePasses, Restricted, Accounts
<1>8. ASSUME NEW m \in Moderators, LockByAdmin(m) \/ LiftRestriction(m)
      PROVE  era' = era /\ (Restricted' => Restricted)
  BY <1>1, <1>8 DEF LockByAdmin, LiftRestriction, Unlocked, Restricted, Accounts
<1>9. ASSUME \/ \E t \in Tabs : \/ Login(t) \/ WalletLogin(t) \/ OpenSession(t) \/ RevokeOthers(t)
                                \/ InsertSession(t) \/ CheckStatus(t) \/ Rotate(t)
                                \/ DetectReuse(t) \/ BeginReset(t)
             \/ \E t \in Tabs, i \in DOMAIN signIns : Refresh(t, i) \/ BeginChange(t, i)
             \/ \E i \in DOMAIN signIns : Logout(i)
             \/ \E m \in Moderators : EndBanned(m) \/ \E act \in Acts : Decide(m, act)
      PROVE  era' = era /\ (Restricted' => Restricted)
  BY <1>9 DEF Login, WalletLogin, Accept, OpenSession, RevokeOthers, InsertSession, CheckStatus,
              Rotate, DetectReuse, BeginReset, Refresh, BeginChange, Logout, EndBanned, Decide,
              Restricted
<1> QED
  BY <1>3, <1>4, <1>5, <1>6, <1>7, <1>8, <1>9 DEF SignInNext

LEMMA InFlightStep ==
  ASSUME SignInTypeOK, InFlight, [SignInNext]_signInVars
  PROVE  InFlight'
<1>1. CASE SignInNext
  <2> SUFFICES ASSUME NEW t \in Tabs, Signing(tab'[t])
               PROVE  /\ Restricted' => "restriction" \in tab'[t].late
                      /\ tab'[t].era = era' \/ "password" \in tab'[t].late
    BY DEF InFlight, SigningIn, Signing, Restricted
  <2>1. CASE Ongoing(tab[t], tab'[t])
    <3>1. SigningIn(t) /\ tab'[t].era = tab[t].era /\ tab[t].late \subseteq tab'[t].late
      BY <2>1 DEF Ongoing, Signing, SigningIn
    <3>2. Restricted => "restriction" \in tab'[t].late
      BY <3>1 DEF InFlight, Restricted
    <3>3. tab[t].era = era \/ "password" \in tab'[t].late
      BY <3>1 DEF InFlight
    <3> QED
      BY <1>1, <3>1, <3>2, <3>3, AccountChange
  <2>2. CASE ~Refused /\ tab'[t].era = era /\ account' = account /\ era' = era
    BY <2>2 DEF Refused, Restricted
  <2> QED
    BY <1>1, <2>1, <2>2, TabChange
<1>2. CASE UNCHANGED signInVars
  BY <1>2 DEF signInVars, InFlight, SigningIn
<1> QED
  BY <1>1, <1>2

-----------------------------------------------------------------------------
(* The sessions that are alive.                                            *)

\* A session alive after a step was alive before it and keeps its marks, or is
\* the one a sign-in has just opened.
LEMMA LiveChange ==
  ASSUME SignInTypeOK, KnownSession, SignInNext, NEW i \in Live'
  PROVE  \/ /\ i \in Live /\ signIns'[i].late = signIns[i].late
            /\ signIns'[i].era = era' \/ (signIns'[i].era = signIns[i].era /\ era' = era)
         \/ /\ account' = account /\ era' = era /\ moderator' = moderator
            /\ \E t \in Tabs : /\ SigningIn(t) /\ signIns'[i].era = tab[t].era
                               /\ signIns'[i].late = tab[t].late
<1>1. /\ signIns \in Seq(SignIns) /\ i \in DOMAIN signIns' /\ ~signIns'[i].revoked
      /\ \A j \in DOMAIN signIns : signIns[j] \in SignIns
  BY Rows DEF Live, SignInTypeOK
<1>2. CASE SameSessions
  BY <1>1, <1>2 DEF SameSessions, Live
<1>3. CASE EndsSome
  <2>1. PICK kept : signIns' = EndedBut(kept) /\ (era' = era \/ kept = {})
    BY <1>3 DEF EndsSome
  <2>2. i \in DOMAIN signIns /\ i \in kept /\ signIns'[i] = signIns[i]
    BY <1>1, <2>1, EndedRows
  <2> QED
    BY <1>1, <2>1, <2>2 DEF Live
<1>4. CASE SignsIn
  <2>1. PICK t \in Tabs :
          /\ SigningIn(t)
          /\ \/ signIns' = Append(EndedBut({}), Opened(t))
             \/ Live = {} /\ signIns' = Append(signIns, Opened(t))
          /\ account' = account /\ era' = era /\ moderator' = moderator
    BY <1>4 DEF SignsIn
  <2>2. i \in DOMAIN signIns => i \notin Live \/ signIns' = Append(EndedBut({}), Opened(t))
    BY <2>1
  <2>3. signIns'[i] = Opened(t)
    <3>1. CASE signIns' = Append(EndedBut({}), Opened(t))
      <4>1. /\ EndedBut({}) \in Seq(SignIns) /\ DOMAIN EndedBut({}) = DOMAIN signIns
            /\ \A j \in DOMAIN signIns : EndedBut({})[j].revoked
        BY EndedRows
      <4> QED
        BY <1>1, <3>1, <4>1, OpenedRow, AppendedRows
    <3>2. CASE Live = {} /\ signIns' = Append(signIns, Opened(t))
      <4>1. \A j \in DOMAIN signIns : signIns[j].revoked
        BY <3>2 DEF Live
      <4> QED
        BY <1>1, <3>2, <4>1, OpenedRow, AppendedRows
    <3> QED
      BY <2>1, <3>1, <3>2
  <2> QED
    BY <2>1, <2>3, OpenedRow
<1>5. CASE Rotates
  <2>1. PICK j \in Live, v \in Nat : signIns' = [signIns EXCEPT ![j].version = v + 1] /\ era' = era
    BY <1>5 DEF Rotates
  <2>2. i \in DOMAIN signIns /\ j \in DOMAIN signIns
    BY <1>1, <2>1 DEF Live
  <2>3. signIns'[i] = IF i = j THEN [signIns[j] EXCEPT !.version = v + 1] ELSE signIns[i]
    BY <2>1, <2>2
  <2>4. /\ signIns'[i].revoked = signIns[i].revoked /\ signIns'[i].era = signIns[i].era
        /\ signIns'[i].late = signIns[i].late
    BY <1>1, <2>2, <2>3 DEF SignIns
  <2> QED
    BY <1>1, <2>1, <2>2, <2>4 DEF Live
<1>6. CASE SetsPassword
  <2>1. PICK own : signIns' = Survivor(own) /\ era' = era + 1
    BY <1>6 DEF SetsPassword
  <2>2. i \in DOMAIN signIns /\ i \in Live /\ i = own /\ signIns'[i].era = era'
    BY <1>1, <2>1, SurvivingRows
  <2>3. signIns'[i] = [signIns[i] EXCEPT !.era = era + 1]
    BY <2>1, <2>2 DEF Survivor
  <2> QED
    BY <1>1, <2>2, <2>3 DEF SignIns
<1> QED
  BY <1>2, <1>3, <1>4, <1>5, <1>6, SessionsChange

LEMMA OneTokenStep ==
  ASSUME SignInTypeOK, KnownSession, OneTokenAlive, [SignInNext]_signInVars
  PROVE  OneTokenAlive'
<1>1. /\ signIns \in Seq(SignIns) /\ issued \in Seq(Nat) /\ Len(issued) = Len(signIns)
      /\ DOMAIN issued = DOMAIN signIns
      /\ \A i \in DOMAIN signIns : /\ signIns[i] \in SignIns /\ issued[i] \in Nat
                                   /\ issued[i] = signIns[i].version
      /\ \A i, j \in Live : i = j
  BY Rows DEF SignInTypeOK, OneTokenAlive
<1>2. CASE SameSessions \/ UNCHANGED signInVars
  BY <1>2 DEF SameSessions, signInVars, OneTokenAlive, Live
<1>3. CASE EndsSome
  <2>1. PICK kept : signIns' = EndedBut(kept) /\ issued' = issued
    BY <1>3 DEF EndsSome
  <2>2. /\ DOMAIN signIns' = DOMAIN signIns
        /\ \A i \in DOMAIN signIns : /\ signIns[i].revoked => signIns'[i].revoked
                                     /\ signIns'[i].version = signIns[i].version
    BY <2>1, EndedRows
  <2> QED
    BY <1>1, <2>1, <2>2 DEF OneTokenAlive, Live
<1>4. CASE SignsIn
  <2>1. PICK t \in Tabs, rows \in Seq(SignIns) :
          /\ signIns' = Append(rows, Opened(t)) /\ issued' = Append(issued, 1)
          /\ Len(rows) = Len(signIns) /\ DOMAIN rows = DOMAIN signIns
          /\ \A i \in DOMAIN signIns : rows[i].revoked /\ rows[i].version = signIns[i].version
    <3>1. PICK t \in Tabs :
            /\ \/ signIns' = Append(EndedBut({}), Opened(t))
               \/ Live = {} /\ signIns' = Append(signIns, Opened(t))
            /\ issued' = Append(issued, 1)
      BY <1>4 DEF SignsIn
    <3>2. CASE signIns' = Append(EndedBut({}), Opened(t))
      BY <3>1, <3>2, EndedRows
    <3>3. CASE Live = {} /\ signIns' = Append(signIns, Opened(t))
      BY <1>1, <3>1, <3>3 DEF Live
    <3> QED
      BY <3>1, <3>2, <3>3
  <2> DEFINE new == Len(signIns) + 1
  <2>2. /\ DOMAIN signIns' = DOMAIN signIns \cup {new} /\ signIns'[new] = Opened(t)
        /\ \A i \in DOMAIN signIns : signIns'[i] = rows[i] /\ i # new
    BY <2>1, OpenedRow, AppendedRows
  <2>3. issued'[new] = 1 /\ \A i \in DOMAIN signIns : issued'[i] = issued[i]
    BY <1>1, <2>1, 1 \in Nat, AppendedRows
  <2>4. Opened(t).version = 1
    BY OpenedRow
  <2>5. Live' \subseteq {new}
    BY <2>1, <2>2 DEF Live
  <2>6. ASSUME NEW i \in DOMAIN signIns'  PROVE issued'[i] = signIns'[i].version
    <3>1. CASE i = new
      BY <2>2, <2>3, <2>4, <3>1
    <3>2. CASE i \in DOMAIN signIns
      BY <1>1, <2>1, <2>2, <2>3, <3>2
    <3> QED
      BY <2>2, <3>1, <3>2
  <2> QED
    BY <2>5, <2>6 DEF OneTokenAlive
<1>5. CASE Rotates
  <2>1. PICK j \in Live, v \in Nat :
          /\ signIns[j].version = v
          /\ signIns' = [signIns EXCEPT ![j].version = v + 1]
          /\ issued' = [issued EXCEPT ![j] = @ + 1]
    BY <1>5 DEF Rotates
  <2>2. j \in DOMAIN signIns /\ DOMAIN signIns' = DOMAIN signIns
    BY <2>1 DEF Live
  <2>3. ASSUME NEW i \in DOMAIN signIns
        PROVE  /\ signIns'[i].revoked = signIns[i].revoked
               /\ issued'[i] = signIns'[i].version
    <3>1. signIns'[i] = IF i = j THEN [signIns[j] EXCEPT !.version = v + 1] ELSE signIns[i]
      BY <2>1, <2>2
    <3>2. issued'[i] = IF i = j THEN issued[j] + 1 ELSE issued[i]
      BY <1>1, <2>1, <2>2
    <3> QED
      BY <1>1, <2>1, <2>2, <3>1, <3>2 DEF SignIns
  <2> QED
    BY <1>1, <2>2, <2>3 DEF OneTokenAlive, Live
<1>6. CASE SetsPassword
  <2>1. PICK own : signIns' = Survivor(own) /\ issued' = issued
    BY <1>6 DEF SetsPassword
  <2> QED
    BY <1>1, <2>1, SurvivingRows DEF OneTokenAlive, Live
<1> QED
  BY <1>2, <1>3, <1>4, <1>5, <1>6, SessionsChange

LEMMA PasswordStep ==
  ASSUME SignInTypeOK, KnownSession, InFlight, PasswordChangeSignsOut, [SignInNext]_signInVars
  PROVE  PasswordChangeSignsOut'
<1>1. CASE SignInNext
  <2> SUFFICES ASSUME NEW i \in Live'
               PROVE  signIns'[i].era = era' \/ "password" \in signIns'[i].late
    BY DEF PasswordChangeSignsOut
  <2> QED
    BY <1>1, LiveChange DEF PasswordChangeSignsOut, InFlight
<1>2. CASE UNCHANGED signInVars
  BY <1>2 DEF signInVars, PasswordChangeSignsOut, Live
<1> QED
  BY <1>1, <1>2

Enforced ==
  \/ account.status = "suspended"
  \/ account.status = "banned" /\ \A m \in Moderators : moderator[m] # "sweep"

\* A restriction comes into force only with the end of every session.
LEMMA EnforcedWithTheSessions ==
  ASSUME SignInTypeOK, SignInNext, Enforced', ~Enforced
  PROVE  Live' = {}
<1>1. account \in Accounts /\ moderator \in [Moderators -> ModeratorStates]
  BY DEF SignInTypeOK, ModeratorStates
<1>2. ASSUME signIns' = EndedBut({})  PROVE Live' = {}
  BY <1>2, EndedRows DEF Live
<1>3. ASSUME NEW m \in Moderators, Suspend(m) \/ EndBanned(m)  PROVE Live' = {}
  BY <1>2, <1>3 DEF Suspend, EndBanned
<1>4. ASSUME NEW m \in Moderators, Ban(m)  PROVE FALSE
  <2>1. account'.status = "banned" /\ moderator'[m] = "sweep"
    BY <1>1, <1>4 DEF Ban, Impose, Accounts
  <2> QED
    BY <2>1 DEF Enforced
<1>5. ASSUME NEW m \in Moderators, NEW act \in Acts, Decide(m, act)  PROVE FALSE
  <2>1. account' = account /\ moderator[m] = "idle" /\ moderator' = [moderator EXCEPT ![m] = act]
    BY <1>5 DEF Decide
  <2>2. \A k \in Moderators : moderator[k] = "sweep" => moderator'[k] = "sweep"
    BY <1>1, <2>1
  <2> QED
    BY <2>1, <2>2 DEF Enforced
<1>6. ASSUME NEW m \in Moderators, LockByAdmin(m) \/ LiftRestriction(m)  PROVE FALSE
  BY <1>1, <1>6 DEF LockByAdmin, LiftRestriction, Unlocked, Enforced, Accounts
<1>7. ASSUME NEW t \in Tabs, CommitChange(t) \/ CommitReset(t)  PROVE FALSE
  <2>1. moderator' = moderator /\ (account'.status = account.status \/ account'.status = "active")
    <3>1. CASE CommitChange(t)
      BY <1>1, <3>1 DEF CommitChange, Accounts
    <3>2. CASE CommitReset(t)
      BY <1>1, <3>2 DEF CommitReset, Accounts
    <3> QED
      BY <1>7, <3>1, <3>2
  <2> QED
    BY <2>1 DEF Enforced
<1>8. ASSUME NEW t \in Tabs, WriteAccount(t)  PROVE FALSE
  BY <1>1, <1>8 DEF WriteAccount, Unlocked, Enforced, Accounts
<1>9. ASSUME WrongPassword  PROVE FALSE
  BY <1>1, <1>9 DEF WrongPassword, Counted, Enforced, Accounts
<1>10. ASSUME TimePasses  PROVE FALSE
  BY <1>1, <1>10 DEF TimePasses, Enforced, Accounts
<1>11. ASSUME \/ \E t \in Tabs : \/ Login(t) \/ WalletLogin(t) \/ OpenSession(t) \/ RevokeOthers(t)
                                 \/ InsertSession(t) \/ CheckStatus(t) \/ Rotate(t)
                                 \/ DetectReuse(t) \/ BeginReset(t)
              \/ \E t \in Tabs, i \in DOMAIN signIns : Refresh(t, i) \/ BeginChange(t, i)
              \/ \E i \in DOMAIN signIns : Logout(i)
       PROVE  FALSE
  BY <1>11 DEF Login, WalletLogin, Accept, OpenSession, RevokeOthers, InsertSession, CheckStatus,
               Rotate, DetectReuse, BeginReset, Refresh, BeginChange, Logout, Enforced
<1> QED
  BY <1>3, <1>4, <1>5, <1>6, <1>7, <1>8, <1>9, <1>10, <1>11 DEF SignInNext

LEMMA RestrictionStep ==
  ASSUME SignInTypeOK, KnownSession, InFlight, RestrictionSignsOut, [SignInNext]_signInVars
  PROVE  RestrictionSignsOut'
<1>1. CASE SignInNext
  <2> SUFFICES ASSUME Enforced', NEW i \in Live'
               PROVE  "restriction" \in signIns'[i].late
    BY DEF RestrictionSignsOut, Enforced
  <2>1. Enforced
    BY <1>1, EnforcedWithTheSessions
  <2>2. \A j \in Live : "restriction" \in signIns[j].late
    BY <2>1 DEF RestrictionSignsOut, Enforced
  <2>3. \A t \in Tabs : SigningIn(t) => "restriction" \in tab[t].late
    BY <2>1 DEF InFlight, Enforced
  <2> QED
    BY <1>1, <2>2, <2>3, LiveChange
<1>2. CASE UNCHANGED signInVars
  BY <1>2 DEF signInVars, RestrictionSignsOut, Live
<1> QED
  BY <1>1, <1>2

LEMMA EndedStep ==
  ASSUME SignInTypeOK, KnownSession, [SignInNext]_signInVars,
         NEW i \in DOMAIN signIns, signIns[i].revoked
  PROVE  signIns'[i] = signIns[i] /\ issued'[i] = issued[i]
<1>1. /\ signIns \in Seq(SignIns) /\ issued \in Seq(Nat) /\ DOMAIN issued = DOMAIN signIns
      /\ signIns[i] \in SignIns
  BY Rows DEF SignInTypeOK
<1>2. CASE SameSessions \/ UNCHANGED signInVars
  BY <1>2 DEF SameSessions, signInVars
<1>3. CASE EndsSome
  BY <1>3, EndedRows DEF EndsSome
<1>4. CASE SignsIn
  <2>1. PICK t \in Tabs :
          /\ \/ signIns' = Append(EndedBut({}), Opened(t))
             \/ signIns' = Append(signIns, Opened(t))
          /\ issued' = Append(issued, 1)
    BY <1>4 DEF SignsIn
  <2>2. issued'[i] = issued[i]
    BY <1>1, <2>1, 1 \in Nat, AppendedRows
  <2>3. /\ EndedBut({}) \in Seq(SignIns) /\ DOMAIN EndedBut({}) = DOMAIN signIns
        /\ EndedBut({})[i] = signIns[i]
    BY EndedRows
  <2> QED
    BY <1>1, <2>1, <2>2, <2>3, OpenedRow, AppendedRows
<1>5. CASE Rotates
  <2>1. PICK j \in Live, v \in Nat :
          /\ signIns' = [signIns EXCEPT ![j].version = v + 1]
          /\ issued' = [issued EXCEPT ![j] = @ + 1]
    BY <1>5 DEF Rotates
  <2>2. i # j
    BY <2>1 DEF Live
  <2> QED
    BY <1>1, <2>1, <2>2
<1>6. CASE SetsPassword
  BY <1>6, SurvivingRows DEF SetsPassword
<1> QED
  BY <1>2, <1>3, <1>4, <1>5, <1>6, SessionsChange

-----------------------------------------------------------------------------
(* The theorems.                                                           *)

LEMMA SignInInvInit == SignInInit => SignInInv
<1> SUFFICES ASSUME SignInInit  PROVE SignInInv
  OBVIOUS
<1>1. SignInTypeOK
  <2>1. AtRest \in TabStates
    BY DEF AtRest, TabStates, Hashes
  <2>2. account \in Accounts
    BY SignInAssumption DEF SignInInit, Accounts, Hashes
  <2>3. <<>> \in Seq(SignIns) /\ <<>> \in Seq(Nat) /\ Len(<<>>) = Len(<<>>)
    OBVIOUS
  <2>4. 0 \in 0..MaxActs
    BY SignInAssumption
  <2> QED
    BY <2>1, <2>2, <2>3, <2>4 DEF SignInInit, SignInTypeOK
<1>2. DOMAIN signIns = {} /\ Live = {} /\ \A t \in Tabs : tab[t].todo = {}
  BY DEF SignInInit, Live, AtRest
<1> QED
  BY <1>1, <1>2 DEF SignInInv, KnownSession, OneTokenAlive, InFlight, SigningIn,
                    PasswordChangeSignsOut, RestrictionSignsOut

LEMMA SignInInvNext == SignInInv /\ [SignInNext]_signInVars => SignInInv'
  BY TypeStep, KnownStep, OneTokenStep, InFlightStep, PasswordStep, RestrictionStep DEF SignInInv

LEMMA SignInInvAlways == SignInSpec => []SignInInv
  BY SignInInvInit, SignInInvNext, PTL DEF SignInSpec

\* The rows, the requests in flight and the moderators keep their types.
THEOREM SignInTypes == SignInSpec => []SignInTypeOK
<1>1. SignInInv => SignInTypeOK
  BY DEF SignInInv
<1> QED
  BY <1>1, SignInInvAlways, PTL

\* However many tabs present a token, wallets and passwords sign in, and
\* sessions are ended meanwhile: one refresh token at most can be exchanged.
THEOREM OneTokenIsAlive == SignInSpec => []OneTokenAlive
<1>1. SignInInv => OneTokenAlive
  BY DEF SignInInv
<1> QED
  BY <1>1, SignInInvAlways, PTL

\* A session alive under a password it was not opened with belongs to a sign-in
\* that was under way when the password was set.
THEOREM NewPasswordSignsOut == SignInSpec => []PasswordChangeSignsOut
<1>1. SignInInv => PasswordChangeSignsOut
  BY DEF SignInInv
<1> QED
  BY <1>1, SignInInvAlways, PTL

\* A session alive under a suspension or a ban belongs to a sign-in that was
\* under way when it was imposed.
THEOREM RestrictionsSignOut == SignInSpec => []RestrictionSignsOut
<1>1. SignInInv => RestrictionSignsOut
  BY DEF SignInInv
<1> QED
  BY <1>1, SignInInvAlways, PTL

\* No request writes the row of a session that has ended.
THEOREM SessionsStayEnded == SignInSpec => EndedSessionsStayEnded
<1>1. SignInInv /\ [SignInNext]_signInVars =>
        [\A i \in DOMAIN signIns : signIns[i].revoked =>
           signIns'[i] = signIns[i] /\ issued'[i] = issued[i]]_signInVars
  BY EndedStep DEF SignInInv
<1> QED
  BY <1>1, SignInInvAlways, PTL DEF SignInSpec, EndedSessionsStayEnded
=============================================================================
