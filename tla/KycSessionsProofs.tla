-------------------------- MODULE KycSessionsProofs --------------------------
(***************************************************************************)
(* Theorems about KycSessions for any number of sessions, requests and     *)
(* faults.  Handlers hold sessions that were begun, and what Didit sends   *)
(* is about such sessions (HandlersFit, OnlyBegun); so a start inserts     *)
(* where there is no row, and its sweep leaves no other active one.        *)
(***************************************************************************)
EXTENDS KycSessions, FiniteSetTheorems, TLAPS

\* What a handler holds is a session there is, and a decision that fits a row.
HandlersFit ==
  \A p \in Handlers :
    /\ handler[p].session \in 0..newest
    /\ handler[p].pc \in {"pull", "resume", "reconcile"} =>
         /\ handler[p].session \in Sessions
         /\ handler[p].decision \in {"created", "gone", "overdue"} \cup Decisions
    /\ handler[p].pc = "enqueue" => handler[p].session \in Sessions

\* Rows, Didit's decisions and its messages are about sessions that were begun.
OnlyBegun ==
  /\ newest <= MaxSessions
  /\ \A s \in Sessions : s > newest <=> didit[s] = "none"
  /\ \A s \in Sessions : s > newest <=> kycRow[s] = "absent"
  /\ \A m \in inbox : m.session <= newest

\* kyc_sessions_customer_workflow_active_key.
OneActive == \A s, t \in Sessions : kycRow[s] \in ActiveStatuses /\ kycRow[t] \in ActiveStatuses => s = t

KycInv == KycSessionsTypeOK /\ HandlersFit /\ OnlyBegun /\ OneActive

-----------------------------------------------------------------------------
(* Locals.                                                                 *)

Pcs == {"idle", "start", "started", "clear", "strike", "enqueue", "revoke", "reset",
        "sweep", "pull", "resume", "reconcile"}
Says == {"none", "created", "gone", "overdue", "blocked", "drift"} \cup Decisions
HandlerRecords == [pc : Pcs, session : 0..MaxSessions, revoked : BOOLEAN, decision : Says]

LEMMA HandlersTyped ==
  ASSUME KycSessionsTypeOK
  PROVE  handler \in [Handlers -> HandlerRecords]
BY DEF KycSessionsTypeOK, HandlerRecords, Pcs, Says

LEMMA NewHandlers ==
  /\ IdleHandler \in HandlerRecords
  /\ \A pc \in Pcs, s \in 0..MaxSessions, d \in Says :
       [IdleHandler EXCEPT !.pc = pc, !.session = s, !.decision = d] \in HandlerRecords
  /\ \A pc \in Pcs, b \in BOOLEAN :
       [IdleHandler EXCEPT !.pc = pc, !.revoked = b] \in HandlerRecords
<1>1. IdleHandler \in HandlerRecords
  BY KycSessionsAssumption DEF IdleHandler, HandlerRecords, Pcs, Says
<1>2. ASSUME NEW r \in HandlerRecords
      PROVE  /\ \A pc \in Pcs, s \in 0..MaxSessions, d \in Says :
                  [r EXCEPT !.pc = pc, !.session = s, !.decision = d] \in HandlerRecords
             /\ \A pc \in Pcs, b \in BOOLEAN :
                  [r EXCEPT !.pc = pc, !.revoked = b] \in HandlerRecords
  BY DEF HandlerRecords
<1> QED
  BY <1>1, <1>2

\* One handler's locals are r now.
Becomes(p, r) ==
  /\ handler' \in [Handlers -> HandlerRecords]
  /\ handler'[p] = r /\ \A q \in Handlers \ {p} : handler'[q] = handler[q]

LEMMA DoBecomes ==
  ASSUME KycSessionsTypeOK, NEW p \in Handlers, NEW pc \in Pcs,
         NEW s \in 0..MaxSessions, NEW d \in Says, Do(p, pc, s, d)
  PROVE  \E r \in HandlerRecords :
           Becomes(p, r) /\ r.pc = pc /\ r.session = s /\ r.decision = d
<1> DEFINE new == [IdleHandler EXCEPT !.pc = pc, !.session = s, !.decision = d]
<1>1. new \in HandlerRecords
  BY NewHandlers
<1>2. new.pc = pc /\ new.session = s /\ new.decision = d
  BY DEF IdleHandler
<1>3. Becomes(p, new)
  BY <1>1, HandlersTyped DEF Do, Becomes
<1> HIDE DEF new
<1> QED
  BY <1>1, <1>2, <1>3

LEMMA EndBecomes ==
  ASSUME KycSessionsTypeOK, NEW p \in Handlers, Finish(p)
  PROVE  Becomes(p, IdleHandler)
BY NewHandlers, HandlersTyped DEF Finish, Becomes

LEMMA GotoBecomes ==
  ASSUME KycSessionsTypeOK, NEW p \in Handlers, NEW pc \in Pcs, HandlerAt(p, pc)
  PROVE  /\ Becomes(p, [handler[p] EXCEPT !.pc = pc])
         /\ handler'[p].pc = pc /\ handler'[p].session = handler[p].session
         /\ handler'[p].decision = handler[p].decision
<1>1. handler \in [Handlers -> HandlerRecords] /\ handler[p] \in HandlerRecords
  BY HandlersTyped
<1>2. [handler[p] EXCEPT !.pc = pc] \in HandlerRecords
  BY <1>1 DEF HandlerRecords
<1>3. handler' = [handler EXCEPT ![p] = [handler[p] EXCEPT !.pc = pc]]
  BY <1>1 DEF HandlerAt
<1>4. Becomes(p, [handler[p] EXCEPT !.pc = pc])
  BY <1>1, <1>2, <1>3 DEF Becomes
<1> QED
  BY <1>1, <1>4 DEF Becomes, HandlerRecords

\* What a handler may become: nothing, or one whose session was begun.
FitsHandler(r, n) ==
  /\ r.session \in 0..n
  /\ r.pc \in {"pull", "resume", "reconcile"} =>
       r.session \in Sessions /\ r.decision \in {"created", "gone", "overdue"} \cup Decisions
  /\ r.pc = "enqueue" => r.session \in Sessions

LEMMA HandlersFitKept ==
  ASSUME KycSessionsTypeOK, HandlersFit, newest' \in Nat, newest <= newest',
         \/ handler' = handler
         \/ \E p \in Handlers, r \in HandlerRecords : Becomes(p, r) /\ FitsHandler(r, newest')
  PROVE  HandlersFit' /\ handler' \in [Handlers -> HandlerRecords]
<1>1. \A p \in Handlers : FitsHandler(handler[p], newest')
  <2>1. newest \in Nat
    BY KycSessionsAssumption DEF KycSessionsTypeOK
  <2> QED
    BY <2>1 DEF HandlersFit, FitsHandler
<1>2. /\ \A p \in Handlers : FitsHandler(handler'[p], newest')
      /\ handler' \in [Handlers -> HandlerRecords]
  BY <1>1, HandlersTyped DEF Becomes
<1> QED
  BY <1>2 DEF HandlersFit, FitsHandler

LEMMA EndFits ==
  ASSUME KycSessionsTypeOK, HandlersFit, NEW p \in Handlers,
         newest' \in Nat, newest <= newest',
         \/ Finish(p)
         \/ \E pc \in Pcs : /\ HandlerAt(p, pc)
                            /\ pc \notin {"pull", "resume", "reconcile"}
                            /\ pc = "enqueue" => handler[p].session \in Sessions
  PROVE  HandlersFit' /\ handler' \in [Handlers -> HandlerRecords]
<1>1. CASE Finish(p)
  <2>1. FitsHandler(IdleHandler, newest')
    BY DEF FitsHandler, IdleHandler
  <2> QED
    BY <1>1, <2>1, EndBecomes, NewHandlers, HandlersFitKept
<1>2. ASSUME NEW pc \in Pcs, HandlerAt(p, pc), pc \notin {"pull", "resume", "reconcile"},
             pc = "enqueue" => handler[p].session \in Sessions
      PROVE  HandlersFit' /\ handler' \in [Handlers -> HandlerRecords]
  <2> DEFINE r == [handler[p] EXCEPT !.pc = pc]
  <2>1. handler[p] \in HandlerRecords
    BY HandlersTyped
  <2>2. r \in HandlerRecords /\ r.pc = pc /\ r.session = handler[p].session
    BY <2>1 DEF HandlerRecords
  <2>3. handler[p].session \in 0..newest' 
    BY KycSessionsAssumption DEF HandlersFit, KycSessionsTypeOK
  <2>4. FitsHandler(r, newest')
    BY <1>2, <2>2, <2>3 DEF FitsHandler
  <2>5. Becomes(p, r)
    BY <1>2, GotoBecomes
  <2> HIDE DEF r
  <2> QED
    BY <2>2, <2>4, <2>5, HandlersFitKept
<1> QED
  BY <1>1, <1>2

LEMMA DoFits ==
  ASSUME KycSessionsTypeOK, HandlersFit, NEW p \in Handlers, NEW pc \in Pcs,
         NEW s \in 0..newest, NEW d \in Says, Do(p, pc, s, d), newest' = newest,
         pc \in {"pull", "resume", "reconcile"} =>
           s \in Sessions /\ d \in {"created", "gone", "overdue"} \cup Decisions,
         pc = "enqueue" => s \in Sessions
  PROVE  HandlersFit' /\ handler' \in [Handlers -> HandlerRecords]
<1>1. s \in 0..MaxSessions /\ newest \in Nat
  BY KycSessionsAssumption DEF KycSessionsTypeOK
<1>2. PICK r \in HandlerRecords :
        Becomes(p, r) /\ r.pc = pc /\ r.session = s /\ r.decision = d
  BY <1>1, DoBecomes
<1>3. FitsHandler(r, newest')
  BY <1>2 DEF FitsHandler
<1> QED
  BY <1>1, <1>2, <1>3, HandlersFitKept

-----------------------------------------------------------------------------
(* Rows.                                                                   *)

LEMMA StatusFacts ==
  /\ ActiveStatuses \cap Closed = {} /\ "absent" \notin ActiveStatuses \cup Closed
  /\ ActiveStatuses \subseteq KycStatuses /\ Closed \subseteq KycStatuses
  /\ "expired" \in Closed /\ "revoked" \in Closed /\ "pending" \in ActiveStatuses
BY DEF ActiveStatuses, Closed, TerminalStatuses, KycStatuses

\* What is written is a status, and a row's status at that.
LEMMA WrittenIsStatus ==
  /\ \A d \in Decisions : Mapped(d) \in KycStatuses \ {"absent"}
  /\ \A d \in {"created", "gone", "overdue"} \cup Decisions : Answer(d) \in KycStatuses \ {"absent"}
BY DEF Decisions, Mapped, Answer, KycStatuses, ActiveStatuses, Closed, TerminalStatuses

\* The unique index and its pairwise reading.
LEMMA FitsIsOneActive ==
  ASSUME NEW new \in [Sessions -> KycStatuses]
  PROVE  Fits(new) <=> \A s, t \in Sessions : new[s] \in ActiveStatuses /\ new[t] \in ActiveStatuses => s = t
<1> DEFINE A == {s \in Sessions : new[s] \in ActiveStatuses}
<1>1. IsFiniteSet(A) /\ Cardinality(A) \in Nat
  <2>1. IsFiniteSet(Sessions)
    BY FS_Interval, KycSessionsAssumption DEF Sessions
  <2>2. IsFiniteSet(A)
    BY <2>1, FS_Subset
  <2> QED
    BY <2>2, FS_CardinalityType
<1>2. Cardinality(A) = 0 <=> A = {}
  BY <1>1, FS_EmptySet
<1>3. Cardinality(A) = 1 <=> \E s : A = {s}
  BY <1>1, FS_Singleton
<1>4. Cardinality(A) <= 1 <=> A = {} \/ \E s : A = {s}
  BY <1>1, <1>2, <1>3
<1>5. (A = {} \/ \E s : A = {s}) <=>
        \A s, t \in Sessions : new[s] \in ActiveStatuses /\ new[t] \in ActiveStatuses => s = t
  OBVIOUS
<1> QED
  BY <1>4, <1>5 DEF Fits

-----------------------------------------------------------------------------
(* A step of a handler, and of the rest.                                   *)

\* The parts of the invariant that speak of rows, Didit and the inbox.
LEMMA RowsQuiet ==
  ASSUME OnlyBegun, OneActive, newest' = newest, didit' = didit, inbox' \subseteq inbox,
         \A s \in Sessions :
           /\ kycRow'[s] = "absent" <=> kycRow[s] = "absent"
           /\ kycRow'[s] \in ActiveStatuses => kycRow[s] \in ActiveStatuses
  PROVE  OnlyBegun' /\ OneActive'
BY DEF OnlyBegun, OneActive

\* The types of everything but the handlers.
RestTyped ==
  /\ didit \in [Sessions -> {"none", "created", "gone"} \cup Decisions]
  /\ inbox \subseteq [session : Sessions, decision : Decisions] \cup {Blocked}
  /\ kycRow \in [Sessions -> KycStatuses] /\ newest \in 0..MaxSessions /\ cut \in 0..MaxSessions
  /\ customer \in [verified : BOOLEAN, revoked : BOOLEAN, declines : Nat]
  /\ credential \in {"none", "active", "revoked"}
  /\ queue \subseteq Sessions /\ audit \subseteq {"started", "completed"}
  /\ kycFaults \in 0..MaxKycFaults

LEMMA TypesInParts ==
  /\ KycSessionsTypeOK <=> RestTyped /\ handler \in [Handlers -> HandlerRecords]
  /\ KycSessionsTypeOK' <=> RestTyped' /\ handler' \in [Handlers -> HandlerRecords]
BY DEF KycSessionsTypeOK, RestTyped, HandlerRecords, Pcs, Says

LEMMA FaultTyped ==
  ASSUME RestTyped, NEW f, Fault(f)
  PROVE  kycFaults' \in 0..MaxKycFaults
BY KycSessionsAssumption DEF RestTyped, Fault

\* What Didit and the pipeline do leaves rows and handlers alone.
LEMMA OutsideSteps ==
  ASSUME KycInv,
         \/ \E s \in Sessions : (\E d \in Verdicts : DiditDecides(s, d)) \/ Forget(s) \/ Mint(s)
         \/ BlockUser
  PROVE  KycInv'
<1> USE DEF KycInv
<1>0. RestTyped /\ handler \in [Handlers -> HandlerRecords]
  BY TypesInParts
<1>1. ASSUME NEW s \in Sessions, \E d \in Verdicts : DiditDecides(s, d)
      PROVE  KycInv'
  <2>a. PICK e \in Verdicts : DiditDecides(s, e)
    BY <1>1
  <2>b. e \in Decisions
    BY <2>a DEF DiditDecides, Decisions
  <2>1. PICK d \in Decisions : DiditDecides(s, d)
    BY <2>a, <2>b
  <2>2. didit' = [didit EXCEPT ![s] = d] /\ didit[s] # "none" /\ d # "none"
    BY <2>1 DEF DiditDecides, Decisions
  <2>3. inbox' = inbox \cup {Message(s, d)}
        /\ UNCHANGED <<kycRow, newest, customer, credential, cut, queue, audit, handler, kycFaults>>
    BY <2>1 DEF DiditDecides
  <2>4. Message(s, d) \in [session : Sessions, decision : Decisions] /\ Message(s, d).session = s
    BY DEF Message
  <2>5. RestTyped'
    BY <1>0, <2>2, <2>3, <2>4 DEF RestTyped
  <2>6. ~(s > newest)
    BY <2>2 DEF OnlyBegun
  <2>7. s <= newest
    BY <2>6, <1>0, KycSessionsAssumption DEF RestTyped, Sessions
  <2>8. \A t \in Sessions : didit'[t] = "none" <=> didit[t] = "none"
    BY <1>0, <2>2 DEF RestTyped
  <2>9. OnlyBegun'
    BY <2>3, <2>4, <2>7, <2>8 DEF OnlyBegun
  <2> QED
    BY <1>0, <2>3, <2>5, <2>9, TypesInParts DEF HandlersFit, OneActive
<1>2. ASSUME NEW s \in Sessions, Forget(s)
      PROVE  KycInv'
  <2>1. kycFaults' \in 0..MaxKycFaults
    BY <1>0, <1>2, FaultTyped DEF Forget
  <2>2. /\ didit' = [didit EXCEPT ![s] = "gone"] /\ didit[s] # "none"
        /\ UNCHANGED <<inbox, kycRow, newest, customer, credential, cut, queue, audit, handler>>
    BY <1>2 DEF Forget
  <2>3. RestTyped'
    BY <1>0, <2>1, <2>2 DEF RestTyped
  <2>4. \A t \in Sessions : didit'[t] = "none" <=> didit[t] = "none"
    BY <1>0, <2>2 DEF RestTyped
  <2>5. OnlyBegun' /\ OneActive' /\ HandlersFit'
    BY <2>2, <2>4 DEF OnlyBegun, OneActive, HandlersFit
  <2> QED
    BY <1>0, <2>2, <2>3, <2>5, TypesInParts
<1>3. ASSUME NEW s \in Sessions, Mint(s)
      PROVE  KycInv'
  <2>1. UNCHANGED <<didit, inbox, kycRow, newest, cut, handler, kycFaults>>
    BY <1>3 DEF Mint
  <2>2. RestTyped'
    BY <1>0, <1>3 DEF Mint, RestTyped
  <2>3. OnlyBegun' /\ OneActive' /\ HandlersFit'
    BY <2>1 DEF OnlyBegun, OneActive, HandlersFit
  <2> QED
    BY <1>0, <2>1, <2>2, <2>3, TypesInParts
<1>4. CASE BlockUser
  <2>1. kycFaults' \in 0..MaxKycFaults
    BY <1>0, <1>4, FaultTyped DEF BlockUser
  <2>2. /\ inbox' = inbox \cup {Blocked}
        /\ UNCHANGED <<didit, kycRow, newest, customer, credential, cut, queue, audit, handler>>
    BY <1>4 DEF BlockUser
  <2>3. Blocked.session = 0 /\ newest >= 0
    BY <1>0, KycSessionsAssumption DEF Blocked, Message, RestTyped
  <2>4. RestTyped'
    BY <1>0, <2>1, <2>2 DEF RestTyped
  <2>5. OnlyBegun' /\ OneActive' /\ HandlersFit'
    BY <2>2, <2>3 DEF OnlyBegun, OneActive, HandlersFit
  <2> QED
    BY <1>0, <2>2, <2>4, <2>5, TypesInParts
<1> QED
  BY <1>1, <1>2, <1>3, <1>4

\* What every step of a handler keeps, and what else it may rely on.
LEMMA HandlerFacts ==
  ASSUME KycInv
  PROVE  /\ RestTyped /\ handler \in [Handlers -> HandlerRecords]
         /\ newest \in Nat /\ newest <= newest
         /\ \A p \in Handlers : /\ handler[p] \in HandlerRecords
                                /\ handler[p].session \in 0..newest
BY TypesInParts, KycSessionsAssumption DEF KycInv, RestTyped, HandlersFit

LEMMA StartKept ==
  ASSUME KycInv, NEW p \in Handlers, Start(p)
  PROVE  KycInv'
<1> USE DEF KycInv
<1>0. UNCHANGED <<didit, inbox, kycRow, newest, customer, credential, cut, queue, audit, kycFaults>>
  BY DEF Start
<1> DEFINE r == [IdleHandler EXCEPT !.pc = "start", !.revoked = customer.revoked]
<1>1. customer.revoked \in BOOLEAN
  BY HandlerFacts DEF RestTyped
<1>2. r \in HandlerRecords
  BY <1>1, NewHandlers DEF Pcs
<1>3. r.pc = "start" /\ r.session = 0
  BY DEF IdleHandler
<1>4. handler' = [handler EXCEPT ![p] = r]
  BY DEF Start
<1> HIDE DEF r
<1>5. Becomes(p, r)
  BY <1>2, <1>4, HandlersTyped DEF Becomes
<1>6. FitsHandler(r, newest')
  BY <1>0, <1>3, HandlerFacts DEF FitsHandler
<1>7. HandlersFit' /\ handler' \in [Handlers -> HandlerRecords]
  BY <1>0, <1>2, <1>5, <1>6, HandlerFacts, HandlersFitKept
<1>8. RestTyped' /\ OnlyBegun' /\ OneActive'
  BY <1>0, HandlerFacts DEF RestTyped, OnlyBegun, OneActive
<1> QED
  BY <1>7, <1>8, TypesInParts

LEMMA StartInTxKept ==
  ASSUME KycInv, NEW p \in Handlers, StartInTx(p)
  PROVE  KycInv'
<1> USE DEF KycInv
<1> DEFINE live == {s \in Sessions : kycRow[s] \in ActiveStatuses}
           swept == [s \in Sessions |-> IF s \in live THEN "expired" ELSE kycRow[s]]
<1>0. UNCHANGED <<inbox, customer, credential, cut, queue, audit, kycFaults>>
  BY DEF StartInTx
<1>a. /\ swept \in [Sessions -> KycStatuses]
      /\ \A s \in Sessions : swept[s] \notin ActiveStatuses /\ (swept[s] = "absent" <=> kycRow[s] = "absent")
  BY StatusFacts, HandlerFacts DEF RestTyped
<1>1. CASE UNCHANGED <<didit, kycRow, newest>> /\ Finish(p)
  <2>1. HandlersFit' /\ handler' \in [Handlers -> HandlerRecords]
    BY <1>1, HandlerFacts, EndFits
  <2>2. RestTyped' /\ OnlyBegun' /\ OneActive'
    BY <1>0, <1>1, HandlerFacts DEF RestTyped, OnlyBegun, OneActive
  <2> QED
    BY <2>1, <2>2, TypesInParts
<1>2. CASE kycRow' = swept /\ UNCHANGED <<didit, newest>> /\ Finish(p)
  <2>1. HandlersFit' /\ handler' \in [Handlers -> HandlerRecords]
    BY <1>2, HandlerFacts, EndFits
  <2>2. RestTyped'
    BY <1>0, <1>2, <1>a, HandlerFacts DEF RestTyped
  <2>3. OnlyBegun' /\ OneActive'
    BY <1>0, <1>2, <1>a, RowsQuiet
  <2> QED
    BY <2>1, <2>2, <2>3, TypesInParts
<1>3. CASE /\ newest < MaxSessions /\ newest' = newest + 1
           /\ kycRow' = [swept EXCEPT ![newest'] = "pending"]
           /\ didit' = [didit EXCEPT ![newest'] = "created"]
           /\ HandlerAt(p, "started")
  <2>1. newest' \in 1..MaxSessions /\ newest <= newest' /\ newest' \in Nat
    BY <1>3, HandlerFacts, KycSessionsAssumption
  <2>2. HandlersFit' /\ handler' \in [Handlers -> HandlerRecords]
    BY <1>3, <2>1, HandlerFacts, EndFits DEF Pcs
  <2>3. RestTyped'
    <3> HIDE DEF swept
    <3>1. kycRow' \in [Sessions -> KycStatuses]
      BY <1>3, <1>a, StatusFacts
    <3>2. didit' \in [Sessions -> {"none", "created", "gone"} \cup Decisions]
      BY <1>3, HandlerFacts DEF RestTyped
    <3>3. newest' \in 0..MaxSessions
      BY <2>1, KycSessionsAssumption
    <3> QED
      BY <1>0, <3>1, <3>2, <3>3, HandlerFacts DEF RestTyped
  <2>4. \A s \in Sessions : s > newest' <=> s > newest /\ s # newest'
    BY <1>3, HandlerFacts DEF Sessions
  <2>5. newest' \in Sessions /\ newest' > newest
    BY <1>3, <2>1, HandlerFacts DEF Sessions
  <2>6. \A s \in Sessions :
          /\ didit'[s] = (IF s = newest' THEN "created" ELSE didit[s])
          /\ kycRow'[s] = (IF s = newest' THEN "pending" ELSE swept[s])
    BY <1>3, <1>a, HandlerFacts DEF RestTyped
  <2>7. OneActive'
    BY <1>a, <2>6 DEF OneActive
  <2> HIDE DEF swept
  <2>8. \A m \in inbox' : m.session <= newest'
    <3> TAKE m \in inbox'
    <3>1. m.session \in 0..MaxSessions /\ m.session <= newest
      BY <1>0, HandlerFacts, KycSessionsAssumption DEF RestTyped, OnlyBegun, Blocked, Message, Sessions
    <3> QED
      BY <1>3, <3>1, HandlerFacts
  <2>9. OnlyBegun'
    BY <1>a, <2>1, <2>4, <2>5, <2>6, <2>8 DEF OnlyBegun
  <2> QED
    BY <2>2, <2>3, <2>7, <2>9, TypesInParts
<1> QED
  BY <1>1, <1>2, <1>3 DEF StartInTx

\* Steps that change neither rows nor what Didit knows.
LEMMA QuietKept ==
  ASSUME KycInv, UNCHANGED <<didit, kycRow, newest>>, inbox' \subseteq inbox,
         HandlersFit', handler' \in [Handlers -> HandlerRecords], RestTyped'
  PROVE  KycInv'
BY TypesInParts, RowsQuiet DEF KycInv

LEMMA QuietSteps ==
  ASSUME KycInv, NEW p \in Handlers,
         \/ WriteStarted(p) \/ ClearRevoked(p) \/ RevokeCredential(p) \/ ResetCustomer(p)
         \/ Strike(p) \/ EnqueuePipeline(p) \/ HandlerDies(p)
  PROVE  KycInv'
<1> USE DEF KycInv
<1>1. CASE WriteStarted(p)
  <2>1. UNCHANGED <<didit, inbox, kycRow, newest, customer, credential, cut, queue, kycFaults>>
        /\ audit' = audit \cup {"started"} /\ (Finish(p) \/ HandlerAt(p, "clear"))
    BY <1>1 DEF WriteStarted
  <2>2. HandlersFit' /\ handler' \in [Handlers -> HandlerRecords]
    BY <2>1, HandlerFacts, EndFits DEF Pcs
  <2>3. RestTyped'
    BY <2>1, HandlerFacts DEF RestTyped
  <2> QED
    BY <2>1, <2>2, <2>3, QuietKept
<1>2. CASE ClearRevoked(p)
  <2>1. UNCHANGED <<didit, inbox, kycRow, newest, credential, cut, queue, audit, kycFaults>>
        /\ customer' = [customer EXCEPT !.revoked = FALSE] /\ Finish(p)
    BY <1>2 DEF ClearRevoked
  <2>2. HandlersFit' /\ handler' \in [Handlers -> HandlerRecords]
    BY <2>1, HandlerFacts, EndFits
  <2>3. RestTyped'
    BY <2>1, HandlerFacts DEF RestTyped
  <2> QED
    BY <2>1, <2>2, <2>3, QuietKept
<1>3. CASE RevokeCredential(p)
  <2>1. UNCHANGED <<didit, inbox, kycRow, newest, customer, queue, audit>>
        /\ (Finish(p) \/ HandlerAt(p, "reset"))
    BY <1>3 DEF RevokeCredential
  <2>2. HandlersFit' /\ handler' \in [Handlers -> HandlerRecords]
    BY <2>1, HandlerFacts, EndFits DEF Pcs
  <2>3. kycFaults' \in 0..MaxKycFaults
    BY <1>3, HandlerFacts, FaultTyped DEF RevokeCredential, RestTyped
  <2>4. cut' \in 0..MaxSessions /\ credential' \in {"none", "active", "revoked"}
    BY <1>3, HandlerFacts DEF RevokeCredential, RestTyped
  <2>5. RestTyped'
    BY <2>1, <2>3, <2>4, HandlerFacts DEF RestTyped
  <2> QED
    BY <2>1, <2>2, <2>5, QuietKept
<1>4. CASE ResetCustomer(p)
  <2>1. UNCHANGED <<didit, inbox, kycRow, newest, credential, cut, queue, audit, kycFaults>>
        /\ HandlerAt(p, "sweep")
    BY <1>4 DEF ResetCustomer
  <2>2. HandlersFit' /\ handler' \in [Handlers -> HandlerRecords]
    BY <2>1, HandlerFacts, EndFits DEF Pcs
  <2>3. customer' \in [verified : BOOLEAN, revoked : BOOLEAN, declines : Nat]
    BY <1>4, HandlerFacts DEF ResetCustomer, RestTyped
  <2>4. RestTyped'
    BY <2>1, <2>3, HandlerFacts DEF RestTyped
  <2> QED
    BY <2>1, <2>2, <2>4, QuietKept
<1>5. CASE Strike(p)
  <2>1. UNCHANGED <<didit, inbox, kycRow, newest, credential, cut, queue, audit, kycFaults>>
        /\ customer' = [customer EXCEPT !.declines = @ + 1] /\ Finish(p)
    BY <1>5 DEF Strike
  <2>2. HandlersFit' /\ handler' \in [Handlers -> HandlerRecords]
    BY <2>1, HandlerFacts, EndFits
  <2>3. RestTyped'
    BY <2>1, HandlerFacts DEF RestTyped
  <2> QED
    BY <2>1, <2>2, <2>3, QuietKept
<1>6. CASE EnqueuePipeline(p)
  <2>1. UNCHANGED <<didit, inbox, kycRow, newest, customer, credential, cut, audit, kycFaults>>
        /\ queue' = queue \cup {handler[p].session} /\ Finish(p) /\ handler[p].session \in Sessions
    BY <1>6 DEF EnqueuePipeline, HandlersFit
  <2>2. HandlersFit' /\ handler' \in [Handlers -> HandlerRecords]
    BY <2>1, HandlerFacts, EndFits
  <2>3. RestTyped'
    BY <2>1, HandlerFacts DEF RestTyped
  <2> QED
    BY <2>1, <2>2, <2>3, QuietKept
<1>7. CASE HandlerDies(p)
  <2>1. UNCHANGED <<didit, inbox, kycRow, newest, customer, credential, cut, queue, audit>>
        /\ Fault("die") /\ Finish(p)
    BY <1>7 DEF HandlerDies
  <2>2. HandlersFit' /\ handler' \in [Handlers -> HandlerRecords]
    BY <2>1, HandlerFacts, EndFits
  <2>3. RestTyped'
    BY <2>1, HandlerFacts, FaultTyped DEF RestTyped
  <2> QED
    BY <2>1, <2>2, <2>3, QuietKept
<1> QED
  BY <1>1, <1>2, <1>3, <1>4, <1>5, <1>6, <1>7

\* A handler that writes rows: none appears, and at most one is active.
LEMMA WriteKept ==
  ASSUME KycInv, UNCHANGED <<didit, newest>>, inbox' \subseteq inbox,
         HandlersFit', handler' \in [Handlers -> HandlerRecords], RestTyped',
         \A s \in Sessions : kycRow'[s] = "absent" <=> kycRow[s] = "absent",
         OneActive'
  PROVE  KycInv'
BY TypesInParts DEF KycInv, OnlyBegun

\* A session with a message, or in a handler that writes it, has a row.
LEMMA BegunHasRow ==
  ASSUME KycInv, NEW s \in Sessions, s <= newest
  PROVE  kycRow[s] # "absent"
<1>1. ~(s > newest)
  BY HandlerFacts DEF Sessions
<1> QED
  BY <1>1 DEF KycInv, OnlyBegun

LEMMA ConsumeTyped ==
  ASSUME RestTyped, NEW m, Consume(m)
  PROVE  inbox' \subseteq inbox /\ kycFaults' \in 0..MaxKycFaults
BY FaultTyped DEF Consume, RestTyped

LEMMA ReceiveKept ==
  ASSUME KycInv, NEW p \in Handlers,
         ReceiveBlock(p) \/ \E m \in inbox : ReceiveDecision(p, m)
  PROVE  KycInv'
<1> USE DEF KycInv
<1>1. CASE ReceiveBlock(p)
  <2>1. /\ UNCHANGED <<didit, kycRow, newest, customer, credential, cut, queue, audit>>
        /\ Consume(Blocked) /\ (Do(p, "revoke", 0, "blocked") \/ UNCHANGED handler)
    BY <1>1 DEF ReceiveBlock
  <2>2. inbox' \subseteq inbox /\ kycFaults' \in 0..MaxKycFaults
    BY <2>1, HandlerFacts, ConsumeTyped
  <2>3. RestTyped'
    BY <2>1, <2>2, HandlerFacts DEF RestTyped
  <2>4. HandlersFit' /\ handler' \in [Handlers -> HandlerRecords]
    <3>1. CASE Do(p, "revoke", 0, "blocked")
      BY <2>1, <3>1, HandlerFacts, DoFits DEF Pcs, Says
    <3>2. CASE UNCHANGED handler
      BY <2>1, <3>2, HandlerFacts DEF HandlersFit
    <3> QED
      BY <2>1, <3>1, <3>2
  <2> QED
    BY <2>1, <2>2, <2>3, <2>4, QuietKept
<1>2. ASSUME NEW m \in inbox, ReceiveDecision(p, m)
      PROVE  KycInv'
  <2>0. m.session \in Sessions /\ m.decision \in Decisions /\ m.session <= newest
    BY <1>2, HandlerFacts DEF ReceiveDecision, RestTyped, OnlyBegun
  <2> DEFINE new == [kycRow EXCEPT ![m.session] = Mapped(m.decision)]
  <2>1. /\ Fits(new) /\ kycRow' = new /\ Consume(m)
        /\ UNCHANGED <<didit, newest, customer, credential, cut, queue, audit>>
    BY <1>2 DEF ReceiveDecision
  <2>2. \/ \E pc \in {"strike", "enqueue", "revoke"} : Do(p, pc, m.session, m.decision)
        \/ UNCHANGED handler
    BY <1>2 DEF ReceiveDecision
  <2>3. /\ new \in [Sessions -> KycStatuses]
        /\ \A s \in Sessions : new[s] = "absent" <=> kycRow[s] = "absent"
    BY <2>0, BegunHasRow, WrittenIsStatus, HandlerFacts DEF RestTyped
  <2> HIDE DEF new
  <2>4. OneActive'
    BY <2>1, <2>3, FitsIsOneActive DEF OneActive
  <2>5. inbox' \subseteq inbox /\ kycFaults' \in 0..MaxKycFaults
    BY <2>1, HandlerFacts, ConsumeTyped
  <2>6. RestTyped'
    BY <2>1, <2>3, <2>5, HandlerFacts DEF RestTyped
  <2>7. HandlersFit' /\ handler' \in [Handlers -> HandlerRecords]
    <3>0. m.session \in 0..newest /\ m.decision \in Says
      BY <2>0, HandlerFacts DEF Sessions, Says
    <3>1. CASE UNCHANGED handler
      BY <2>1, <3>1, HandlerFacts DEF HandlersFit
    <3>2. ASSUME NEW pc \in {"strike", "enqueue", "revoke"}, Do(p, pc, m.session, m.decision)
          PROVE  HandlersFit' /\ handler' \in [Handlers -> HandlerRecords]
      <4>1. pc \in Pcs /\ pc \notin {"pull", "resume", "reconcile"}
        BY DEF Pcs
      <4> QED
        BY <2>0, <2>1, <3>0, <3>2, <4>1, HandlerFacts, DoFits
    <3> QED
      BY <2>2, <3>1, <3>2
  <2> QED
    BY <2>1, <2>3, <2>4, <2>5, <2>6, <2>7, WriteKept
<1> QED
  BY <1>1, <1>2

LEMMA ReadsKept ==
  ASSUME KycInv,
         \/ \E p \in Handlers, s \in Sessions : Pull(p, s) \/ Resume(p, s)
         \/ Reconcile \/ ReverseDrift
  PROVE  KycInv'
<1> USE DEF KycInv
<1> DEFINE Reads(p, pc, s, d) ==
      /\ Do(p, pc, s, d)
      /\ pc = "sweep" => s = 0
      /\ pc # "sweep" => /\ s \in Sessions /\ kycRow[s] # "absent"
                         /\ d \in {"created", "gone", "overdue"} \cup Decisions
      /\ UNCHANGED <<didit, inbox, kycRow, newest, customer, credential, cut, queue, audit, kycFaults>>
<1>0. /\ Worker \in Handlers /\ Sessions \subseteq 0..MaxSessions /\ 0 \in 0..MaxSessions
      /\ Decisions \subseteq Says /\ {"created", "gone", "overdue", "drift"} \subseteq Says
  BY KycSessionsAssumption DEF Handlers, Sessions, Says
<1>a. \A s \in Sessions : kycRow[s] # "absent" =>
        didit[s] \in {"created", "gone", "overdue"} \cup Decisions
  <2> SUFFICES ASSUME NEW s \in Sessions, kycRow[s] # "absent"
               PROVE  didit[s] \in {"created", "gone", "overdue"} \cup Decisions
    OBVIOUS
  <2>1. didit[s] # "none"
    BY DEF OnlyBegun
  <2> QED
    BY <2>1, HandlerFacts DEF RestTyped
<1>b. ASSUME NEW p \in Handlers, NEW s \in Sessions, Pull(p, s)
      PROVE  Reads(p, "pull", s, didit[s])
  BY <1>b, <1>a, StatusFacts DEF Pull
<1>c. ASSUME NEW p \in Handlers, NEW s \in Sessions, Resume(p, s)
      PROVE  \E d \in Says : Reads(p, "resume", s, d)
  <2>1. kycRow[s] # "absent"
    BY <1>c DEF Resume
  <2>2. \E d \in {"overdue", didit[s]} : Do(p, "resume", s, d)
    BY <1>c DEF Resume
  <2>3. UNCHANGED <<didit, inbox, kycRow, newest, customer, credential, cut, queue, audit, kycFaults>>
    BY <1>c DEF Resume
  <2> HIDE DEF Reads
  <2>4. ASSUME NEW d \in {"created", "gone", "overdue"} \cup Decisions, Do(p, "resume", s, d)
        PROVE  Reads(p, "resume", s, d)
    BY <2>1, <2>3, <2>4 DEF Reads
  <2> QED
    BY <1>0, <1>a, <2>1, <2>2, <2>4
<1>d. ASSUME Reconcile
      PROVE  newest \in Sessions /\ Reads(Worker, "reconcile", newest, didit[newest])
  <2>1. newest \in Sessions /\ ~(newest > newest)
    BY <1>d, HandlerFacts, KycSessionsAssumption DEF Reconcile, RestTyped, Sessions
  <2>2. kycRow[newest] # "absent"
    BY <2>1 DEF OnlyBegun
  <2> QED
    BY <1>d, <1>a, <2>1, <2>2 DEF Reconcile
<1>e. ASSUME ReverseDrift
      PROVE  Reads(Worker, "sweep", 0, "drift")
  BY <1>e DEF ReverseDrift
<1> HIDE DEF Reads
<1>f. \E p \in Handlers, pc \in {"pull", "resume", "reconcile", "sweep"}, s \in 0..MaxSessions,
         d \in Says : Reads(p, pc, s, d)
  <2>1. ASSUME NEW p \in Handlers, NEW s \in Sessions, Pull(p, s)
        PROVE  <1>f
    <3>1. Do(p, "pull", s, didit[s]) /\ Reads(p, "pull", s, didit[s]) /\ didit[s] \in Says
      BY <1>0, <1>a, <1>b, <2>1, StatusFacts DEF Pull
    <3> QED
      BY <1>0, <3>1
  <2>2. ASSUME NEW p \in Handlers, NEW s \in Sessions, Resume(p, s)
        PROVE  <1>f
    BY <1>0, <1>c, <2>2
  <2>3. ASSUME Reconcile
        PROVE  <1>f
    <3>1. newest \in Sessions /\ Reads(Worker, "reconcile", newest, didit[newest])
      BY <1>d, <2>3
    <3>2. didit[newest] \in Says
      BY <1>0, <1>a, <3>1 DEF Reads
    <3> QED
      BY <1>0, <3>1, <3>2
  <2>4. ASSUME ReverseDrift
        PROVE  <1>f
    BY <1>0, <1>e, <2>4
  <2> QED
    BY <2>1, <2>2, <2>3, <2>4
<1>1. PICK p \in Handlers, pc \in {"pull", "resume", "reconcile", "sweep"}, s \in 0..MaxSessions,
           d \in Says : Reads(p, pc, s, d)
  BY <1>f
<1> USE DEF Reads
<1>2. s \in 0..newest
  <2>1. CASE pc = "sweep"
    BY <1>1, <2>1, HandlerFacts
  <2>2. CASE pc # "sweep"
    <3>1. s \in Sessions /\ ~(s > newest)
      BY <1>1, <2>2 DEF OnlyBegun
    <3> QED
      BY <3>1, HandlerFacts DEF Sessions
  <2> QED
    BY <2>1, <2>2
<1>3. HandlersFit' /\ handler' \in [Handlers -> HandlerRecords]
  <2>1. pc \in Pcs /\ pc # "enqueue"
    BY DEF Pcs
  <2> QED
    BY <1>1, <1>2, <2>1, HandlerFacts, DoFits
<1>4. RestTyped'
  BY <1>1, HandlerFacts DEF RestTyped
<1> QED
  BY <1>1, <1>3, <1>4, QuietKept

LEMMA WritesKept ==
  ASSUME KycInv, NEW p \in Handlers,
         RevokeSessions(p) \/ WriteDecision(p) \/ WriteResumed(p)
  PROVE  KycInv'
<1> USE DEF KycInv
<1> DEFINE s == handler[p].session
           d == handler[p].decision
           new == [kycRow EXCEPT ![s] = Answer(d)]
<1>1. CASE RevokeSessions(p)
  <2>1. /\ kycRow' = RevokedIfActive(kycRow) /\ Finish(p) /\ audit' \in {audit, audit \cup {"completed"}}
        /\ UNCHANGED <<didit, inbox, newest, customer, credential, cut, queue, kycFaults>>
    BY <1>1 DEF RevokeSessions
  <2>2. /\ kycRow' \in [Sessions -> KycStatuses]
        /\ \A t \in Sessions : /\ kycRow'[t] \notin ActiveStatuses
                               /\ kycRow'[t] = "absent" <=> kycRow[t] = "absent"
    BY <2>1, StatusFacts, HandlerFacts DEF RevokedIfActive, RestTyped
  <2>3. RestTyped'
    BY <2>1, <2>2, HandlerFacts DEF RestTyped
  <2>4. HandlersFit' /\ handler' \in [Handlers -> HandlerRecords]
    BY <2>1, HandlerFacts, EndFits
  <2>5. OneActive'
    BY <2>2 DEF OneActive
  <2> QED
    BY <2>1, <2>2, <2>3, <2>4, <2>5, WriteKept
<1>2. ASSUME WriteDecision(p) \/ WriteResumed(p)
      PROVE  /\ new \in [Sessions -> KycStatuses] /\ s \in Sessions
             /\ \A t \in Sessions : new[t] = "absent" <=> kycRow[t] = "absent"
             /\ \A t \in Sessions : t # s => new[t] = kycRow[t]
             /\ UNCHANGED <<didit, inbox, newest, customer, credential, cut, queue, audit, kycFaults>>
             /\ Finish(p) \/ \E pc \in {"strike", "enqueue"} : HandlerAt(p, pc)
  <2>0. handler[p].pc \in {"pull", "resume", "reconcile"}
    BY <1>2 DEF WriteDecision, WriteResumed
  <2>1. s \in Sessions /\ d \in {"created", "gone", "overdue"} \cup Decisions
    BY <2>0 DEF HandlersFit
  <2>2. s <= newest
    BY HandlerFacts
  <2>3. Answer(d) \in KycStatuses \ {"absent"} /\ kycRow[s] # "absent"
    BY <2>1, <2>2, WrittenIsStatus, BegunHasRow
  <2>4. UNCHANGED <<didit, inbox, newest, customer, credential, cut, queue, audit, kycFaults>>
    BY <1>2 DEF WriteDecision, WriteResumed
  <2>5. Finish(p) \/ \E pc \in {"strike", "enqueue"} : HandlerAt(p, pc)
    BY <1>2 DEF WriteDecision, WriteResumed
  <2> QED
    BY <2>1, <2>3, <2>4, <2>5, HandlerFacts DEF RestTyped
<1> HIDE DEF new
<1>3. ASSUME WriteDecision(p) \/ WriteResumed(p), kycRow' \in {kycRow, new}, OneActive'
      PROVE  KycInv'
  <2>1. RestTyped'
    BY <1>2, <1>3, HandlerFacts DEF RestTyped
  <2>2. HandlersFit' /\ handler' \in [Handlers -> HandlerRecords]
    <3>1. CASE Finish(p)
      BY <1>2, <1>3, <3>1, HandlerFacts, EndFits
    <3>2. ASSUME NEW pc \in {"strike", "enqueue"}, HandlerAt(p, pc)
          PROVE  HandlersFit' /\ handler' \in [Handlers -> HandlerRecords]
      <4>1. pc \in Pcs /\ pc \notin {"pull", "resume", "reconcile"}
        BY DEF Pcs
      <4> QED
        BY <1>2, <1>3, <3>2, <4>1, HandlerFacts, EndFits
    <3> QED
      BY <1>2, <1>3, <3>1, <3>2
  <2> QED
    BY <1>2, <1>3, <2>1, <2>2, WriteKept
<1>4. CASE WriteDecision(p)
  <2>1. kycRow' = kycRow \/ (kycRow' = new /\ kycRow[s] \in ActiveStatuses)
    BY <1>4 DEF WriteDecision, Overwritable, new
  <2>2. OneActive'
    BY <1>2, <1>4, <2>1 DEF OneActive
  <2> QED
    BY <1>3, <1>4, <2>1, <2>2
<1>5. CASE WriteResumed(p)
  <2>1. kycRow' = kycRow \/ (kycRow' = new /\ Fits(new))
    BY <1>5 DEF WriteResumed, new
  <2>2. OneActive'
    BY <1>2, <1>5, <2>1, FitsIsOneActive DEF OneActive
  <2> QED
    BY <1>3, <1>5, <2>1, <2>2
<1> QED
  BY <1>1, <1>4, <1>5

LEMMA KycStep ==
  ASSUME KycInv, [KycNext]_kycVars
  PROVE  KycInv'
<1>0. KycRequests \subseteq Handlers
  BY DEF Handlers
<1>1. CASE \/ \E s \in Sessions : (\E d \in Verdicts : DiditDecides(s, d)) \/ Forget(s) \/ Mint(s)
           \/ BlockUser
  BY <1>1, OutsideSteps
<1>3. CASE \E p \in KycRequests : Start(p) \/ ReceiveBlock(p) \/ \E m \in inbox : ReceiveDecision(p, m)
  BY <1>0, <1>3, StartKept, ReceiveKept
<1>4. CASE (\E p \in KycRequests, s \in Sessions : Pull(p, s) \/ Resume(p, s)) \/ Reconcile \/ ReverseDrift
  BY <1>0, <1>4, ReadsKept
<1>5. CASE \E p \in Handlers : HandlerStep(p) \/ HandlerDies(p)
  BY <1>5, StartInTxKept, QuietSteps, WritesKept DEF HandlerStep
<1>6. CASE UNCHANGED kycVars
  BY <1>6 DEF kycVars, KycInv, KycSessionsTypeOK, HandlersFit, OnlyBegun, OneActive
<1> QED
  BY <1>1, <1>3, <1>4, <1>5, <1>6 DEF KycNext

-----------------------------------------------------------------------------
(* The theorems.                                                           *)

LEMMA KycStarts ==
  ASSUME KycInit
  PROVE  KycInv
<1>1. handler \in [Handlers -> HandlerRecords]
  BY NewHandlers DEF KycInit
<1>2. RestTyped
  BY KycSessionsAssumption DEF KycInit, RestTyped, KycStatuses
<1>3. HandlersFit
  BY DEF KycInit, IdleHandler, HandlersFit
<1>4. OnlyBegun /\ OneActive
  <2>1. \A s \in Sessions : s > newest /\ kycRow[s] = "absent" /\ didit[s] = "none"
    BY KycSessionsAssumption DEF KycInit, Sessions
  <2> QED
    BY <2>1, StatusFacts, KycSessionsAssumption DEF KycInit, OnlyBegun, OneActive
<1> QED
  BY <1>1, <1>2, <1>3, <1>4, TypesInParts DEF KycInv

LEMMA KycInvHolds == KycSpec => []KycInv
BY KycStarts, KycStep, PTL DEF KycSpec

(* Sessions, messages, handlers and the customer keep their types.         *)
THEOREM KycSessionTypes == KycSpec => []KycSessionsTypeOK
<1>1. KycInv => KycSessionsTypeOK
  BY DEF KycInv
<1> QED
  BY <1>1, KycInvHolds, PTL

(* kyc_sessions_customer_workflow_active_key never fails the insert of a   *)
(* start or the update of a pull, which do not look for it: whatever       *)
(* requests, webhooks and passes interleave, one session at most is active.*)
THEOREM OneActiveSession == KycSpec => []Fits(kycRow)
<1>1. KycInv => Fits(kycRow)
  BY FitsIsOneActive DEF KycInv, OneActive, KycSessionsTypeOK
<1> QED
  BY <1>1, KycInvHolds, PTL

(* A closed session is opened again by a webhook under way or by a resume  *)
(* that has read it, and by no pull, pass or start, whatever they read.    *)
THEOREM ReopenedByDiditOnly == KycSpec => OnlyDiditReopens
<1>1. ASSUME KycInv, [KycNext]_kycVars
      PROVE  [\A s \in Sessions :
                kycRow[s] \in Closed /\ kycRow'[s] \in ActiveStatuses =>
                  \/ \E m \in inbox : m.session = s
                  \/ \E p \in Handlers : handler[p].pc = "resume" /\ handler[p].session = s]_kycVars
  <2> SUFFICES ASSUME KycNext, NEW s \in Sessions, kycRow[s] \in Closed, kycRow'[s] \in ActiveStatuses
               PROVE  \/ \E m \in inbox : m.session = s
                      \/ \E p \in Handlers : handler[p].pc = "resume" /\ handler[p].session = s
    BY <1>1
  <2> USE <1>1 DEF KycInv
  <2>0. /\ kycRow[s] \notin ActiveStatuses /\ kycRow'[s] # kycRow[s] /\ kycRow[s] # "absent"
        /\ kycRow \in [Sessions -> KycStatuses]
    BY StatusFacts, HandlerFacts DEF RestTyped
  <2>1. ASSUME NEW p \in Handlers, StartInTx(p)
        PROVE  FALSE
    <3> DEFINE swept == [t \in Sessions |->
                          IF t \in {u \in Sessions : kycRow[u] \in ActiveStatuses} THEN "expired" ELSE kycRow[t]]
    <3>1. swept[s] = kycRow[s]
      BY <2>0
    <3>2. kycRow' = swept \/ (kycRow' = [swept EXCEPT ![newest'] = "pending"] /\ newest' = newest + 1)
      BY <2>0, <2>1 DEF StartInTx
    <3>3. s # newest + 1
      <4>1. ~(s > newest)
        BY <2>0 DEF OnlyBegun
      <4> QED
        BY <4>1, HandlerFacts DEF Sessions
    <3>4. swept \in [Sessions -> KycStatuses]
      BY <2>0, StatusFacts
    <3> HIDE DEF swept
    <3> QED
      BY <2>0, <3>1, <3>2, <3>3, <3>4
  <2>2. ASSUME NEW p \in Handlers, NEW m \in inbox, ReceiveDecision(p, m)
        PROVE  m.session = s
    BY <2>0, <2>2 DEF ReceiveDecision
  <2>3. ASSUME NEW p \in Handlers, RevokeSessions(p)
        PROVE  FALSE
    BY <2>0, <2>3 DEF RevokeSessions, RevokedIfActive
  <2>4. ASSUME NEW p \in Handlers, WriteDecision(p)
        PROVE  FALSE
    BY <2>0, <2>4 DEF WriteDecision, Overwritable
  <2>5. ASSUME NEW p \in Handlers, WriteResumed(p)
        PROVE  handler[p].pc = "resume" /\ handler[p].session = s
    BY <2>0, <2>5 DEF WriteResumed
  <2> DEFINE Writing ==
        \E p \in Handlers : \/ StartInTx(p) \/ RevokeSessions(p) \/ WriteDecision(p)
                            \/ WriteResumed(p)
                            \/ \E m \in inbox : ReceiveDecision(p, m)
  <2>6. Writing
    <3>1. SUFFICES ASSUME ~Writing
                   PROVE  kycRow' = kycRow
      BY <2>0
    <3>2. KycRequests \subseteq Handlers
      BY DEF Handlers
    <3>3. CASE \E t \in Sessions : (\E d \in Verdicts : DiditDecides(t, d)) \/ Forget(t) \/ Mint(t)
      BY <3>3 DEF DiditDecides, Forget, Mint
    <3>4. CASE BlockUser \/ Reconcile \/ ReverseDrift
      BY <3>4 DEF BlockUser, Reconcile, ReverseDrift
    <3>5. CASE \E p \in KycRequests :
                 \/ Start(p) \/ ReceiveBlock(p) \/ \E m \in inbox : ReceiveDecision(p, m)
                 \/ \E t \in Sessions : Pull(p, t) \/ Resume(p, t)
      BY <3>1, <3>2, <3>5 DEF Start, ReceiveBlock, Pull, Resume
    <3>6. CASE \E p \in Handlers : HandlerStep(p) \/ HandlerDies(p)
      BY <3>1, <3>6 DEF HandlerStep, HandlerDies, WriteStarted, ClearRevoked, RevokeCredential,
                        ResetCustomer, Strike, EnqueuePipeline
    <3> QED
      BY <3>3, <3>4, <3>5, <3>6 DEF KycNext
  <2> QED
    BY <2>1, <2>2, <2>3, <2>4, <2>5, <2>6
<1> QED
  BY <1>1, KycInvHolds, PTL DEF KycSpec, OnlyDiditReopens
==============================================================================
