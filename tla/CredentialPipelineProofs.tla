----------------------- MODULE CredentialPipelineProofs -----------------------
(***************************************************************************)
(* For any number of workers, sessions, wallets, retries, faults and       *)
(* interventions: the type invariant of CredentialPipeline, that a level   *)
(* is backed by a row, that no credential is split, that an address        *)
(* session mints once, that a ban is final, that the chain backs the live  *)
(* row and that a recorded token exists, and that the pipeline's steps are *)
(* the ledger's and its table one slot.  No fault or actor is excluded:    *)
(* what refutes one of them is named in the property, by the histories     *)
(* raced, disturbed and doubled.                                           *)
(*                                                                         *)
(* The argument: rows are inserted and rewritten but never deleted, and    *)
(* only an insertion adds a live one (RowsKept, NoneInserted).  A worker   *)
(* relies on little of what it has read (Fits): on its wallet, and for an  *)
(* upgrade on the record its wallet has on the chain.  A worker alone on    *)
(* its session may rely on what the replay guard saw (Fresh), and while    *)
(* nothing has disturbed it also on what the rows and the chain were       *)
(* (Standing).                                                             *)
(***************************************************************************)
EXTENDS CredentialPipeline, TableRows, TLAPS

-----------------------------------------------------------------------------
(* PipelineTypeOK in parts; n bounds the indices of rows that are kept.    *)

CustomerTypes ==
  /\ account \in [status : {"active", "banned"}, level : {"kyc_0", "kyc_3", "kyc_4"}]
  /\ wallet \in Users \cup {NoWallet}
  /\ session \in [Sessions -> {"none", "started", "approved", "expired", "revoked"}]
  /\ latest \in Sessions \cup {NoSession}
  /\ decided \subseteq Sessions
  /\ audit \subseteq {"started", "completed", "reset"}

JobTypes == job \in [Jobs -> [at : {"none", "queued"} \cup Workers, tries : 0..RetryLimit]]

WorkerRecords(n) ==
  [pc : PastGate \cup {"idle", "customer"}, session : Sessions \cup {NoSession},
   copy : 0..MaxCopies, wallet : Users \cup {NoWallet}, old : 0..n]
AdminRecords(n) ==
  [op : {"none", "ban", "reset"}, row : 0..n, burn : BOOLEAN,
   pc : {"idle", "select", "chain", "row", "patch", "sessions"}]
MinterRecords(n) ==
  [pc : {"idle", "mint", "claim"}, row : 0..n, wallet : Users \cup {NoWallet}]

OtherTypes(n) ==
  /\ admin \in AdminRecords(n) /\ expirer \in 0..n /\ minter \in MinterRecords(n)
Counts ==
  faults \in 0..MaxFaults /\ interventions \in 0..MaxInterventions /\ raced \in BOOLEAN

HistoryTypes == disturbed \in BOOLEAN /\ doubled \subseteq Sessions

RestTypes(n) ==
  /\ LedgerTypeOK /\ CustomerTypes /\ JobTypes /\ worker \in [Workers -> WorkerRecords(n)]
  /\ OtherTypes(n) /\ Counts /\ HistoryTypes

LEMMA TypesInParts == PipelineTypeOK <=> rows \in Seq(Row) /\ RestTypes(Len(rows))
  BY DEF PipelineTypeOK, RestTypes, CustomerTypes, JobTypes, WorkerRecords, AdminRecords,
         MinterRecords, OtherTypes, Counts, HistoryTypes

\* What a worker relies on between its steps; st is the chain's status of users.
Walleted == {"check", "issue", "find", "flip", "insert", "compensate"}
Fits(x, st) ==
  /\ x.pc # "idle" => x.session \in Sessions /\ x.copy \in Copies
  /\ x.pc \in Walleted => x.wallet \in Users
  /\ x.pc = "issue" /\ x.session \in Address => st[x.wallet] # "None"

WorkersFit == \A w \in Workers : Fits(worker[w], status)
OthersFit ==
  /\ admin.pc = "idle" <=> admin.op = "none"
  /\ admin.pc \in {"chain", "row"} => admin.row \in DOMAIN rows
  /\ expirer # 0 => expirer \in DOMAIN rows
  /\ minter.pc # "idle" => minter.wallet \in Users /\ minter.row \in DOMAIN rows

\* An address that holds no contents has no record.
LedgerFits == \A u \in Users : content[u] = NoContent => status[u] = "None"

PipelineInv == PipelineTypeOK /\ WorkersFit /\ OthersFit /\ LedgerFits

-----------------------------------------------------------------------------
(* Rows.                                                                   *)

LEMMA RowFacts ==
  ASSUME rows \in Seq(Row)
  PROVE  /\ Len(rows) \in Nat /\ DOMAIN rows = 1..Len(rows) /\ rows \in [DOMAIN rows -> Row]
         /\ \A i \in DOMAIN rows : rows[i] \in Row
         /\ Live \subseteq DOMAIN rows
         /\ Live # {} => LiveRow \in Live
         /\ LiveRow \in 0..Len(rows)
<1>1. Len(rows) \in Nat /\ DOMAIN rows = 1..Len(rows) /\ rows \in [DOMAIN rows -> Row]
  BY LenProperties
<1>2. Live \subseteq DOMAIN rows /\ (Live # {} => LiveRow \in Live)
  BY DEF Live, LiveRow
<1>3. Live = {} => LiveRow = 0
  BY DEF LiveRow
<1> QED
  BY <1>1, <1>2, <1>3

\* What every step leaves of the rows.
RowsKept ==
  /\ rows' \in Seq(Row) /\ Len(rows) <= Len(rows') /\ DOMAIN rows \subseteq DOMAIN rows'
  /\ \A i \in DOMAIN rows :
       /\ rows'[i].session = rows[i].session /\ rows'[i].level = rows[i].level
       /\ rows'[i].wallet = rows[i].wallet

\* And every step but an insertion.
NoneInserted == RowsKept /\ DOMAIN rows' = DOMAIN rows /\ Live' \subseteq Live

\* And every step but a claim.
TokensKept == \A i \in DOMAIN rows : rows'[i].nft = rows[i].nft

LEMMA RowsUntouched ==
  ASSUME rows \in Seq(Row), rows' = rows
  PROVE  NoneInserted /\ TokensKept
<1>1. Len(rows) \in Nat /\ Live' = Live
  BY RowFacts DEF Live
<1> QED
  BY <1>1 DEF NoneInserted, RowsKept, TokensKept

LEMMA RowRewritten ==
  ASSUME rows \in Seq(Row), NEW i \in DOMAIN rows, NEW r \in Row,
         r.session = rows[i].session, r.level = rows[i].level, r.wallet = rows[i].wallet,
         r.status = "active" => rows[i].status = "active",
         rows' = [rows EXCEPT ![i] = r]
  PROVE  /\ NoneInserted
         /\ \A j \in DOMAIN rows : rows'[j] = IF j = i THEN r ELSE rows[j]
<1>1. rows' \in [DOMAIN rows -> Row]
  BY RowFacts
<1>2. rows' \in Seq(Row) /\ Len(rows') = Len(rows) /\ DOMAIN rows' = DOMAIN rows
  BY <1>1, RewrittenRows
<1>3. \A j \in DOMAIN rows : rows'[j] = IF j = i THEN r ELSE rows[j]
  BY RowFacts
<1>4. Len(rows) \in Nat
  BY RowFacts
<1>5. Live' \subseteq Live
  BY <1>2, <1>3 DEF Live
<1> QED
  BY <1>2, <1>3, <1>4, <1>5 DEF NoneInserted, RowsKept

\* An UPDATE of a row's status.
LEMMA StatusSet ==
  ASSUME rows \in Seq(Row), NEW i \in DOMAIN rows,
         NEW st \in {"superseded", "revoked", "expired"}, SetRow(i, st)
  PROVE  NoneInserted /\ i \notin Live' /\ TokensKept
<1> DEFINE r == [rows[i] EXCEPT !.status = st]
<1>1. rows[i] \in Row
  BY RowFacts
<1>2. /\ r \in Row /\ r.session = rows[i].session /\ r.level = rows[i].level
      /\ r.wallet = rows[i].wallet /\ r.nft = rows[i].nft /\ r.status = st /\ st # "active"
  BY <1>1 DEF Row
<1>3. rows' = [rows EXCEPT ![i] = r]
  BY DEF SetRow
<1>4. NoneInserted /\ \A j \in DOMAIN rows : rows'[j] = IF j = i THEN r ELSE rows[j]
  BY <1>2, <1>3, RowRewritten
<1>5. i \notin Live'
  BY <1>2, <1>4 DEF Live
<1>6. TokensKept
  BY <1>2, <1>4 DEF TokensKept
<1> QED
  BY <1>4, <1>5, <1>6

LEMMA TokenClaimed ==
  ASSUME rows \in Seq(Row), NEW i \in DOMAIN rows, Claim(i)
  PROVE  /\ NoneInserted
         /\ \A j \in DOMAIN rows : rows'[j].nft = rows[j].nft \/ (j = i /\ Mintable(i))
<1> DEFINE r == [rows[i] EXCEPT !.nft = TRUE]
<1>1. rows[i] \in Row
  BY RowFacts
<1>2. /\ r \in Row /\ r.session = rows[i].session /\ r.level = rows[i].level
      /\ r.wallet = rows[i].wallet /\ r.status = rows[i].status
  BY <1>1 DEF Row
<1>3. CASE Mintable(i)
  <2>1. rows' = [rows EXCEPT ![i] = r]
    BY <1>3 DEF Claim
  <2>2. NoneInserted /\ \A j \in DOMAIN rows : rows'[j] = IF j = i THEN r ELSE rows[j]
    BY <1>2, <2>1, RowRewritten
  <2> QED
    BY <1>3, <2>2
<1>4. CASE ~Mintable(i)
  BY <1>4, RowsUntouched DEF Claim, TokensKept
<1> QED
  BY <1>3, <1>4

LEMMA RowInserted ==
  ASSUME rows \in Seq(Row), NEW w \in Workers, worker[w].session \in Sessions,
         worker[w].wallet \in Users, rows' = Append(rows, NewRow(w))
  PROVE  /\ RowsKept
         /\ DOMAIN rows' = DOMAIN rows \cup {Len(rows) + 1}
         /\ rows'[Len(rows) + 1] = NewRow(w)
         /\ \A i \in DOMAIN rows : rows'[i] = rows[i] /\ i # Len(rows) + 1
<1>1. NewRow(w) \in Row
  BY DEF NewRow, Row, Level
<1>2. /\ rows' \in Seq(Row) /\ Len(rows') = Len(rows) + 1
      /\ DOMAIN rows' = DOMAIN rows \cup {Len(rows) + 1}
      /\ rows'[Len(rows) + 1] = NewRow(w)
      /\ \A i \in DOMAIN rows : rows'[i] = rows[i] /\ i # Len(rows) + 1
  BY <1>1, AppendedRows
<1>3. Len(rows) \in Nat
  BY RowFacts
<1> QED
  BY <1>2, <1>3 DEF RowsKept

-----------------------------------------------------------------------------
(* The ledger, the job and the worker, one step.                           *)

\* Records are never erased and, unless there is one, never enhanced.
LedgerKept ==
  /\ LedgerTypeOK' /\ LedgerFits'
  /\ \A u \in Users : status[u] # "None" => status'[u] # "None"
  /\ \A u \in Users : content[u] = NoContent => content'[u] # "enhanced"

LEMMA LedgerUntouched ==
  ASSUME PipelineInv, UNCHANGED ledgerVars
  PROVE  LedgerKept
<1>1. NoContent \notin Contents /\ "enhanced" \in Contents
  BY LedgerAssumption, PipelineAssumption
<1> QED
  BY <1>1 DEF PipelineInv, PipelineTypeOK, LedgerTypeOK, LedgerFits, LedgerKept, ledgerVars

LEMMA CredentialIssued ==
  ASSUME PipelineInv, NEW u \in Users, NEW c \in Contents,
         c = "enhanced" => status[u] # "None", Issue(u, c)
  PROVE  LedgerKept
<1>1. NoContent \notin Contents /\ "enhanced" \in Contents
  BY LedgerAssumption, PipelineAssumption
<1>2. LedgerTypeOK'
  BY DEF PipelineInv, PipelineTypeOK, LedgerTypeOK, Issue
<1>3. /\ status'[u] = "Active" /\ content'[u] = c
      /\ \A v \in Users : v # u => status'[v] = status[v] /\ content'[v] = content[v]
  BY DEF PipelineInv, PipelineTypeOK, LedgerTypeOK, Issue
<1> QED
  BY <1>1, <1>2, <1>3 DEF PipelineInv, LedgerFits, LedgerKept

LEMMA CredentialRevoked ==
  ASSUME PipelineInv, NEW u \in Users, NEW burn \in BOOLEAN, Revoke(u, burn)
  PROVE  LedgerKept
<1>1. NoContent \notin Contents /\ "enhanced" \in Contents
  BY LedgerAssumption, PipelineAssumption
<1>2. LedgerTypeOK'
  BY DEF PipelineInv, PipelineTypeOK, LedgerTypeOK, Revoke
<1>3. /\ status[u] # "None" /\ status'[u] = "Revoked" /\ content' = content
      /\ \A v \in Users : v # u => status'[v] = status[v]
  BY DEF PipelineInv, PipelineTypeOK, LedgerTypeOK, Revoke
<1> QED
  BY <1>1, <1>2, <1>3 DEF PipelineInv, LedgerFits, LedgerKept

LEMMA BadgeMinted ==
  ASSUME PipelineInv, NEW u \in Users, MintBadge(u)
  PROVE  LedgerKept
<1>1. NoContent \notin Contents /\ "enhanced" \in Contents
  BY LedgerAssumption, PipelineAssumption
<1>2. LedgerTypeOK' /\ UNCHANGED <<status, content>>
  BY DEF PipelineInv, PipelineTypeOK, LedgerTypeOK, MintBadge
<1> QED
  BY <1>1, <1>2 DEF PipelineInv, LedgerFits, LedgerKept

LEMMA JobRetried ==
  ASSUME JobTypes, NEW j \in Jobs, Retry(j)
  PROVE  JobTypes'
<1>1. RetryLimit \in Nat
  BY PipelineAssumption
<1> QED
  BY <1>1 DEF JobTypes, Retry

LEMMA JobEnqueued ==
  ASSUME JobTypes, NEW s \in Sessions, Enqueue(s)
  PROVE  JobTypes'
<1>1. RetryLimit \in Nat
  BY PipelineAssumption
<1>2. PICK c \in Copies : Put(<<s, c>>)
  BY DEF Enqueue, Unused
<1> DEFINE j == <<s, c>>  x == [at |-> "queued", tries |-> 0]
<1>3. j \in Jobs /\ x \in [at : {"none", "queued"} \cup Workers, tries : 0..RetryLimit]
  BY <1>1 DEF Jobs
<1>4. job' = [job EXCEPT ![j] = x]
  BY <1>2 DEF Put
<1> HIDE DEF j, x
<1> QED
  BY <1>3, <1>4 DEF JobTypes

WorkersKept(n) ==
  worker' \in [Workers -> WorkerRecords(n)] /\ \A w \in Workers : Fits(worker'[w], status')

\* The same for the worker that steps.
LEMMA WorkerMoved ==
  ASSUME PipelineInv, LedgerKept, NEW n, n = Len(rows), NEW w \in Workers,
         NEW x \in WorkerRecords(n), Fits(x, status'), worker' = [worker EXCEPT ![w] = x]
  PROVE  WorkersKept(n)
<1>1. worker \in [Workers -> WorkerRecords(n)]
  BY DEF PipelineInv, PipelineTypeOK, WorkerRecords
<1>2. worker' \in [Workers -> WorkerRecords(n)] /\ worker'[w] = x
  BY <1>1
<1>3. ASSUME NEW v \in Workers, v # w
      PROVE  Fits(worker'[v], status')
  <2>1. worker'[v] = worker[v] /\ Fits(worker[v], status)
    BY <1>1, <1>3 DEF PipelineInv, WorkersFit
  <2> QED
    BY <2>1 DEF Fits, LedgerKept, Walleted
<1> QED
  BY <1>2, <1>3 DEF WorkersKept

LEMMA WorkersUntouched ==
  ASSUME PipelineInv, LedgerKept, NEW n, n = Len(rows), worker' = worker
  PROVE  WorkersKept(n)
<1>1. worker \in [Workers -> WorkerRecords(n)]
  BY DEF PipelineInv, PipelineTypeOK, WorkerRecords
<1>2. ASSUME NEW v \in Workers
      PROVE  Fits(worker[v], status')
  BY DEF PipelineInv, WorkersFit, Fits, LedgerKept, Walleted
<1> QED
  BY <1>1, <1>2 DEF WorkersKept

LEMMA WorkerIdled ==
  ASSUME PipelineInv, LedgerKept, NEW n, n = Len(rows), NEW w \in Workers,
         worker' = [worker EXCEPT ![w] = IdleWorker]
  PROVE  WorkersKept(n)
<1>1. n \in Nat
  BY RowFacts DEF PipelineInv, PipelineTypeOK
<1>2. IdleWorker \in WorkerRecords(n) /\ Fits(IdleWorker, status')
  BY <1>1, PipelineAssumption DEF IdleWorker, WorkerRecords, Fits, Walleted
<1> QED
  BY <1>2, WorkerMoved

LEMMA WorkerWent ==
  ASSUME PipelineInv, LedgerKept, NEW n, n = Len(rows), NEW w \in Workers, NEW p \in PastGate,
         Goto(w, p), worker[w].pc # "idle",
         p \in Walleted => worker[w].wallet \in Users,
         p = "issue" /\ worker[w].session \in Address => status'[worker[w].wallet] # "None"
  PROVE  WorkersKept(n)
<1> DEFINE x == [worker[w] EXCEPT !.pc = p]
<1>1. worker[w] \in WorkerRecords(n) /\ Fits(worker[w], status)
  BY DEF PipelineInv, PipelineTypeOK, WorkerRecords, WorkersFit
<1>2. x \in WorkerRecords(n)
  BY <1>1 DEF WorkerRecords
<1>3. Fits(x, status')
  BY <1>1 DEF Fits, WorkerRecords
<1>4. worker' = [worker EXCEPT ![w] = x]
  BY DEF Goto
<1> QED
  BY <1>2, <1>3, <1>4, WorkerMoved

LEMMA WorkerFinished ==
  ASSUME PipelineInv, LedgerKept, NEW n, n = Len(rows), NEW w \in Workers,
         worker[w].pc # "idle", Finish(w) \/ Throw(w)
  PROVE  WorkersKept(n) /\ JobTypes'
<1>1. JobOf(w) \in Jobs /\ JobTypes
  BY DEF PipelineInv, PipelineTypeOK, WorkersFit, Fits, JobTypes, JobOf, Jobs
<1>2. WorkersKept(n)
  BY WorkerIdled DEF Finish, Throw
<1>3. ASSUME Finish(w)
      PROVE  JobTypes'
  BY <1>1, <1>3 DEF Finish, JobTypes
<1>4. ASSUME Throw(w)
      PROVE  JobTypes'
  BY <1>1, <1>4, JobRetried DEF Throw, JobTypes
<1> QED
  BY <1>2, <1>3, <1>4

-----------------------------------------------------------------------------
(* What every step leaves.                                                 *)

CustomerKept ==
  /\ CustomerTypes'
  /\ \/ account'.level \in {account.level, "kyc_0"}
     \/ \E i \in DOMAIN rows' : KycLevel(rows'[i].session) = account'.level

OthersKept(n) == OtherTypes(n)' /\ OthersFit'

StepKeeps(n) ==
  /\ RowsKept /\ LedgerKept /\ CustomerKept /\ JobTypes'
  /\ WorkersKept(n) /\ OthersKept(n) /\ Counts'

LEMMA CustomerUntouched ==
  ASSUME PipelineInv, UNCHANGED <<account, wallet, session, latest, decided, audit>>
  PROVE  CustomerKept
BY DEF PipelineInv, PipelineTypeOK, CustomerTypes, CustomerKept

LEMMA OthersUntouched ==
  ASSUME PipelineInv, RowsKept, NEW n, n = Len(rows), UNCHANGED <<admin, expirer, minter>>
  PROVE  OthersKept(n)
BY DEF PipelineInv, PipelineTypeOK, OthersKept, OtherTypes, OthersFit, RowsKept, AdminRecords,
       MinterRecords

Counted ==
  /\ UNCHANGED faults \/ \E f \in Faults : Fault(f)
  /\ UNCHANGED interventions \/ \E i \in Interventions : Intervene(i)
  /\ raced' \in BOOLEAN

LEMMA CountsKept ==
  ASSUME PipelineInv, Counted
  PROVE  Counts'
<1>1. MaxFaults \in Nat /\ MaxInterventions \in Nat /\ Counts
  BY PipelineAssumption DEF PipelineInv, PipelineTypeOK, Counts
<1>2. faults' \in 0..MaxFaults
  BY <1>1 DEF Counts, Counted, Fault
<1>3. interventions' \in 0..MaxInterventions
  BY <1>1 DEF Counts, Counted, Intervene
<1> QED
  BY <1>2, <1>3 DEF Counts, Counted

LEMMA Uncounted ==
  ASSUME PipelineInv, UNCHANGED <<faults, interventions, raced>>
  PROVE  Counts'
BY DEF PipelineInv, PipelineTypeOK, Counts

\* A worker that reads, or answers for its job.
LEMMA WorkerReads ==
  ASSUME PipelineInv, NEW n, n = Len(rows),
         UNCHANGED <<ledgerVars, account, wallet, session, latest, decided, audit, rows,
                     admin, expirer, minter, interventions, raced>>,
         UNCHANGED faults \/ \E f \in Faults : Fault(f)
  PROVE  RowsKept /\ LedgerKept /\ CustomerKept /\ OthersKept(n) /\ Counts'
<1>1. RowsKept
  BY RowsUntouched DEF PipelineInv, PipelineTypeOK, NoneInserted
<1>2. LedgerKept
  BY LedgerUntouched
<1>3. CustomerKept
  BY CustomerUntouched
<1>4. OthersKept(n)
  BY <1>1, OthersUntouched
<1>5. Counts'
  <2>1. raced \in BOOLEAN
    BY DEF PipelineInv, PipelineTypeOK
  <2> QED
    BY <2>1, CountsKept DEF Counted
<1> QED
  BY <1>1, <1>2, <1>3, <1>4, <1>5

-----------------------------------------------------------------------------
(* The worker.                                                             *)

LEMMA WorkerFacts ==
  ASSUME PipelineInv, NEW w \in Workers, NEW n, n = Len(rows)
  PROVE  /\ worker[w] \in WorkerRecords(n)
         /\ worker[w].pc # "idle" => /\ worker[w].session \in Sessions /\ worker[w].copy \in Copies
                                    /\ JobOf(w) \in Jobs
         /\ worker[w].pc \in Walleted => worker[w].wallet \in Users
         /\ worker[w].pc = "issue" /\ worker[w].session \in Address =>
              status[worker[w].wallet] # "None"
         /\ JobTypes /\ n \in Nat
<1>1. n \in Nat
  BY RowFacts DEF PipelineInv, PipelineTypeOK
<1> QED
  BY <1>1 DEF PipelineInv, PipelineTypeOK, WorkersFit, Fits, WorkerRecords, JobTypes, JobOf, Jobs

LEMMA TakeKeeps ==
  ASSUME PipelineInv, NEW n, n = Len(rows), NEW w \in Workers, NEW j \in Jobs, Take(w, j)
  PROVE  StepKeeps(n)
<1> DEFINE x == [IdleWorker EXCEPT !.pc = "customer", !.session = j[1], !.copy = j[2]]
<1>1. RowsKept /\ LedgerKept /\ CustomerKept /\ OthersKept(n) /\ Counts'
  BY WorkerReads DEF Take
<1>2. JobTypes'
  BY WorkerFacts DEF Take, JobTypes
<1>3. x \in WorkerRecords(n) /\ Fits(x, status')
  <2>1. IdleWorker \in WorkerRecords(n)
    BY WorkerFacts, PipelineAssumption DEF IdleWorker, WorkerRecords
  <2>2. j[1] \in Sessions /\ j[2] \in Copies /\ Copies \subseteq 0..MaxCopies
    BY PipelineAssumption DEF Jobs, Copies
  <2>3. x \in WorkerRecords(n) /\ x.pc = "customer" /\ x.session = j[1] /\ x.copy = j[2]
    BY <2>1, <2>2 DEF WorkerRecords
  <2> QED
    BY <2>2, <2>3 DEF Fits, Walleted
<1>4. WorkersKept(n)
  <2>1. worker' = [worker EXCEPT ![w] = x]
    BY DEF Take
  <2> QED
    BY <1>1, <1>3, <2>1, WorkerMoved
<1> QED
  BY <1>1, <1>2, <1>4 DEF StepKeeps

LEMMA ReadsKeep ==
  ASSUME PipelineInv, NEW n, n = Len(rows), NEW w \in Workers,
         LoadCustomer(w) \/ ReplayGuard(w) \/ ReadWallet(w) \/ CheckChain(w) \/ FindOld(w)
           \/ QueryFails(w) \/ Crash(w)
  PROVE  StepKeeps(n)
<1>1. RowsKept /\ LedgerKept /\ CustomerKept /\ OthersKept(n) /\ Counts'
  BY WorkerReads DEF LoadCustomer, ReplayGuard, ReadWallet, CheckChain, FindOld, QueryFails,
                     Crash, Fault
<1>2. /\ worker[w].pc # "idle" /\ JobTypes
      /\ worker[w].session \in Sessions /\ worker[w].copy \in Copies
  BY WorkerFacts DEF LoadCustomer, ReplayGuard, ReadWallet, CheckChain, FindOld, QueryFails,
                     Crash
<1> SUFFICES WorkersKept(n) /\ JobTypes'
  BY <1>1 DEF StepKeeps
<1>3. ASSUME Finish(w) \/ Throw(w)
      PROVE  WorkersKept(n) /\ JobTypes'
  BY <1>1, <1>2, <1>3, WorkerFinished
<1>4. ASSUME NEW p \in PastGate, Goto(w, p), UNCHANGED job,
             p \in Walleted => worker[w].wallet \in Users,
             p = "issue" => status'[worker[w].wallet] # "None"
      PROVE  WorkersKept(n) /\ JobTypes'
  <2>1. WorkersKept(n)
    BY <1>1, <1>2, <1>4, WorkerWent
  <2> QED
    BY <1>2, <1>4, <2>1 DEF JobTypes
<1>5. CASE LoadCustomer(w)
  BY <1>3, <1>4, <1>5 DEF LoadCustomer, PastGate, Walleted
<1>6. CASE ReplayGuard(w)
  <2>1. ASSUME Goto(w, "wallet"), UNCHANGED job
        PROVE  WorkersKept(n) /\ JobTypes'
    BY <1>4, <2>1 DEF PastGate, Walleted
  <2> QED
    BY <1>3, <1>6, <2>1 DEF ReplayGuard
<1>7. CASE ReadWallet(w)
  <2>1. CASE Throw(w)
    BY <1>3, <2>1
  <2>2. CASE ~Throw(w)
    <3> DEFINE x == [worker[w] EXCEPT !.wallet = wallet,
                       !.pc = IF worker[w].session \in Address THEN "check" ELSE "issue"]
    <3>1. worker' = [worker EXCEPT ![w] = x] /\ UNCHANGED job /\ wallet # NoWallet
      BY <1>7, <2>2 DEF ReadWallet
    <3>2. wallet \in Users
      BY <3>1 DEF PipelineInv, PipelineTypeOK
    <3>3. x \in WorkerRecords(n)
      BY <3>2, WorkerFacts DEF WorkerRecords, PastGate
    <3>4. Fits(x, status')
      BY <1>2, <3>2, WorkerFacts DEF Fits, WorkerRecords
    <3>5. WorkersKept(n)
      BY <1>1, <3>1, <3>3, <3>4, WorkerMoved
    <3> QED
      BY <1>2, <3>1, <3>5 DEF JobTypes
  <2> QED
    BY <2>1, <2>2
<1>8. CASE CheckChain(w)
  <2>1. worker[w].wallet \in Users
    BY <1>8, WorkerFacts DEF CheckChain, Walleted
  <2>2. ASSUME Goto(w, "issue"), UNCHANGED job, status[worker[w].wallet] # "None"
        PROVE  WorkersKept(n) /\ JobTypes'
    <3>1. status' = status
      BY <1>8 DEF CheckChain, ledgerVars
    <3> QED
      BY <1>4, <2>1, <2>2, <3>1 DEF PastGate
  <2> QED
    BY <1>3, <1>8, <2>2 DEF CheckChain, NoRecord
<1>9. CASE FindOld(w)
  <2> DEFINE x == [worker[w] EXCEPT !.old = LiveRow, !.pc = "flip"]
  <2>1. worker' = [worker EXCEPT ![w] = x] /\ UNCHANGED job /\ worker[w].wallet \in Users
    BY <1>9, WorkerFacts DEF FindOld, Walleted
  <2>2. LiveRow \in 0..n
    BY RowFacts DEF PipelineInv, PipelineTypeOK
  <2>3. x \in WorkerRecords(n)
    BY <2>2, WorkerFacts DEF WorkerRecords, PastGate
  <2>4. Fits(x, status')
    BY <1>2, <2>1, WorkerFacts DEF Fits, WorkerRecords
  <2>5. WorkersKept(n)
    BY <1>1, <2>1, <2>3, <2>4, WorkerMoved
  <2> QED
    BY <1>2, <2>1, <2>5 DEF JobTypes
<1>10. CASE QueryFails(w)
  BY <1>3, <1>10 DEF QueryFails
<1>11. CASE Crash(w)
  <2>1. WorkersKept(n)
    BY <1>1, <1>11, WorkerIdled DEF Crash
  <2> QED
    BY <1>2, <1>11, <2>1 DEF Crash, JobTypes
<1> QED
  BY <1>5, <1>6, <1>7, <1>8, <1>9, <1>10, <1>11

LEMMA AnswersKeep ==
  ASSUME PipelineInv, NEW n, n = Len(rows), NEW w \in Workers,
         ProviderForgot(w) \/ CompleteJob(w)
  PROVE  StepKeeps(n)
<1>1. RowsKept
  BY RowsUntouched DEF PipelineInv, PipelineTypeOK, NoneInserted, ProviderForgot, CompleteJob
<1>2. LedgerKept
  BY LedgerUntouched DEF ProviderForgot, CompleteJob
<1>3. CustomerKept
  <2>1. CustomerTypes
    BY DEF PipelineInv, PipelineTypeOK, CustomerTypes
  <2>2. CASE ProviderForgot(w)
    BY <2>1, <2>2 DEF ProviderForgot, CustomerTypes, CustomerKept
  <2>3. CASE CompleteJob(w)
    BY <2>1, <2>3 DEF CompleteJob, CustomerTypes, CustomerKept
  <2> QED
    BY <2>2, <2>3
<1>4. OthersKept(n)
  BY <1>1, OthersUntouched DEF ProviderForgot, CompleteJob
<1>5. Counts'
  <2>1. raced \in BOOLEAN
    BY DEF PipelineInv, PipelineTypeOK
  <2> QED
    BY <2>1, CountsKept DEF Counted, ProviderForgot, CompleteJob, Fault
<1>6. WorkersKept(n) /\ JobTypes'
  BY <1>2, WorkerFinished DEF ProviderForgot, CompleteJob
<1> QED
  BY <1>1, <1>2, <1>3, <1>4, <1>5, <1>6 DEF StepKeeps

\* An upgrade finds the record that CheckChain saw, or one that replaced it.
LEMMA IssueKeeps ==
  ASSUME PipelineInv, NEW n, n = Len(rows), NEW w \in Workers, IssueOnChain(w)
  PROVE  StepKeeps(n)
<1> DEFINE x == worker[w]
<1>1. x.session \in Sessions /\ x.wallet \in Users /\ Level(x.session) \in Contents
  BY WorkerFacts, PipelineAssumption DEF IssueOnChain, Walleted, Level
<1>2. Level(x.session) = "enhanced" => status[x.wallet] # "None"
  BY WorkerFacts DEF IssueOnChain, Level
<1>3. RowsKept
  BY RowsUntouched DEF PipelineInv, PipelineTypeOK, NoneInserted, IssueOnChain
<1>4. LedgerKept
  BY <1>1, <1>2, CredentialIssued, LedgerUntouched DEF IssueOnChain
<1>5. CustomerKept
  BY CustomerUntouched DEF IssueOnChain
<1>6. OthersKept(n)
  BY <1>3, OthersUntouched DEF IssueOnChain
<1>7. Counts'
  <2>1. raced \in BOOLEAN
    BY DEF PipelineInv, PipelineTypeOK
  <2> QED
    BY <2>1, CountsKept DEF Counted, IssueOnChain, Fault
<1>8. WorkersKept(n) /\ JobTypes'
  <2>1. CASE Throw(w)
    BY <1>4, <2>1, WorkerFinished DEF IssueOnChain
  <2>2. CASE ~Throw(w)
    <3>1. PICK p \in {"find", "insert"} : Goto(w, p) /\ UNCHANGED job
      BY <2>2 DEF IssueOnChain
    <3>2. p \in PastGate /\ p # "issue"
      BY <3>1 DEF PastGate
    <3>3. WorkersKept(n)
      BY <1>1, <1>4, <3>1, <3>2, WorkerWent DEF IssueOnChain
    <3> QED
      BY <3>1, <3>3, WorkerFacts DEF JobTypes
  <2> QED
    BY <2>1, <2>2
<1> QED
  BY <1>3, <1>4, <1>5, <1>6, <1>7, <1>8 DEF StepKeeps

LEMMA CompensateKeeps ==
  ASSUME PipelineInv, NEW n, n = Len(rows), NEW w \in Workers, Compensate(w)
  PROVE  StepKeeps(n)
<1>1. worker[w].wallet \in Users
  BY WorkerFacts DEF Compensate, Walleted
<1>2. RowsKept
  BY RowsUntouched DEF PipelineInv, PipelineTypeOK, NoneInserted, Compensate
<1>3. LedgerKept
  BY <1>1, CredentialRevoked, LedgerUntouched DEF Compensate
<1>4. CustomerKept
  BY CustomerUntouched DEF Compensate
<1>5. OthersKept(n)
  BY <1>2, OthersUntouched DEF Compensate
<1>6. Counts'
  <2>1. raced \in BOOLEAN
    BY DEF PipelineInv, PipelineTypeOK
  <2> QED
    BY <2>1, CountsKept DEF Counted, Compensate, Fault
<1>7. WorkersKept(n) /\ JobTypes'
  BY <1>3, WorkerFinished DEF Compensate
<1> QED
  BY <1>2, <1>3, <1>4, <1>5, <1>6, <1>7 DEF StepKeeps

LEMMA FlipOldKeeps ==
  ASSUME PipelineInv, NEW n, n = Len(rows), NEW w \in Workers, FlipOld(w)
  PROVE  StepKeeps(n) /\ NoneInserted /\ TokensKept
<1>1. worker[w].old \in 0..n /\ rows \in Seq(Row) /\ n \in Nat
  BY WorkerFacts DEF WorkerRecords, PipelineInv, PipelineTypeOK
<1>2. NoneInserted /\ TokensKept
  <2>1. CASE worker[w].old = 0
    BY <1>1, <2>1, RowsUntouched DEF FlipOld, Supersede
  <2>2. CASE worker[w].old # 0
    <3>1. worker[w].old \in DOMAIN rows
      BY <1>1, <2>2, RowFacts
    <3> QED
      BY <1>1, <2>2, <3>1, StatusSet DEF FlipOld, Supersede
  <2> QED
    BY <2>1, <2>2
<1>3. LedgerKept
  BY LedgerUntouched DEF FlipOld
<1>4. CustomerKept
  BY CustomerUntouched DEF FlipOld
<1>5. OthersKept(n)
  BY <1>2, OthersUntouched DEF FlipOld, NoneInserted
<1>6. Counts'
  BY Uncounted DEF FlipOld
<1>7. JobTypes'
  BY WorkerFacts DEF FlipOld, JobTypes
<1>8. WorkersKept(n)
  <2>1. Goto(w, "insert") /\ worker[w].pc # "idle" /\ worker[w].wallet \in Users
    BY WorkerFacts DEF FlipOld, Walleted
  <2> QED
    BY <1>3, <2>1, WorkerWent DEF PastGate
<1> QED
  BY <1>2, <1>3, <1>4, <1>5, <1>6, <1>7, <1>8 DEF StepKeeps, NoneInserted

\* Either nothing is written, or the row and its level are.
LEMMA Inserted ==
  ASSUME NEW w \in Workers, Insert(w)
  PROVE  \/ UNCHANGED <<rows, account>>
         \/ /\ Live = {} /\ rows' = Append(rows, NewRow(w))
            /\ account' = [account EXCEPT !.level = KycLevel(worker[w].session)]
BY DEF Insert

LEMMA InsertKeeps ==
  ASSUME PipelineInv, NEW n, n = Len(rows), NEW w \in Workers, Insert(w)
  PROVE  StepKeeps(n)
<1> DEFINE x == worker[w]
<1>1. x.session \in Sessions /\ x.wallet \in Users /\ rows \in Seq(Row)
  BY WorkerFacts DEF Insert, Walleted, PipelineInv, PipelineTypeOK
<1>2. RowsKept
  BY <1>1, Inserted, RowsUntouched, RowInserted DEF NoneInserted
<1>3. LedgerKept
  BY LedgerUntouched DEF Insert
<1>4. CustomerKept
  <2>1. CASE UNCHANGED <<rows, account>>
    BY <2>1, CustomerUntouched DEF Insert
  <2>2. CASE /\ rows' = Append(rows, NewRow(w))
             /\ account' = [account EXCEPT !.level = KycLevel(x.session)]
    <3>1. CustomerTypes
      BY DEF PipelineInv, PipelineTypeOK, CustomerTypes
    <3>2. account'.level = KycLevel(x.session) /\ CustomerTypes'
      BY <2>2, <3>1 DEF CustomerTypes, Insert, KycLevel
    <3>3. Len(rows) + 1 \in DOMAIN rows' /\ rows'[Len(rows) + 1] = NewRow(w)
      BY <1>1, <2>2, RowInserted
    <3>4. rows'[Len(rows) + 1].session = x.session
      BY <3>3 DEF NewRow
    <3> QED
      BY <3>2, <3>3, <3>4 DEF CustomerKept
  <2> QED
    BY <2>1, <2>2, Inserted
<1>5. OthersKept(n)
  BY <1>2, OthersUntouched DEF Insert
<1>6. Counts'
  <2>1. raced \in BOOLEAN
    BY DEF PipelineInv, PipelineTypeOK
  <2>2. UNCHANGED faults \/ \E f \in Faults : Fault(f)
    BY DEF Insert, Fault
  <2> QED
    BY <2>1, <2>2, CountsKept DEF Counted, Insert
<1>7. JobTypes'
  BY WorkerFacts DEF Insert, JobTypes
<1>8. WorkersKept(n)
  <2>1. PICK p \in {"finish", "compensate"} : Goto(w, p) /\ x.pc # "idle"
    BY DEF Insert
  <2>2. p \in PastGate /\ p # "issue"
    BY <2>1 DEF PastGate
  <2> QED
    BY <1>1, <1>3, <2>1, <2>2, WorkerWent
<1> QED
  BY <1>2, <1>3, <1>4, <1>5, <1>6, <1>7, <1>8 DEF StepKeeps

LEMMA WorkerKeeps ==
  ASSUME PipelineInv, NEW n, n = Len(rows), NEW w \in Workers,
         WorkerStep(w) \/ ProviderForgot(w) \/ QueryFails(w) \/ Crash(w)
  PROVE  StepKeeps(n)
BY TakeKeeps, ReadsKeep, AnswersKeep, IssueKeeps, CompensateKeeps, FlipOldKeeps, InsertKeeps
   DEF WorkerStep

-----------------------------------------------------------------------------
(* Everyone else.                                                          *)

\* Steps on the customer's own record and on the queue.
QueueStep ==
  \/ \E s \in Sessions : StartSession(s) \/ Decide(s) \/ Deliver(s)
  \/ \E j \in Jobs : ExpireJob(j) \/ Overrun(j)
  \/ \E u \in Users : LinkWallet(u)
  \/ UnlinkWallet \/ Activate \/ Reconcile \/ LookbackPasses

LEMMA QueueKeeps ==
  ASSUME PipelineInv, NEW n, n = Len(rows), QueueStep
  PROVE  StepKeeps(n) /\ UNCHANGED <<ledgerVars, rows, worker, admin, expirer, minter>>
<1>1. UNCHANGED <<ledgerVars, rows, worker, admin, expirer, minter>>
  BY DEF QueueStep, StartSession, Decide, Deliver, ExpireJob, Overrun, LinkWallet, UnlinkWallet,
         Activate, Reconcile, LookbackPasses
<1>2. RowsKept
  BY <1>1, RowsUntouched DEF PipelineInv, PipelineTypeOK, NoneInserted
<1>3. LedgerKept
  BY <1>1, LedgerUntouched
<1>4. WorkersKept(n)
  BY <1>1, <1>3, WorkersUntouched
<1>5. OthersKept(n)
  BY <1>1, <1>2, OthersUntouched
<1>6. CustomerTypes /\ JobTypes /\ raced \in BOOLEAN
  BY DEF PipelineInv, PipelineTypeOK, CustomerTypes, JobTypes
<1>7. CustomerKept /\ JobTypes'
  <2>1. ASSUME NEW s \in Sessions, StartSession(s)
        PROVE  CustomerKept /\ JobTypes'
    BY <1>6, <2>1 DEF StartSession, CustomerKept, CustomerTypes, JobTypes
  <2>2. ASSUME NEW s \in Sessions, Decide(s)
        PROVE  CustomerKept /\ JobTypes'
    BY <1>6, <2>2 DEF Decide, CustomerKept, CustomerTypes, JobTypes
  <2>3. ASSUME NEW s \in Sessions, Deliver(s)
        PROVE  CustomerKept /\ JobTypes'
    <3>1. JobTypes'
      BY <1>6, <2>3, JobEnqueued DEF Deliver, JobTypes
    <3> QED
      BY <1>6, <2>3, <3>1 DEF Deliver, CustomerKept, CustomerTypes
  <2>4. ASSUME NEW j \in Jobs, ExpireJob(j) \/ Overrun(j)
        PROVE  CustomerKept /\ JobTypes'
    BY <1>6, <2>4, JobRetried, CustomerUntouched DEF ExpireJob, Overrun
  <2>5. ASSUME NEW u \in Users, LinkWallet(u)
        PROVE  CustomerKept /\ JobTypes'
    BY <1>6, <2>5 DEF LinkWallet, CustomerKept, CustomerTypes, JobTypes
  <2>6. CASE UnlinkWallet
    BY <1>6, <2>6 DEF UnlinkWallet, CustomerKept, CustomerTypes, JobTypes
  <2>7. CASE Activate
    BY <1>6, <2>7 DEF Activate, CustomerKept, CustomerTypes, JobTypes
  <2>8. CASE Reconcile
    <3>1. latest \in Sessions
      BY <1>6, <2>8 DEF Reconcile, CustomerTypes
    <3> QED
      BY <1>6, <2>8, <3>1, JobEnqueued, CustomerUntouched DEF Reconcile
  <2>9. CASE LookbackPasses
    BY <1>6, <2>9 DEF LookbackPasses, CustomerKept, CustomerTypes, JobTypes
  <2> QED
    BY <2>1, <2>2, <2>3, <2>4, <2>5, <2>6, <2>7, <2>8, <2>9 DEF QueueStep
<1>8. Counts'
  <2>1. raced' \in BOOLEAN
    BY <1>6 DEF QueueStep, StartSession, Decide, Deliver, ExpireJob, Overrun, LinkWallet,
                UnlinkWallet, Activate, Reconcile, LookbackPasses
  <2>2. UNCHANGED faults \/ \E f \in Faults : Fault(f)
    BY DEF QueueStep, StartSession, Decide, Deliver, ExpireJob, Overrun, LinkWallet,
           UnlinkWallet, Activate, Reconcile, LookbackPasses, Fault
  <2>3. UNCHANGED interventions \/ \E i \in Interventions : Intervene(i)
    BY DEF QueueStep, StartSession, Decide, Deliver, ExpireJob, Overrun, LinkWallet,
           UnlinkWallet, Activate, Reconcile, LookbackPasses, Intervene
  <2> QED
    BY <2>1, <2>2, <2>3, CountsKept DEF Counted
<1> QED
  BY <1>1, <1>2, <1>3, <1>4, <1>5, <1>7, <1>8 DEF StepKeeps

\* Steps of the admin, of the sweep and of the badge request.
OfficeStep ==
  \/ Ban \/ Reset \/ AdminStep \/ AdminCrash \/ SelectAged \/ FlipAged
  \/ LockAndRecheck \/ MintOnChain \/ RecordMint \/ ReconcileOrphanNft
  \/ \E u \in Users : SelfRevoke(u)

LEMMA OfficeRows ==
  ASSUME PipelineInv, OfficeStep
  PROVE  NoneInserted
<1>1. rows \in Seq(Row) /\ OthersFit
  BY DEF PipelineInv, PipelineTypeOK
<1>2. CASE RevokeRow
  BY <1>1, <1>2, StatusSet DEF RevokeRow, OthersFit
<1>3. CASE FlipAged
  BY <1>1, <1>3, StatusSet DEF FlipAged, OthersFit
<1>4. CASE RecordMint
  BY <1>1, <1>4, TokenClaimed DEF RecordMint, OthersFit
<1>5. CASE ReconcileOrphanNft
  BY <1>1, <1>5, RowFacts, TokenClaimed DEF ReconcileOrphanNft
<1>6. CASE ~(RevokeRow \/ FlipAged \/ RecordMint \/ ReconcileOrphanNft)
  <2>1. rows' = rows
    BY <1>6 DEF OfficeStep, Ban, Reset, AdminStep, AdminCrash, SelectAged, LockAndRecheck,
                MintOnChain, SelfRevoke, SelectRows, RevokeOnChain, ResetLevel, RevokeSessions
  <2> QED
    BY <1>1, <2>1, RowsUntouched
<1> QED
  BY <1>2, <1>3, <1>4, <1>5, <1>6

LEMMA OfficeLedger ==
  ASSUME PipelineInv, OfficeStep
  PROVE  LedgerKept
<1>1. CASE RevokeOnChain
  <2>1. rows[admin.row].wallet \in Users /\ admin.burn \in BOOLEAN
    BY <1>1, RowFacts DEF PipelineInv, PipelineTypeOK, OthersFit, RevokeOnChain, Row
  <2> QED
    BY <1>1, <2>1, CredentialRevoked, LedgerUntouched DEF RevokeOnChain
<1>2. CASE MintOnChain
  <2>1. minter.wallet \in Users
    BY <1>2 DEF PipelineInv, OthersFit, MintOnChain
  <2> QED
    BY <1>2, <2>1, BadgeMinted, LedgerUntouched DEF MintOnChain
<1>3. ASSUME NEW u \in Users, SelfRevoke(u)
      PROVE  LedgerKept
  BY <1>3, CredentialRevoked DEF SelfRevoke
<1>4. CASE ~(RevokeOnChain \/ MintOnChain \/ \E u \in Users : SelfRevoke(u))
  <2>1. UNCHANGED ledgerVars
    BY <1>4 DEF OfficeStep, Ban, Reset, AdminStep, AdminCrash, SelectAged, FlipAged,
                LockAndRecheck, RecordMint, ReconcileOrphanNft, SelectRows, RevokeRow,
                ResetLevel, RevokeSessions
  <2> QED
    BY <2>1, LedgerUntouched
<1> QED
  BY <1>1, <1>2, <1>3, <1>4

LEMMA OfficeCustomer ==
  ASSUME PipelineInv, OfficeStep
  PROVE  CustomerKept
<1>1. CustomerTypes
  BY DEF PipelineInv, PipelineTypeOK, CustomerTypes
<1>2. CASE Ban
  BY <1>1, <1>2 DEF Ban, CustomerKept, CustomerTypes
<1>3. CASE ResetLevel
  BY <1>1, <1>3 DEF ResetLevel, CustomerKept, CustomerTypes
<1>4. CASE RevokeSessions
  BY <1>1, <1>4 DEF RevokeSessions, CustomerKept, CustomerTypes
<1>5. CASE ~(Ban \/ ResetLevel \/ RevokeSessions)
  <2>1. UNCHANGED <<account, wallet, session, latest, decided, audit>>
    BY <1>5 DEF OfficeStep, Reset, AdminStep, AdminCrash, SelectAged, FlipAged,
                LockAndRecheck, MintOnChain, RecordMint, ReconcileOrphanNft, SelectRows,
                RevokeOnChain, RevokeRow, SelfRevoke
  <2> QED
    BY <2>1, CustomerUntouched
<1> QED
  BY <1>2, <1>3, <1>4, <1>5

LEMMA OfficeOthers ==
  ASSUME PipelineInv, OfficeStep, RowsKept, NEW n, n = Len(rows)
  PROVE  OthersKept(n)
<1>1. /\ OtherTypes(n) /\ OthersFit /\ n \in Nat /\ DOMAIN rows = 1..n
      /\ Live \subseteq DOMAIN rows /\ (Live # {} => LiveRow \in Live)
  BY RowFacts DEF PipelineInv, PipelineTypeOK, OtherTypes, AdminRecords, MinterRecords
<1>2. \A i \in DOMAIN rows : rows[i].nft \in BOOLEAN /\ i \in DOMAIN rows'
  BY RowFacts DEF PipelineInv, PipelineTypeOK, Row, RowsKept
<1> USE DEF OthersKept, OtherTypes, OthersFit, AdminRecords, MinterRecords
<1>3. CASE Ban \/ Reset
  <2>1. IdleAdmin \in AdminRecords(n)
    BY <1>1 DEF IdleAdmin
  <2>2. PICK o \in {"ban", "reset"} : admin' = [IdleAdmin EXCEPT !.op = o, !.pc = "select"]
    BY <1>3 DEF Ban, Reset
  <2>3. admin' \in AdminRecords(n) /\ admin'.op = o /\ admin'.pc = "select"
    BY <2>1, <2>2
  <2> QED
    BY <1>1, <1>2, <1>3, <2>3 DEF Ban, Reset
<1>4. CASE AdminStep
  <2>1. CASE SelectRows
    <3>1. AfterRevocation \in {"patch", "sessions"}
      BY DEF AfterRevocation
    <3>2. CASE Live = {}
      BY <1>1, <1>2, <2>1, <3>1, <3>2 DEF SelectRows
    <3>3. CASE Live # {}
      <4>1. LiveRow \in DOMAIN rows /\ LiveRow \in 0..n /\ rows[LiveRow].nft \in BOOLEAN
        BY <1>1, <1>2, <3>3
      <4>2. admin' = [admin EXCEPT !.pc = "chain", !.row = LiveRow, !.burn = rows[LiveRow].nft]
        BY <2>1, <3>3 DEF SelectRows
      <4>3. /\ admin' \in AdminRecords(n) /\ admin'.op = admin.op
            /\ admin'.pc = "chain" /\ admin'.row = LiveRow
        BY <1>1, <4>1, <4>2
      <4> QED
        BY <1>1, <1>2, <2>1, <4>1, <4>3 DEF SelectRows
    <3> QED
      BY <3>2, <3>3
  <2>2. CASE RevokeOnChain
    BY <1>1, <1>2, <2>2 DEF RevokeOnChain
  <2>3. CASE RevokeRow
    BY <1>1, <1>2, <2>3 DEF RevokeRow, AfterRevocation
  <2>4. CASE ResetLevel
    BY <1>1, <1>2, <2>4 DEF ResetLevel
  <2>5. CASE RevokeSessions
    BY <1>1, <1>2, <2>5 DEF RevokeSessions, IdleAdmin
  <2> QED
    BY <1>4, <2>1, <2>2, <2>3, <2>4, <2>5 DEF AdminStep
<1>5. CASE AdminCrash
  BY <1>1, <1>2, <1>5 DEF AdminCrash, IdleAdmin
<1>6. CASE SelectAged \/ FlipAged
  BY <1>1, <1>2, <1>6 DEF SelectAged, FlipAged
<1>7. CASE LockAndRecheck
  <2>1. wallet \in Users
    BY <1>7 DEF PipelineInv, PipelineTypeOK, LockAndRecheck
  <2> QED
    BY <1>1, <1>2, <1>7, <2>1 DEF LockAndRecheck
<1>8. CASE MintOnChain \/ RecordMint
  BY <1>1, <1>2, <1>8 DEF MintOnChain, RecordMint, IdleMinter
<1>9. CASE ReconcileOrphanNft \/ \E u \in Users : SelfRevoke(u)
  BY <1>1, <1>2, <1>9 DEF ReconcileOrphanNft, SelfRevoke
<1> QED
  BY <1>3, <1>4, <1>5, <1>6, <1>7, <1>8, <1>9 DEF OfficeStep

LEMMA OfficeKeeps ==
  ASSUME PipelineInv, NEW n, n = Len(rows), OfficeStep
  PROVE  StepKeeps(n) /\ NoneInserted /\ UNCHANGED <<job, worker>>
<1> USE DEF OfficeStep, Ban, Reset, AdminStep, AdminCrash, SelectAged, FlipAged, LockAndRecheck,
            MintOnChain, RecordMint, ReconcileOrphanNft, SelectRows, RevokeOnChain, RevokeRow,
            ResetLevel, RevokeSessions, SelfRevoke
<1>1. UNCHANGED <<job, worker>>
  OBVIOUS
<1>2. Counts'
  <2>1. raced' \in BOOLEAN
    BY DEF PipelineInv, PipelineTypeOK
  <2>2. UNCHANGED faults \/ \E f \in Faults : Fault(f)
    BY DEF Fault
  <2>3. UNCHANGED interventions \/ \E i \in Interventions : Intervene(i)
    BY DEF Intervene
  <2> QED
    BY <2>1, <2>2, <2>3, CountsKept DEF Counted
<1> HIDE DEF OfficeStep
<1>3. NoneInserted /\ LedgerKept /\ CustomerKept
  BY OfficeRows, OfficeLedger, OfficeCustomer
<1>4. OthersKept(n)
  BY <1>3, OfficeOthers DEF NoneInserted
<1>5. WorkersKept(n)
  BY <1>1, <1>3, WorkersUntouched
<1>6. JobTypes'
  BY <1>1 DEF PipelineInv, PipelineTypeOK, JobTypes
<1> QED
  BY <1>1, <1>2, <1>3, <1>4, <1>5, <1>6 DEF StepKeeps, NoneInserted

-----------------------------------------------------------------------------
(* Types, levels and split credentials.                                    *)

LEMMA NextInParts ==
  ASSUME Next
  PROVE  \/ QueueStep \/ OfficeStep
         \/ \E w \in Workers : WorkerStep(w) \/ ProviderForgot(w) \/ QueryFails(w) \/ Crash(w)
BY DEF Next, Step, QueueStep, OfficeStep

LEMMA IdleStep ==
  ASSUME PipelineInv, NEW n, n = Len(rows), UNCHANGED vars
  PROVE  StepKeeps(n) /\ NoneInserted
<1>1. NoneInserted
  BY RowsUntouched DEF PipelineInv, PipelineTypeOK, vars, systemVars, pipelineVars
<1>2. LedgerKept
  BY LedgerUntouched DEF vars, systemVars
<1>3. CustomerKept
  BY CustomerUntouched DEF vars, systemVars, pipelineVars
<1>4. JobTypes'
  BY DEF PipelineInv, PipelineTypeOK, JobTypes, vars, systemVars, pipelineVars
<1>5. WorkersKept(n)
  BY <1>2, WorkersUntouched DEF vars, systemVars, pipelineVars
<1>6. OthersKept(n)
  BY <1>1, OthersUntouched DEF NoneInserted, vars, systemVars, pipelineVars
<1>7. Counts'
  BY Uncounted DEF vars, systemVars, pipelineVars
<1> QED
  BY <1>1, <1>2, <1>3, <1>4, <1>5, <1>6, <1>7 DEF StepKeeps, NoneInserted

LEMMA EveryStep ==
  ASSUME PipelineInv, NEW n, n = Len(rows), [Next]_vars
  PROVE  StepKeeps(n)
BY NextInParts, IdleStep, QueueKeeps, OfficeKeeps, WorkerKeeps

LEMMA PipelineInit ==
  ASSUME Init
  PROVE  PipelineInv
<1>1. /\ NoContent \notin Contents /\ NoSession \notin Sessions
      /\ RetryLimit \in Nat /\ MaxFaults \in Nat /\ MaxInterventions \in Nat
  BY LedgerAssumption, PipelineAssumption
<1>2. rows = <<>> /\ rows \in Seq(Row) /\ Len(rows) = 0
  BY DEF Init
<1>3. LedgerTypeOK /\ LedgerFits
  BY DEF Init, LedgerInit, LedgerTypeOK, LedgerFits
<1>4. CustomerTypes /\ JobTypes /\ Counts
  <2>1. CustomerTypes
    BY DEF Init, CustomerTypes
  <2>2. JobTypes
    BY <1>1 DEF Init, JobTypes
  <2>3. raced \in BOOLEAN
    BY DEF Init
  <2>4. faults \in 0..MaxFaults /\ interventions \in 0..MaxInterventions
    BY <1>1 DEF Init
  <2> QED
    BY <2>1, <2>2, <2>3, <2>4 DEF Counts
<1> HistoryTypes
  BY DEF Init, HistoryTypes
<1>5. IdleWorker \in WorkerRecords(0) /\ Fits(IdleWorker, status)
  BY PipelineAssumption DEF IdleWorker, WorkerRecords, Fits, Walleted
<1>6. worker \in [Workers -> WorkerRecords(0)] /\ WorkersFit
  BY <1>5 DEF Init, WorkersFit
<1>7. OtherTypes(0) /\ OthersFit
  BY DEF Init, OtherTypes, OthersFit, IdleAdmin, IdleMinter, AdminRecords, MinterRecords
<1>8. PipelineTypeOK
  BY <1>2, <1>3, <1>4, <1>6, <1>7, TypesInParts DEF RestTypes
<1> QED
  BY <1>3, <1>6, <1>7, <1>8 DEF PipelineInv

LEMMA PipelineStep ==
  ASSUME PipelineInv, [Next]_vars
  PROVE  PipelineInv'
<1>1. PICK n : n = Len(rows)
  OBVIOUS
<1>2. StepKeeps(n)
  BY <1>1, EveryStep
<1>3. n \in Nat /\ rows' \in Seq(Row) /\ n <= Len(rows') /\ Len(rows') \in Nat
  <2>1. n \in Nat
    BY <1>1, RowFacts DEF PipelineInv, PipelineTypeOK
  <2>2. rows' \in Seq(Row) /\ n <= Len(rows')
    BY <1>1, <1>2 DEF StepKeeps, RowsKept
  <2> QED
    BY <2>1, <2>2, LenProperties
<1>4. PICK m : m = Len(rows')
  OBVIOUS
<1>5. WorkerRecords(n) \subseteq WorkerRecords(m)
  BY <1>3, <1>4 DEF WorkerRecords
<1>6. worker' \in [Workers -> WorkerRecords(m)] /\ WorkersFit'
  BY <1>2, <1>5 DEF StepKeeps, WorkersKept, WorkersFit
<1>7. admin' \in AdminRecords(m) /\ expirer' \in 0..m /\ minter' \in MinterRecords(m)
  BY <1>2, <1>3, <1>4
     DEF StepKeeps, OthersKept, OtherTypes, AdminRecords, MinterRecords
<1>8. PipelineTypeOK'
  <2>1. CustomerTypes' /\ LedgerTypeOK' /\ JobTypes' /\ Counts'
    BY <1>2 DEF StepKeeps, CustomerKept, LedgerKept
  <2>2. HistoryTypes'
    BY DEF PipelineInv, PipelineTypeOK, HistoryTypes, Next, History, vars
  <2> QED
    BY <1>3, <1>4, <1>6, <1>7, <2>1, <2>2
       DEF PipelineTypeOK, CustomerTypes, JobTypes, WorkerRecords, AdminRecords, MinterRecords,
           Counts, HistoryTypes
<1> QED
  BY <1>2, <1>6, <1>8 DEF PipelineInv, StepKeeps, OthersKept, LedgerKept

LEMMA PipelineInvariant == Spec => []PipelineInv
<1>1. Init => PipelineInv
  BY PipelineInit
<1>2. PipelineInv /\ [Next]_vars => PipelineInv'
  BY PipelineStep
<1> QED
  BY <1>1, <1>2, PTL DEF Spec

\* Every variable keeps its shape, and every actor points at a row that exists.
THEOREM PipelineTypes == Spec => []PipelineTypeOK
<1>1. PipelineInv => PipelineTypeOK
  BY DEF PipelineInv
<1> QED
  BY <1>1, PipelineInvariant, PTL

\* kyc_3 and kyc_4 always have a row of a session of that level behind them:
\* no ban, reset, crash or retry leaves a level that no credential explains.
THEOREM LevelsAreBacked == Spec => []LevelHasRow
<1>1. Init => LevelHasRow
  BY DEF Init, LevelHasRow
<1>2. PipelineInv /\ LevelHasRow /\ [Next]_vars => LevelHasRow'
  <2> SUFFICES ASSUME PipelineInv, LevelHasRow, [Next]_vars, account'.level # "kyc_0"
               PROVE  \E i \in DOMAIN rows' : KycLevel(rows'[i].session) = account'.level
    BY DEF LevelHasRow
  <2>1. PICK n : n = Len(rows)
    OBVIOUS
  <2>2. RowsKept /\ CustomerKept
    BY <2>1, EveryStep DEF StepKeeps
  <2>3. CASE account'.level = account.level
    <3>1. PICK i \in DOMAIN rows : KycLevel(rows[i].session) = account.level
      BY <2>3 DEF LevelHasRow
    <3>2. i \in DOMAIN rows' /\ rows'[i].session = rows[i].session
      BY <2>2 DEF RowsKept
    <3> QED
      BY <2>3, <3>1, <3>2
  <2> QED
    BY <2>2, <2>3 DEF CustomerKept
<1> QED
  BY <1>1, <1>2, PipelineInvariant, PTL DEF Spec

\* No split credential: what the upgrade reads of the wallet before it mints
\* (CheckChain) still holds when it mints, whatever ran in between.
THEOREM NoCredentialIsSplit == Spec => NoSplitCredential
<1>1. PipelineInv /\ [Next]_vars =>
        [\A u \in DOMAIN content : content[u] = NoContent => content'[u] # "enhanced"]_vars
  <2> SUFFICES ASSUME PipelineInv, [Next]_vars
               PROVE  \A u \in DOMAIN content : content[u] = NoContent => content'[u] # "enhanced"
    OBVIOUS
  <2>1. PICK n : n = Len(rows)
    OBVIOUS
  <2>2. DOMAIN content = Users
    BY DEF PipelineInv, PipelineTypeOK, LedgerTypeOK
  <2> QED
    BY <2>1, <2>2, EveryStep DEF StepKeeps, LedgerKept
<1> QED
  BY <1>1, PipelineInvariant, PTL DEF Spec, NoSplitCredential

-----------------------------------------------------------------------------
(* What the steps of a worker leave of the others, and of itself.          *)

Minting == {"wallet", "check", "issue", "find", "flip", "insert"}

Moves(w) ==
  /\ \A v \in Workers : v # w => worker'[v] = worker[v]
  /\ worker'[w].pc \in PastGate => worker'[w].session = worker[w].session
  /\ worker'[w].pc \in PastGate => worker[w].pc \in PastGate \/ account.status = "active"
  /\ worker'[w].pc \in Minting =>
       worker[w].pc \in Minting \/ ~Replayed(worker[w].session)
  /\ worker'[w].pc \in Walleted =>
       \/ worker[w].pc \in Walleted /\ worker'[w].wallet = worker[w].wallet
       \/ worker'[w].wallet = wallet

LEMMA Answered ==
  ASSUME PipelineInv, NEW w \in Workers, worker[w].pc # "idle", Finish(w) \/ Throw(w)
  PROVE  Moves(w)
<1>1. /\ worker' = [worker EXCEPT ![w] = IdleWorker]
      /\ worker \in [Workers -> WorkerRecords(Len(rows))]
  BY DEF Finish, Throw, PipelineInv, PipelineTypeOK, WorkerRecords
<1>2. worker'[w].pc = "idle" /\ \A v \in Workers : v # w => worker'[v] = worker[v]
  BY <1>1 DEF IdleWorker
<1> QED
  BY <1>2 DEF Moves, PastGate, Minting, Walleted

LEMMA Went ==
  ASSUME PipelineInv, NEW w \in Workers, worker[w].pc # "idle", NEW p, Goto(w, p),
         p \in PastGate => worker[w].pc \in PastGate \/ account.status = "active",
         p \in Minting => worker[w].pc \in Minting \/ ~Replayed(worker[w].session),
         p \in Walleted => worker[w].pc \in Walleted
  PROVE  Moves(w)
<1>1. worker \in [Workers -> WorkerRecords(Len(rows))]
  BY DEF PipelineInv, PipelineTypeOK, WorkerRecords
<1>2. /\ worker'[w].pc = p /\ worker'[w].session = worker[w].session
      /\ worker'[w].wallet = worker[w].wallet
      /\ \A v \in Workers : v # w => worker'[v] = worker[v]
  BY <1>1 DEF Goto, WorkerRecords
<1> QED
  BY <1>2 DEF Moves

LEMMA WorkerMoves ==
  ASSUME PipelineInv, NEW w \in Workers,
         WorkerStep(w) \/ ProviderForgot(w) \/ QueryFails(w) \/ Crash(w)
  PROVE  Moves(w)
<1>1. worker \in [Workers -> WorkerRecords(Len(rows))]
  BY DEF PipelineInv, PipelineTypeOK, WorkerRecords
<1>2. ASSUME NEW j \in Jobs, Take(w, j)
      PROVE  Moves(w)
  <2> DEFINE x == [IdleWorker EXCEPT !.pc = "customer", !.session = j[1], !.copy = j[2]]
  <2>1. x.pc = "customer"
    BY DEF IdleWorker
  <2>2. worker' = [worker EXCEPT ![w] = x]
    BY <1>2 DEF Take
  <2> HIDE DEF x
  <2>3. worker'[w] = x /\ \A v \in Workers : v # w => worker'[v] = worker[v]
    BY <1>1, <2>2
  <2> QED
    BY <2>1, <2>3 DEF Moves, PastGate, Minting, Walleted
<1>3. CASE LoadCustomer(w)
  BY <1>3, Answered, Went DEF LoadCustomer, Minting, Walleted
<1>4. CASE ReplayGuard(w)
  <2>1. CASE Replayed(worker[w].session)
    BY <1>4, <2>1, Answered DEF ReplayGuard
  <2>2. CASE ~Replayed(worker[w].session)
    BY <1>4, <2>2, Went DEF ReplayGuard, PastGate, Walleted
  <2> QED
    BY <2>1, <2>2
<1>5. CASE ReadWallet(w)
  <2>1. CASE Throw(w)
    BY <1>5, <2>1, Answered DEF ReadWallet
  <2>2. CASE ~Throw(w)
    <3>1. PICK p \in {"check", "issue"} :
            worker' = [worker EXCEPT ![w].wallet = wallet, ![w].pc = p]
      BY <1>5, <2>2 DEF ReadWallet
    <3>2. /\ worker'[w].pc = p /\ worker'[w].session = worker[w].session
          /\ worker'[w].wallet = wallet
          /\ \A v \in Workers : v # w => worker'[v] = worker[v]
      BY <1>1, <3>1 DEF WorkerRecords
    <3>3. worker[w].pc = "wallet"
      BY <1>5 DEF ReadWallet
    <3> QED
      BY <3>1, <3>2, <3>3 DEF Moves, PastGate, Minting, Walleted
  <2> QED
    BY <2>1, <2>2
<1>6. CASE CheckChain(w)
  BY <1>6, Answered, Went DEF CheckChain, PastGate, Minting, Walleted
<1>7. CASE IssueOnChain(w)
  <2>1. CASE Throw(w)
    BY <1>7, <2>1, Answered DEF IssueOnChain
  <2>2. CASE ~Throw(w)
    <3>1. PICK p \in {"find", "insert"} : Goto(w, p)
      BY <1>7, <2>2 DEF IssueOnChain
    <3> QED
      BY <1>7, <3>1, Went DEF IssueOnChain, PastGate, Minting, Walleted
  <2> QED
    BY <2>1, <2>2
<1>8. CASE FindOld(w)
  <2>1. worker' = [worker EXCEPT ![w].old = LiveRow, ![w].pc = "flip"]
        /\ worker[w].pc = "find"
    BY <1>8 DEF FindOld
  <2>2. /\ worker'[w].pc = "flip" /\ worker'[w].session = worker[w].session
        /\ worker'[w].wallet = worker[w].wallet
        /\ \A v \in Workers : v # w => worker'[v] = worker[v]
    BY <1>1, <2>1 DEF WorkerRecords
  <2> QED
    BY <2>1, <2>2 DEF Moves, PastGate, Minting, Walleted
<1>9. CASE FlipOld(w)
  BY <1>9, Went DEF FlipOld, PastGate, Minting, Walleted
<1>10. CASE Insert(w)
  <2>1. PICK p \in {"finish", "compensate"} :
          Goto(w, p) /\ worker[w].pc = "insert"
    BY <1>10 DEF Insert
  <2> QED
    BY <2>1, Went DEF PastGate, Minting, Walleted
<1>11. CASE Compensate(w) \/ CompleteJob(w) \/ ProviderForgot(w) \/ QueryFails(w)
  BY <1>11, Answered DEF Compensate, CompleteJob, ProviderForgot, QueryFails
<1>12. CASE Crash(w)
  <2>1. worker'[w].pc = "idle" /\ \A v \in Workers : v # w => worker'[v] = worker[v]
    BY <1>1, <1>12 DEF Crash, IdleWorker
  <2> QED
    BY <1>12, <2>1 DEF Crash, Moves, PastGate, Minting, Walleted
<1> QED
  BY <1>2, <1>3, <1>4, <1>5, <1>6, <1>7, <1>8, <1>9, <1>10, <1>11, <1>12 DEF WorkerStep

\* Only an insertion adds a live row.
LEMMA WorkerRows ==
  ASSUME PipelineInv, NEW w \in Workers,
         WorkerStep(w) \/ ProviderForgot(w) \/ QueryFails(w) \/ Crash(w)
  PROVE  \/ NoneInserted /\ TokensKept
         \/ Live = {} /\ worker[w].pc = "insert" /\ rows' = Append(rows, NewRow(w))
<1>1. rows \in Seq(Row)
  BY DEF PipelineInv, PipelineTypeOK
<1>2. CASE Insert(w)
  BY <1>1, <1>2, Inserted, RowsUntouched DEF Insert
<1>3. CASE FlipOld(w)
  <2>1. PICK n : n = Len(rows)
    OBVIOUS
  <2> QED
    BY <1>3, <2>1, FlipOldKeeps
<1>4. CASE ~(Insert(w) \/ FlipOld(w))
  <2>1. rows' = rows
    BY <1>4 DEF WorkerStep, Take, LoadCustomer, ReplayGuard, ReadWallet, CheckChain, IssueOnChain,
                FindOld, Compensate, CompleteJob, ProviderForgot, QueryFails, Crash
  <2> QED
    BY <1>1, <2>1, RowsUntouched
<1> QED
  BY <1>2, <1>3, <1>4

\* A step either leaves the live rows among those there were, or adds a row
\* when none is live.
LEMMA RowsStep ==
  ASSUME PipelineInv, [Next]_vars
  PROVE  \/ NoneInserted
         \/ \E w \in Workers :
              Live = {} /\ worker[w].pc = "insert" /\ rows' = Append(rows, NewRow(w))
<1>1. PICK n : n = Len(rows)
  OBVIOUS
<1>2. CASE QueueStep
  BY <1>1, <1>2, QueueKeeps, RowsUntouched DEF PipelineInv, PipelineTypeOK
<1> QED
  BY <1>1, <1>2, NextInParts, IdleStep, OfficeKeeps, WorkerRows

-----------------------------------------------------------------------------
(* Bans.                                                                   *)

OneLive == \A i, j \in Live : i = j

\* A ban finds no worker that can still insert, and what it selects is all.
BanHolds ==
  /\ account.status = "banned" => admin.op # "reset"
  /\ admin.pc = "patch" => admin.op = "reset"
  /\ account.status = "banned" /\ ~raced =>
       /\ \A w \in Workers : worker[w].pc \notin PastGate
       /\ admin.pc \in {"idle", "sessions"} => Live = {}
       /\ admin.pc \in {"chain", "row"} => Live \subseteq {admin.row}

LEMMA OneLiveKept ==
  ASSUME PipelineInv, OneLive, [Next]_vars
  PROVE  OneLive'
<1>1. CASE NoneInserted
  BY <1>1 DEF OneLive, NoneInserted
<1>2. ASSUME NEW w \in Workers, Live = {}, worker[w].pc = "insert",
             rows' = Append(rows, NewRow(w))
      PROVE  OneLive'
  <2>1. /\ rows \in Seq(Row) /\ worker[w].session \in Sessions /\ worker[w].wallet \in Users
    BY <1>2, WorkerFacts DEF PipelineInv, PipelineTypeOK, Walleted
  <2>2. /\ DOMAIN rows' = DOMAIN rows \cup {Len(rows) + 1}
        /\ \A i \in DOMAIN rows : rows'[i] = rows[i]
    BY <1>2, <2>1, RowInserted
  <2>3. Live' \subseteq {Len(rows) + 1}
    BY <1>2, <2>2 DEF Live
  <2> QED
    BY <2>3 DEF OneLive
<1> QED
  BY <1>1, <1>2, RowsStep

\* Steps after which no row is live that was not, no worker is newly past the
\* gate, and the ban is where it was.
LEMMA BanUndisturbed ==
  ASSUME BanHolds, account'.status = account.status, UNCHANGED <<admin, raced>>,
         Live' \subseteq Live \/ \E w \in Workers : worker[w].pc \in PastGate,
         \A w \in Workers :
           worker'[w].pc \in PastGate => worker[w].pc \in PastGate \/ account.status = "active"
  PROVE  BanHolds'
<1>1. (account.status = "banned" => admin.op # "reset")'
      /\ (admin.pc = "patch" => admin.op = "reset")'
  BY DEF BanHolds
<1>2. ASSUME account'.status = "banned", ~raced'
      PROVE  /\ \A w \in Workers : worker'[w].pc \notin PastGate
             /\ admin'.pc \in {"idle", "sessions"} => Live' = {}
             /\ admin'.pc \in {"chain", "row"} => Live' \subseteq {admin'.row}
  BY <1>2 DEF BanHolds
<1> QED
  BY <1>1, <1>2 DEF BanHolds, PastGate

LEMMA WorkerLeavesBan ==
  ASSUME PipelineInv, BanHolds, NEW w \in Workers,
         WorkerStep(w) \/ ProviderForgot(w) \/ QueryFails(w) \/ Crash(w)
  PROVE  BanHolds'
<1>1. UNCHANGED <<admin, raced>>
  BY DEF WorkerStep, Take, LoadCustomer, ReplayGuard, ReadWallet, CheckChain, IssueOnChain,
         FindOld, FlipOld, Insert, Compensate, CompleteJob, ProviderForgot, QueryFails, Crash
<1>2. account'.status = account.status
  <2>1. CASE Insert(w)
    BY <2>1, Inserted DEF PipelineInv, PipelineTypeOK
  <2>2. CASE ~Insert(w)
    BY <2>2 DEF WorkerStep, Take, LoadCustomer, ReplayGuard, ReadWallet, CheckChain, IssueOnChain,
                FindOld, FlipOld, Compensate, CompleteJob, ProviderForgot, QueryFails, Crash
  <2> QED
    BY <2>1, <2>2
<1>3. Live' \subseteq Live \/ \E v \in Workers : worker[v].pc \in PastGate
  BY WorkerRows DEF NoneInserted, PastGate
<1>4. \A v \in Workers :
        worker'[v].pc \in PastGate => worker[v].pc \in PastGate \/ account.status = "active"
  BY WorkerMoves DEF Moves
<1> QED
  BY <1>1, <1>2, <1>3, <1>4, BanUndisturbed

LEMMA QueueLeavesBan ==
  ASSUME PipelineInv, BanHolds, QueueStep
  PROVE  BanHolds'
<1>1. PICK n : n = Len(rows)
  OBVIOUS
<1>2. UNCHANGED <<rows, worker, admin>>
  BY <1>1, QueueKeeps
<1>3. CASE Activate
  <2>1. account'.status = "active" /\ admin.op = "none"
    BY <1>3 DEF Activate, PipelineInv, PipelineTypeOK
  <2> QED
    BY <1>2, <2>1 DEF BanHolds
<1>4. CASE ~Activate
  <2>1. UNCHANGED <<account, raced>>
    BY <1>4 DEF QueueStep, StartSession, Decide, Deliver, ExpireJob, Overrun, LinkWallet,
                UnlinkWallet, Reconcile, LookbackPasses
  <2> QED
    BY <1>2, <2>1, BanUndisturbed DEF Live
<1> QED
  BY <1>3, <1>4

LEMMA OfficeLeavesBan ==
  ASSUME PipelineInv, OneLive, BanHolds, OfficeStep
  PROVE  BanHolds'
<1>1. PICK n : n = Len(rows)
  OBVIOUS
<1>2. NoneInserted /\ UNCHANGED worker
  BY <1>1, OfficeKeeps
<1>3. /\ admin \in AdminRecords(n) /\ OthersFit
      /\ account \in [status : {"active", "banned"}, level : {"kyc_0", "kyc_3", "kyc_4"}]
  BY <1>1 DEF PipelineInv, PipelineTypeOK, AdminRecords
<1>4. CASE Ban
  <2>1. admin'.op = "ban" /\ admin'.pc = "select"
    BY <1>4 DEF Ban, IdleAdmin
  <2>2. ~raced' => \A w \in Workers : worker[w].pc \notin PastGate
    BY <1>4 DEF Ban
  <2> QED
    BY <1>2, <2>1, <2>2 DEF BanHolds
<1>5. CASE Reset
  <2>1. admin'.op = "reset" /\ admin'.pc = "select" /\ account'.status # "banned"
    BY <1>5 DEF Reset, ValidFrom, IdleAdmin
  <2> QED
    BY <2>1 DEF BanHolds
<1>6. CASE SelectRows
  <2>1. UNCHANGED <<account, raced>> /\ Live' = Live /\ admin.pc = "select"
    BY <1>6 DEF SelectRows, Live
  <2>2. CASE Live = {}
    <3>1. admin'.pc = AfterRevocation /\ admin'.op = admin.op
      BY <1>3, <1>6, <2>2 DEF SelectRows, AdminRecords
    <3> QED
      BY <1>2, <2>1, <2>2, <3>1 DEF BanHolds, AfterRevocation
  <2>3. CASE Live # {}
    <3>1. admin'.pc = "chain" /\ admin'.op = admin.op /\ admin'.row = LiveRow
      BY <1>3, <1>6, <2>3 DEF SelectRows, AdminRecords
    <3>2. LiveRow \in Live
      BY <2>3, RowFacts DEF PipelineInv, PipelineTypeOK
    <3>3. Live' \subseteq {admin'.row}
      BY <2>1, <3>1, <3>2 DEF OneLive
    <3> QED
      BY <1>2, <2>1, <3>1, <3>3 DEF BanHolds
  <2> QED
    BY <2>2, <2>3
<1>7. CASE RevokeOnChain
  <2>1. /\ UNCHANGED <<account, raced>> /\ Live' = Live /\ admin.pc = "chain"
        /\ admin'.pc = "row" /\ admin'.op = admin.op /\ admin'.row = admin.row
    BY <1>3, <1>7 DEF RevokeOnChain, Live, AdminRecords
  <2> QED
    BY <1>2, <2>1 DEF BanHolds
<1>8. CASE RevokeRow
  <2>1. /\ UNCHANGED <<account, raced>> /\ admin.pc = "row"
        /\ admin'.pc = AfterRevocation /\ admin'.op = admin.op
    BY <1>3, <1>8 DEF RevokeRow, AdminRecords
  <2>2. admin.row \notin Live'
    BY <1>3, <1>8, StatusSet DEF RevokeRow, OthersFit, PipelineInv, PipelineTypeOK
  <2>3. account.status = "banned" /\ ~raced => Live' = {}
    BY <1>2, <2>1, <2>2 DEF BanHolds, NoneInserted
  <2> QED
    BY <1>2, <2>1, <2>3 DEF BanHolds, AfterRevocation
<1>9. CASE ResetLevel
  <2>1. /\ account'.status = account.status /\ raced' = raced /\ admin.pc = "patch"
        /\ admin'.pc = "sessions" /\ admin'.op = admin.op
    BY <1>3, <1>9 DEF ResetLevel, AdminRecords
  <2> QED
    BY <2>1 DEF BanHolds
<1>10. CASE RevokeSessions
  <2>1. /\ UNCHANGED <<account, raced>> /\ Live' = Live /\ admin.pc = "sessions"
        /\ admin'.pc = "idle" /\ admin'.op = "none"
    BY <1>10 DEF RevokeSessions, IdleAdmin, Live
  <2> QED
    BY <1>2, <2>1 DEF BanHolds
<1>11. CASE AdminCrash
  <2>1. /\ account' = account /\ admin.op \in {"ban", "reset"}
        /\ admin'.pc = "idle" /\ admin'.op = "none"
    BY <1>3, <1>11 DEF AdminCrash, IdleAdmin, AdminRecords
  <2>2. account.status = "banned" => raced'
    BY <1>11, <2>1 DEF AdminCrash, BanHolds
  <2> QED
    BY <2>1, <2>2 DEF BanHolds
<1>12. CASE ~(Ban \/ Reset \/ AdminStep \/ AdminCrash)
  <2>1. UNCHANGED <<account, raced, admin>>
    BY <1>12 DEF OfficeStep, SelectAged, FlipAged, LockAndRecheck, MintOnChain, RecordMint,
                 ReconcileOrphanNft, SelfRevoke
  <2> QED
    BY <1>2, <2>1, BanUndisturbed DEF NoneInserted
<1> QED
  BY <1>4, <1>5, <1>6, <1>7, <1>8, <1>9, <1>10, <1>11, <1>12 DEF AdminStep

\* A ban that found no worker past the status gate, and whose request ran to its
\* end, leaves no live row, and none comes while the ban stands.
THEOREM BansAreFinal == Spec => []BanIsFinal
<1>1. Init => OneLive /\ BanHolds
  <2> SUFFICES ASSUME Init PROVE OneLive /\ BanHolds
    OBVIOUS
  <2>1. rows = <<>> /\ account.status = "active" /\ admin.pc = "idle"
    BY DEF Init, IdleAdmin
  <2>2. Live = {}
    BY <2>1 DEF Live
  <2> QED
    BY <2>1, <2>2 DEF OneLive, BanHolds
<1>2. PipelineInv /\ OneLive /\ BanHolds /\ [Next]_vars => (OneLive /\ BanHolds)'
  <2> SUFFICES ASSUME PipelineInv, OneLive, BanHolds, [Next]_vars
               PROVE  BanHolds'
    BY OneLiveKept
  <2>1. CASE UNCHANGED vars
    <3>1. UNCHANGED <<account, rows, worker, admin, raced>>
      BY <2>1 DEF vars, systemVars, pipelineVars
    <3> QED
      BY <3>1, BanUndisturbed DEF Live
  <2> QED
    BY <2>1, NextInParts, WorkerLeavesBan, QueueLeavesBan, OfficeLeavesBan
<1>3. PipelineInv /\ BanHolds => BanIsFinal
  BY DEF PipelineInv, OthersFit, BanHolds, BanIsFinal
<1> QED
  BY <1>1, <1>2, <1>3, PipelineInvariant, PTL DEF Spec

-----------------------------------------------------------------------------
(* Address sessions.                                                       *)

\* Two workers are at work on one session only where that has been noted.
Noted ==
  \A v, w \in Workers, s \in Sessions :
    v # w /\ {worker[v].pc, worker[w].pc} \subseteq AtWork
      /\ worker[v].session = s /\ worker[w].session = s => s \in doubled

\* Past the replay guard, no row of the session is there yet.
Unrecorded(x) ==
  x.pc \in Minting /\ x.session \in Address =>
    \A i \in DOMAIN rows : rows[i].session # x.session
Fresh(x) == x.session \notin doubled => Unrecorded(x)

MintHolds == Noted /\ (\A w \in Workers : Fresh(worker[w])) /\ SessionMintsOnce

LEMMA EachIsNoted ==
  ASSUME History
  PROVE  Noted' /\ doubled \subseteq doubled'
<1>1. doubled' = doubled \cup {s \in Sessions : OnOneSession(s)'}
  BY DEF History
<1>2. ASSUME NEW v \in Workers, NEW w \in Workers, NEW s \in Sessions, v # w,
             worker'[v].pc \in AtWork, worker'[w].pc \in AtWork,
             worker'[v].session = s, worker'[w].session = s
      PROVE  s \in doubled'
  <2>1. OnOneSession(s)'
    BY <1>2 DEF OnOneSession
  <2> QED
    BY <1>1, <2>1
<1>3. Noted'
  BY <1>2 DEF Noted, AtWork
<1> QED
  BY <1>1, <1>3

\* Without an insertion, what holds of the rows stays.
LEMMA RowsLeaveMint ==
  ASSUME NoneInserted, doubled \subseteq doubled'
  PROVE  /\ SessionMintsOnce => SessionMintsOnce'
         /\ \A w \in Workers : worker'[w] = worker[w] /\ Fresh(worker[w]) => Fresh(worker[w])'
<1>1. /\ DOMAIN rows' = DOMAIN rows
      /\ \A i \in DOMAIN rows : rows'[i].session = rows[i].session
  BY DEF NoneInserted, RowsKept
<1>2. SessionMintsOnce => SessionMintsOnce'
  BY <1>1 DEF SessionMintsOnce
<1>3. ASSUME NEW w \in Workers, worker'[w] = worker[w], Fresh(worker[w])
      PROVE  Fresh(worker[w])'
  BY <1>1, <1>3 DEF Fresh, Unrecorded
<1> QED
  BY <1>2, <1>3

LEMMA WorkerLeavesMint ==
  ASSUME PipelineInv, MintHolds, History, NEW w \in Workers,
         WorkerStep(w) \/ ProviderForgot(w) \/ QueryFails(w) \/ Crash(w)
  PROVE  MintHolds'
<1>1. Moves(w) /\ Noted' /\ doubled \subseteq doubled'
  BY WorkerMoves, EachIsNoted
<1>2. CASE NoneInserted
  <2>1. SessionMintsOnce'
    BY <1>1, <1>2, RowsLeaveMint DEF MintHolds
  <2>2. ASSUME NEW v \in Workers, v # w
        PROVE  Fresh(worker[v])'
    BY <1>1, <1>2, <2>2, RowsLeaveMint DEF MintHolds, Moves
  <2>3. Fresh(worker[w])'
    <3> SUFFICES ASSUME worker'[w].pc \in Minting, worker'[w].session \in Address \ doubled',
                        NEW i \in DOMAIN rows'
                 PROVE  rows'[i].session # worker'[w].session
      BY DEF Fresh, Unrecorded
    <3>1. worker'[w].session = worker[w].session
      BY <1>1 DEF Moves, Minting, PastGate
    <3>2. i \in DOMAIN rows /\ rows'[i].session = rows[i].session
      BY <1>2 DEF NoneInserted, RowsKept
    <3>3. CASE worker[w].pc \in Minting
      BY <1>1, <3>1, <3>2, <3>3 DEF MintHolds, Fresh, Unrecorded
    <3>4. CASE ~Replayed(worker[w].session)
      BY <3>1, <3>2, <3>4 DEF Replayed
    <3> QED
      BY <1>1, <3>3, <3>4 DEF Moves
  <2> QED
    BY <1>1, <2>1, <2>2, <2>3 DEF MintHolds
<1>3. CASE Live = {} /\ worker[w].pc = "insert" /\ rows' = Append(rows, NewRow(w))
  <2> DEFINE s == worker[w].session  k == Len(rows) + 1
  <2>1. rows \in Seq(Row) /\ s \in Sessions /\ worker[w].wallet \in Users
    BY <1>3, WorkerFacts DEF PipelineInv, PipelineTypeOK, Walleted
  <2>2. /\ DOMAIN rows' = DOMAIN rows \cup {k} /\ rows'[k] = NewRow(w)
        /\ \A i \in DOMAIN rows : rows'[i] = rows[i] /\ i # k
    BY <1>3, <2>1, RowInserted
  <2>3. rows'[k].session = s
    BY <2>2 DEF NewRow
  <2>4. s \in Address \ doubled => \A i \in DOMAIN rows : rows[i].session # s
    BY <1>3 DEF MintHolds, Fresh, Unrecorded, Minting
  <2>5. SessionMintsOnce'
    <3> SUFFICES ASSUME NEW i \in DOMAIN rows', NEW j \in DOMAIN rows',
                        rows'[i].session = rows'[j].session,
                        rows'[i].session \in Address \ doubled'
                 PROVE  i = j
      BY DEF SessionMintsOnce
    <3>1. CASE i \in DOMAIN rows /\ j \in DOMAIN rows
      BY <1>1, <2>2, <3>1 DEF MintHolds, SessionMintsOnce
    <3>2. CASE i = k \/ j = k
      BY <1>1, <2>2, <2>3, <2>4, <3>2
    <3> QED
      BY <2>2, <3>1, <3>2
  <2>6. worker'[w].pc \notin Minting
    <3>1. CASE Insert(w)
      <4>1. PICK p \in {"finish", "compensate"} : Goto(w, p)
        BY <3>1 DEF Insert
      <4>2. worker'[w].pc = p
        BY <4>1 DEF Goto, PipelineInv, PipelineTypeOK
      <4> QED
        BY <4>2 DEF Minting
    <3>2. CASE ~Insert(w)
      <4>1. rows' = rows
        BY <1>3, <3>2 DEF WorkerStep, Take, LoadCustomer, ReplayGuard, ReadWallet, CheckChain,
                          IssueOnChain, FindOld, FlipOld, Compensate, CompleteJob,
                          ProviderForgot, QueryFails, Crash
      <4> QED
        BY <2>2, <4>1
    <3> QED
      BY <3>1, <3>2
  <2>7. ASSUME NEW v \in Workers, worker'[v].pc \in Minting,
               worker'[v].session \in Address \ doubled', NEW i \in DOMAIN rows'
        PROVE  rows'[i].session # worker'[v].session
    <3>1. v # w /\ worker'[v] = worker[v]
      BY <1>1, <2>6, <2>7 DEF Moves
    <3>2. worker[v].session # s
      BY <1>1, <1>3, <2>1, <2>7, <3>1 DEF MintHolds, Noted, Minting, AtWork
    <3>3. CASE i = k
      BY <2>3, <3>1, <3>2, <3>3
    <3>4. CASE i \in DOMAIN rows
      BY <1>1, <2>2, <2>7, <3>1, <3>4 DEF MintHolds, Fresh, Unrecorded
    <3> QED
      BY <2>2, <3>3, <3>4
  <2>8. \A v \in Workers : Fresh(worker[v])'
    BY <2>7 DEF Fresh, Unrecorded
  <2> QED
    BY <1>1, <2>5, <2>8 DEF MintHolds
<1> QED
  BY <1>2, <1>3, WorkerRows

\* An address session that no two workers are ever at work on at once mints at
\* most once, however often it is delivered, queued, retried, expired or
\* reconciled, and whatever the jobs of the other sessions do.
THEOREM AddressSessionsMintOnce == Spec => []SessionMintsOnce
<1>1. Init => MintHolds
  <2> SUFFICES ASSUME Init PROVE MintHolds
    OBVIOUS
  <2>1. \A w \in Workers : worker[w].pc = "idle"
    BY DEF Init, IdleWorker
  <2>2. DOMAIN rows = {}
    BY DEF Init
  <2>3. Noted
    BY <2>1 DEF Noted, AtWork
  <2> QED
    BY <2>1, <2>2, <2>3 DEF MintHolds, Fresh, Unrecorded, Minting, SessionMintsOnce
<1>2. PipelineInv /\ MintHolds /\ [Next]_vars => MintHolds'
  <2> SUFFICES ASSUME PipelineInv, MintHolds, [Next]_vars
               PROVE  MintHolds'
    OBVIOUS
  <2>1. PICK n : n = Len(rows)
    OBVIOUS
  <2>2. ASSUME NoneInserted, worker' = worker, Noted', doubled \subseteq doubled'
        PROVE  MintHolds'
    BY <2>2, RowsLeaveMint DEF MintHolds
  <2>3. CASE UNCHANGED vars
    <3>1. NoneInserted
      BY <2>3, RowsUntouched DEF vars, systemVars, pipelineVars, PipelineInv, PipelineTypeOK
    <3>2. UNCHANGED <<worker, doubled>>
      BY <2>3 DEF vars, systemVars, pipelineVars
    <3> QED
      BY <2>2, <3>1, <3>2 DEF MintHolds, Noted
  <2>4. ASSUME Next
        PROVE  Noted' /\ doubled \subseteq doubled' /\ History
    BY <2>4, EachIsNoted DEF Next
  <2>5. CASE OfficeStep /\ Next
    BY <2>1, <2>2, <2>4, <2>5, OfficeKeeps
  <2>6. CASE QueueStep /\ Next
    <3>1. UNCHANGED <<rows, worker>>
      BY <2>1, <2>6, QueueKeeps
    <3>2. NoneInserted
      BY <3>1, RowsUntouched DEF PipelineInv, PipelineTypeOK
    <3> QED
      BY <2>2, <2>4, <2>6, <3>1, <3>2
  <2> QED
    BY <2>3, <2>4, <2>5, <2>6, NextInParts, WorkerLeavesMint
<1>3. MintHolds => SessionMintsOnce
  BY DEF MintHolds
<1> QED
  BY <1>1, <1>2, <1>3, PipelineInvariant, PTL DEF Spec

-----------------------------------------------------------------------------
(* The row and the chain.                                                  *)

\* What a worker alone may rely on: whatever it is about to revoke, no live row
\* rests on it, and what it is about to record is what the chain holds.
Standing(x) ==
  /\ x.pc \in {"insert", "compensate"} => Live = {}
  /\ x.pc \in {"wallet", "check", "issue"} /\ x.session \notin Address => Live = {}
  /\ x.pc = "flip" => Live \subseteq {x.old}
  /\ x.pc \in {"find", "flip", "insert"} =>
       status[x.wallet] = "Active" /\ content[x.wallet] = Level(x.session)

RowsBacked == \A i \in Live : ChainBacks(i)
Backed == RowsBacked /\ ~Overlap /\ \A w \in Workers : Standing(worker[w])

\* At rest, there is nothing to be relied on.
LEMMA RestIsBacked ==
  ASSUME AtRest
  PROVE  Backed
BY DEF AtRest, Backed, RowsBacked, Overlap, Standing, AtWork

\* What an undisturbed step that does not end at rest has not been.
LEMMA UndisturbedStep ==
  ASSUME History, ~disturbed', ~AtRest'
  PROVE  /\ ~disturbed /\ ~Overlap'
         /\ status' = status \/ worker' # worker
         /\ \A w \in Workers :
              ~(worker[w].pc = "insert" /\ worker'[w].pc = "compensate" /\ rows' # rows)
BY DEF History, Disturbs

\* A step that neither inserts nor touches the chain's records.
LEMMA BackedLeft ==
  ASSUME PipelineInv, Backed, NoneInserted, UNCHANGED <<status, content>>, ~Overlap',
         \A w \in Workers : Standing(worker[w])'
  PROVE  Backed'
<1>1. \A i \in Live' :
        i \in Live /\ rows'[i].level = rows[i].level /\ rows'[i].wallet = rows[i].wallet
  BY RowFacts DEF NoneInserted, RowsKept, PipelineInv, PipelineTypeOK
<1>2. RowsBacked'
  BY <1>1 DEF Backed, RowsBacked, ChainBacks
<1> QED
  BY <1>2 DEF Backed

\* The others: nobody else is at work beside a worker that is, and a worker that
\* is not at work leaves rows and records alone.
LEMMA OthersStand ==
  ASSUME PipelineInv, Backed, NEW w \in Workers,
         WorkerStep(w) \/ ProviderForgot(w) \/ QueryFails(w) \/ Crash(w)
  PROVE  \A v \in Workers : v # w => Standing(worker[v])'
<1> SUFFICES ASSUME NEW v \in Workers, v # w
             PROVE  Standing(worker[v])'
  OBVIOUS
<1>1. worker'[v] = worker[v]
  BY WorkerMoves DEF Moves
<1>2. CASE worker[w].pc \in AtWork
  <2>1. worker[v].pc \notin AtWork
    BY <1>2 DEF Backed, Overlap
  <2> QED
    BY <1>1, <2>1 DEF Standing, AtWork
<1>3. CASE worker[w].pc \notin AtWork
  <2>1. UNCHANGED <<rows, ledgerVars>>
    BY <1>3 DEF AtWork, WorkerStep, Take, LoadCustomer, ReplayGuard, ReadWallet, CheckChain,
                IssueOnChain, FindOld, FlipOld, Insert, Compensate, CompleteJob, ProviderForgot,
                QueryFails, Crash
  <2>2. Live' = Live /\ UNCHANGED <<status, content>>
    BY <2>1 DEF Live, ledgerVars
  <2> QED
    BY <1>1, <2>2 DEF Backed, Standing
<1> QED
  BY <1>2, <1>3

\* A step of the worker that only reads, or that ends its run.
LEMMA ReadingLeavesBacked ==
  ASSUME PipelineInv, Backed, NEW w \in Workers,
         NoneInserted, UNCHANGED <<status, content>>, ~Overlap',
         \A v \in Workers : v # w => Standing(worker[v])',
         worker'[w].pc \in {"idle", "customer", "guard", "finish"}
  PROVE  Backed'
<1>1. Standing(worker[w])'
  BY DEF Standing
<1> QED
  BY <1>1, BackedLeft

LEMMA IssueLeavesBacked ==
  ASSUME PipelineInv, Backed, NEW w \in Workers, IssueOnChain(w), ~Overlap',
         \A v \in Workers : v # w => Standing(worker[v])'
  PROVE  Backed'
<1> DEFINE s == worker[w].session  u == worker[w].wallet
<1>1. s \in Sessions /\ u \in Users /\ worker[w].pc = "issue" /\ rows \in Seq(Row)
  BY WorkerFacts DEF IssueOnChain, Walleted, PipelineInv, PipelineTypeOK
<1>2. NoneInserted /\ Live' = Live /\ rows' = rows
  BY <1>1, RowsUntouched DEF IssueOnChain, Live
<1>3. s \notin Address => Live = {}
  BY <1>1 DEF Backed, Standing
<1>4. ASSUME Issue(u, Level(s))
      PROVE  /\ status'[u] = "Active" /\ content'[u] = Level(s)
             /\ \A v \in Users : v # u => status'[v] = status[v] /\ content'[v] = content[v]
  BY <1>1, <1>4 DEF Issue, PipelineInv, PipelineTypeOK, LedgerTypeOK
<1>5. RowsBacked'
  <2>1. CASE Issue(u, Level(s))
    <3>1. SUFFICES ASSUME NEW i \in Live
                   PROVE  /\ status'[rows[i].wallet] = "Active"
                          /\ rows[i].level = "enhanced" => content'[rows[i].wallet] = "enhanced"
      BY <1>2 DEF RowsBacked, ChainBacks
    <3>2. Level(s) = "enhanced" /\ rows[i].wallet \in Users
      BY <1>1, <1>3, <3>1, RowFacts DEF Level, Row
    <3>3. /\ status[rows[i].wallet] = "Active"
          /\ rows[i].level = "enhanced" => content[rows[i].wallet] = "enhanced"
      BY <3>1 DEF Backed, RowsBacked, ChainBacks
    <3> QED
      BY <1>4, <2>1, <3>2, <3>3
  <2>2. CASE UNCHANGED ledgerVars
    BY <1>2, <2>2 DEF Backed, RowsBacked, ChainBacks, ledgerVars
  <2> QED
    BY <2>1, <2>2 DEF IssueOnChain
<1>6. Standing(worker[w])'
  <2>1. worker \in [Workers -> WorkerRecords(Len(rows))]
    BY DEF PipelineInv, PipelineTypeOK, WorkerRecords
  <2>2. CASE Throw(w)
    <3>1. worker'[w].pc = "idle"
      BY <2>1, <2>2 DEF Throw, IdleWorker
    <3> QED
      BY <3>1 DEF Standing
  <2>3. CASE Issue(u, Level(s)) /\ Goto(w, IF s \in Address THEN "find" ELSE "insert")
    <3>1. /\ worker'[w].pc = IF s \in Address THEN "find" ELSE "insert"
          /\ worker'[w].session = s /\ worker'[w].wallet = u
      BY <2>1, <2>3 DEF Goto, WorkerRecords
    <3> QED
      BY <1>2, <1>3, <1>4, <2>3, <3>1 DEF Standing
  <2> QED
    BY <2>2, <2>3 DEF IssueOnChain
<1> QED
  BY <1>2, <1>5, <1>6 DEF Backed

\* The new row is the only live one, and records what the worker has issued.
LEMMA InsertLeavesBacked ==
  ASSUME PipelineInv, Backed, NEW w \in Workers, Insert(w), ~Overlap',
         \A v \in Workers : v # w => Standing(worker[v])',
         ~(worker[w].pc = "insert" /\ worker'[w].pc = "compensate" /\ rows' # rows)
  PROVE  Backed'
<1> DEFINE k == Len(rows) + 1
<1>1. /\ worker[w].session \in Sessions /\ worker[w].wallet \in Users
      /\ worker[w].pc = "insert" /\ rows \in Seq(Row)
      /\ worker \in [Workers -> WorkerRecords(Len(rows))]
  BY WorkerFacts DEF Insert, Walleted, PipelineInv, PipelineTypeOK, WorkerRecords
<1>2. /\ Live = {} /\ status[worker[w].wallet] = "Active"
      /\ content[worker[w].wallet] = Level(worker[w].session)
      /\ UNCHANGED <<status, content>>
  BY <1>1 DEF Backed, Standing, Insert, ledgerVars
<1>3. CASE rows' = Append(rows, NewRow(w)) /\ Goto(w, "finish")
  <2>1. /\ DOMAIN rows' = DOMAIN rows \cup {k} /\ rows'[k] = NewRow(w)
        /\ \A i \in DOMAIN rows : rows'[i] = rows[i] /\ i # k
    BY <1>1, <1>3, RowInserted
  <2>2. \A i \in Live' : i = k
    BY <1>2, <2>1 DEF Live
  <2>3. rows'[k].wallet = worker[w].wallet /\ rows'[k].level = Level(worker[w].session)
    BY <2>1 DEF NewRow
  <2>4. RowsBacked'
    BY <1>2, <2>2, <2>3 DEF RowsBacked, ChainBacks
  <2>5. worker'[w].pc = "finish"
    BY <1>1, <1>3 DEF Goto
  <2> QED
    BY <1>2, <2>4, <2>5 DEF Backed, Standing
<1>4. CASE UNCHANGED rows /\ Goto(w, "compensate")
  <2>1. Live' = {} /\ NoneInserted
    BY <1>1, <1>2, <1>4, RowsUntouched DEF Live
  <2>2. worker'[w].pc = "compensate"
    BY <1>1, <1>4 DEF Goto
  <2>3. Standing(worker[w])'
    BY <2>1, <2>2 DEF Standing
  <2> QED
    BY <1>2, <2>1, <2>3, BackedLeft DEF Backed
<1>5. CASE rows' # rows /\ Goto(w, "compensate")
  BY <1>1, <1>5 DEF Goto
<1> QED
  BY <1>3, <1>4, <1>5 DEF Insert

LEMMA WorkerLeavesBacked ==
  ASSUME PipelineInv, OneLive, Backed, NEW w \in Workers,
         WorkerStep(w) \/ ProviderForgot(w) \/ QueryFails(w) \/ Crash(w), ~Overlap',
         ~(worker[w].pc = "insert" /\ worker'[w].pc = "compensate" /\ rows' # rows)
  PROVE  Backed'
<1>1. /\ worker \in [Workers -> WorkerRecords(Len(rows))] /\ rows \in Seq(Row)
      /\ Moves(w) /\ Standing(worker[w])
      /\ \A v \in Workers : v # w => Standing(worker[v])'
  BY WorkerMoves, OthersStand DEF PipelineInv, PipelineTypeOK, WorkerRecords, Backed
<1>2. ASSUME UNCHANGED <<ledgerVars, rows>>
      PROVE  NoneInserted /\ UNCHANGED <<status, content>> /\ Live' = Live
  BY <1>1, <1>2, RowsUntouched DEF ledgerVars, Live
<1>3. ASSUME Finish(w) \/ Throw(w) \/ Crash(w)
      PROVE  worker'[w].pc = "idle"
  BY <1>1, <1>3 DEF Finish, Throw, Crash, IdleWorker
<1>4. ASSUME NEW p, Goto(w, p)
      PROVE  /\ worker'[w].pc = p /\ worker'[w].session = worker[w].session
             /\ worker'[w].wallet = worker[w].wallet
  BY <1>1, <1>4 DEF Goto, WorkerRecords
<1>5. CASE (\E j \in Jobs : Take(w, j)) \/ LoadCustomer(w) \/ ProviderForgot(w)
            \/ QueryFails(w) \/ Crash(w) \/ CompleteJob(w)
  <2>1. UNCHANGED <<ledgerVars, rows>>
    BY <1>5 DEF Take, LoadCustomer, ProviderForgot, QueryFails, Crash, CompleteJob
  <2>2. worker'[w].pc \in {"idle", "customer", "guard", "finish"}
    <3>1. ASSUME NEW j \in Jobs, Take(w, j)
          PROVE  worker'[w].pc = "customer"
      BY <1>1, <3>1 DEF Take, IdleWorker
    <3>2. CASE LoadCustomer(w)
      BY <1>3, <1>4, <3>2 DEF LoadCustomer
    <3>3. CASE ProviderForgot(w) \/ QueryFails(w) \/ Crash(w) \/ CompleteJob(w)
      BY <1>3, <3>3 DEF ProviderForgot, QueryFails, CompleteJob
    <3> QED
      BY <1>5, <3>1, <3>2, <3>3
  <2> QED
    BY <1>1, <1>2, <2>1, <2>2, ReadingLeavesBacked
<1>6. CASE ReplayGuard(w)
  <2>1. UNCHANGED <<ledgerVars, rows>>
    BY <1>6 DEF ReplayGuard
  <2>2. Standing(worker[w])'
    <3>1. CASE Replayed(worker[w].session)
      BY <1>3, <1>6, <3>1 DEF ReplayGuard, Standing
    <3>2. CASE ~Replayed(worker[w].session)
      <4>1. Goto(w, "wallet")
        BY <1>6, <3>2 DEF ReplayGuard
      <4> QED
        BY <1>2, <1>4, <2>1, <3>2, <4>1 DEF Replayed, Standing
    <3> QED
      BY <3>1, <3>2
  <2> QED
    BY <1>1, <1>2, <2>1, <2>2, BackedLeft
<1>7. CASE ReadWallet(w)
  <2>1. UNCHANGED <<ledgerVars, rows>> /\ worker[w].pc = "wallet"
    BY <1>7 DEF ReadWallet
  <2>2. Standing(worker[w])'
    <3>1. CASE Throw(w)
      BY <1>3, <3>1 DEF Standing
    <3>2. CASE ~Throw(w)
      <4>1. PICK p \in {"check", "issue"} :
              worker' = [worker EXCEPT ![w].wallet = wallet, ![w].pc = p]
        BY <1>7, <3>2 DEF ReadWallet
      <4>2. worker'[w].pc = p /\ worker'[w].session = worker[w].session
        BY <1>1, <4>1 DEF WorkerRecords
      <4> QED
        BY <1>1, <1>2, <2>1, <4>2 DEF Standing
    <3> QED
      BY <3>1, <3>2
  <2> QED
    BY <1>1, <1>2, <2>1, <2>2, BackedLeft
<1>8. CASE CheckChain(w)
  <2>1. UNCHANGED <<ledgerVars, rows>> /\ worker[w].pc = "check"
    BY <1>8 DEF CheckChain
  <2>2. Standing(worker[w])'
    <3>1. CASE Throw(w)
      BY <1>3, <3>1 DEF Standing
    <3>2. CASE Goto(w, "issue")
      BY <1>1, <1>2, <1>4, <2>1, <3>2 DEF Standing
    <3> QED
      BY <1>8, <3>1, <3>2 DEF CheckChain
  <2> QED
    BY <1>1, <1>2, <2>1, <2>2, BackedLeft
<1>9. CASE FindOld(w)
  <2>1. UNCHANGED <<ledgerVars, rows>> /\ worker[w].pc = "find"
    BY <1>9 DEF FindOld
  <2>2. /\ worker'[w].pc = "flip" /\ worker'[w].session = worker[w].session
        /\ worker'[w].wallet = worker[w].wallet /\ worker'[w].old = LiveRow
    BY <1>1, <1>9 DEF FindOld, WorkerRecords
  <2>3. Live \subseteq {LiveRow}
    BY <1>1, RowFacts DEF OneLive
  <2>4. Standing(worker[w])'
    BY <1>1, <1>2, <2>1, <2>2, <2>3 DEF Standing
  <2> QED
    BY <1>1, <1>2, <2>1, <2>4, BackedLeft
<1>10. CASE FlipOld(w)
  <2>1. UNCHANGED ledgerVars /\ worker[w].pc = "flip" /\ Goto(w, "insert")
    BY <1>10 DEF FlipOld
  <2>2. PICK n : n = Len(rows)
    OBVIOUS
  <2>3. NoneInserted
    BY <1>10, <2>2, FlipOldKeeps
  <2>4. Live' = {}
    <3>1. CASE worker[w].old = 0
      <4>1. Live = {}
        BY <1>1, <2>1, <3>1, RowFacts DEF Standing
      <4> QED
        BY <2>3, <4>1 DEF NoneInserted
    <3>2. CASE worker[w].old # 0
      <4>1. worker[w].old \in DOMAIN rows /\ SetRow(worker[w].old, "superseded")
        BY <1>1, <1>10, <3>2, RowFacts DEF FlipOld, Supersede, WorkerRecords
      <4>2. worker[w].old \notin Live'
        BY <1>1, <4>1, StatusSet
      <4> QED
        BY <1>1, <2>1, <2>3, <4>2 DEF Standing, NoneInserted
    <3> QED
      BY <3>1, <3>2
  <2>5. Standing(worker[w])'
    BY <1>1, <1>4, <2>1, <2>4 DEF Standing, ledgerVars
  <2> QED
    BY <1>1, <2>1, <2>3, <2>5, BackedLeft DEF ledgerVars
<1>11. CASE Compensate(w)
  <2>1. worker'[w].pc = "idle" /\ worker[w].pc = "compensate" /\ rows' = rows
    BY <1>3, <1>11 DEF Compensate
  <2>2. Live' = {}
    BY <1>1, <2>1 DEF Standing, Live
  <2> QED
    BY <1>1, <2>1, <2>2 DEF Backed, RowsBacked, Standing
<1> QED
  BY <1>1, <1>5, <1>6, <1>7, <1>8, <1>9, <1>10, <1>11, IssueLeavesBacked, InsertLeavesBacked
     DEF WorkerStep

LEMMA OfficeLeavesBacked ==
  ASSUME PipelineInv, Backed, QueueStep \/ OfficeStep, status' = status, ~Overlap'
  PROVE  Backed'
<1>1. PICK n : n = Len(rows)
  OBVIOUS
<1>2. NoneInserted /\ UNCHANGED worker
  BY <1>1, QueueKeeps, OfficeKeeps, RowsUntouched DEF PipelineInv, PipelineTypeOK
<1>3. content' = content
  <2>1. CASE QueueStep
    BY <1>1, <2>1, QueueKeeps DEF ledgerVars
  <2>2. CASE OfficeStep
    BY <2>2 DEF OfficeStep, Ban, Reset, AdminStep, AdminCrash, SelectAged, FlipAged,
                LockAndRecheck, MintOnChain, RecordMint, ReconcileOrphanNft, SelectRows,
                RevokeOnChain, RevokeRow, ResetLevel, RevokeSessions, SelfRevoke, Revoke,
                MintBadge, ledgerVars
  <2> QED
    BY <2>1, <2>2
<1>4. \A w \in Workers : Standing(worker[w])'
  BY <1>2, <1>3 DEF Backed, Standing, NoneInserted
<1> QED
  BY <1>2, <1>3, <1>4, BackedLeft

\* A step that does not disturb leaves the chain behind the rows.
LEMMA BackedStep ==
  ASSUME PipelineInv, OneLive, ~disturbed => Backed, [Next]_vars, ~disturbed'
  PROVE  Backed'
<1>1. CASE UNCHANGED vars
  <2>1. /\ NoneInserted /\ UNCHANGED <<status, content, worker>> /\ Backed
        /\ Overlap' = Overlap
    BY <1>1, RowsUntouched
       DEF vars, systemVars, pipelineVars, ledgerVars, PipelineInv, PipelineTypeOK, Overlap
  <2>2. \A w \in Workers : Standing(worker[w])'
    BY <2>1 DEF Backed, Standing, NoneInserted
  <2> QED
    BY <2>1, <2>2, BackedLeft DEF Backed
<1>2. CASE AtRest'
  <2>1. RowsBacked' /\ ~Overlap' /\ \A w \in Workers : Standing(worker[w])'
    BY <1>2 DEF AtRest, RowsBacked, Overlap, Standing, AtWork
  <2> QED
    BY <2>1 DEF Backed
<1>3. CASE Next /\ ~AtRest'
  <2>1. /\ Backed /\ ~Overlap'
        /\ status' = status \/ worker' # worker
        /\ \A w \in Workers :
             ~(worker[w].pc = "insert" /\ worker'[w].pc = "compensate" /\ rows' # rows)
    BY <1>3, UndisturbedStep DEF Next
  <2>2. CASE QueueStep \/ OfficeStep
    <3>1. PICK n : n = Len(rows)
      OBVIOUS
    <3>2. worker' = worker
      BY <2>2, <3>1, QueueKeeps, OfficeKeeps
    <3> QED
      BY <2>1, <2>2, <3>2, OfficeLeavesBacked
  <2> QED
    BY <1>3, <2>1, <2>2, NextInParts, WorkerLeavesBacked
<1> QED
  BY <1>1, <1>2, <1>3

LEMMA BackedInit ==
  ASSUME Init
  PROVE  OneLive /\ Backed /\ Live = {}
<1>1. rows = <<>> /\ \A w \in Workers : worker[w].pc = "idle"
  BY DEF Init, IdleWorker
<1>2. Live = {}
  BY <1>1 DEF Live
<1>3. AtRest
  BY <1>1, <1>2 DEF AtRest, AtWork
<1> QED
  BY <1>2, <1>3, RestIsBacked DEF OneLive

\* Until two runs of the job handler overlap, someone else revokes, or an insert
\* that did commit is undone, and again from when no row is live and nobody at
\* work, the chain backs the live row at its level: through every crash,
\* failure, retry, expiry, ban and change of wallet.
THEOREM LiveRowsAreBacked == Spec => []ActiveRowIsLive
<1>1. Init => OneLive /\ (~disturbed => Backed)
  BY BackedInit
<1>2. PipelineInv /\ OneLive /\ (~disturbed => Backed) /\ [Next]_vars
        => (OneLive /\ (~disturbed => Backed))'
  BY OneLiveKept, BackedStep
<1>3. OneLive /\ (~disturbed => Backed) => ActiveRowIsLive
  BY DEF Backed, RowsBacked, ActiveRowIsLive
<1> QED
  BY <1>1, <1>2, <1>3, PipelineInvariant, PTL DEF Spec

-----------------------------------------------------------------------------
(* The row and the showcase token.                                         *)

\* A request for a token of a live row is about the linked wallet.
MinterLinked == minter.pc # "idle" /\ minter.row \in Live => minter.wallet = wallet

\* The token a row records, or a request is about to record, is there.  A row
\* stays its wallet's while another is linked, or none.
Linked(i) == wallet \in {NoWallet, rows[i].wallet}
Tokened(i) == rows[i].nft \/ (minter.pc = "claim" /\ minter.row = i)
TokensBacked == \A i \in Live : Linked(i) /\ Tokened(i) => badge[rows[i].wallet]

\* The wallet stays while a row is live, once there is one.
WalletStays == wallet' = wallet \/ wallet = NoWallet \/ Live' = {}

LEMMA WalletKept ==
  ASSUME PipelineInv, [Next]_vars
  PROVE  WalletStays
<1>1. CASE UNCHANGED vars
  BY <1>1 DEF vars, systemVars, pipelineVars, WalletStays
<1>2. CASE QueueStep
  <2>1. CASE UnlinkWallet
    BY <2>1 DEF UnlinkWallet, WalletStays, Live
  <2>2. CASE ~UnlinkWallet
    BY <1>2, <2>2 DEF QueueStep, StartSession, Decide, Deliver, ExpireJob, Overrun, LinkWallet,
                      Activate, Reconcile, LookbackPasses, WalletStays
  <2> QED
    BY <2>1, <2>2
<1>3. CASE OfficeStep
  BY <1>3 DEF OfficeStep, Ban, Reset, AdminStep, AdminCrash, SelectAged, FlipAged, LockAndRecheck,
              MintOnChain, RecordMint, ReconcileOrphanNft, SelectRows, RevokeOnChain, RevokeRow,
              ResetLevel, RevokeSessions, SelfRevoke, WalletStays
<1>4. ASSUME NEW w \in Workers, WorkerStep(w) \/ ProviderForgot(w) \/ QueryFails(w) \/ Crash(w)
      PROVE  WalletStays
  BY <1>4 DEF WorkerStep, Take, LoadCustomer, ReplayGuard, ReadWallet, CheckChain, IssueOnChain,
              FindOld, FlipOld, Insert, Compensate, CompleteJob, ProviderForgot, QueryFails, Crash,
              WalletStays
<1> QED
  BY <1>1, <1>2, <1>3, <1>4, NextInParts

\* What a step makes of the request for a token.
MinterMoves ==
  \/ minter' = minter
  \/ minter'.pc = "idle"
  \/ LockAndRecheck /\ minter'.pc = "mint" /\ minter'.wallet = wallet
  \/ /\ MintOnChain /\ MintBadge(minter.wallet) /\ minter'.pc = "claim"
     /\ minter'.row = minter.row /\ minter'.wallet = minter.wallet

LEMMA MinterStep ==
  ASSUME PipelineInv, [Next]_vars
  PROVE  MinterMoves
<1>1. PICK n : n = Len(rows)
  OBVIOUS
<1>2. minter \in MinterRecords(n)
  BY <1>1 DEF PipelineInv, PipelineTypeOK, MinterRecords
<1>3. CASE LockAndRecheck
  BY <1>3 DEF LockAndRecheck, MinterMoves
<1>4. CASE MintOnChain
  BY <1>2, <1>4 DEF MintOnChain, MinterMoves, MinterRecords, IdleMinter
<1>5. CASE RecordMint
  BY <1>5 DEF RecordMint, MinterMoves, IdleMinter
<1>6. CASE ~(LockAndRecheck \/ MintOnChain \/ RecordMint)
  <2>1. CASE UNCHANGED vars \/ QueueStep
    BY <1>1, <2>1, QueueKeeps DEF vars, systemVars, pipelineVars, MinterMoves
  <2>2. CASE OfficeStep
    BY <1>6, <2>2
       DEF OfficeStep, Ban, Reset, AdminStep, AdminCrash, SelectAged, FlipAged, ReconcileOrphanNft,
           SelectRows, RevokeOnChain, RevokeRow, ResetLevel, RevokeSessions, SelfRevoke, MinterMoves
  <2>3. ASSUME NEW w \in Workers, WorkerStep(w) \/ ProviderForgot(w) \/ QueryFails(w) \/ Crash(w)
        PROVE  minter' = minter
    BY <2>3 DEF WorkerStep, Take, LoadCustomer, ReplayGuard, ReadWallet, CheckChain, IssueOnChain,
                FindOld, FlipOld, Insert, Compensate, CompleteJob, ProviderForgot, QueryFails, Crash
  <2> QED
    BY <2>1, <2>2, <2>3, NextInParts DEF MinterMoves
<1> QED
  BY <1>3, <1>4, <1>5, <1>6

\* Rows that were there before a step were live then if they are live after it.
LEMMA OldLiveRows ==
  ASSUME PipelineInv, [Next]_vars
  PROVE  /\ RowsKept
         /\ \A i \in Live' : i \in Live \/ (i \notin DOMAIN rows /\ ~rows'[i].nft)
<1>1. rows \in Seq(Row)
  BY DEF PipelineInv, PipelineTypeOK
<1>2. CASE NoneInserted
  BY <1>2 DEF NoneInserted
<1>3. ASSUME NEW w \in Workers, Live = {}, worker[w].pc = "insert", rows' = Append(rows, NewRow(w))
      PROVE  RowsKept /\ \A i \in Live' : i \notin DOMAIN rows /\ ~rows'[i].nft
  <2>1. worker[w].session \in Sessions /\ worker[w].wallet \in Users
    BY <1>3, WorkerFacts DEF Walleted
  <2>2. PICK k :
          /\ DOMAIN rows' = DOMAIN rows \cup {k} /\ rows'[k] = NewRow(w)
          /\ \A i \in DOMAIN rows : rows'[i] = rows[i] /\ i # k
    BY <1>1, <1>3, <2>1, RowInserted
  <2>3. \A i \in Live' : i = k /\ i \notin DOMAIN rows
    BY <1>3, <2>2 DEF Live
  <2>4. ~rows'[k].nft
    BY <2>2 DEF NewRow
  <2>5. RowsKept
    BY <1>1, <1>3, <2>1, RowInserted
  <2> QED
    BY <2>3, <2>4, <2>5
<1> QED
  BY <1>2, <1>3, RowsStep

LEMMA MinterStaysLinked ==
  ASSUME PipelineInv, MinterLinked, [Next]_vars
  PROVE  MinterLinked'
<1> SUFFICES ASSUME minter'.pc # "idle", minter'.row \in Live'
             PROVE  minter'.wallet = wallet'
  BY DEF MinterLinked
<1>1. WalletStays /\ MinterMoves
  BY WalletKept, MinterStep
<1>2. CASE LockAndRecheck
  BY <1>2 DEF LockAndRecheck
<1>3. CASE ~LockAndRecheck
  <2>1. minter.pc # "idle" /\ minter'.row = minter.row /\ minter'.wallet = minter.wallet
    BY <1>1, <1>3 DEF MinterMoves, MintOnChain
  <2>2. minter.wallet \in Users /\ minter.row \in DOMAIN rows
    BY <2>1 DEF PipelineInv, OthersFit
  <2>3. minter.row \in Live
    BY <2>1, <2>2, OldLiveRows
  <2> QED
    BY <1>1, <2>1, <2>2, <2>3, PipelineAssumption DEF MinterLinked, WalletStays
<1> QED
  BY <1>2, <1>3

\* Where nothing is disturbed, nobody burns the token of a live row.
LEMMA BadgesStay ==
  ASSUME PipelineInv, Backed, Next, ~disturbed', ~AtRest', NEW i \in Live, i \in Live',
         badge[rows[i].wallet]
  PROVE  badge'[rows[i].wallet]
<1>1. /\ rows \in Seq(Row) /\ LedgerTypeOK /\ rows[i].wallet \in Users
      /\ status[rows[i].wallet] = "Active"
  BY RowFacts DEF PipelineInv, PipelineTypeOK, Row, Backed, RowsBacked, ChainBacks
<1>2. status' = status \/ worker' # worker
  BY UndisturbedStep DEF Next
<1>3. ASSUME NEW u \in Users, NEW burn \in BOOLEAN, Revoke(u, burn), worker' = worker
      PROVE  badge'[rows[i].wallet]
  <2>1. rows[i].wallet # u
    BY <1>1, <1>2, <1>3 DEF Revoke, LedgerTypeOK
  <2> QED
    BY <1>1, <1>3, <2>1 DEF Revoke, LedgerTypeOK
<1>4. ASSUME NEW u \in Users, MintBadge(u)
      PROVE  badge'[rows[i].wallet]
  BY <1>1, <1>4 DEF MintBadge, LedgerTypeOK
<1>5. PICK n : n = Len(rows)
  OBVIOUS
<1>6. CASE QueueStep
  BY <1>5, <1>6, QueueKeeps DEF ledgerVars
<1>7. CASE OfficeStep
  <2>1. worker' = worker
    BY <1>5, <1>7, OfficeKeeps
  <2>2. CASE RevokeOnChain
    <3>1. rows[admin.row].wallet \in Users /\ admin.burn \in BOOLEAN
      BY <1>1, <2>2, RowFacts DEF PipelineInv, PipelineTypeOK, OthersFit, RevokeOnChain, Row
    <3> QED
      BY <1>3, <2>1, <2>2, <3>1 DEF RevokeOnChain, ledgerVars
  <2>3. ASSUME NEW u \in Users, SelfRevoke(u)
        PROVE  badge'[rows[i].wallet]
    BY <1>3, <2>1, <2>3 DEF SelfRevoke
  <2>4. CASE MintOnChain
    <3>1. minter.wallet \in Users
      BY <2>4 DEF MintOnChain, PipelineInv, OthersFit
    <3> QED
      BY <1>4, <2>4, <3>1 DEF MintOnChain, ledgerVars
  <2>5. CASE ~RevokeOnChain /\ ~MintOnChain /\ \A u \in Users : ~SelfRevoke(u)
    <3>1. badge' = badge
      BY <1>7, <2>5 DEF OfficeStep, Ban, Reset, AdminStep, AdminCrash, SelectAged, FlipAged,
                        LockAndRecheck, RecordMint, ReconcileOrphanNft, SelectRows, RevokeRow,
                        ResetLevel, RevokeSessions, ledgerVars
    <3> QED
      BY <3>1
  <2> QED
    BY <2>2, <2>3, <2>4, <2>5
<1>8. ASSUME NEW w \in Workers, WorkerStep(w) \/ ProviderForgot(w) \/ QueryFails(w) \/ Crash(w)
      PROVE  badge' = badge
  <2>1. ~Compensate(w)
    BY DEF Backed, Standing, Compensate
  <2>2. CASE IssueOnChain(w)
    BY <2>2 DEF IssueOnChain, Issue, ledgerVars
  <2>3. CASE ~IssueOnChain(w)
    BY <1>8, <2>1, <2>3
       DEF WorkerStep, Take, LoadCustomer, ReplayGuard, ReadWallet, CheckChain, FindOld, FlipOld,
           Insert, CompleteJob, ProviderForgot, QueryFails, Crash, ledgerVars
  <2> QED
    BY <2>2, <2>3
<1> QED
  BY <1>6, <1>7, <1>8, NextInParts

\* A token is recorded only by the request that minted it and by the orphan pass,
\* which has seen it.
LEMMA TokensRecorded ==
  ASSUME PipelineInv, [Next]_vars, NEW i \in Live, rows'[i].nft, ~rows[i].nft
  PROVE  \/ minter.pc = "claim" /\ minter.row = i
         \/ badge[rows[i].wallet]
<1>1. rows \in Seq(Row) /\ OthersFit /\ i \in DOMAIN rows
  BY RowFacts DEF PipelineInv, PipelineTypeOK
<1>2. ASSUME TokensKept
      PROVE  FALSE
  BY <1>1, <1>2 DEF TokensKept
<1>3. rows' # rows
  BY <1>1, <1>2, RowsUntouched
<1>4. CASE RecordMint
  <2>1. minter.row \in DOMAIN rows /\ Claim(minter.row) /\ minter.pc = "claim"
    BY <1>1, <1>4 DEF RecordMint, OthersFit
  <2> QED
    BY <1>1, <2>1, TokenClaimed
<1>5. CASE ReconcileOrphanNft
  <2>1. PICK j \in Live : badge[rows[j].wallet] /\ Claim(j)
    BY <1>5 DEF ReconcileOrphanNft, TokenOnChain
  <2>2. j \in DOMAIN rows
    BY <1>1, <2>1, RowFacts
  <2> QED
    BY <1>1, <2>1, <2>2, TokenClaimed
<1>6. CASE OfficeStep /\ ~RecordMint /\ ~ReconcileOrphanNft
  <2>1. CASE RevokeRow
    BY <1>1, <1>2, <2>1, StatusSet DEF RevokeRow, OthersFit
  <2>2. CASE FlipAged
    BY <1>1, <1>2, <2>2, StatusSet DEF FlipAged, OthersFit
  <2>3. CASE ~RevokeRow /\ ~FlipAged
    BY <1>3, <1>6, <2>3 DEF OfficeStep, Ban, Reset, AdminStep, AdminCrash, SelectAged,
                            LockAndRecheck, MintOnChain, SelectRows, RevokeOnChain, ResetLevel,
                            RevokeSessions, SelfRevoke
  <2> QED
    BY <2>1, <2>2, <2>3
<1>7. ASSUME NEW w \in Workers, WorkerStep(w) \/ ProviderForgot(w) \/ QueryFails(w) \/ Crash(w)
      PROVE  FALSE
  BY <1>2, <1>7, WorkerRows
<1>8. PICK n : n = Len(rows)
  OBVIOUS
<1>9. CASE QueueStep
  BY <1>3, <1>8, <1>9, QueueKeeps
<1> QED
  BY <1>3, <1>4, <1>5, <1>6, <1>7, <1>9, NextInParts DEF vars, systemVars, pipelineVars

LEMMA TokensStayBacked ==
  ASSUME PipelineInv, OneLive, MinterLinked, Backed, TokensBacked, Next, ~disturbed', ~AtRest'
  PROVE  TokensBacked'
<1> SUFFICES ASSUME NEW i \in Live', Linked(i)', Tokened(i)'
             PROVE  badge'[rows'[i].wallet]
  BY DEF TokensBacked
<1>1. rows \in Seq(Row) /\ OthersFit /\ LedgerTypeOK /\ NoWallet \notin Users
  BY PipelineAssumption DEF PipelineInv, PipelineTypeOK
<1>2. MinterMoves /\ WalletStays
  BY MinterStep, WalletKept
<1>3. CASE i \notin DOMAIN rows
  <2>1. ~rows'[i].nft
    BY <1>1, <1>3, OldLiveRows, RowFacts
  <2>2. minter'.pc = "claim" /\ minter'.row = i
    BY <2>1 DEF Tokened
  <2>3. minter.pc # "idle" /\ minter.row = i
    BY <1>2, <2>2 DEF MinterMoves, MintOnChain
  <2> QED
    BY <1>1, <1>3, <2>3 DEF OthersFit
<1>4. CASE i \in DOMAIN rows
  <2>1. i \in Live /\ rows'[i].wallet = rows[i].wallet /\ rows[i].wallet \in Users
    BY <1>1, <1>4, OldLiveRows, RowFacts DEF RowsKept, Row
  <2>2. Linked(i)
    BY <1>2, <2>1 DEF Linked, WalletStays
  <2>3. CASE Tokened(i) \/ badge[rows[i].wallet]
    <3>1. badge[rows[i].wallet]
      BY <2>1, <2>2, <2>3 DEF TokensBacked
    <3> QED
      BY <2>1, <3>1, BadgesStay
  <2>4. CASE ~Tokened(i) /\ ~badge[rows[i].wallet]
    <3>1. minter'.pc = "claim" /\ minter'.row = i
      BY <2>1, <2>4, TokensRecorded DEF Tokened
    <3>2. /\ MintOnChain /\ MintBadge(minter.wallet) /\ minter'.row = minter.row
      BY <1>2, <2>4, <3>1 DEF MinterMoves, Tokened
    <3>3. minter.wallet \in Users /\ minter.wallet = wallet
      BY <1>1, <2>1, <3>1, <3>2 DEF OthersFit, MinterLinked, MintOnChain
    <3>4. rows[i].wallet = minter.wallet
      BY <1>1, <2>2, <3>3 DEF Linked
    <3> QED
      BY <1>1, <2>1, <3>2, <3>3, <3>4 DEF MintBadge, LedgerTypeOK
  <2> QED
    BY <2>3, <2>4
<1> QED
  BY <1>3, <1>4

\* Until two runs of the job handler overlap, someone else revokes, or an insert
\* that did commit is undone, a live row of the linked wallet records a token
\* only where the wallet has one: whoever mints, sweeps, unlinks, fails or crashes.
THEOREM RecordedTokensExist == Spec => []RecordedTokenExists
<1> DEFINE TokenInv == /\ OneLive /\ MinterLinked
                       /\ ~disturbed => Backed /\ TokensBacked
<1>1. Init => TokenInv
  BY BackedInit DEF MinterLinked, TokensBacked
<1>2. PipelineInv /\ TokenInv /\ [Next]_vars => TokenInv'
  <2> SUFFICES ASSUME PipelineInv, TokenInv, [Next]_vars
               PROVE  TokenInv'
    OBVIOUS
  <2>1. OneLive' /\ MinterLinked'
    BY OneLiveKept, MinterStaysLinked
  <2>2. ASSUME ~disturbed'
        PROVE  Backed' /\ TokensBacked'
    <3>1. Backed'
      BY <2>2, BackedStep
    <3>2. CASE UNCHANGED vars
      BY <2>2, <3>1, <3>2 DEF vars, systemVars, pipelineVars, ledgerVars,
                            TokensBacked, Linked, Tokened, Live
    <3>3. CASE AtRest'
      BY <3>1, <3>3 DEF AtRest, TokensBacked
    <3>4. CASE Next /\ ~AtRest'
      <4>1. ~disturbed
        BY <2>2, <3>4, UndisturbedStep DEF Next
      <4> QED
        BY <2>2, <3>1, <3>4, <4>1, TokensStayBacked
    <3> QED
      BY <3>2, <3>3, <3>4
  <2> QED
    BY <2>1, <2>2
<1>3. TokenInv => RecordedTokenExists
  BY DEF TokensBacked, Linked, Tokened, RecordedTokenExists
<1> HIDE DEF TokenInv
<1> QED
  BY <1>1, <1>2, <1>3, PipelineInvariant, PTL DEF Spec

-----------------------------------------------------------------------------
(* The abstract specifications above and below the pipeline.               *)

\* One transaction, or none: each step of the pipeline is a step of the ledger
\* that the contracts implement (CrivacyKYC!Ledger).
THEOREM PipelineSendsTransactions == Spec => LedgerSpec
<1>1. Init => LedgerInit
  BY DEF Init
<1>2. PipelineInv /\ [Next]_vars => [LedgerNext]_ledgerVars
  <2> SUFFICES ASSUME PipelineInv, [Next]_vars, ledgerVars' # ledgerVars
               PROVE  LedgerNext
    OBVIOUS
  <2>1. rows \in Seq(Row) /\ OthersFit
    BY DEF PipelineInv, PipelineTypeOK
  <2>2. ~QueueStep /\ vars' # vars
    <3>1. PICK n : n = Len(rows)
      OBVIOUS
    <3> QED
      BY <3>1, QueueKeeps DEF vars, systemVars
  <2>3. ASSUME NEW w \in Workers,
               WorkerStep(w) \/ ProviderForgot(w) \/ QueryFails(w) \/ Crash(w)
        PROVE  LedgerNext
    <3>1. CASE IssueOnChain(w)
      <4>1. worker[w].wallet \in Users /\ Level(worker[w].session) \in Contents
        BY <3>1, WorkerFacts, PipelineAssumption DEF IssueOnChain, Walleted, Level
      <4>2. Issue(worker[w].wallet, Level(worker[w].session))
        BY <3>1 DEF IssueOnChain
      <4> QED
        BY <4>1, <4>2 DEF LedgerNext
    <3>2. CASE Compensate(w)
      <4>1. worker[w].wallet \in Users /\ Revoke(worker[w].wallet, FALSE)
        BY <3>2, WorkerFacts DEF Compensate, Walleted
      <4> QED
        BY <4>1 DEF LedgerNext
    <3>3. CASE ~IssueOnChain(w) /\ ~Compensate(w)
      BY <2>3, <3>3
         DEF WorkerStep, Take, LoadCustomer, ReplayGuard, ReadWallet, CheckChain, FindOld, FlipOld,
             Insert, CompleteJob, ProviderForgot, QueryFails, Crash
    <3> QED
      BY <3>1, <3>2, <3>3
  <2>4. CASE OfficeStep
    <3>1. CASE RevokeOnChain
      <4>1. rows[admin.row].wallet \in Users /\ admin.burn \in BOOLEAN
        BY <2>1, <3>1, RowFacts DEF PipelineInv, PipelineTypeOK, OthersFit, RevokeOnChain, Row
      <4>2. Revoke(rows[admin.row].wallet, admin.burn)
        BY <3>1 DEF RevokeOnChain
      <4> QED
        BY <4>1, <4>2 DEF LedgerNext
    <3>2. CASE MintOnChain
      <4>1. minter.wallet \in Users /\ MintBadge(minter.wallet)
        BY <2>1, <3>2 DEF OthersFit, MintOnChain
      <4> QED
        BY <4>1 DEF LedgerNext
    <3>3. ASSUME NEW u \in Users, SelfRevoke(u)
          PROVE  LedgerNext
      BY <3>3 DEF SelfRevoke, LedgerNext
    <3>4. CASE ~(RevokeOnChain \/ MintOnChain \/ \E u \in Users : SelfRevoke(u))
      BY <2>4, <3>4
         DEF OfficeStep, Ban, Reset, AdminStep, AdminCrash, SelectAged, FlipAged, LockAndRecheck,
             RecordMint, ReconcileOrphanNft, SelectRows, RevokeRow, ResetLevel, RevokeSessions
    <3> QED
      BY <3>1, <3>2, <3>3, <3>4
  <2> QED
    BY <2>2, <2>3, <2>4, NextInParts
<1> QED
  BY <1>1, <1>2, PipelineInvariant, PTL DEF Spec, LedgerSpec

Slot == INSTANCE CredentialSlot WITH issued <- Len(rows), current <- LiveRow

\* Those who read the table see one slot: whatever workers, admins, sweeps and
\* requests do to its rows, at most one is live, a row that stopped being live
\* never is again, and a new one only comes when none is.
THEOREM RowsImplementTheSlot == Spec => Slot!SlotSpec
<1>1. Init => OneLive /\ Slot!SlotInit
  <2> SUFFICES ASSUME Init PROVE OneLive /\ Slot!SlotInit
    OBVIOUS
  <2>1. rows = <<>>
    BY DEF Init
  <2>2. Live = {} /\ Len(rows) = 0
    BY <2>1 DEF Live
  <2> QED
    BY <2>2 DEF OneLive, LiveRow, Slot!SlotInit
<1>2. PipelineInv /\ OneLive /\ [Next]_vars => OneLive'
  BY OneLiveKept
<1>3. PipelineInv /\ OneLive /\ OneLive' /\ [Next]_vars
        => [Slot!SlotNext]_<<Len(rows), LiveRow>>
  <2> SUFFICES ASSUME PipelineInv, OneLive, OneLive', [Next]_vars
               PROVE  \/ UNCHANGED <<Len(rows), LiveRow>>
                      \/ Slot!Fill \/ Slot!Clear
    BY DEF Slot!SlotNext
  <2>1. PICK n : n = Len(rows)
    OBVIOUS
  <2>2. /\ Len(rows) \in Nat /\ DOMAIN rows = 1..Len(rows)
        /\ Live = {} => LiveRow = 0
        /\ Live # {} => LiveRow \in Live /\ LiveRow # 0
    BY RowFacts DEF PipelineInv, PipelineTypeOK, LiveRow
  <2>3. rows' \in Seq(Row)
    BY <2>1, EveryStep DEF StepKeeps, RowsKept
  <2>4. /\ Len(rows)' \in Nat /\ DOMAIN rows' = 1..Len(rows)'
        /\ Live' = {} => LiveRow' = 0
        /\ Live' # {} => LiveRow' \in Live'
    <3>1. Len(rows)' \in Nat /\ DOMAIN rows' = 1..Len(rows)'
      BY <2>3, LenProperties
    <3>2. (Live' = {} => LiveRow' = 0) /\ (Live' # {} => LiveRow' \in Live')
      BY DEF LiveRow
    <3> QED
      BY <3>1, <3>2
  <2>5. CASE NoneInserted
    <3>1. Live' \subseteq Live /\ Len(rows)' = Len(rows)
      <4>1. 1..Len(rows) = 1..Len(rows)' /\ Live' \subseteq Live
        BY <2>2, <2>4, <2>5 DEF NoneInserted
      <4>2. ASSUME NEW a \in Nat, NEW b \in Nat, 1..a = 1..b
            PROVE  a = b
        <5>1. a <= b
          BY <4>2, a > 0 => a \in 1..a
        <5>2. b <= a
          BY <4>2, b > 0 => b \in 1..b
        <5> QED
          BY <5>1, <5>2
      <4> QED
        BY <2>2, <2>4, <4>1, <4>2
    <3>2. CASE Live' # {}
      <4>1. LiveRow' = LiveRow
        BY <2>2, <2>4, <3>1, <3>2 DEF OneLive
      <4> QED
        BY <3>1, <4>1
    <3>3. CASE Live' = {}
      BY <2>2, <2>4, <3>1, <3>3 DEF Slot!Clear
    <3> QED
      BY <3>2, <3>3
  <2>6. ASSUME NEW w \in Workers, Live = {}, worker[w].pc = "insert",
               rows' = Append(rows, NewRow(w))
        PROVE  Slot!Fill
    <3> DEFINE k == Len(rows) + 1
    <3>1. /\ rows \in Seq(Row) /\ worker[w].session \in Sessions /\ worker[w].wallet \in Users
      BY <2>6, WorkerFacts DEF PipelineInv, PipelineTypeOK, Walleted
    <3>2. /\ DOMAIN rows' = DOMAIN rows \cup {k} /\ rows'[k] = NewRow(w)
          /\ \A i \in DOMAIN rows : rows'[i] = rows[i] /\ i # k
      BY <2>6, <3>1, RowInserted
    <3>3. rows'[k].status = "active"
      BY <3>2 DEF NewRow
    <3>4. Live' = {k}
      BY <2>6, <3>2, <3>3 DEF Live
    <3>5. Len(rows)' = k
      <4>1. NewRow(w) \in Row
        BY <3>1 DEF NewRow, Row, Level
      <4> QED
        BY <2>6, <3>1, <4>1, AppendedRows
    <3> QED
      BY <2>2, <2>4, <2>6, <3>4, <3>5 DEF Slot!Fill
  <2> QED
    BY <2>5, <2>6, RowsStep
<1> QED
  BY <1>1, <1>2, <1>3, PipelineInvariant, PTL DEF Spec, Slot!SlotSpec
=============================================================================
