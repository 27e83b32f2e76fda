------------------------ MODULE WebhookDeliveryProofs ------------------------
(***************************************************************************)
(* Theorems about WebhookDelivery for any deliveries, workers, limits and  *)
(* edits.  An outcome is final because a delivery has one job, waiting or  *)
(* with a worker, as long as none is handed out again beside another       *)
(* (OneJob), and whoever holds it found the row unsettled (NotSettled).    *)
(* The breaker is just because one worker at a time is about to write it,  *)
(* with what it read of it (BreakerFits).                                  *)
(***************************************************************************)
EXTENDS WebhookDelivery, TLAPS

\* A worker with a job has a delivery, and a delivery that nobody has queued has
\* neither a job nor a worker.
JobsFit ==
  /\ \A w \in Workers : worker[w] # Idle => worker[w].pc # "idle" /\ worker[w].delivery \in Deliveries
  /\ \A d \in Deliveries \ queued :
       jobs[d] = {} /\ \A w \in Workers : worker[w].delivery # d

\* The worker holds the only claim there is to try the delivery again.
Bearing == {"load", "endpoint", "post", "record", "retry"}
Bears(w, d) == worker[w].pc \in Bearing /\ worker[w].delivery = d

\* Of a delivery that has not forked there is one job, waiting or with a worker.
OneJob ==
  \A d \in Deliveries \ forked :
    /\ \A m, n \in jobs[d] : m = n
    /\ \A w \in Workers : Bears(w, d) =>
         jobs[d] = {} /\ \A v \in Workers : Bears(v, d) => v = w

\* Nobody attempts what is settled.
NotSettled ==
  \A w \in Workers :
    worker[w].pc \in {"endpoint", "post", "record"} /\ worker[w].delivery \notin forked \cup replayed
      => row[worker[w].delivery].status \notin Terminal

Reporting == {"record", "retry", "breaker"}

\* Without overlaps and lost results the breaker's columns lag behind the streak
\* by what one worker is about to write.
BreakerFits ==
  ~blurred /\ endpoint.exists =>
    /\ \A v, w \in Workers : worker[v].pc \in Attempting /\ worker[w].pc \in Attempting => v = w
    /\ \A w \in Workers : worker[w].pc \in Attempting =>
         /\ worker[w].failures = endpoint.failures
         /\ endpoint.failures < Threshold /\ ~endpoint.tripped
    /\ \A w \in Workers : worker[w].pc \in Reporting =>
         streak = IF worker[w].result = "ok" THEN 0 ELSE endpoint.failures + 1
    /\ (\A w \in Workers : worker[w].pc \notin Reporting) =>
         /\ streak = endpoint.failures
         /\ endpoint.tripped <=> endpoint.failures >= Threshold

WebhookInv == WebhookTypeOK /\ JobsFit /\ OneJob /\ NotSettled /\ BreakerFits

-----------------------------------------------------------------------------
(* Types.                                                                  *)

WorkerRecords ==
  [pc : {"idle", "load", "endpoint", "done"} \cup Attempting,
   delivery : Deliveries \cup {NoDelivery}, tries : 0..RetryLimit,
   attempts : Nat, failures : Nat, result : {"none", "ok", "transient", "final"}]
Rows == [status : {"absent", "pending", "delivering", "failed"} \cup Terminal, attempts : Nat]

LEMMA NewLocals == /\ Idle \in WorkerRecords
         /\ \A d \in Deliveries, n \in 0..RetryLimit :
              [Idle EXCEPT !.pc = "load", !.delivery = d, !.tries = n] \in WorkerRecords
<1>1. Idle \in WorkerRecords
  BY WebhookAssumption DEF Idle, WorkerRecords
<1>2. \A r \in WorkerRecords, d \in Deliveries, n \in 0..RetryLimit :
        [r EXCEPT !.pc = "load", !.delivery = d, !.tries = n] \in WorkerRecords
  BY DEF WorkerRecords
<1> QED
  BY <1>1, <1>2

\* One or two of a worker's locals set.
LEMMA SetLocals ==
  ASSUME NEW r \in WorkerRecords,
         NEW pc \in {"idle", "load", "endpoint", "done"} \cup Attempting, NEW n \in Nat
  PROVE  /\ [r EXCEPT !.pc = pc] \in WorkerRecords
         /\ [r EXCEPT !.pc = pc, !.attempts = n] \in WorkerRecords
         /\ [r EXCEPT !.pc = pc, !.failures = n] \in WorkerRecords
         /\ [r EXCEPT !.pc = pc, !.failures = n, !.result = "none"] \in WorkerRecords
         /\ \A x \in {"ok", "transient", "final"} :
              [r EXCEPT !.pc = pc, !.result = x] \in WorkerRecords
BY DEF WorkerRecords

\* The row's new value is a row.
LEMMA UpdateTyped ==
  ASSUME row \in [Deliveries -> Rows], NEW d \in Deliveries, NEW new \in Rows, Update(d, new)
  PROVE  row' \in [Deliveries -> Rows]
BY DEF Update

-----------------------------------------------------------------------------
(* What a step of worker w does to the locals: it leaves the others alone. *)

Moves(w, to) ==
  /\ worker' \in [Workers -> WorkerRecords]
  /\ \A v \in Workers \ {w} : worker'[v] = worker[v]
  /\ worker'[w].pc \in to

Keeps(w) == worker'[w].delivery = worker[w].delivery /\ worker'[w].pc # "idle"

LEMMA NewRecord ==
  ASSUME worker \in [Workers -> WorkerRecords], NEW w \in Workers, NEW r \in WorkerRecords,
         worker' = [worker EXCEPT ![w] = r]
  PROVE  Moves(w, {r.pc}) /\ worker'[w] = r
BY DEF Moves

LEMMA TakeMoves ==
  ASSUME WebhookTypeOK, NEW w \in Workers, NEW d \in Deliveries, Take(w, d)
  PROVE  /\ Moves(w, {"load"}) /\ worker'[w].delivery = d /\ worker[w] = Idle
         /\ \E n \in jobs[d] : jobs' = [jobs EXCEPT ![d] = @ \ {n}]
<1>1. worker \in [Workers -> WorkerRecords] /\ jobs[d] \subseteq 0..RetryLimit
  BY DEF WebhookTypeOK, WorkerRecords
<1>2. PICK n \in jobs[d] :
        /\ jobs' = [jobs EXCEPT ![d] = @ \ {n}]
        /\ worker' = [worker EXCEPT ![w] = [Idle EXCEPT !.pc = "load", !.delivery = d, !.tries = n]]
  BY DEF Take
<1> DEFINE new == [Idle EXCEPT !.pc = "load", !.delivery = d, !.tries = n]
<1>3. new \in WorkerRecords
  BY <1>1, NewLocals
<1>4. new.pc = "load" /\ new.delivery = d
  BY DEF Idle
<1>5. worker' = [worker EXCEPT ![w] = new]
  BY <1>2
<1> HIDE DEF new
<1> QED
  BY <1>1, <1>2, <1>3, <1>4, <1>5, NewRecord DEF Take

LEMMA LoadDeliveryMoves ==
  ASSUME WebhookTypeOK, JobsFit, NEW w \in Workers, LoadDelivery(w)
  PROVE  /\ Moves(w, {"done", "endpoint"}) /\ Keeps(w)
         /\ worker'[w].pc = "endpoint" => row[worker[w].delivery].status \notin Terminal
<1>1. worker \in [Workers -> WorkerRecords] /\ worker[w] \in WorkerRecords
  BY DEF WebhookTypeOK, WorkerRecords
<1>2. worker[w] # Idle
  BY DEF LoadDelivery, Idle
<1>3. row[worker[w].delivery].attempts \in Nat
  BY <1>2 DEF JobsFit, WebhookTypeOK
<1>4. CASE Skipped(worker[w].delivery)
  <2>1. worker' = [worker EXCEPT ![w] = [worker[w] EXCEPT !.pc = "done"]]
    BY <1>1, <1>4 DEF LoadDelivery, Goto
  <2>2. [worker[w] EXCEPT !.pc = "done"] \in WorkerRecords
    BY <1>1, SetLocals, 0 \in Nat
  <2> QED
    BY <1>1, <2>1, <2>2 DEF Moves, Keeps, WorkerRecords
<1>5. CASE ~Skipped(worker[w].delivery)
  <2> DEFINE new == [worker[w] EXCEPT !.pc = "endpoint",
                                      !.attempts = row[worker[w].delivery].attempts]
  <2>1. worker' = [worker EXCEPT ![w] = new]
    BY <1>1, <1>5 DEF LoadDelivery
  <2>2. new \in WorkerRecords
    BY <1>1, <1>3, SetLocals
  <2>3. new.pc = "endpoint" /\ new.delivery = worker[w].delivery
    BY <1>1 DEF WorkerRecords
  <2> HIDE DEF new
  <2> QED
    BY <1>1, <1>5, <2>1, <2>2, <2>3, NewRecord DEF Moves, Keeps, Skipped
<1> QED
  BY <1>4, <1>5

LEMMA LoadEndpointMoves ==
  ASSUME WebhookTypeOK, NEW w \in Workers, LoadEndpoint(w)
  PROVE  /\ Moves(w, {"done", "post"}) /\ Keeps(w)
         /\ worker'[w].pc = "post" =>
              /\ Usable /\ worker'[w].failures = endpoint.failures
              /\ Update(worker[w].delivery, [row[worker[w].delivery] EXCEPT !.status = "delivering"])
              /\ blurred' = (blurred \/ \E v \in Workers : worker[v].pc \in Attempting)
         /\ worker'[w].pc = "done" => UNCHANGED <<row, blurred>>
<1>1. worker \in [Workers -> WorkerRecords] /\ worker[w] \in WorkerRecords
  BY DEF WebhookTypeOK, WorkerRecords
<1>2. endpoint.failures \in Nat
  BY DEF WebhookTypeOK
<1>3. CASE Goto(w, "done") /\ UNCHANGED <<row, blurred>>
  <2>1. worker' = [worker EXCEPT ![w] = [worker[w] EXCEPT !.pc = "done"]]
    BY <1>1, <1>3 DEF Goto
  <2>2. [worker[w] EXCEPT !.pc = "done"] \in WorkerRecords
    BY <1>1, SetLocals, 0 \in Nat
  <2> QED
    BY <1>1, <1>3, <2>1, <2>2 DEF Moves, Keeps, WorkerRecords
<1>4. CASE /\ Usable
           /\ worker' = [worker EXCEPT ![w].pc = "post", ![w].failures = endpoint.failures]
           /\ Update(worker[w].delivery,
                     [row[worker[w].delivery] EXCEPT !.status = "delivering"])
           /\ blurred' = (blurred \/ \E v \in Workers : worker[v].pc \in Attempting)
  <2> DEFINE new == [worker[w] EXCEPT !.pc = "post", !.failures = endpoint.failures]
  <2>1. worker' = [worker EXCEPT ![w] = new]
    BY <1>1, <1>4
  <2>2. new \in WorkerRecords
    BY <1>1, <1>2, SetLocals DEF Attempting
  <2>3. new.pc = "post" /\ new.delivery = worker[w].delivery /\ new.failures = endpoint.failures
    BY <1>1 DEF WorkerRecords
  <2> HIDE DEF new
  <2> QED
    BY <1>1, <1>4, <2>1, <2>2, <2>3, NewRecord DEF Moves, Keeps
<1> QED
  BY <1>3, <1>4 DEF LoadEndpoint

LEMMA PostMoves ==
  ASSUME WebhookTypeOK, NEW w \in Workers, Post(w)
  PROVE  /\ Moves(w, {"record"}) /\ Keeps(w) /\ worker'[w].failures = worker[w].failures
         /\ streak' = IF worker'[w].result = "ok" THEN 0
                      ELSE IF streak < Threshold THEN streak + 1 ELSE streak
<1>1. worker \in [Workers -> WorkerRecords] /\ worker[w] \in WorkerRecords
  BY DEF WebhookTypeOK, WorkerRecords
<1>2. PICK x \in {"ok", "transient", "final"} :
        /\ worker' = [worker EXCEPT ![w].pc = "record", ![w].result = x]
        /\ streak' = IF x = "ok" THEN 0 ELSE IF streak < Threshold THEN streak + 1 ELSE streak
  BY DEF Post
<1> DEFINE new == [worker[w] EXCEPT !.pc = "record", !.result = x]
<1>3. worker' = [worker EXCEPT ![w] = new]
  BY <1>1, <1>2
<1>4. new \in WorkerRecords
  BY <1>1, SetLocals, 0 \in Nat DEF Attempting
<1>5. /\ new.pc = "record" /\ new.delivery = worker[w].delivery
      /\ new.failures = worker[w].failures /\ new.result = x
  BY <1>1 DEF WorkerRecords
<1> HIDE DEF new
<1> QED
  BY <1>1, <1>2, <1>3, <1>4, <1>5, NewRecord DEF Moves, Keeps

LEMMA RecordMoves ==
  ASSUME WebhookTypeOK, NEW w \in Workers, Record(w)
  PROVE  /\ Moves(w, {"retry", "breaker"}) /\ Keeps(w)
         /\ worker'[w].failures = worker[w].failures /\ worker'[w].result = worker[w].result
         /\ worker'[w].pc = "retry" =>
              Update(worker[w].delivery,
                     [status |-> "failed", attempts |-> worker[w].attempts + 1])
<1>1. worker \in [Workers -> WorkerRecords] /\ worker[w] \in WorkerRecords
  BY DEF WebhookTypeOK, WorkerRecords
<1> DEFINE retry == worker[w].result = "transient" /\ ~IsMaxAttemptsReached(worker[w].attempts + 1)
           new == [worker[w] EXCEPT !.pc = IF retry THEN "retry" ELSE "breaker", !.attempts = 0]
<1>2. worker' = [worker EXCEPT ![w] = new]
  BY <1>1 DEF Record
<1>3. new \in WorkerRecords
  BY <1>1, SetLocals, 0 \in Nat DEF Attempting
<1>4. /\ new.pc = (IF retry THEN "retry" ELSE "breaker")
      /\ new.delivery = worker[w].delivery
      /\ new.failures = worker[w].failures /\ new.result = worker[w].result
  BY <1>1 DEF WorkerRecords
<1>5. retry => Update(worker[w].delivery,
                      [status |-> "failed", attempts |-> worker[w].attempts + 1])
  BY DEF Record
<1> HIDE DEF new, retry
<1> QED
  BY <1>1, <1>2, <1>3, <1>4, <1>5, NewRecord DEF Moves, Keeps

LEMMA EnqueueRetryMoves ==
  ASSUME WebhookTypeOK, NEW w \in Workers, EnqueueRetry(w)
  PROVE  /\ Moves(w, {"breaker"}) /\ Keeps(w)
         /\ worker'[w].failures = worker[w].failures /\ worker'[w].result = worker[w].result
<1>1. worker \in [Workers -> WorkerRecords] /\ worker[w] \in WorkerRecords
  BY DEF WebhookTypeOK, WorkerRecords
<1>2. worker' = [worker EXCEPT ![w] = [worker[w] EXCEPT !.pc = "breaker"]]
  BY <1>1 DEF EnqueueRetry, Goto
<1>3. [worker[w] EXCEPT !.pc = "breaker"] \in WorkerRecords
  BY <1>1, SetLocals, 0 \in Nat DEF Attempting
<1> QED
  BY <1>1, <1>2, <1>3 DEF Moves, Keeps, WorkerRecords

LEMMA UpdateBreakerMoves ==
  ASSUME WebhookTypeOK, NEW w \in Workers, UpdateBreaker(w)
  PROVE  Moves(w, {"done"}) /\ Keeps(w)
<1>1. worker \in [Workers -> WorkerRecords] /\ worker[w] \in WorkerRecords
  BY DEF WebhookTypeOK, WorkerRecords
<1> DEFINE new == [worker[w] EXCEPT !.pc = "done", !.failures = 0, !.result = "none"]
<1>2. worker' = [worker EXCEPT ![w] = new]
  BY <1>1 DEF UpdateBreaker
<1>3. new \in WorkerRecords
  BY <1>1, SetLocals, 0 \in Nat
<1>4. new.pc = "done" /\ new.delivery = worker[w].delivery
  BY <1>1 DEF WorkerRecords
<1> HIDE DEF new
<1> QED
  BY <1>1, <1>2, <1>3, <1>4, NewRecord DEF Moves, Keeps

LEMMA EndMoves ==
  ASSUME WebhookTypeOK, NEW w \in Workers, Complete(w) \/ JobFails(w)
  PROVE  Moves(w, {"idle"}) /\ worker'[w] = Idle
<1>1. worker \in [Workers -> WorkerRecords]
  BY DEF WebhookTypeOK, WorkerRecords
<1>2. Idle \in WorkerRecords /\ Idle.pc = "idle"
  BY NewLocals DEF Idle
<1>3. worker' = [worker EXCEPT ![w] = Idle]
  BY DEF Complete, JobFails
<1> HIDE DEF Idle
<1> QED
  BY <1>1, <1>2, <1>3, NewRecord

-----------------------------------------------------------------------------
(* The types and the jobs.                                                 *)

\* The effects of the outside world and of the workers on every variable's type.
LEMMA TypesKept ==
  ASSUME WebhookTypeOK, JobsFit, [Next]_vars
  PROVE  WebhookTypeOK'
<1>0. row \in [Deliveries -> Rows] /\ worker \in [Workers -> WorkerRecords]
  BY DEF WebhookTypeOK, Rows, WorkerRecords
<1>1. SUFFICES /\ row' \in [Deliveries -> Rows] /\ worker' \in [Workers -> WorkerRecords]
               /\ endpoint' \in [exists : BOOLEAN, disabled : BOOLEAN, failures : Nat,
                                 tripped : BOOLEAN]
               /\ jobs' \in [Deliveries -> SUBSET (0..RetryLimit)]
               /\ posts' \in [Deliveries -> Nat] /\ streak' \in Nat
               /\ faults' \in 0..MaxFaults /\ edits' \in 0..MaxEdits
               /\ queued' \subseteq Deliveries /\ blurred' \in BOOLEAN
               /\ forked' \subseteq Deliveries /\ replayed' \subseteq Deliveries
  BY DEF WebhookTypeOK, Rows, WorkerRecords
<1>2. ASSUME NEW d \in Deliveries, Emit(d)
      PROVE  <1>1!1
  <2>1. [row[d] EXCEPT !.status = "pending"] \in Rows
    BY <1>0 DEF Rows
  <2>2. row' = [row EXCEPT ![d] = [row[d] EXCEPT !.status = "pending"]]
    BY <1>0, <1>2 DEF Emit
  <2> QED
    BY <1>0, <1>2, <2>1, <2>2 DEF Emit, WebhookTypeOK, history
<1>3. ASSUME NEW d \in Deliveries, EnqueueDelivery(d)
      PROVE  <1>1!1
  BY <1>0, <1>3, WebhookAssumption DEF EnqueueDelivery, WebhookTypeOK, history, tables
<1>4. ASSUME NEW d \in Deliveries, ReplayDelivery(d)
      PROVE  <1>1!1
  <2>1. [status |-> "pending", attempts |-> 0] \in Rows
    BY DEF Rows
  <2> QED
    BY <1>0, <1>4, <2>1, WebhookAssumption DEF ReplayDelivery, Edit, WebhookTypeOK
<1>5. ASSUME NEW active \in BOOLEAN, SetActive(active)
      PROVE  <1>1!1
  <2>1. edits' \in 0..MaxEdits
    BY <1>5, WebhookAssumption DEF SetActive, Edit, WebhookTypeOK
  <2>2. endpoint' \in [exists : BOOLEAN, disabled : BOOLEAN, failures : Nat, tripped : BOOLEAN]
    BY <1>5 DEF SetActive, WebhookTypeOK
  <2> QED
    BY <1>0, <1>5, <2>1, <2>2 DEF SetActive, WebhookTypeOK, history
<1>6. ASSUME DeleteEndpoint
      PROVE  <1>1!1
  <2>1. Absent \in Rows
    BY DEF Absent, Rows
  <2>2. edits' \in 0..MaxEdits
    BY <1>6, WebhookAssumption DEF DeleteEndpoint, Edit, WebhookTypeOK
  <2>3. endpoint' \in [exists : BOOLEAN, disabled : BOOLEAN, failures : Nat, tripped : BOOLEAN]
    BY <1>6 DEF DeleteEndpoint, WebhookTypeOK
  <2>4. row' \in [Deliveries -> Rows]
    BY <1>6, <2>1 DEF DeleteEndpoint
  <2> QED
    BY <1>0, <1>6, <2>2, <2>3, <2>4 DEF DeleteEndpoint, WebhookTypeOK, history
<1>7. ASSUME NEW w \in Workers, NEW d \in Deliveries, Take(w, d)
      PROVE  <1>1!1
  <2>1. worker' \in [Workers -> WorkerRecords]
    BY <1>7, TakeMoves DEF Moves
  <2>2. PICK n \in jobs[d] : jobs' = [jobs EXCEPT ![d] = @ \ {n}]
    BY <1>7, TakeMoves
  <2>3. jobs' \in [Deliveries -> SUBSET (0..RetryLimit)]
    BY <2>2 DEF WebhookTypeOK
  <2> QED
    BY <1>0, <1>7, <2>1, <2>3 DEF Take, WebhookTypeOK, history, tables
<1>8. ASSUME NEW w \in Workers, WorkerStep(w) \/ JobFails(w)
      PROVE  <1>1!1
  <2> DEFINE d == worker[w].delivery
  <2>0. /\ worker[w] # Idle => d \in Deliveries
        /\ worker[w].pc # "idle" => worker[w] # Idle
    BY DEF JobsFit, Idle
  <2>1. CASE LoadDelivery(w)
    BY <1>0, <2>1, LoadDeliveryMoves DEF Moves, LoadDelivery, WebhookTypeOK, history, tables
  <2>2. CASE LoadEndpoint(w)
    <3>1. d \in Deliveries
      BY <2>0, <2>2 DEF LoadEndpoint
    <3>2. [row[d] EXCEPT !.status = "delivering"] \in Rows
      BY <1>0, <3>1 DEF Rows
    <3>3. row' \in [Deliveries -> Rows] /\ blurred' \in BOOLEAN
      BY <1>0, <2>2, <3>1, <3>2, UpdateTyped DEF LoadEndpoint, WebhookTypeOK
    <3> QED
      BY <1>0, <2>2, <3>3, LoadEndpointMoves DEF Moves, LoadEndpoint, WebhookTypeOK
  <2>3. CASE Post(w)
    <3>1. d \in Deliveries
      BY <2>0, <2>3 DEF Post
    <3>2. posts' \in [Deliveries -> Nat]
      BY <2>3, <3>1 DEF Post, WebhookTypeOK
    <3>3. streak' \in Nat
      BY <2>3, PostMoves DEF WebhookTypeOK
    <3> QED
      BY <1>0, <2>3, <3>2, <3>3, PostMoves DEF Moves, Post, WebhookTypeOK, tables
  <2>4. CASE Record(w)
    <3>1. d \in Deliveries
      BY <2>0, <2>4 DEF Record
    <3>2. row[d].attempts \in Nat /\ worker[w].attempts \in Nat
      BY <1>0, <3>1 DEF Rows, WorkerRecords
    <3>3. /\ [status |-> "delivered", attempts |-> row[d].attempts + 1] \in Rows
          /\ [status |-> "failed", attempts |-> worker[w].attempts + 1] \in Rows
          /\ [status |-> "dead_letter", attempts |-> worker[w].attempts + 1] \in Rows
      BY <3>2 DEF Rows, Terminal
    <3>4. row' \in [Deliveries -> Rows]
      BY <1>0, <2>4, <3>1, <3>3, UpdateTyped DEF Record
    <3>5. worker' \in [Workers -> WorkerRecords]
      BY <2>4, RecordMoves DEF Moves
    <3>6. UNCHANGED <<endpoint, jobs, queued, faults, edits, posts, streak, blurred, forked,
                      replayed>>
      BY <2>4 DEF Record, history
    <3> QED
      BY <1>0, <3>4, <3>5, <3>6 DEF WebhookTypeOK
  <2>5. CASE EnqueueRetry(w)
    <3>0. jobs \in [Deliveries -> SUBSET (0..RetryLimit)] /\ 0 \in 0..RetryLimit
      BY WebhookAssumption DEF WebhookTypeOK
    <3>1. jobs' \in [Deliveries -> SUBSET (0..RetryLimit)]
      BY <2>5, <3>0 DEF EnqueueRetry
    <3>2. worker' \in [Workers -> WorkerRecords]
      BY <2>5, EnqueueRetryMoves DEF Moves
    <3> QED
      BY <1>0, <2>5, <3>1, <3>2 DEF EnqueueRetry, WebhookTypeOK, history, tables
  <2>6. CASE UpdateBreaker(w)
    <3>1. worker[w].failures \in Nat
      BY <1>0 DEF WorkerRecords
    <3>2. AfterResult(worker[w].result = "ok", worker[w].failures)
            \in [failures : Nat, tripped : BOOLEAN]
      BY <3>1 DEF AfterResult, AfterFailure
    <3>3. endpoint' \in [exists : BOOLEAN, disabled : BOOLEAN, failures : Nat, tripped : BOOLEAN]
      BY <2>6, <3>2 DEF UpdateBreaker, WebhookTypeOK
    <3> QED
      BY <1>0, <2>6, <3>3, UpdateBreakerMoves DEF Moves, UpdateBreaker, WebhookTypeOK, history
  <2>7. CASE Complete(w)
    BY <1>0, <2>7, EndMoves DEF Moves, Complete, WebhookTypeOK, history, tables
  <2>8. CASE JobFails(w)
    <3>1. d \in Deliveries /\ worker[w].tries \in 0..RetryLimit
      BY <1>0, <2>0, <2>8 DEF JobFails, WorkerRecords
    <3>2. jobs' \in [Deliveries -> SUBSET (0..RetryLimit)]
      BY <2>8, <3>1, WebhookAssumption DEF JobFails, Returned, WebhookTypeOK
    <3>3. /\ faults' \in 0..MaxFaults /\ blurred' \in BOOLEAN
          /\ forked' \subseteq Deliveries
      BY <2>8, <3>1, WebhookAssumption DEF JobFails, WebhookTypeOK
    <3> QED
      BY <1>0, <2>8, <3>2, <3>3, EndMoves DEF Moves, JobFails, WebhookTypeOK, tables
  <2> QED
    BY <1>8, <2>1, <2>2, <2>3, <2>4, <2>5, <2>6, <2>7, <2>8 DEF WorkerStep
<1>9. CASE UNCHANGED vars
  BY <1>0, <1>9 DEF vars, tables, history, WebhookTypeOK
<1> QED
  BY <1>2, <1>3, <1>4, <1>5, <1>6, <1>7, <1>8, <1>9 DEF Next

\* A worker has a delivery, and one that is queued.
LEMMA JobsFitKept ==
  ASSUME WebhookTypeOK, JobsFit, [Next]_vars
  PROVE  JobsFit'
<1>0. Idle.delivery = NoDelivery /\ Idle.pc = "idle" /\ NoDelivery \notin Deliveries
  BY WebhookAssumption DEF Idle
<1>1. ASSUME NEW w \in Workers, Keeps(w), worker[w] # Idle, queued' = queued,
             \A v \in Workers \ {w} : worker'[v] = worker[v],
             \A d \in Deliveries : jobs'[d] = jobs[d] \/ d = worker[w].delivery
      PROVE  JobsFit'
  BY <1>0, <1>1 DEF JobsFit, Keeps
<1>2. ASSUME NEW d \in Deliveries, Emit(d) \/ EnqueueDelivery(d) \/ ReplayDelivery(d)
      PROVE  JobsFit'
  BY <1>2 DEF Emit, EnqueueDelivery, ReplayDelivery, JobsFit, tables, history, WebhookTypeOK
<1>3. ASSUME (\E active \in BOOLEAN : SetActive(active)) \/ DeleteEndpoint
      PROVE  JobsFit'
  BY <1>3 DEF SetActive, DeleteEndpoint, JobsFit
<1>4. ASSUME NEW w \in Workers, NEW d \in Deliveries, Take(w, d)
      PROVE  JobsFit'
  <2>1. PICK n \in jobs[d] : jobs' = [jobs EXCEPT ![d] = @ \ {n}]
    BY <1>4, TakeMoves
  <2>2. /\ worker'[w].delivery = d /\ worker'[w].pc = "load"
        /\ \A v \in Workers \ {w} : worker'[v] = worker[v]
    BY <1>4, TakeMoves DEF Moves
  <2>3. queued' = queued /\ d \in queued
    BY <1>4, <2>1 DEF Take, JobsFit
  <2>4. \A e \in Deliveries : e # d => jobs'[e] = jobs[e]
    BY <2>1 DEF WebhookTypeOK
  <2> QED
    BY <1>0, <2>2, <2>3, <2>4 DEF JobsFit
<1>5. ASSUME NEW w \in Workers, WorkerStep(w) \/ JobFails(w)
      PROVE  JobsFit'
  <2>0. worker[w].pc # "idle" => worker[w] # Idle
    BY <1>0
  <2>1. CASE LoadDelivery(w)
    BY <1>1, <1>5, <2>0, <2>1, LoadDeliveryMoves DEF Moves, LoadDelivery
  <2>2. CASE LoadEndpoint(w)
    BY <1>1, <1>5, <2>0, <2>2, LoadEndpointMoves DEF Moves, LoadEndpoint
  <2>3. CASE Post(w)
    BY <1>1, <1>5, <2>0, <2>3, PostMoves DEF Moves, Post
  <2>4. CASE Record(w)
    BY <1>1, <1>5, <2>0, <2>4, RecordMoves DEF Moves, Record
  <2>5. CASE EnqueueRetry(w)
    BY <1>1, <1>5, <2>0, <2>5, EnqueueRetryMoves DEF Moves, EnqueueRetry, WebhookTypeOK
  <2>6. CASE UpdateBreaker(w)
    BY <1>1, <1>5, <2>0, <2>6, UpdateBreakerMoves DEF Moves, UpdateBreaker
  <2>7. CASE Complete(w) \/ JobFails(w)
    <3>1. worker'[w] = Idle /\ \A v \in Workers \ {w} : worker'[v] = worker[v]
      BY <2>7, EndMoves DEF Moves
    <3>2. queued' = queued
      BY <2>7 DEF Complete, JobFails
    <3>3. \A d \in Deliveries : jobs'[d] = jobs[d] \/ d = worker[w].delivery
      BY <2>7 DEF Complete, JobFails, Returned, WebhookTypeOK
    <3> QED
      BY <1>0, <3>1, <3>2, <3>3 DEF JobsFit
  <2> QED
    BY <1>5, <2>1, <2>2, <2>3, <2>4, <2>5, <2>6, <2>7 DEF WorkerStep
<1>6. CASE UNCHANGED vars
  BY <1>6 DEF vars, JobsFit
<1> QED
  BY <1>2, <1>3, <1>4, <1>5, <1>6 DEF Next

-----------------------------------------------------------------------------
(* One job for each delivery that has not forked, and whoever holds it     *)
(* found the row unsettled.                                                *)

\* A step that adds no job and no holder of one.
LEMMA OneJobQuiet ==
  ASSUME WebhookTypeOK, OneJob, forked' = forked, jobs' = jobs,
         \A v \in Workers, d \in Deliveries : Bears(v, d)' => Bears(v, d)
  PROVE  OneJob'
BY DEF OneJob

LEMMA OneJobKept ==
  ASSUME WebhookTypeOK, JobsFit, OneJob, [Next]_vars
  PROVE  OneJob'
<1>1. ASSUME NEW w \in Workers, Keeps(w), worker[w].pc \in Bearing,
             \A v \in Workers \ {w} : worker'[v] = worker[v],
             forked' = forked, jobs' = jobs
      PROVE  OneJob'
  BY <1>1, OneJobQuiet DEF Keeps, Bears
<1>2. ASSUME NEW d \in Deliveries, Emit(d) \/ ReplayDelivery(d)
      PROVE  OneJob'
  BY <1>2 DEF Emit, ReplayDelivery, OneJob, Bears, history
<1>3. ASSUME NEW d \in Deliveries, EnqueueDelivery(d)
      PROVE  OneJob'
  <2>1. jobs'[d] = {0} /\ \A e \in Deliveries \ {d} : jobs'[e] = jobs[e]
    BY <1>3 DEF EnqueueDelivery, JobsFit, WebhookTypeOK
  <2>2. \A w \in Workers : ~Bears(w, d)
    BY <1>3 DEF EnqueueDelivery, JobsFit, Bears
  <2>3. UNCHANGED <<worker, forked>>
    BY <1>3 DEF EnqueueDelivery, history
  <2> QED
    BY <2>1, <2>2, <2>3 DEF OneJob, Bears
<1>4. ASSUME (\E active \in BOOLEAN : SetActive(active)) \/ DeleteEndpoint
      PROVE  OneJob'
  BY <1>4 DEF SetActive, DeleteEndpoint, OneJob, Bears, history
<1>5. ASSUME NEW w \in Workers, NEW d \in Deliveries, Take(w, d)
      PROVE  OneJob'
  <2>1. PICK n \in jobs[d] : jobs' = [jobs EXCEPT ![d] = @ \ {n}]
    BY <1>5, TakeMoves
  <2>2. /\ worker'[w].delivery = d
        /\ \A v \in Workers \ {w} : worker'[v] = worker[v]
    BY <1>5, TakeMoves DEF Moves
  <2>3. forked' = forked
    BY <1>5 DEF Take, history
  <2>4. jobs'[d] = jobs[d] \ {n} /\ \A e \in Deliveries \ {d} : jobs'[e] = jobs[e]
    BY <2>1 DEF WebhookTypeOK
  <2>5. \A v \in Workers \ {w}, e \in Deliveries : Bears(v, e)' <=> Bears(v, e)
    BY <2>2 DEF Bears
  <2>6. \A e \in Deliveries \ {d} : ~Bears(w, e)'
    BY <2>2 DEF Bears
  <2>7. d \notin forked => jobs'[d] = {} /\ \A v \in Workers : ~Bears(v, d)
    BY <2>1, <2>4 DEF OneJob
  <2> HIDE DEF Bears
  <2> QED
    BY <2>3, <2>4, <2>5, <2>6, <2>7 DEF OneJob
<1>6. ASSUME NEW w \in Workers, WorkerStep(w) \/ JobFails(w)
      PROVE  OneJob'
  <2> DEFINE d == worker[w].delivery
  <2>0. worker[w].pc # "idle" => d \in Deliveries
    BY DEF JobsFit, Idle
  <2>1. CASE LoadDelivery(w)
    BY <1>1, <2>1, LoadDeliveryMoves DEF Moves, LoadDelivery, Bearing, history
  <2>2. CASE LoadEndpoint(w)
    BY <1>1, <2>2, LoadEndpointMoves DEF Moves, LoadEndpoint, Bearing
  <2>3. CASE Post(w)
    BY <1>1, <2>3, PostMoves DEF Moves, Post, Bearing
  <2>4. CASE Record(w)
    BY <1>1, <2>4, RecordMoves DEF Moves, Record, Bearing, history
  <2>5. CASE EnqueueRetry(w)
    <3>1. /\ \A v \in Workers \ {w} : worker'[v] = worker[v]
          /\ worker'[w].pc = "breaker"
      BY <2>5, EnqueueRetryMoves DEF Moves
    <3>2. d \in Deliveries /\ Bears(w, d) /\ forked' = forked
      BY <2>0, <2>5 DEF EnqueueRetry, Bears, Bearing, history
    <3>3. jobs'[d] = jobs[d] \cup {0} /\ \A e \in Deliveries \ {d} : jobs'[e] = jobs[e]
      BY <2>5, <3>2 DEF EnqueueRetry, WebhookTypeOK
    <3>4. /\ \A e \in Deliveries : ~Bears(w, e)'
          /\ \A v \in Workers \ {w}, e \in Deliveries : Bears(v, e)' <=> Bears(v, e)
      BY <3>1 DEF Bears, Bearing
    <3>5. d \notin forked => jobs[d] = {} /\ \A v \in Workers \ {w} : ~Bears(v, d)
      BY <3>2 DEF OneJob
    <3>6. ASSUME NEW e \in Deliveries \ forked, e = d
          PROVE  jobs'[e] = {0} /\ \A v \in Workers : ~Bears(v, e)'
      BY <3>3, <3>4, <3>5, <3>6
    <3>7. ASSUME NEW e \in Deliveries \ forked, e # d
          PROVE  /\ \A m, n \in jobs'[e] : m = n
                 /\ \A v \in Workers : Bears(v, e)' =>
                      jobs'[e] = {} /\ \A u \in Workers : Bears(u, e)' => u = v
      BY <3>3, <3>4, <3>7 DEF OneJob
    <3> QED
      BY <3>2, <3>6, <3>7 DEF OneJob
  <2>6. CASE UpdateBreaker(w) \/ Complete(w)
    <3>1. /\ \A v \in Workers \ {w} : worker'[v] = worker[v]
          /\ worker'[w].pc \notin Bearing
      BY <2>6, UpdateBreakerMoves, EndMoves DEF Moves, Bearing
    <3>2. forked' = forked /\ jobs' = jobs
      BY <2>6 DEF UpdateBreaker, Complete, history
    <3> QED
      BY <3>1, <3>2, OneJobQuiet DEF Bears
  <2>7. CASE JobFails(w)
    <3>1. /\ \A v \in Workers \ {w} : worker'[v] = worker[v]
          /\ worker'[w].pc \notin Bearing
      BY <2>7, EndMoves DEF Moves, Bearing
    <3>2. d \in Deliveries
      BY <2>0, <2>7 DEF JobFails
    <3>3. \A e \in Deliveries \ {d} : jobs'[e] = jobs[e]
      BY <2>7, <3>2 DEF JobFails, Returned, WebhookTypeOK
    <3>4. /\ forked \subseteq forked'
          /\ d \notin forked' => jobs[d] = {} /\ \A v \in Workers \ {w} : worker[v].delivery # d
      BY <2>7 DEF JobFails
    <3>5. jobs[d] = {} => \A m, n \in jobs'[d] : m = n
      BY <2>7, <3>2 DEF JobFails, Returned, WebhookTypeOK
    <3>6. /\ \A e \in Deliveries : ~Bears(w, e)'
          /\ \A v \in Workers \ {w}, e \in Deliveries :
               /\ Bears(v, e)' => Bears(v, e)
               /\ Bears(v, e) => worker[v].delivery = e
      BY <3>1 DEF Bears
    <3> QED
      BY <3>2, <3>3, <3>4, <3>5, <3>6 DEF OneJob
  <2> QED
    BY <1>6, <2>1, <2>2, <2>3, <2>4, <2>5, <2>6, <2>7 DEF WorkerStep
<1>7. CASE UNCHANGED vars
  BY <1>7 DEF vars, history, OneJob, Bears
<1> QED
  BY <1>2, <1>3, <1>4, <1>5, <1>6, <1>7 DEF Next

\* An attempt at row d: the worker has found it unsettled and not yet written it.
Attempts(w, d) == worker[w].pc \in {"endpoint", "post", "record"} /\ worker[w].delivery = d

\* A step after which nobody else attempts what it has settled.
LEMMA NotSettledQuiet ==
  ASSUME WebhookTypeOK', JobsFit', NotSettled, forked \subseteq forked', replayed \subseteq replayed',
         \A v \in Workers, d \in Deliveries :
           d \notin forked \cup replayed' /\ Attempts(v, d)' =>
             \/ Attempts(v, d) /\ row'[d].status = row[d].status
             \/ row'[d].status \notin Terminal
  PROVE  NotSettled'
<1> SUFFICES ASSUME NEW v \in Workers, NEW d \in Deliveries,
                    d \notin forked \cup replayed', Attempts(v, d)'
             PROVE  row'[d].status \notin Terminal
  BY DEF NotSettled, Attempts, JobsFit, Idle
<1> QED
  BY DEF NotSettled, Attempts

LEMMA NotSettledKept ==
  ASSUME WebhookTypeOK, JobsFit, OneJob, NotSettled, [Next]_vars,
         WebhookTypeOK', JobsFit'
  PROVE  NotSettled'
<1>0. "pending" \notin Terminal /\ "absent" \notin Terminal /\ "delivering" \notin Terminal
      /\ "failed" \notin Terminal
  BY DEF Terminal
<1>1. ASSUME NEW d \in Deliveries, Emit(d) \/ EnqueueDelivery(d) \/ ReplayDelivery(d)
      PROVE  NotSettled'
  <2>1. \A v \in Workers, e \in Deliveries : Attempts(v, e)' <=> Attempts(v, e)
    BY <1>1 DEF Emit, EnqueueDelivery, ReplayDelivery, Attempts
  <2>2. /\ \A e \in Deliveries : row'[e] = row[e] \/ row'[e].status = "pending"
        /\ forked' = forked /\ replayed \subseteq replayed'
    BY <1>1 DEF Emit, EnqueueDelivery, ReplayDelivery, WebhookTypeOK, tables, history
  <2> QED
    BY <1>0, <2>1, <2>2, NotSettledQuiet
<1>2. ASSUME (\E active \in BOOLEAN : SetActive(active)) \/ DeleteEndpoint
      PROVE  NotSettled'
  <2>1. \A v \in Workers, e \in Deliveries : Attempts(v, e)' <=> Attempts(v, e)
    BY <1>2 DEF SetActive, DeleteEndpoint, Attempts
  <2>2. /\ \A e \in Deliveries : row'[e] = row[e] \/ row'[e].status = "absent"
        /\ forked' = forked /\ replayed' = replayed
    BY <1>2 DEF SetActive, DeleteEndpoint, Absent, history
  <2> QED
    BY <1>0, <2>1, <2>2, NotSettledQuiet
<1>3. ASSUME NEW w \in Workers, \A v \in Workers \ {w} : worker'[v] = worker[v],
             \A e \in Deliveries : Attempts(w, e)' => Attempts(w, e),
             row' = row, forked \subseteq forked', replayed' = replayed
      PROVE  NotSettled'
  <2>1. \A v \in Workers, e \in Deliveries : Attempts(v, e)' => Attempts(v, e)
    BY <1>3 DEF Attempts
  <2> QED
    BY <1>3, <2>1, NotSettledQuiet
<1>4. ASSUME NEW w \in Workers, NEW d \in Deliveries, Take(w, d)
      PROVE  NotSettled'
  BY <1>3, <1>4, TakeMoves DEF Take, Moves, Attempts, tables, history
<1>5. ASSUME NEW w \in Workers, WorkerStep(w) \/ JobFails(w)
      PROVE  NotSettled'
  <2> DEFINE d == worker[w].delivery
  <2>0. worker[w].pc # "idle" => d \in Deliveries
    BY DEF JobsFit, Idle
  <2>1. CASE LoadDelivery(w)
    <3>1. /\ \A v \in Workers \ {w} : worker'[v] = worker[v]
          /\ \A e \in Deliveries : Attempts(w, e)' => row[e].status \notin Terminal
      BY <2>1, LoadDeliveryMoves DEF Moves, Keeps, Attempts
    <3>2. row' = row /\ forked' = forked /\ replayed' = replayed
      BY <2>1 DEF LoadDelivery, tables, history
    <3>3. \A v \in Workers \ {w}, e \in Deliveries : Attempts(v, e)' => Attempts(v, e)
      BY <3>1 DEF Attempts
    <3> QED
      BY <3>1, <3>2, <3>3, NotSettledQuiet
  <2>2. CASE LoadEndpoint(w)
    <3>1. /\ \A v \in Workers \ {w} : worker'[v] = worker[v]
          /\ \A e \in Deliveries : Attempts(w, e)' => Attempts(w, e)
      BY <2>2, LoadEndpointMoves DEF Moves, Keeps, Attempts, LoadEndpoint
    <3>2. forked' = forked /\ replayed' = replayed
      BY <2>2 DEF LoadEndpoint
    <3>3. \A v \in Workers, e \in Deliveries : Attempts(v, e)' => Attempts(v, e)
      BY <3>1 DEF Attempts
    <3>4. \A e \in Deliveries : row'[e] = row[e] \/ row'[e].status = "delivering"
      BY <2>2 DEF LoadEndpoint, Update, WebhookTypeOK
    <3> QED
      BY <1>0, <3>2, <3>3, <3>4, NotSettledQuiet
  <2>3. CASE Post(w)
    BY <1>3, <2>3, PostMoves DEF Post, Moves, Keeps, Attempts, tables
  <2>4. CASE Record(w)
    <3>1. /\ \A v \in Workers \ {w} : worker'[v] = worker[v]
          /\ \A e \in Deliveries : ~Attempts(w, e)'
      BY <2>4, RecordMoves DEF Moves, Attempts
    <3>2. forked' = forked /\ replayed' = replayed
      BY <2>4 DEF Record, history
    <3>3. \A e \in Deliveries : e # d => row'[e] = row[e]
      BY <2>4 DEF Record, Update
    <3>4. Bears(w, d) /\ d \in Deliveries
      BY <2>0, <2>4 DEF Record, Bears, Bearing
    <3>5. d \notin forked => \A v \in Workers \ {w} : ~Attempts(v, d)
      BY <3>4 DEF OneJob, Attempts, Bears, Bearing
    <3>6. \A v \in Workers \ {w}, e \in Deliveries : Attempts(v, e)' => Attempts(v, e)
      BY <3>1 DEF Attempts
    <3> QED
      BY <3>1, <3>2, <3>3, <3>5, <3>6, NotSettledQuiet
  <2>5. CASE EnqueueRetry(w)
    BY <1>3, <2>5, EnqueueRetryMoves DEF EnqueueRetry, Moves, Keeps, Attempts, tables, history
  <2>6. CASE UpdateBreaker(w)
    BY <1>3, <2>6, UpdateBreakerMoves DEF UpdateBreaker, Moves, Keeps, Attempts, history
  <2>7. CASE Complete(w) \/ JobFails(w)
    <3>1. /\ \A v \in Workers \ {w} : worker'[v] = worker[v]
          /\ \A e \in Deliveries : ~Attempts(w, e)'
      BY <2>7, EndMoves DEF Moves, Attempts
    <3>2. row' = row /\ forked \subseteq forked' /\ replayed' = replayed
      BY <2>7 DEF Complete, JobFails, tables, history
    <3> QED
      BY <1>3, <3>1, <3>2
  <2> QED
    BY <1>5, <2>1, <2>2, <2>3, <2>4, <2>5, <2>6, <2>7 DEF WorkerStep
<1>6. CASE UNCHANGED vars
  BY <1>6 DEF vars, tables, history, NotSettled
<1> QED
  BY <1>1, <1>2, <1>4, <1>5, <1>6 DEF Next

-----------------------------------------------------------------------------
(* The breaker.                                                            *)

\* A step that leaves the breaker's columns and its writers alone.
LEMMA BreakerQuiet ==
  ASSUME BreakerFits, ~blurred' /\ endpoint'.exists => ~blurred /\ endpoint.exists,
         endpoint'.failures = endpoint.failures, endpoint'.tripped = endpoint.tripped,
         streak' = streak,
         \A v \in Workers :
           \/ /\ worker'[v].pc \notin Attempting
              /\ ~blurred' => worker[v].pc \notin Reporting
           \/ worker'[v] = worker[v]
           \/ /\ worker[v].pc \in Reporting /\ worker'[v].pc \in Reporting
              /\ worker'[v].failures = worker[v].failures
              /\ worker'[v].result = worker[v].result
  PROVE  BreakerFits'
<1> SUFFICES ASSUME ~blurred', endpoint'.exists
             PROVE  BreakerFits'
  BY DEF BreakerFits
<1>0. Reporting \subseteq Attempting
  BY DEF Reporting, Attempting
<1>1. \A v \in Workers : /\ worker'[v].pc \in Attempting => worker[v].pc \in Attempting
                         /\ worker'[v].pc \in Reporting <=> worker[v].pc \in Reporting
  BY <1>0
<1>2. \A v \in Workers : worker'[v].pc \in Attempting =>
        worker'[v].failures = worker[v].failures /\ worker'[v].result = worker[v].result
  BY <1>0
<1> QED
  BY <1>0, <1>1, <1>2 DEF BreakerFits

LEMMA BreakerFitsKept ==
  ASSUME WebhookTypeOK, JobsFit, BreakerFits, [Next]_vars
  PROVE  BreakerFits'
<1>0. Reporting \subseteq Attempting
  BY DEF Reporting, Attempting
<1>1. ASSUME NEW d \in Deliveries, Emit(d) \/ EnqueueDelivery(d) \/ ReplayDelivery(d)
      PROVE  BreakerFits'
  BY <1>1, BreakerQuiet DEF Emit, EnqueueDelivery, ReplayDelivery, tables, history
<1>2. ASSUME (\E active \in BOOLEAN : SetActive(active)) \/ DeleteEndpoint
      PROVE  BreakerFits'
  <2>1. endpoint'.failures = endpoint.failures /\ endpoint'.tripped = endpoint.tripped
    BY <1>2 DEF SetActive, DeleteEndpoint, WebhookTypeOK
  <2>2. endpoint'.exists => endpoint.exists
    BY <1>2 DEF SetActive, DeleteEndpoint
  <2>3. UNCHANGED <<worker, streak, blurred>>
    BY <1>2 DEF SetActive, DeleteEndpoint, history
  <2> QED
    BY <2>1, <2>2, <2>3, BreakerQuiet
<1>3. ASSUME NEW w \in Workers, \A v \in Workers \ {w} : worker'[v] = worker[v],
             worker'[w].pc \notin Attempting, worker[w].pc \notin Reporting \/ blurred',
             blurred' = blurred \/ blurred', UNCHANGED <<endpoint, streak>>
      PROVE  BreakerFits'
  BY <1>3, BreakerQuiet
<1>4. ASSUME NEW w \in Workers, NEW d \in Deliveries, Take(w, d)
      PROVE  BreakerFits'
  <2>1. UNCHANGED <<endpoint, streak, blurred>>
    BY <1>4 DEF Take, tables, history
  <2>2. /\ \A v \in Workers \ {w} : worker'[v] = worker[v]
        /\ worker'[w].pc = "load" /\ worker[w].pc = "idle"
    BY <1>4, TakeMoves DEF Moves, Idle
  <2> QED
    BY <1>3, <2>1, <2>2 DEF Attempting, Reporting
<1>5. ASSUME NEW w \in Workers, WorkerStep(w) \/ JobFails(w)
      PROVE  BreakerFits'
  <2>1. CASE LoadDelivery(w)
    <3>1. UNCHANGED <<endpoint, streak, blurred>> /\ worker[w].pc = "load"
      BY <2>1 DEF LoadDelivery, tables, history
    <3>2. /\ \A v \in Workers \ {w} : worker'[v] = worker[v]
          /\ worker'[w].pc \in {"done", "endpoint"}
      BY <2>1, LoadDeliveryMoves DEF Moves
    <3> QED
      BY <1>3, <3>1, <3>2 DEF Attempting, Reporting
  <2>2. CASE LoadEndpoint(w)
    <3>0. UNCHANGED <<endpoint, streak>> /\ worker[w].pc = "endpoint"
      BY <2>2 DEF LoadEndpoint
    <3>1. CASE worker'[w].pc = "done"
      <4>1. \A v \in Workers \ {w} : worker'[v] = worker[v]
        BY <2>2, LoadEndpointMoves DEF Moves
      <4>2. blurred' = blurred
        BY <2>2, <3>1, LoadEndpointMoves
      <4> QED
        BY <1>3, <3>0, <3>1, <4>1, <4>2 DEF Attempting, Reporting
    <3>2. CASE worker'[w].pc = "post"
      <4> SUFFICES ASSUME ~blurred', endpoint'.exists
                   PROVE  BreakerFits'
        BY DEF BreakerFits
      <4>1. ~blurred /\ endpoint.exists /\ \A v \in Workers : worker[v].pc \notin Attempting
        BY <2>2, <3>0, <3>2, LoadEndpointMoves
      <4>2. \A v \in Workers : worker'[v].pc \in Attempting => v = w
        BY <2>2, <4>1, LoadEndpointMoves DEF Moves
      <4>3. \A v \in Workers : worker'[v].pc \notin Reporting
        BY <1>0, <3>2, <4>2 DEF Reporting
      <4>4. ~endpoint.tripped /\ worker'[w].failures = endpoint.failures
        BY <2>2, <3>2, LoadEndpointMoves DEF Usable
      <4>5. streak = endpoint.failures /\ (endpoint.tripped <=> endpoint.failures >= Threshold)
        BY <1>0, <4>1 DEF BreakerFits
      <4>6. endpoint.failures < Threshold
        BY <4>4, <4>5, WebhookAssumption DEF WebhookTypeOK
      <4> QED
        BY <3>0, <4>2, <4>3, <4>4, <4>5, <4>6 DEF BreakerFits
    <3> QED
      BY <2>2, <3>1, <3>2, LoadEndpointMoves DEF Moves
  <2>3. CASE Post(w)
    <3> SUFFICES ASSUME ~blurred', endpoint'.exists
                 PROVE  BreakerFits'
      BY DEF BreakerFits
    <3>1. /\ UNCHANGED <<endpoint, blurred>> /\ worker[w].pc = "post"
          /\ worker'[w].pc = "record" /\ worker'[w].failures = worker[w].failures
          /\ \A v \in Workers \ {w} : worker'[v] = worker[v]
      BY <2>3, PostMoves DEF Post, Moves, tables
    <3>2. ~blurred /\ endpoint.exists /\ worker[w].pc \in Attempting
      BY <3>1 DEF Attempting
    <3>3. \A v \in Workers : worker[v].pc \in Attempting => v = w
      BY <3>2 DEF BreakerFits
    <3>4. \A v \in Workers : worker'[v].pc \in Attempting => v = w
      BY <3>1, <3>3
    <3>5. \A v \in Workers : worker[v].pc \notin Reporting
      BY <1>0, <3>1, <3>3 DEF Reporting
    <3>6. /\ worker[w].failures = endpoint.failures /\ endpoint.failures < Threshold
          /\ ~endpoint.tripped /\ streak = endpoint.failures
      BY <3>2, <3>5 DEF BreakerFits
    <3>7. streak' = IF worker'[w].result = "ok" THEN 0 ELSE endpoint.failures + 1
      BY <2>3, <3>6, PostMoves
    <3>8. worker'[w].pc \in Reporting
      BY <3>1 DEF Reporting
    <3> QED
      BY <1>0, <3>1, <3>4, <3>6, <3>7, <3>8 DEF BreakerFits
  <2>4. CASE Record(w)
    BY <2>4, RecordMoves, BreakerQuiet DEF Moves, Record, Reporting, history
  <2>5. CASE EnqueueRetry(w)
    BY <2>5, EnqueueRetryMoves, BreakerQuiet DEF Moves, EnqueueRetry, Reporting, tables, history
  <2>6. CASE UpdateBreaker(w)
    <3> SUFFICES ASSUME ~blurred', endpoint'.exists
                 PROVE  BreakerFits'
      BY DEF BreakerFits
    <3>1. /\ worker[w].pc = "breaker" /\ UNCHANGED <<streak, blurred>>
          /\ worker'[w].pc = "done" /\ \A v \in Workers \ {w} : worker'[v] = worker[v]
      BY <2>6, UpdateBreakerMoves DEF UpdateBreaker, Moves, history
    <3>2. endpoint.exists
      BY <2>6 DEF UpdateBreaker
    <3>3. worker[w].pc \in Attempting /\ worker[w].pc \in Reporting
      BY <3>1 DEF Attempting, Reporting
    <3>4. \A v \in Workers : worker[v].pc \in Attempting => v = w
      BY <3>1, <3>2, <3>3 DEF BreakerFits
    <3>5. \A v \in Workers : worker'[v].pc \notin Attempting
      BY <3>1, <3>4 DEF Attempting
    <3>6. /\ worker[w].failures = endpoint.failures /\ endpoint.failures < Threshold
          /\ streak = IF worker[w].result = "ok" THEN 0 ELSE endpoint.failures + 1
      BY <3>1, <3>2, <3>3 DEF BreakerFits
    <3> DEFINE new == AfterResult(worker[w].result = "ok", worker[w].failures)
    <3>7. endpoint' = [endpoint EXCEPT !.failures = new.failures, !.tripped = new.tripped]
      BY <2>6, <3>2 DEF UpdateBreaker
    <3>8. endpoint'.failures = new.failures /\ endpoint'.tripped = new.tripped
      BY <3>7 DEF WebhookTypeOK
    <3>9. new.failures = streak /\ (new.tripped <=> streak >= Threshold)
      <4>1. CASE worker[w].result = "ok"
        BY <3>6, <4>1, WebhookAssumption DEF AfterResult
      <4>2. CASE worker[w].result # "ok"
        BY <3>6, <4>2 DEF AfterResult, AfterFailure
      <4> QED
        BY <4>1, <4>2
    <3> QED
      BY <1>0, <3>1, <3>5, <3>8, <3>9 DEF BreakerFits
  <2>7. CASE Complete(w) \/ JobFails(w)
    <3>1. /\ \A v \in Workers \ {w} : worker'[v] = worker[v]
          /\ worker'[w].pc \notin Attempting
      BY <2>7, EndMoves DEF Moves, Attempting
    <3>2. worker[w].pc \notin Reporting \/ blurred'
      BY <2>7 DEF Complete, JobFails, Reporting
    <3>3. UNCHANGED <<endpoint, streak>>
      BY <2>7 DEF Complete, JobFails, tables, history
    <3>4. CASE Complete(w)
      BY <1>3, <3>1, <3>2, <3>3, <3>4 DEF Complete, history
    <3>5. CASE JobFails(w)
      <4>1. blurred => blurred'
        BY <3>5 DEF JobFails
      <4>2. blurred' = blurred \/ blurred'
        <5>1. blurred \in BOOLEAN /\ blurred' \in BOOLEAN
          BY <3>5 DEF WebhookTypeOK, JobFails
        <5> QED
          BY <4>1, <5>1
      <4> QED
        BY <1>3, <3>1, <3>2, <3>3, <4>2
    <3> QED
      BY <2>7, <3>4, <3>5
  <2> QED
    BY <1>5, <2>1, <2>2, <2>3, <2>4, <2>5, <2>6, <2>7 DEF WorkerStep
<1>6. CASE UNCHANGED vars
  BY <1>6 DEF vars, tables, history, BreakerFits
<1> QED
  BY <1>1, <1>2, <1>4, <1>5, <1>6 DEF Next

-----------------------------------------------------------------------------
(* The theorems.                                                           *)

LEMMA WebhookInit ==
  ASSUME Init
  PROVE  WebhookInv
<1>1. WebhookTypeOK
  <2>1. worker \in [Workers -> WorkerRecords]
    BY NewLocals DEF Init
  <2>2. row \in [Deliveries -> Rows]
    BY DEF Init, Absent, Rows
  <2>3. /\ endpoint \in [exists : BOOLEAN, disabled : BOOLEAN, failures : Nat, tripped : BOOLEAN]
        /\ jobs \in [Deliveries -> SUBSET (0..RetryLimit)] /\ posts \in [Deliveries -> Nat]
    BY DEF Init
  <2>4. faults \in 0..MaxFaults /\ edits \in 0..MaxEdits
    BY WebhookAssumption DEF Init
  <2>5. /\ queued \subseteq Deliveries /\ streak \in Nat /\ blurred \in BOOLEAN
        /\ forked \subseteq Deliveries /\ replayed \subseteq Deliveries
    BY DEF Init
  <2> QED
    BY <2>1, <2>2, <2>3, <2>4, <2>5 DEF WebhookTypeOK, WorkerRecords, Rows
<1>2. JobsFit /\ OneJob /\ NotSettled
  BY WebhookAssumption DEF Init, Idle, JobsFit, OneJob, Bears, Bearing, NotSettled
<1>3. BreakerFits
  <2>1. \A w \in Workers : worker[w].pc = "idle"
    BY DEF Init, Idle
  <2>2. endpoint.failures = 0 /\ ~endpoint.tripped /\ streak = 0
    BY DEF Init
  <2>3. ~(0 >= Threshold)
    BY WebhookAssumption
  <2> QED
    BY <2>1, <2>2, <2>3 DEF BreakerFits, Attempting, Reporting
<1> QED
  BY <1>1, <1>2, <1>3 DEF WebhookInv

LEMMA WebhookStep ==
  ASSUME WebhookInv, [Next]_vars
  PROVE  WebhookInv'
BY TypesKept, JobsFitKept, OneJobKept, NotSettledKept, BreakerFitsKept DEF WebhookInv

LEMMA WebhookInvHolds == Spec => []WebhookInv
BY WebhookInit, WebhookStep, PTL DEF Spec

(* The endpoint, the rows, the jobs and the workers keep their types.      *)
THEOREM WebhookTypes == Spec => []WebhookTypeOK
<1>1. WebhookInv => WebhookTypeOK
  BY DEF WebhookInv
<1> QED
  BY <1>1, WebhookInvHolds, PTL

(* processDelivery of any number of workers, failed jobs and retries never *)
(* turns back a row that is delivered or given up, unless a job of it was  *)
(* handed out again beside another or the firm replays it.                 *)
THEOREM OutcomesAreFinal == Spec => OutcomeIsFinal
<1>1. ASSUME WebhookInv, [Next]_vars
      PROVE  [\A d \in Deliveries \ (forked \cup replayed') :
                row[d].status \in Terminal =>
                  row'[d].status \in {row[d].status, "absent"}]_vars
  <2> SUFFICES ASSUME Next, NEW d \in Deliveries \ (forked \cup replayed'),
                      row[d].status \in Terminal
               PROVE  row'[d].status \in {row[d].status, "absent"}
    BY <1>1
  <2> USE <1>1 DEF WebhookInv
  <2>0. row \in [Deliveries -> Rows] /\ row[d] # Absent
    BY DEF WebhookTypeOK, Rows, Terminal, Absent
  <2>1. ASSUME NEW e \in Deliveries, Emit(e) \/ EnqueueDelivery(e) \/ ReplayDelivery(e)
        PROVE  row'[d] = row[d]
    BY <2>0, <2>1 DEF Emit, EnqueueDelivery, ReplayDelivery, tables
  <2>2. ASSUME (\E active \in BOOLEAN : SetActive(active)) \/ DeleteEndpoint
        PROVE  row'[d].status \in {row[d].status, "absent"}
    BY <2>2 DEF SetActive, DeleteEndpoint, Absent
  <2>3. ASSUME NEW w \in Workers, NEW e \in Deliveries, Take(w, e)
        PROVE  row'[d] = row[d]
    BY <2>3 DEF Take, tables
  <2>4. ASSUME NEW w \in Workers, WorkerStep(w) \/ JobFails(w)
        PROVE  row'[d] = row[d]
    <3>0. replayed' = replayed
      BY <2>4 DEF WorkerStep, LoadDelivery, LoadEndpoint, Post, Record, EnqueueRetry,
                  UpdateBreaker, Complete, JobFails, history
    <3>1. worker[w].pc \in {"endpoint", "record"} => worker[w].delivery # d
      BY <3>0 DEF NotSettled
    <3>2. CASE LoadEndpoint(w) \/ Record(w)
      BY <2>0, <3>1, <3>2 DEF LoadEndpoint, Record, Update
    <3>3. CASE ~(LoadEndpoint(w) \/ Record(w))
      BY <2>4, <3>3 DEF WorkerStep, LoadDelivery, Post, EnqueueRetry,
                        UpdateBreaker, Complete, JobFails, tables
    <3> QED
      BY <3>2, <3>3
  <2> QED
    BY <2>1, <2>2, <2>3, <2>4 DEF Next
<1> QED
  BY <1>1, WebhookInvHolds, PTL DEF Spec, OutcomeIsFinal

(* As long as no two deliveries overlap and no result is lost, the breaker *)
(* opens after circuitBreakerThreshold failures in a row, neither earlier  *)
(* nor later, however workers, retries and the firm's edits interleave.    *)
THEOREM BreakerOpensJustly == Spec => []BreakerIsJust
<1>1. WebhookInv => BreakerIsJust
  <2> SUFFICES ASSUME WebhookInv, ~blurred, endpoint.exists
               PROVE  /\ endpoint.tripped => streak >= Threshold
                      /\ streak >= Threshold /\ (\A w \in Workers : worker[w] = Idle) =>
                           endpoint.tripped
    BY DEF BreakerIsJust
  <2>0. Reporting \subseteq Attempting
    BY DEF Reporting, Attempting
  <2>1. endpoint.tripped => \A w \in Workers : worker[w].pc \notin Reporting
    BY <2>0 DEF WebhookInv, BreakerFits
  <2>2. (\A w \in Workers : worker[w] = Idle) => \A w \in Workers : worker[w].pc \notin Reporting
    BY DEF Idle, Reporting
  <2>3. (\A w \in Workers : worker[w].pc \notin Reporting) =>
          streak = endpoint.failures /\ (endpoint.tripped <=> endpoint.failures >= Threshold)
    BY DEF WebhookInv, BreakerFits
  <2> QED
    BY <2>1, <2>2, <2>3
<1> QED
  BY <1>1, WebhookInvHolds, PTL
==============================================================================
