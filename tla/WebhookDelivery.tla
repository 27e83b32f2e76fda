-------------------------- MODULE WebhookDelivery --------------------------
(***************************************************************************)
(* Webhook delivery to one endpoint: the delivery rows, the queue, the     *)
(* workers that post them and the endpoint's circuit breaker.              *)
(*                                                                         *)
(* processDelivery has no transaction: it reads the row, reads the         *)
(* endpoint, posts, writes the row, enqueues the retry and writes the      *)
(* breaker, each by itself, with what it read before the post.  Workers of *)
(* other processes, a crash, the firm's edits and a replay run between any *)
(* two of them.                                                            *)
(***************************************************************************)
EXTENDS Naturals, FiniteSets

CONSTANTS
  Deliveries, NoDelivery,
  Emitted,       \* bound: the deliveries that are emitted
  Workers,
  MaxAttempts,   \* webhook_deliveries.max_attempts, at least 1
  Threshold,     \* circuitBreakerThreshold
  RetryLimit,    \* pg-boss: how often it hands out a failed job again
  MaxFaults,     \* bound: failed or lost jobs
  Edits,         \* what the firm may do: disable, enable, delete, replay
  MaxEdits       \* bound: how often

\* Nobody's delivery is none, and the bounds are numbers.
ASSUME WebhookAssumption ==
  /\ NoDelivery \notin Deliveries
  /\ Threshold \in Nat \ {0}
  /\ RetryLimit \in Nat /\ MaxFaults \in Nat /\ MaxEdits \in Nat

VARIABLES
  endpoint,  \* webhook_endpoints: consecutive_failures, breaker, disabled_at
  row,       \* webhook_deliveries
  jobs,      \* per delivery, the waiting jobs, told apart by their retries so far
  worker,    \* per worker process: its job, program counter and locals
  queued,    \* deliveries that somebody has handed to enqueueDelivery
  faults, edits,  \* counts, for the bounds
  posts,     \* history: HTTP requests made for each delivery
  streak,    \* history: failed results since the last success, up to Threshold
  blurred,   \* history: a result was lost, or two workers overlapped
  forked,    \* history: deliveries that had a returned job beside another one
  replayed   \* history: deliveries replayed from the dashboard

tables == <<endpoint, row>>
history == <<posts, streak, blurred, forked, replayed>>
vars == <<tables, jobs, worker, queued, faults, edits, history>>

Absent == [status |-> "absent", attempts |-> 0]
Idle == [pc |-> "idle", delivery |-> NoDelivery, tries |-> 0, attempts |-> 0,
         failures |-> 0, result |-> "none"]

Init ==
  /\ endpoint = [exists |-> TRUE, disabled |-> FALSE, failures |-> 0, tripped |-> FALSE]
  /\ row = [d \in Deliveries |-> Absent]
  /\ jobs = [d \in Deliveries |-> {}]
  /\ worker = [w \in Workers |-> Idle]
  /\ queued = {} /\ faults = 0 /\ edits = 0
  /\ posts = [d \in Deliveries |-> 0]
  /\ streak = 0 /\ blurred = FALSE /\ forked = {} /\ replayed = {}

Usable == endpoint.exists /\ ~endpoint.disabled /\ ~endpoint.tripped
Terminal == {"delivered", "dead_letter"}
Attempting == {"post", "record", "retry", "breaker"}
Goto(w, pc) == worker' = [worker EXCEPT ![w].pc = pc]

\* UPDATE ... WHERE id: of a row that may have been deleted with its endpoint.
Update(d, new) ==
  row' = IF row[d].status = "absent" THEN row ELSE [row EXCEPT ![d] = new]

Edit(e) ==
  /\ e \in Edits /\ edits < MaxEdits
  /\ edits' = edits + 1

-----------------------------------------------------------------------------
(* Rows.                                                                   *)

\* emitUserEvent and emitFirmEvent create rows for usable endpoints,
\* handleTestWebhook for any.  No job is sent.
Emit(d) ==
  /\ d \in Emitted /\ row[d] = Absent /\ posts[d] = 0 /\ endpoint.exists
  /\ row' = [row EXCEPT ![d].status = "pending"]
  /\ UNCHANGED <<endpoint, jobs, worker, queued, faults, edits, history>>

\* enqueueDelivery, which queue.ts exports for the emitting side.
EnqueueDelivery(d) ==
  /\ row[d].status = "pending" /\ d \notin queued
  /\ jobs' = [jobs EXCEPT ![d] = @ \cup {0}]
  /\ queued' = queued \cup {d}
  /\ UNCHANGED <<tables, worker, faults, edits, history>>

\* replayDelivery, whatever the row's status is.
ReplayDelivery(d) ==
  /\ Edit("replay") /\ row[d].status # "absent"
  /\ row' = [row EXCEPT ![d] = [status |-> "pending", attempts |-> 0]]
  /\ replayed' = replayed \cup {d}
  /\ UNCHANGED <<endpoint, jobs, worker, queued, faults, posts, streak, blurred, forked>>

\* handleUpdateWebhook: the breaker's columns are not the firm's to reset.
SetActive(active) ==
  /\ Edit(IF active THEN "enable" ELSE "disable") /\ endpoint.exists
  /\ endpoint' = [endpoint EXCEPT !.disabled = ~active]
  /\ UNCHANGED <<row, jobs, worker, queued, faults, history>>

\* handleDeleteWebhook; the deliveries go with their endpoint.
DeleteEndpoint ==
  /\ Edit("delete") /\ endpoint.exists
  /\ endpoint' = [endpoint EXCEPT !.exists = FALSE]
  /\ row' = [d \in Deliveries |-> Absent]
  /\ UNCHANGED <<jobs, worker, queued, faults, history>>

-----------------------------------------------------------------------------
(* processDelivery.                                                        *)

Take(w, d) ==
  /\ worker[w] = Idle
  /\ \E n \in jobs[d] :
       /\ jobs' = [jobs EXCEPT ![d] = @ \ {n}]
       /\ worker' = [worker EXCEPT ![w] =
            [Idle EXCEPT !.pc = "load", !.delivery = d, !.tries = n]]
  /\ UNCHANGED <<tables, queued, faults, edits, history>>

SkippedIfGone(d) == row[d] = Absent  \* mutation: posts what is settled
Skipped(d) == row[d].status \in Terminal \cup {"absent"}

LoadDelivery(w) ==
  LET d == worker[w].delivery
  IN /\ worker[w].pc = "load"
     /\ IF Skipped(d)
        THEN Goto(w, "done")
        ELSE worker' = [worker EXCEPT ![w].pc = "endpoint", ![w].attempts = row[d].attempts]
     /\ UNCHANGED <<tables, jobs, queued, faults, edits, history>>

\* A job that finds the endpoint unusable ends without an error: no retry.
LoadEndpoint(w) ==
  LET d == worker[w].delivery
  IN /\ worker[w].pc = "endpoint"
     /\ \/ ~Usable /\ Goto(w, "done") /\ UNCHANGED <<row, blurred>>
        \/ /\ Usable
           /\ worker' = [worker EXCEPT ![w].pc = "post", ![w].failures = endpoint.failures]
           /\ Update(d, [row[d] EXCEPT !.status = "delivering"])  \* markDelivering
           /\ blurred' = (blurred \/ \E v \in Workers : worker[v].pc \in Attempting)
     /\ UNCHANGED <<endpoint, jobs, queued, faults, edits, posts, streak, forked, replayed>>

\* executeDelivery and isTransientFailure: the answer is a success, worth a
\* retry (no answer, 429, 5xx) or final.
Post(w) ==
  LET d == worker[w].delivery
  IN /\ worker[w].pc = "post"
     /\ \E r \in {"ok", "transient", "final"} :
          /\ worker' = [worker EXCEPT ![w].pc = "record", ![w].result = r]
          /\ \/ posts' = [posts EXCEPT ![d] = @ + 1]
             \/ r = "final" /\ UNCHANGED posts  \* the URL guard refuses
          /\ streak' = IF r = "ok" THEN 0 ELSE IF streak < Threshold THEN streak + 1 ELSE streak
     /\ UNCHANGED <<tables, jobs, queued, faults, edits, blurred, forked, replayed>>

IsMaxAttemptsReached(n) == n >= MaxAttempts

\* markDelivered adds to the row's count, markFailed and markDeadLettered write
\* the count read before the post, plus one.
Record(w) ==
  LET d == worker[w].delivery
      n == worker[w].attempts + 1
      retry == worker[w].result = "transient" /\ ~IsMaxAttemptsReached(n)
  IN /\ worker[w].pc = "record"
     /\ Update(d, CASE worker[w].result = "ok" -> [status |-> "delivered",
                                                   attempts |-> row[d].attempts + 1]
                    [] retry -> [status |-> "failed", attempts |-> n]
                    [] OTHER -> [status |-> "dead_letter", attempts |-> n])
     /\ worker' = [worker EXCEPT ![w].pc = IF retry THEN "retry" ELSE "breaker", ![w].attempts = 0]
     /\ UNCHANGED <<endpoint, jobs, queued, faults, edits, history>>

EnqueueRetry(w) ==
  /\ worker[w].pc = "retry"
  /\ jobs' = [jobs EXCEPT ![worker[w].delivery] = @ \cup {0}]
  /\ Goto(w, "breaker")
  /\ UNCHANGED <<tables, queued, faults, edits, history>>

\* computeCircuitBreakerUpdate, from the endpoint as it was before the post.
AfterFailureEarly(failures) ==  \* mutation: trips one failure early
  [failures |-> failures + 1, tripped |-> failures + 2 >= Threshold]
AfterFailure(failures) == [failures |-> failures + 1, tripped |-> failures + 1 >= Threshold]
AfterResult(ok, failures) ==
  IF ok THEN [failures |-> 0, tripped |-> FALSE] ELSE AfterFailure(failures)

UpdateBreaker(w) ==
  LET new == AfterResult(worker[w].result = "ok", worker[w].failures)
  IN /\ worker[w].pc = "breaker"
     /\ endpoint' = IF endpoint.exists
                    THEN [endpoint EXCEPT !.failures = new.failures, !.tripped = new.tripped]
                    ELSE endpoint
     /\ worker' = [worker EXCEPT ![w].pc = "done", ![w].failures = 0, ![w].result = "none"]
     /\ UNCHANGED <<row, jobs, queued, faults, edits, history>>

Complete(w) ==
  /\ worker[w].pc = "done"
  /\ worker' = [worker EXCEPT ![w] = Idle]
  /\ UNCHANGED <<tables, jobs, queued, faults, edits, history>>

\* pg-boss hands a failed job out again, unless it has no retries left.
Swallowed(d, n) == jobs  \* mutation: the worker swallows the exception
Returned(d, n) == IF n < RetryLimit THEN [jobs EXCEPT ![d] = @ \cup {n + 1}] ELSE jobs

\* A statement throws, the process dies and its job times out, or another job of
\* the batch throws and takes this one with it.
JobFails(w) ==
  LET d == worker[w].delivery
  IN /\ worker[w].pc # "idle" /\ faults < MaxFaults
     /\ faults' = faults + 1
     /\ jobs' = Returned(d, worker[w].tries)
     /\ worker' = [worker EXCEPT ![w] = Idle]
     /\ blurred' = (blurred \/ worker[w].pc \in {"record", "retry", "breaker"})
     /\ forked' = IF jobs[d] # {} \/ \E v \in Workers \ {w} : worker[v].delivery = d
                  THEN forked \cup {d} ELSE forked
     /\ UNCHANGED <<tables, queued, edits, posts, streak, replayed>>

WorkerStep(w) ==
  \/ LoadDelivery(w) \/ LoadEndpoint(w) \/ Post(w) \/ Record(w) \/ EnqueueRetry(w)
  \/ UpdateBreaker(w) \/ Complete(w)

Next ==
  \/ \E d \in Deliveries : Emit(d) \/ EnqueueDelivery(d) \/ ReplayDelivery(d)
  \/ \E active \in BOOLEAN : SetActive(active)
  \/ DeleteEndpoint
  \/ \E w \in Workers : (\E d \in Deliveries : Take(w, d)) \/ WorkerStep(w) \/ JobFails(w)

Spec == Init /\ [][Next]_vars

(* A worker process that has a job goes on; jobs are handed out oldest     *)
(* first, so a waiting job is taken even if others keep arriving.          *)
Fairness ==
  /\ \A w \in Workers : WF_vars(WorkerStep(w))
  /\ \A d \in Deliveries : SF_vars(\E w \in Workers : Take(w, d))
FairSpec == Spec /\ Fairness

-----------------------------------------------------------------------------
(* Properties.                                                             *)

WebhookTypeOK ==
  /\ endpoint \in [exists : BOOLEAN, disabled : BOOLEAN, failures : Nat, tripped : BOOLEAN]
  /\ row \in [Deliveries -> [status : {"absent", "pending", "delivering", "failed"} \cup Terminal,
                             attempts : Nat]]
  /\ jobs \in [Deliveries -> SUBSET (0..RetryLimit)]
  /\ worker \in [Workers -> [pc : {"idle", "load", "endpoint", "done"} \cup Attempting,
                             delivery : Deliveries \cup {NoDelivery}, tries : 0..RetryLimit,
                             attempts : Nat, failures : Nat,
                             result : {"none", "ok", "transient", "final"}]]
  /\ queued \subseteq Deliveries /\ faults \in 0..MaxFaults /\ edits \in 0..MaxEdits
  /\ posts \in [Deliveries -> Nat] /\ streak \in Nat /\ blurred \in BOOLEAN
  /\ forked \subseteq Deliveries /\ replayed \subseteq Deliveries

\* What was delivered or given up stays so: no second worker, late write or
\* returned job turns the row back, unless two jobs of it ran side by side.
OutcomeIsFinal ==
  [][\A d \in Deliveries \ (forked \cup replayed') :
       row[d].status \in Terminal => row'[d].status \in {row[d].status, "absent"}]_vars

\* When no result was lost and no two deliveries overlapped, the breaker opens
\* after Threshold failures in a row, not earlier and not later.
BreakerIsJust ==
  ~blurred /\ endpoint.exists =>
    /\ endpoint.tripped => streak >= Threshold
    /\ streak >= Threshold /\ (\A w \in Workers : worker[w] = Idle) => endpoint.tripped

\* A queued delivery is delivered or given up, or its endpoint is found
\* unusable, although jobs fail (up to RetryLimit times) at any step.
QueuedDeliverySettles ==
  \A d \in Deliveries :
    jobs[d] # {} ~> row[d].status \in Terminal \cup {"absent"} \/ ~Usable
=============================================================================
