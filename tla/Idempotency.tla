---------------------------- MODULE Idempotency ----------------------------
(***************************************************************************)
(* Idempotency-Key: one (subject, endpoint, key) and the HTTP calls that   *)
(* carry it.                                                               *)
(*                                                                         *)
(* A call claims the key's row, runs its handler and stores the answer in  *)
(* the row; a call that loses the claim replays the answer, reports a      *)
(* mismatch, or polls for the answer of the holder.  Claims lapse after a  *)
(* minute, so a slow or dead holder can be overtaken.  Each step is one    *)
(* SQL statement, or the handler.                                          *)
(***************************************************************************)
CONSTANTS
  Calls, NoCall,   \* HTTP requests with this key; nobody
  Bodies, NoBody   \* request bodies, told apart by their hash

VARIABLES
  slot,      \* the row of idempotency_keys: its request_hash, the call whose
             \* response it holds (NoCall: response_status is PENDING_STATUS)
  call,      \* program counter and locals of each HTTP request
  executed,  \* history: calls whose handler gave a cacheable answer
  lapsed     \* history: the row has expired at some time

idempotencyVars == <<slot, call, executed, lapsed>>

NoSlot == [status |-> "none", body |-> NoBody, answer |-> NoCall, expired |-> FALSE]
PendingSlot(b) == [NoSlot EXCEPT !.status = "pending", !.body = b]
StoredSlot(c) ==
  [status |-> "stored", body |-> call[c].body, answer |-> c, expired |-> FALSE]

IdempotencyInit ==
  /\ slot = NoSlot
  /\ call = [c \in Calls |-> [pc |-> "new", body |-> NoBody, answer |-> NoCall]]
  /\ executed = {} /\ lapsed = FALSE

CallAt(c, pc) == call' = [call EXCEPT ![c].pc = pc]
End(c, outcome, answerer) ==
  call' = [call EXCEPT ![c].pc = outcome, ![c].answer = answerer]

-----------------------------------------------------------------------------
(* lookupIdempotencyKey.                                                   *)

\* INSERT ... ON CONFLICT DO UPDATE WHERE expires_at <= now.  A call compares
\* with the time it began, and may find unexpired what has expired since.
AnySlot == TRUE  \* mutation: the claim takes the row without its WHERE clause
Claimable == slot.status = "none" \/ slot.expired

Claim(c, b) ==
  /\ call[c].pc = "new"
  /\ \/ /\ Claimable
        /\ slot' = PendingSlot(b)
        /\ call' = [call EXCEPT ![c].pc = "handler", ![c].body = b]
     \/ /\ slot.status # "none"
        /\ call' = [call EXCEPT ![c].pc = "read", ![c].body = b]
        /\ UNCHANGED slot
  /\ UNCHANGED <<executed, lapsed>>

\* The loser of the claim reads the row.
Read(c) ==
  /\ call[c].pc = "read"
  /\ \/ slot.status = "none" /\ CallAt(c, "in_progress")
     \/ slot.status # "none" /\ slot.body # call[c].body /\ CallAt(c, "mismatch")
     \/ slot.status = "stored" /\ slot.body = call[c].body /\ End(c, "hit", slot.answer)
     \/ slot.status = "pending" /\ slot.body = call[c].body /\ CallAt(c, "poll")
  /\ UNCHANGED <<slot, executed, lapsed>>

\* Every 200 ms; the row it finds is not compared with its own body again.
Poll(c) ==
  /\ call[c].pc = "poll"
  /\ \/ slot.status = "none" /\ CallAt(c, "in_progress")
     \/ slot.status = "stored" /\ End(c, "hit", slot.answer)
  /\ UNCHANGED <<slot, executed, lapsed>>

\* After three seconds of a pending row.
PollGivesUp(c) ==
  /\ call[c].pc = "poll" /\ slot.status = "pending"
  /\ CallAt(c, "in_progress")
  /\ UNCHANGED <<slot, executed, lapsed>>

-----------------------------------------------------------------------------
(* withIdempotency, around the handler of the call that claimed.           *)

\* A cacheable answer goes on to be stored; any other (5xx) is returned and
\* leaves the claim to lapse; an exception releases the claim.
HandlerAnswers(c) ==
  /\ call[c].pc = "handler"
  /\ executed' = executed \cup {c}
  /\ CallAt(c, "store")
  /\ UNCHANGED <<slot, lapsed>>

HandlerFails(c) ==
  /\ call[c].pc = "handler"
  /\ CallAt(c, "failed") \/ CallAt(c, "release")
  /\ UNCHANGED <<slot, executed, lapsed>>

\* storeIdempotencyKey's UPDATE: by body, not by holder.
AnyPending(c) == slot.status = "pending"  \* mutation: no comparison of request_hash
Ours(c) == slot.status = "pending" /\ slot.body = call[c].body

Store(c) ==
  /\ call[c].pc = "store"
  /\ IF Ours(c) THEN /\ slot' = [slot EXCEPT !.status = "stored", !.answer = c, !.expired = FALSE]
                     /\ End(c, "answered", c)
                ELSE CallAt(c, "insert") /\ UNCHANGED slot
  /\ UNCHANGED <<executed, lapsed>>

\* Its fallback, INSERT ... ON CONFLICT DO NOTHING, when the row was swept or
\* taken over.
StoreAnew(c) ==
  /\ call[c].pc = "insert"
  /\ slot' = IF slot.status = "none" THEN StoredSlot(c) ELSE slot
  /\ End(c, "answered", c)
  /\ UNCHANGED <<executed, lapsed>>

\* releaseClaim deletes a pending row, whoever holds it now; its own failure
\* is swallowed.
AnyRow == TRUE  \* mutation: the DELETE does not ask for response_status = 0
Releasable == slot.status = "pending"

Release(c) ==
  /\ call[c].pc = "release"
  /\ slot' = IF Releasable THEN NoSlot ELSE slot
  /\ CallAt(c, "failed")
  /\ UNCHANGED <<executed, lapsed>>

\* The process dies, or the statement of its next step fails.
Dies(c) ==
  /\ call[c].pc \in {"handler", "store", "insert", "release"}
  /\ \/ CallAt(c, "failed") /\ UNCHANGED executed
     \/ call[c].pc = "handler" /\ executed' = executed \cup {c} /\ CallAt(c, "failed")
  /\ UNCHANGED <<slot, lapsed>>

-----------------------------------------------------------------------------
\* expires_at goes by: a minute after a claim, a day after an answer.
Expire ==
  /\ slot.status # "none" /\ ~slot.expired
  /\ slot' = [slot EXCEPT !.expired = TRUE]
  /\ lapsed' = TRUE
  /\ UNCHANGED <<call, executed>>

\* sweepExpiredIdempotencyKeys, every six hours.
SweptIfStored == slot.expired /\ slot.status = "stored"  \* mutation
Swept == slot.expired

Sweep ==
  /\ Swept
  /\ slot' = NoSlot
  /\ UNCHANGED <<call, executed, lapsed>>

Lookup(c) == (\E b \in Bodies : Claim(c, b)) \/ Read(c) \/ Poll(c) \/ PollGivesUp(c)
Handle(c) ==
  HandlerAnswers(c) \/ HandlerFails(c) \/ Store(c) \/ StoreAnew(c) \/ Release(c) \/ Dies(c)

IdempotencyNext == (\E c \in Calls : Lookup(c) \/ Handle(c)) \/ Expire \/ Sweep

IdempotencySpec == IdempotencyInit /\ [][IdempotencyNext]_idempotencyVars

\* Time passes and the sweeper is a cron job; nothing is asked of the calls.
IdempotencyFairness == WF_idempotencyVars(Expire) /\ WF_idempotencyVars(Sweep)
IdempotencyFairSpec == IdempotencySpec /\ IdempotencyFairness

-----------------------------------------------------------------------------
(* Properties.                                                             *)

Running == {"handler", "store", "insert", "release"}
Active == executed \cup {c \in Calls : call[c].pc \in Running}
Outcomes == {"hit", "mismatch", "in_progress", "failed", "answered"}

IdempotencyTypeOK ==
  /\ slot \in [status : {"none", "pending", "stored"}, body : Bodies \cup {NoBody},
               answer : Calls \cup {NoCall}, expired : BOOLEAN]
  /\ call \in [Calls -> [pc : {"new", "read", "poll"} \cup Running \cup Outcomes,
                         body : Bodies \cup {NoBody}, answer : Calls \cup {NoCall}]]
  /\ executed \subseteq Calls /\ lapsed \in BOOLEAN

\* The answer kept under a body's hash answers that body: a holder overtaken by
\* a call with another body never stores into the successor's row.
StoredAnswerFits ==
  slot.status = "stored" => slot.answer \in executed /\ call[slot.answer].body = slot.body

\* Until it expires, a stored answer is what every retry gets: late stores, late
\* releases, losers of the claim and the sweeper all leave it alone.
AnswerStays ==
  [][slot.status = "stored" /\ ~slot.expired =>
       slot'.status = "stored" /\ slot'.answer = slot.answer /\ slot'.body = slot.body]_idempotencyVars

\* As long as the row has not expired, a key runs one handler to an answer: no
\* second handler runs beside the first or after it has answered.
RunsOnce == ~lapsed => \A c, d \in Active : c = d

\* A holder that dies or fails does not lock the key: its claim gives way.
ClaimGivesWay == slot.status = "pending" ~> slot.status # "pending"

(* A statement of the documentation the runs confront with the code.       *)

\* "A key reused against a DIFFERENT request body is rejected": a replayed
\* answer was given to a request with the same body.
ReplayFitsRequest ==
  \A c \in Calls : call[c].pc = "hit" => call[call[c].answer].body = call[c].body
=============================================================================
