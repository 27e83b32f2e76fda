---------------------------- MODULE ServiceProofs ----------------------------
(***************************************************************************)
(* Theorems about three services that share no state: Idempotency, which   *)
(* also implements OnceOnly, TokenBucket and Tickets, each for any sets of *)
(* actors and any bounds.                                                  *)
(***************************************************************************)
EXTENDS Idempotency, TokenBucket, Tickets, TLAPS

(***************************************************************************)
(* Idempotency, for any number of calls and bodies.  The properties rest   *)
(* on CallsInv, which says what a call's place in its handler tells of its *)
(* history; RunsOnce and the refinement also need that an active call      *)
(* keeps the row in existence as long as nothing has expired.              *)
(***************************************************************************)

\* A call runs only once, and what it goes on to store it has answered.
CallsInv ==
  \A c \in Calls : /\ c \in executed => call[c].pc # "new"
                   /\ call[c].pc \in {"handler", "release"} => c \notin executed
                   /\ call[c].pc \in {"store", "insert"} => c \in executed

\* Until the row first expires, it exists beside whoever runs or has answered.
ClaimHeld ==
  ~lapsed => /\ ~slot.expired
             /\ Active # {} => slot.status # "none"
             /\ \A c, d \in Active : c = d

KeyInv == IdempotencyTypeOK /\ CallsInv /\ StoredAnswerFits /\ ClaimHeld

-----------------------------------------------------------------------------
(* Two fields of one call's record changed in turn.                        *)
LEMMA TwoFields ==
  ASSUME IdempotencyTypeOK, NEW c \in Calls, NEW p
  PROVE  /\ \A a : [call EXCEPT ![c].pc = p, ![c].answer = a] =
                    [call EXCEPT ![c] = [pc |-> p, body |-> call[c].body, answer |-> a]]
         /\ \A b : [call EXCEPT ![c].pc = p, ![c].body = b] =
                    [call EXCEPT ![c] = [pc |-> p, body |-> b, answer |-> call[c].answer]]
<1> DEFINE mid == [call EXCEPT ![c].pc = p]
           rec == [pc |-> p, body |-> call[c].body, answer |-> call[c].answer]
<1>1. /\ call \in [Calls -> [pc : {"new", "read", "poll"} \cup Running \cup Outcomes,
                            body : Bodies \cup {NoBody}, answer : Calls \cup {NoCall}]]
      /\ call[c] \in [pc : {"new", "read", "poll"} \cup Running \cup Outcomes,
                      body : Bodies \cup {NoBody}, answer : Calls \cup {NoCall}]
  BY DEF IdempotencyTypeOK
<1>2. call[c] = [pc |-> call[c].pc, body |-> call[c].body, answer |-> call[c].answer]
  BY <1>1
<1>3. [call[c] EXCEPT !.pc = p] = rec
  BY <1>2
<1>4. mid = [call EXCEPT ![c] = rec]
  BY <1>3
<1>5. mid[c] = rec
  BY <1>1, <1>4
<1>6. ASSUME NEW a
      PROVE  [call EXCEPT ![c].pc = p, ![c].answer = a] =
             [call EXCEPT ![c] = [pc |-> p, body |-> call[c].body, answer |-> a]]
  <2>1. [rec EXCEPT !.answer = a] = [pc |-> p, body |-> call[c].body, answer |-> a]
    OBVIOUS
  <2> HIDE DEF rec
  <2>2. [call EXCEPT ![c].pc = p, ![c].answer = a] = [mid EXCEPT ![c] = [mid[c] EXCEPT !.answer = a]]
    BY Zenon
  <2>3. [mid EXCEPT ![c] = [mid[c] EXCEPT !.answer = a]] =
        [mid EXCEPT ![c] = [pc |-> p, body |-> call[c].body, answer |-> a]]
    BY <1>5, <2>1
  <2>4. \A x : [[call EXCEPT ![c] = rec] EXCEPT ![c] = x] = [call EXCEPT ![c] = x]
    OBVIOUS
  <2>5. QED
    BY <1>4, <2>2, <2>3, <2>4
<1>7. ASSUME NEW b
      PROVE  [call EXCEPT ![c].pc = p, ![c].body = b] =
             [call EXCEPT ![c] = [pc |-> p, body |-> b, answer |-> call[c].answer]]
  <2>1. [rec EXCEPT !.body = b] = [pc |-> p, body |-> b, answer |-> call[c].answer]
    OBVIOUS
  <2> HIDE DEF rec
  <2>2. [call EXCEPT ![c].pc = p, ![c].body = b] = [mid EXCEPT ![c] = [mid[c] EXCEPT !.body = b]]
    BY Zenon
  <2>3. [mid EXCEPT ![c] = [mid[c] EXCEPT !.body = b]] =
        [mid EXCEPT ![c] = [pc |-> p, body |-> b, answer |-> call[c].answer]]
    BY <1>5, <2>1
  <2>4. \A x : [[call EXCEPT ![c] = rec] EXCEPT ![c] = x] = [call EXCEPT ![c] = x]
    OBVIOUS
  <2>5. QED
    BY <1>4, <2>2, <2>3, <2>4
<1>8. QED
  BY <1>6, <1>7

(* A step's effect on the calls is a change of one call's record; these    *)
(* say which fields it keeps.                                              *)
LEMMA GotoKeeps ==
  ASSUME IdempotencyTypeOK, NEW c \in Calls, NEW pc, CallAt(c, pc)
  PROVE  /\ call'[c].pc = pc /\ call'[c].body = call[c].body /\ call'[c].answer = call[c].answer
         /\ \A d \in Calls : d # c => call'[d] = call[d]
         /\ pc \in {"new", "read", "poll"} \cup Running \cup Outcomes =>
              call' \in [Calls -> [pc : {"new", "read", "poll"} \cup Running \cup Outcomes,
                                   body : Bodies \cup {NoBody}, answer : Calls \cup {NoCall}]]
BY DEF IdempotencyTypeOK, CallAt

LEMMA EndKeeps ==
  ASSUME IdempotencyTypeOK, NEW c \in Calls, NEW pc \in Outcomes,
         NEW a \in Calls \cup {NoCall}, End(c, pc, a)
  PROVE  /\ call'[c].pc = pc /\ call'[c].body = call[c].body
         /\ \A d \in Calls : d # c => call'[d] = call[d]
         /\ call' \in [Calls -> [pc : {"new", "read", "poll"} \cup Running \cup Outcomes,
                                 body : Bodies \cup {NoBody}, answer : Calls \cup {NoCall}]]
<1>1. call[c] \in [pc : {"new", "read", "poll"} \cup Running \cup Outcomes,
                   body : Bodies \cup {NoBody}, answer : Calls \cup {NoCall}]
  BY DEF IdempotencyTypeOK
<1> DEFINE rec == [pc |-> pc, body |-> call[c].body, answer |-> a]
<1>2. call' = [call EXCEPT ![c] = rec]
  <2>1. call' = [call EXCEPT ![c].pc = pc, ![c].answer = a]
    BY Zenon DEF End
  <2>2. QED
    <3>1. \A x : [call EXCEPT ![c].pc = pc, ![c].answer = x] =
                 [call EXCEPT ![c] = [pc |-> pc, body |-> call[c].body, answer |-> x]]
      BY TwoFields, Zenon
    <3>2. QED
      BY <2>1, <3>1, Zenon
<1>3. QED
  BY <1>1, <1>2 DEF IdempotencyTypeOK

LEMMA ClaimKeeps ==
  ASSUME KeyInv, NEW c \in Calls, NEW b \in Bodies, Claim(c, b)
  PROVE  KeyInv'
<1>1. PICK pc \in {"handler", "read"} : call' = [call EXCEPT ![c].pc = pc, ![c].body = b]
  BY DEF Claim
<1>2. call'[c].pc = pc /\ call'[c].body = b /\ \A d \in Calls : d # c => call'[d] = call[d]
  BY <1>1 DEF KeyInv, IdempotencyTypeOK
<1>3. call' \in [Calls -> [pc : {"new", "read", "poll"} \cup Running \cup Outcomes,
                           body : Bodies \cup {NoBody}, answer : Calls \cup {NoCall}]]
  <2>1. call[c] \in [pc : {"new", "read", "poll"} \cup Running \cup Outcomes,
                     body : Bodies \cup {NoBody}, answer : Calls \cup {NoCall}]
    BY DEF KeyInv, IdempotencyTypeOK
  <2>2. call' = [call EXCEPT ![c] = [pc |-> pc, body |-> b, answer |-> call[c].answer]]
    <3>1. \A x : [call EXCEPT ![c].pc = pc, ![c].body = x] =
                 [call EXCEPT ![c] = [pc |-> pc, body |-> x, answer |-> call[c].answer]]
      BY TwoFields, Zenon DEF KeyInv
    <3>2. QED
      BY <1>1, <3>1, Zenon
  <2>3. QED
    BY <2>1, <2>2 DEF KeyInv, IdempotencyTypeOK, Running
<1>4. call[c].pc = "new" /\ c \notin executed /\ executed' = executed /\ lapsed' = lapsed
  BY DEF Claim, KeyInv, CallsInv
<1>5. IdempotencyTypeOK'
  BY <1>3, <1>4 DEF Claim, KeyInv, IdempotencyTypeOK, PendingSlot, NoSlot
<1>6. CallsInv'
  BY <1>2, <1>4 DEF KeyInv, CallsInv
<1>7. StoredAnswerFits'
  BY <1>2, <1>4 DEF Claim, KeyInv, StoredAnswerFits, PendingSlot, NoSlot, IdempotencyTypeOK
<1>8. ClaimHeld'
  <2>1. SUFFICES ASSUME ~lapsed
                 PROVE  /\ ~slot'.expired /\ slot'.status # "none"
                        /\ \A d, e \in Active' : d = e
    BY <1>4 DEF ClaimHeld
  <2>2. CASE Claimable /\ slot' = PendingSlot(b)
    <3>1. Active = {}
      BY <2>1, <2>2 DEF KeyInv, ClaimHeld, Claimable
    <3>2. Active' \subseteq {c}
      BY <1>2, <1>4, <3>1 DEF Active
    <3>3. slot'.status = "pending" /\ ~slot'.expired
      BY <2>2 DEF PendingSlot, NoSlot
    <3>4. QED
      BY <3>2, <3>3
  <2>3. CASE slot.status # "none" /\ slot' = slot /\ call' = [call EXCEPT ![c].pc = "read", ![c].body = b]
    <3>1. call'[c].pc = "read"
      BY <2>3 DEF KeyInv, IdempotencyTypeOK
    <3>2. Active' \subseteq Active
      BY <1>2, <1>4, <3>1 DEF Active, Running
    <3>3. QED
      BY <2>1, <2>3, <3>2 DEF KeyInv, ClaimHeld
  <2>4. QED
    BY <2>2, <2>3 DEF Claim
<1>9. QED
  BY <1>5, <1>6, <1>7, <1>8 DEF KeyInv

(* A step of call c that leaves the row alone and takes c to a place that  *)
(* is no more active than where it was.                                    *)
LEMMA QuietStep ==
  ASSUME KeyInv, NEW c \in Calls, UNCHANGED <<slot, executed, lapsed>>,
         call'[c].body = call[c].body, \A d \in Calls : d # c => call'[d] = call[d],
         call' \in [Calls -> [pc : {"new", "read", "poll"} \cup Running \cup Outcomes,
                              body : Bodies \cup {NoBody}, answer : Calls \cup {NoCall}]],
         call'[c].pc # "new", call'[c].pc \in {"handler", "release"} => c \notin executed,
         call'[c].pc \in {"store", "insert"} => c \in executed,
         call'[c].pc \in Running => call[c].pc \in Running
  PROVE  KeyInv'
<1>1. IdempotencyTypeOK'
  BY DEF KeyInv, IdempotencyTypeOK
<1>2. CallsInv'
  BY DEF KeyInv, CallsInv
<1>3. StoredAnswerFits'
  BY DEF KeyInv, StoredAnswerFits, IdempotencyTypeOK
<1>4. Active' \subseteq Active
  BY DEF Active
<1>5. QED
  BY <1>1, <1>2, <1>3, <1>4 DEF KeyInv, ClaimHeld

LEMMA ReadKeeps == ASSUME KeyInv, NEW c \in Calls, Read(c) PROVE KeyInv'
<1>1. slot.answer \in Calls \cup {NoCall} /\ UNCHANGED <<slot, executed, lapsed>>
  BY DEF KeyInv, IdempotencyTypeOK, Read
<1>2. ASSUME NEW pc \in {"in_progress", "mismatch", "poll"}, CallAt(c, pc)
      PROVE  KeyInv'
  BY <1>1, <1>2, GotoKeeps, QuietStep DEF KeyInv, Running, Outcomes
<1>3. ASSUME End(c, "hit", slot.answer)
      PROVE  KeyInv'
  BY <1>1, <1>3, EndKeeps, QuietStep DEF KeyInv, Running, Outcomes
<1>4. QED
  BY <1>2, <1>3 DEF Read

LEMMA PollKeeps == ASSUME KeyInv, NEW c \in Calls, Poll(c) \/ PollGivesUp(c) PROVE KeyInv'
<1>1. slot.answer \in Calls \cup {NoCall} /\ UNCHANGED <<slot, executed, lapsed>>
  BY DEF KeyInv, IdempotencyTypeOK, Poll, PollGivesUp
<1>2. ASSUME CallAt(c, "in_progress")
      PROVE  KeyInv'
  BY <1>1, <1>2, GotoKeeps, QuietStep DEF KeyInv, Running, Outcomes
<1>3. ASSUME End(c, "hit", slot.answer)
      PROVE  KeyInv'
  BY <1>1, <1>3, EndKeeps, QuietStep DEF KeyInv, Running, Outcomes
<1>4. QED
  BY <1>2, <1>3 DEF Poll, PollGivesUp

LEMMA FailsKeeps == ASSUME KeyInv, NEW c \in Calls, HandlerFails(c) PROVE KeyInv'
<1>1. UNCHANGED <<slot, executed, lapsed>> /\ call[c].pc = "handler" /\ c \notin executed
  BY DEF HandlerFails, KeyInv, CallsInv
<1>2. ASSUME NEW pc \in {"failed", "release"}, CallAt(c, pc)
      PROVE  KeyInv'
  BY <1>1, <1>2, GotoKeeps, QuietStep DEF KeyInv, Running, Outcomes
<1>3. QED
  BY <1>2 DEF HandlerFails

(* A handler that answers, or dies after its effects: the call stays       *)
(* active, now as one that has answered.                                   *)
LEMMA AnswersKeeps ==
  ASSUME KeyInv, NEW c \in Calls, call[c].pc = "handler", executed' = executed \cup {c},
         NEW pc \in {"store", "failed"}, CallAt(c, pc), UNCHANGED <<slot, lapsed>>
  PROVE  KeyInv'
<1>1. /\ call'[c].pc = pc /\ call'[c].body = call[c].body
      /\ \A d \in Calls : d # c => call'[d] = call[d]
      /\ call' \in [Calls -> [pc : {"new", "read", "poll"} \cup Running \cup Outcomes,
                              body : Bodies \cup {NoBody}, answer : Calls \cup {NoCall}]]
  BY GotoKeeps DEF KeyInv, Running, Outcomes
<1>2. IdempotencyTypeOK'
  BY <1>1 DEF KeyInv, IdempotencyTypeOK
<1>3. CallsInv'
  BY <1>1 DEF KeyInv, CallsInv
<1>4. StoredAnswerFits'
  BY <1>1 DEF KeyInv, StoredAnswerFits, IdempotencyTypeOK
<1>5. Active' \subseteq Active
  BY <1>1 DEF Active, Running
<1>6. QED
  BY <1>2, <1>3, <1>4, <1>5 DEF KeyInv, ClaimHeld

LEMMA StoreKeeps == ASSUME KeyInv, NEW c \in Calls, Store(c) PROVE KeyInv'
<1>1. call[c].pc = "store" /\ c \in executed /\ UNCHANGED <<executed, lapsed>>
  BY DEF Store, KeyInv, CallsInv
<1>2. CASE Ours(c)
  <2>1. slot' = [slot EXCEPT !.status = "stored", !.answer = c, !.expired = FALSE]
        /\ End(c, "answered", c) /\ slot.body = call[c].body
    BY <1>2 DEF Store, Ours
  <2>2. /\ call'[c].pc = "answered" /\ call'[c].body = call[c].body
        /\ \A d \in Calls : d # c => call'[d] = call[d]
        /\ call' \in [Calls -> [pc : {"new", "read", "poll"} \cup Running \cup Outcomes,
                                body : Bodies \cup {NoBody}, answer : Calls \cup {NoCall}]]
    BY <2>1, EndKeeps DEF KeyInv, Outcomes
  <2>3. slot' = [status |-> "stored", body |-> slot.body, answer |-> c, expired |-> FALSE]
    BY <2>1 DEF KeyInv, IdempotencyTypeOK
  <2>4. IdempotencyTypeOK'
    BY <1>1, <2>2, <2>3 DEF KeyInv, IdempotencyTypeOK
  <2>5. CallsInv'
    BY <1>1, <2>2 DEF KeyInv, CallsInv
  <2>6. StoredAnswerFits'
    BY <1>1, <2>1, <2>2, <2>3 DEF StoredAnswerFits
  <2>7. Active' \subseteq Active
    BY <1>1, <2>2 DEF Active, Running
  <2>8. QED
    BY <1>1, <2>3, <2>4, <2>5, <2>6, <2>7 DEF KeyInv, ClaimHeld
<1>3. CASE ~Ours(c)
  BY <1>1, <1>3, GotoKeeps, QuietStep DEF Store, KeyInv, Running, Outcomes
<1>4. QED
  BY <1>2, <1>3

LEMMA StoreAnewKeeps == ASSUME KeyInv, NEW c \in Calls, StoreAnew(c) PROVE KeyInv'
<1>1. call[c].pc = "insert" /\ c \in executed /\ UNCHANGED <<executed, lapsed>>
  BY DEF StoreAnew, KeyInv, CallsInv
<1>2. /\ call'[c].pc = "answered" /\ call'[c].body = call[c].body
      /\ \A d \in Calls : d # c => call'[d] = call[d]
      /\ call' \in [Calls -> [pc : {"new", "read", "poll"} \cup Running \cup Outcomes,
                              body : Bodies \cup {NoBody}, answer : Calls \cup {NoCall}]]
  BY EndKeeps DEF StoreAnew, KeyInv, Outcomes
<1>3. slot' = slot \/ slot' = StoredSlot(c)
  BY DEF StoreAnew
<1>4. IdempotencyTypeOK'
  <2>1. call[c].body \in Bodies \cup {NoBody}
    BY DEF KeyInv, IdempotencyTypeOK
  <2>2. slot' \in [status : {"none", "pending", "stored"}, body : Bodies \cup {NoBody},
                   answer : Calls \cup {NoCall}, expired : BOOLEAN]
    <3>1. CASE slot' = slot
      BY <3>1 DEF KeyInv, IdempotencyTypeOK
    <3>2. CASE slot' = StoredSlot(c)
      BY <3>2, <2>1 DEF StoredSlot
    <3>3. QED
      BY <1>3, <3>1, <3>2
  <2>3. QED
    BY <1>1, <1>2, <2>2 DEF KeyInv, IdempotencyTypeOK
<1>5. CallsInv'
  BY <1>1, <1>2 DEF KeyInv, CallsInv
<1>6. StoredAnswerFits'
  BY <1>1, <1>2, <1>3 DEF KeyInv, StoredAnswerFits, StoredSlot, IdempotencyTypeOK
<1>7. Active' \subseteq Active
  BY <1>1, <1>2 DEF Active, Running
<1>8. QED
  BY <1>1, <1>3, <1>4, <1>5, <1>6, <1>7 DEF KeyInv, ClaimHeld, StoredSlot

(* A release that meets no expiry deletes the releaser's own claim: nobody *)
(* else is active, and the releaser has answered nothing.                  *)
LEMMA ReleaseKeeps == ASSUME KeyInv, NEW c \in Calls, Release(c) PROVE KeyInv'
<1>1. call[c].pc = "release" /\ c \notin executed /\ UNCHANGED <<executed, lapsed>>
  BY DEF Release, KeyInv, CallsInv
<1>2. /\ call'[c].pc = "failed" /\ call'[c].body = call[c].body
      /\ \A d \in Calls : d # c => call'[d] = call[d]
      /\ call' \in [Calls -> [pc : {"new", "read", "poll"} \cup Running \cup Outcomes,
                              body : Bodies \cup {NoBody}, answer : Calls \cup {NoCall}]]
  BY GotoKeeps DEF Release, KeyInv, Outcomes
<1>3. slot' = slot \/ slot' = NoSlot
  BY DEF Release
<1>4. IdempotencyTypeOK'
  <2>1. slot' \in [status : {"none", "pending", "stored"}, body : Bodies \cup {NoBody},
                   answer : Calls \cup {NoCall}, expired : BOOLEAN]
    <3>1. CASE slot' = slot
      BY <3>1 DEF KeyInv, IdempotencyTypeOK
    <3>2. CASE slot' = NoSlot
      BY <3>2 DEF NoSlot
    <3>3. QED
      BY <1>3, <3>1, <3>2
  <2>2. QED
    BY <1>1, <1>2, <2>1 DEF KeyInv, IdempotencyTypeOK
<1>5. CallsInv'
  BY <1>1, <1>2 DEF KeyInv, CallsInv
<1>6. StoredAnswerFits'
  BY <1>1, <1>2, <1>3 DEF KeyInv, StoredAnswerFits, NoSlot, IdempotencyTypeOK
<1>7. ClaimHeld'
  <2>1. c \in Active /\ Active' = Active \ {c}
    BY <1>1, <1>2 DEF Active, Running
  <2>2. ~lapsed => Active' = {}
    BY <2>1 DEF KeyInv, ClaimHeld
  <2>3. QED
    BY <1>1, <1>3, <2>2 DEF KeyInv, ClaimHeld, NoSlot
<1>8. QED
  BY <1>4, <1>5, <1>6, <1>7 DEF KeyInv

LEMMA DiesKeeps == ASSUME KeyInv, NEW c \in Calls, Dies(c) PROVE KeyInv'
<1>1. CASE CallAt(c, "failed") /\ UNCHANGED executed
  <2>1. UNCHANGED <<slot, executed, lapsed>>
    BY <1>1 DEF Dies
  <2>2. QED
    BY <1>1, <2>1, GotoKeeps, QuietStep DEF KeyInv, Running, Outcomes
<1>2. CASE call[c].pc = "handler" /\ executed' = executed \cup {c} /\ CallAt(c, "failed")
  BY <1>2, AnswersKeeps DEF Dies
<1>3. QED
  BY <1>1, <1>2 DEF Dies

(* Time and the sweeper touch the row only, and the sweeper only a row     *)
(* that has expired.                                                       *)
LEMMA ClockKeeps == ASSUME KeyInv, Expire \/ Sweep PROVE KeyInv'
<1>1. CASE Expire
  <2>1. slot' = [status |-> slot.status, body |-> slot.body, answer |-> slot.answer, expired |-> TRUE]
    BY <1>1 DEF Expire, KeyInv, IdempotencyTypeOK
  <2>2. QED
    BY <1>1, <2>1
       DEF Expire, KeyInv, IdempotencyTypeOK, CallsInv, StoredAnswerFits, ClaimHeld
<1>2. CASE Sweep
  <2>1. slot.expired /\ slot' = NoSlot /\ UNCHANGED <<call, executed, lapsed>>
    BY <1>2 DEF Sweep, Swept
  <2>2. lapsed
    BY <2>1 DEF KeyInv, ClaimHeld
  <2>3. QED
    BY <2>1, <2>2
       DEF KeyInv, IdempotencyTypeOK, CallsInv, StoredAnswerFits, ClaimHeld, NoSlot
<1>3. QED
  BY <1>1, <1>2

LEMMA KeyInit == ASSUME IdempotencyInit PROVE KeyInv
<1>1. IdempotencyTypeOK
  BY DEF IdempotencyInit, IdempotencyTypeOK, NoSlot
<1>2. CallsInv /\ StoredAnswerFits
  BY DEF IdempotencyInit, CallsInv, StoredAnswerFits, NoSlot
<1>3. Active = {} /\ ~slot.expired
  BY DEF IdempotencyInit, Active, Running, NoSlot
<1>4. QED
  BY <1>1, <1>2, <1>3 DEF KeyInv, ClaimHeld

LEMMA KeyStep == ASSUME KeyInv, [IdempotencyNext]_idempotencyVars PROVE KeyInv'
<1>1. ASSUME NEW c \in Calls, Lookup(c)
      PROVE  KeyInv'
  BY <1>1, ClaimKeeps, ReadKeeps, PollKeeps DEF Lookup
<1>2. ASSUME NEW c \in Calls, HandlerAnswers(c)
      PROVE  KeyInv'
  BY <1>2, AnswersKeeps DEF HandlerAnswers
<1>3. ASSUME NEW c \in Calls, Handle(c)
      PROVE  KeyInv'
  BY <1>2, <1>3, FailsKeeps, StoreKeeps, StoreAnewKeeps, ReleaseKeeps, DiesKeeps DEF Handle
<1>4. CASE Expire \/ Sweep
  BY <1>4, ClockKeeps
<1>5. CASE UNCHANGED idempotencyVars
  <2>1. Active' = Active
    BY <1>5 DEF idempotencyVars, Active
  <2>2. QED
    BY <1>5, <2>1 DEF idempotencyVars, KeyInv, IdempotencyTypeOK, CallsInv, StoredAnswerFits, ClaimHeld
<1>6. QED
  BY <1>1, <1>3, <1>4, <1>5 DEF IdempotencyNext

(* The strengthened invariant holds in every reachable state.              *)
LEMMA KeyInvariant == IdempotencySpec => []KeyInv
BY KeyInit, KeyStep, PTL DEF IdempotencySpec

-----------------------------------------------------------------------------
(* The row, the calls and the history keep their types.                    *)
THEOREM IdempotencyTypes == IdempotencySpec => []IdempotencyTypeOK
<1>1. KeyInv => IdempotencyTypeOK
  BY DEF KeyInv
<1>2. QED
  BY <1>1, KeyInvariant, PTL

(* storeIdempotencyKey never files an answer under another body's hash,    *)
(* however late it runs and whoever has taken the row over.                *)
THEOREM AnswersFitTheirBody == IdempotencySpec => []StoredAnswerFits
<1>1. KeyInv => StoredAnswerFits
  BY DEF KeyInv
<1>2. QED
  BY <1>1, KeyInvariant, PTL

(* As long as the row has not expired, at most one call of the key runs    *)
(* its handler to an answer.                                               *)
THEOREM HandlerRunsOnce == IdempotencySpec => []RunsOnce
<1>1. KeyInv => RunsOnce
  BY DEF KeyInv, ClaimHeld, RunsOnce
<1>2. QED
  BY <1>1, KeyInvariant, PTL

(* No step changes a stored answer that has not expired.                   *)
THEOREM StoredAnswersStay == IdempotencySpec => AnswerStays
<1> DEFINE Stays == slot.status = "stored" /\ ~slot.expired =>
                      slot'.status = "stored" /\ slot'.answer = slot.answer /\ slot'.body = slot.body
<1>1. ASSUME IdempotencyTypeOK, [IdempotencyNext]_idempotencyVars, slot.status = "stored", ~slot.expired
      PROVE  slot'.status = "stored" /\ slot'.answer = slot.answer /\ slot'.body = slot.body
  <2>1. CASE Expire
    BY <1>1, <2>1 DEF Expire, IdempotencyTypeOK
  <2>2. CASE Sweep
    BY <1>1, <2>2 DEF Sweep, Swept
  <2>3. ASSUME NEW c \in Calls, Lookup(c)
        PROVE  slot' = slot
    BY <1>1, <2>3 DEF Lookup, Claim, Claimable, Read, Poll, PollGivesUp
  <2>4. ASSUME NEW c \in Calls, Handle(c)
        PROVE  slot' = slot
    BY <1>1, <2>4 DEF Handle, HandlerAnswers, HandlerFails, Store, Ours, StoreAnew, Release,
                      Releasable, Dies
  <2>5. CASE UNCHANGED idempotencyVars
    BY <1>1, <2>5 DEF idempotencyVars
  <2>6. QED
    BY <1>1, <2>1, <2>2, <2>3, <2>4, <2>5 DEF IdempotencyNext
<1>2. IdempotencyTypeOK /\ [IdempotencyNext]_idempotencyVars => [Stays]_idempotencyVars
  BY <1>1
<1>3. QED
  BY <1>2, IdempotencyTypes, PTL DEF IdempotencySpec, AnswerStays

-----------------------------------------------------------------------------
(* The key is an OnceOnly.                                                 *)

\* What a call was told: the answer it replayed, or its own.
Told(c) == IF call[c].pc \in {"hit", "answered"} THEN call[c].answer ELSE NoCall

Once == INSTANCE OnceOnly WITH
  engaged <- Active, done <- executed, told <- [c \in Calls |-> Told(c)], forgotten <- lapsed

(* A call that moves changes what it was told and, at most, its own place  *)
(* among those engaged.                                                    *)
LEMMA OneCallMoves ==
  ASSUME NEW c \in Calls, \A d \in Calls : d # c => call'[d] = call[d],
         executed' = executed \/ executed' = executed \cup {c}
  PROVE  /\ [d \in Calls |-> Told(d)]' = [[d \in Calls |-> Told(d)] EXCEPT ![c] = Told(c)']
         /\ Active' = IF c \in executed' \/ call'[c].pc \in Running
                      THEN Active \cup {c} ELSE Active \ {c}
<1>1. \A d \in Calls : Told(d)' = IF d = c THEN Told(c)' ELSE Told(d)
  BY DEF Told
<1>2. [d \in Calls |-> Told(d)]' = [d \in Calls |-> Told(d)']
  OBVIOUS
<1> QED
  BY <1>1, <1>2 DEF Active

(* A call that tells nothing new and stays as engaged as it was.           *)
LEMMA QuietCall ==
  ASSUME NEW c \in Calls, \A d \in Calls : d # c => call'[d] = call[d],
         UNCHANGED <<executed, lapsed>>, Told(c)' = Told(c),
         c \in Active <=> (c \in executed \/ call'[c].pc \in Running)
  PROVE  UNCHANGED <<Active, executed, [d \in Calls |-> Told(d)], lapsed>>
<1>1. Active' = IF c \in executed \/ call'[c].pc \in Running THEN Active \cup {c} ELSE Active \ {c}
  BY OneCallMoves
<1>2. Active' = Active
  BY <1>1
<1>3. [d \in Calls |-> Told(d)]' = [d \in Calls |-> Told(d)]
  BY OneCallMoves
<1> QED
  BY <1>2, <1>3

(* A call that stops working on the operation without having done it.      *)
LEMMA CallGivesUp ==
  ASSUME KeyInv, NEW c \in Calls, call[c].pc \in Running, c \notin executed, CallAt(c, "failed"),
         UNCHANGED <<executed, lapsed>>
  PROVE  Once!GiveUp(c)
<1>1. call'[c].pc = "failed" /\ \A d \in Calls : d # c => call'[d] = call[d]
  BY GotoKeeps DEF KeyInv
<1>2. Told(c)' = Told(c) /\ c \in Active
  BY <1>1 DEF Told, Active, Running
<1>3. Active' = Active \ {c} /\ [d \in Calls |-> Told(d)]' = [d \in Calls |-> Told(d)]
  BY <1>1, <1>2, OneCallMoves DEF Running
<1> QED
  BY <1>2, <1>3 DEF Once!GiveUp

LEMMA CallCarriesOut ==
  ASSUME KeyInv, NEW c \in Calls, call[c].pc = "handler", NEW p \in {"store", "failed"},
         CallAt(c, p), executed' = executed \cup {c}, lapsed' = lapsed
  PROVE  Once!CarryOut(c)
<1>1. call'[c].pc = p /\ \A d \in Calls : d # c => call'[d] = call[d]
  BY GotoKeeps DEF KeyInv
<1>2. Told(c)' = Told(c) /\ c \in Active /\ c \notin executed
  BY <1>1 DEF Told, Active, Running, KeyInv, CallsInv
<1>3. Active' = Active
  <2>1. Active' = Active \cup {c}
    BY <1>1, OneCallMoves
  <2> QED
    BY <1>2, <2>1
<1>4. [d \in Calls |-> Told(d)]' = [d \in Calls |-> Told(d)]
  BY <1>1, <1>2, OneCallMoves
<1> QED
  BY <1>2, <1>3, <1>4 DEF Once!CarryOut

LEMMA CallIsTold ==
  ASSUME KeyInv, NEW c \in Calls, call[c].pc \in {"read", "poll", "store", "insert"},
         NEW a \in executed, NEW p \in {"hit", "answered"}, End(c, p, a),
         UNCHANGED <<executed, lapsed>>, p = "answered" => c \in executed
  PROVE  Once!Tell(c, a)
<1>1. a \in Calls
  BY DEF KeyInv, IdempotencyTypeOK
<1>2. call'[c].pc = p /\ \A d \in Calls : d # c => call'[d] = call[d]
  BY <1>1, EndKeeps DEF KeyInv, Outcomes
<1>3. call'[c].answer = a
  BY DEF End, KeyInv, IdempotencyTypeOK
<1>4. Told(c) = NoCall /\ Told(c)' = a
  BY <1>2, <1>3 DEF Told
<1>5. c \in Active <=> (c \in executed \/ call'[c].pc \in Running)
  BY <1>2 DEF Active, Running, KeyInv, CallsInv
<1>6. Active' = Active
  <2>1. Active' = IF c \in executed \/ call'[c].pc \in Running THEN Active \cup {c} ELSE Active \ {c}
    BY <1>2, OneCallMoves
  <2> QED
    BY <1>5, <2>1
<1>7. [d \in Calls |-> Told(d)]' = [[d \in Calls |-> Told(d)] EXCEPT ![c] = a]
  BY <1>2, <1>4, OneCallMoves
<1> QED
  BY <1>4, <1>6, <1>7 DEF Once!Tell

LEMMA ClaimEngages ==
  ASSUME KeyInv, NEW c \in Calls, NEW b \in Bodies, Claim(c, b)
  PROVE  Once!Engage(c) \/ UNCHANGED <<Active, executed, [d \in Calls |-> Told(d)], lapsed>>
<1>1. PICK p \in {"handler", "read"} : call' = [call EXCEPT ![c].pc = p, ![c].body = b]
  BY DEF Claim
<1>2. call'[c].pc = p /\ \A d \in Calls : d # c => call'[d] = call[d]
  BY <1>1 DEF KeyInv, IdempotencyTypeOK
<1>3. call[c].pc = "new" /\ c \notin executed /\ UNCHANGED <<executed, lapsed>>
  BY DEF Claim, KeyInv, CallsInv
<1>4. Told(c)' = Told(c)
  BY <1>2, <1>3 DEF Told
<1>5. CASE p = "handler"
  <2>1. Claimable
    BY <1>1, <1>2, <1>5 DEF Claim, KeyInv, IdempotencyTypeOK
  <2>2. Active = {} \/ lapsed
    BY <2>1 DEF Claimable, KeyInv, ClaimHeld
  <2>3. Active' = Active \cup {c} /\ [d \in Calls |-> Told(d)]' = [d \in Calls |-> Told(d)]
    BY <1>2, <1>3, <1>4, <1>5, OneCallMoves DEF Running
  <2> QED
    BY <1>3, <2>2, <2>3 DEF Once!Engage
<1>6. CASE p = "read"
  <2>1. c \in Active <=> (c \in executed \/ call'[c].pc \in Running)
    BY <1>2, <1>3, <1>6 DEF Active, Running
  <2> QED
    BY <1>2, <1>3, <1>4, <2>1, QuietCall
<1> QED
  BY <1>5, <1>6

LEMMA OnceStep ==
  ASSUME KeyInv, [IdempotencyNext]_idempotencyVars
  PROVE  [Once!OnceNext]_<<Active, executed, [c \in Calls |-> Told(c)], lapsed>>
<1> DEFINE Same == UNCHANGED <<Active, executed, [c \in Calls |-> Told(c)], lapsed>>
<1>1. ASSUME NEW c \in Calls, NEW p \in {"in_progress", "mismatch", "poll", "failed", "release", "insert"},
             CallAt(c, p), UNCHANGED <<executed, lapsed>>, call[c].pc \notin {"hit", "answered"},
             call[c].pc \in Running => p \in Running \/ c \in executed,
             p \in Running => call[c].pc \in Running
      PROVE  Same
  <2>1. call'[c].pc = p /\ \A d \in Calls : d # c => call'[d] = call[d]
    BY <1>1, GotoKeeps DEF KeyInv
  <2>2. Told(c)' = Told(c)
    BY <1>1, <2>1 DEF Told
  <2>3. c \in Active <=> (c \in executed \/ call'[c].pc \in Running)
    BY <1>1, <2>1 DEF Active
  <2> QED
    BY <1>1, <2>1, <2>2, <2>3, QuietCall
<1>2. slot.status = "stored" => slot.answer \in executed
  BY DEF KeyInv, StoredAnswerFits
<1>3. ASSUME NEW c \in Calls, Read(c) \/ Poll(c) \/ PollGivesUp(c)
      PROVE  Same \/ \E d \in Calls : Once!Tell(c, d)
  <2>1. UNCHANGED <<executed, lapsed>> /\ call[c].pc \in {"read", "poll"}
    BY <1>3 DEF Read, Poll, PollGivesUp
  <2>2. ASSUME NEW p \in {"in_progress", "mismatch", "poll"}, CallAt(c, p)
        PROVE  Same
    BY <1>1, <2>1, <2>2 DEF Running
  <2>3. CASE slot.status = "stored" /\ End(c, "hit", slot.answer)
    <3>1. slot.answer \in executed /\ slot.answer \in Calls
      BY <1>2, <2>3 DEF KeyInv, IdempotencyTypeOK
    <3> QED
      BY <2>1, <2>3, <3>1, CallIsTold
  <2> QED
    BY <1>3, <2>2, <2>3 DEF Read, Poll, PollGivesUp
<1>4. ASSUME NEW c \in Calls, HandlerFails(c) \/ Dies(c) \/ HandlerAnswers(c) \/ Release(c)
      PROVE  Same \/ Once!GiveUp(c) \/ Once!CarryOut(c)
  <2>1. lapsed' = lapsed /\ call[c].pc \in Running
    BY <1>4 DEF HandlerFails, Dies, HandlerAnswers, Release, Running
  <2>2. CASE CallAt(c, "failed") /\ executed' = executed
    <3>1. CASE c \in executed
      BY <1>1, <2>1, <2>2, <3>1 DEF Running
    <3>2. CASE c \notin executed
      BY <2>1, <2>2, <3>2, CallGivesUp
    <3> QED
      BY <3>1, <3>2
  <2>3. CASE CallAt(c, "release") /\ executed' = executed
    BY <1>1, <2>1, <2>3 DEF Running
  <2>4. ASSUME NEW p \in {"store", "failed"}, CallAt(c, p), executed' = executed \cup {c},
               call[c].pc = "handler"
        PROVE  Once!CarryOut(c)
    BY <2>1, <2>4, CallCarriesOut
  <2> QED
    BY <1>4, <2>2, <2>3, <2>4 DEF HandlerFails, Dies, HandlerAnswers, Release
<1>5. ASSUME NEW c \in Calls, Store(c) \/ StoreAnew(c)
      PROVE  Same \/ Once!Tell(c, c)
  <2>1. c \in executed /\ UNCHANGED <<executed, lapsed>> /\ call[c].pc \in {"store", "insert"}
    BY <1>5 DEF Store, StoreAnew, KeyInv, CallsInv
  <2>2. CASE End(c, "answered", c)
    BY <2>1, <2>2, CallIsTold
  <2>3. CASE CallAt(c, "insert")
    BY <1>1, <2>1, <2>3 DEF Running
  <2> QED
    BY <1>5, <2>2, <2>3 DEF Store, StoreAnew
<1>6. CASE Expire
  <2>1. UNCHANGED <<call, executed>> /\ lapsed' = TRUE
    BY <1>6 DEF Expire
  <2>2. Active' = Active /\ [c \in Calls |-> Told(c)]' = [c \in Calls |-> Told(c)]
    BY <2>1 DEF Active, Told
  <2> QED
    BY <2>1, <2>2 DEF Once!OnceNext, Once!Forget
<1>7. CASE Sweep \/ UNCHANGED idempotencyVars
  <2>1. UNCHANGED <<call, executed, lapsed>>
    BY <1>7 DEF Sweep, idempotencyVars
  <2>2. Active' = Active /\ [c \in Calls |-> Told(c)]' = [c \in Calls |-> Told(c)]
    BY <2>1 DEF Active, Told
  <2> QED
    BY <2>1, <2>2
<1>8. ASSUME NEW c \in Calls, NEW b \in Bodies, Claim(c, b)
      PROVE  Same \/ Once!Engage(c)
  BY <1>8, ClaimEngages
<1> HIDE DEF Same
<1>9. ASSUME ~Same
      PROVE  Once!OnceNext
  <2>1. CASE \E c \in Calls : Lookup(c)
    BY <1>3, <1>8, <1>9, <2>1 DEF Lookup, Once!OnceNext
  <2>2. CASE \E c \in Calls : Handle(c)
    BY <1>4, <1>5, <1>9, <2>2 DEF Handle, Once!OnceNext
  <2>3. CASE Expire
    BY <1>6, <1>9, <2>3 DEF Same
  <2> QED
    BY <1>7, <1>9, <2>1, <2>2, <2>3 DEF IdempotencyNext, Same
<1> QED
  BY <1>9 DEF Same

(* One key is one execution and one answer: whatever overlaps, fails, dies *)
(* or stores late, a call is told only what one that carried the operation *)
(* out has answered, and until the row first expires a call begins only    *)
(* when none works on the operation or has carried it out.                 *)
THEOREM KeyImplementsOnceOnly == IdempotencySpec => Once!OnceSpec
<1>1. IdempotencyInit => Once!OnceInit
  <2> SUFFICES ASSUME IdempotencyInit PROVE Once!OnceInit
    OBVIOUS
  <2>1. Active = {} /\ executed = {} /\ lapsed = FALSE /\ \A c \in Calls : Told(c) = NoCall
    BY DEF IdempotencyInit, Active, Running, Told
  <2> QED
    BY <2>1 DEF Once!OnceInit
<1>2. KeyInv /\ [IdempotencyNext]_idempotencyVars =>
        [Once!OnceNext]_<<Active, executed, [c \in Calls |-> Told(c)], lapsed>>
  BY OnceStep
<1> QED
  BY <1>1, <1>2, KeyInvariant, PTL DEF IdempotencySpec, Once!OnceSpec

-----------------------------------------------------------------------------
(***************************************************************************)
(* TokenBucket, for any number of requests, any tiers and any running      *)
(* time.  SpendIsFunded is not inductive: it compares with what the time   *)
(* so far has earned, while what a request may spend depends on the row's  *)
(* own last_refill_at.  Funded restates it at last_refill_at, whose worth  *)
(* never exceeds that of the clock.  That nothing is repriced for a firm   *)
(* that keeps its tier rests on Steady: every time such a firm has noted   *)
(* is worth that tier's rate times itself.                                 *)
(***************************************************************************)

\* What was let through is paid for up to the row's own last_refill_at.
Funded == spent + bucket.tokens <= granted + (stamped - origin) + rewound + repriced

\* With one tier all along, time is worth its rate, for row and requests alike.
Steady ==
  /\ repriced = 0
  /\ earned = tier.rate * clock
  /\ bucket.exists => stamped = tier.rate * bucket.lastRefill
  /\ \A r \in Arrivals : arrival[r].tier = tier /\ arrival[r].earned = tier.rate * arrival[r].now

BucketInv ==
  /\ TokenBucketTypeOK
  /\ \A r \in Arrivals : arrival[r].earned <= earned
  /\ stamped <= earned
  /\ bucket.tokens <= bucket.capacity
  /\ ~bucket.exists => spent = 0
  /\ Funded
  /\ ~changed => Steady

-----------------------------------------------------------------------------
(* What one number is beyond another is a number, and the two excesses     *)
(* make the difference.                                                    *)
LEMMA ExcessBounds ==
  ASSUME NEW a \in Nat, NEW b \in Nat
  PROVE  /\ Excess(a, b) \in Nat /\ Excess(b, a) \in Nat
         /\ a - b = Excess(a, b) - Excess(b, a)
         /\ a <= b + Excess(a, b)
BY DEF Excess

LEMMA ProductIsNat == ASSUME NEW a \in Nat, NEW b \in Nat PROVE a * b \in Nat
OBVIOUS

LEMMA OneMore == ASSUME NEW a \in Nat, NEW b \in Nat PROVE a * (b + 1) = a * b + a
OBVIOUS

(* At one rate, the worth of an interval is the interval of the worths.    *)
LEMMA WorthOfTime ==
  ASSUME NEW rate \in Nat, NEW now \in Nat, NEW last \in Nat
  PROVE  rate * Excess(now, last) = Excess(rate * now, rate * last)
<1>1. rate * now \in Nat /\ rate * last \in Nat
  BY ProductIsNat
<1>2. CASE now > last
  <2>1. rate * (now - last) = rate * now - rate * last
    OBVIOUS
  <2>2. rate * (now - last) \in Nat
    BY <1>2, ProductIsNat
  <2>3. CASE rate * now > rate * last
    BY <1>2, <2>1, <2>3 DEF Excess
  <2>4. CASE ~(rate * now > rate * last)
    BY <1>1, <1>2, <2>1, <2>2, <2>4 DEF Excess
  <2>5. QED
    BY <2>3, <2>4
<1>3. CASE ~(now > last)
  <2>1. rate * (last - now) = rate * last - rate * now
    OBVIOUS
  <2>2. rate * (last - now) \in Nat
    BY <1>3, ProductIsNat
  <2>3. ~(rate * now > rate * last)
    BY <1>1, <2>1, <2>2
  <2>4. rate * 0 = 0
    OBVIOUS
  <2>5. QED
    BY <1>3, <2>3, <2>4 DEF Excess
<1>4. QED
  BY <1>2, <1>3

(* Refilling keeps a row's tokens a number within its capacity, and adds   *)
(* no more than its rate for the time since the last refill.               *)
LEMMA RefillBounds ==
  ASSUME NEW b \in BucketRow, NEW now \in Nat
  PROVE  /\ b.rate * Excess(now, b.lastRefill) \in Nat
         /\ Refill(b, now) \in Nat
         /\ Refill(b, now) <= b.capacity
         /\ Refill(b, now) <= b.tokens + b.rate * Excess(now, b.lastRefill)
<1>1. /\ b.rate \in Nat /\ b.lastRefill \in Nat /\ b.tokens \in Nat /\ b.capacity \in Nat
  BY DEF BucketRow
<1>2. Excess(now, b.lastRefill) \in Nat
  BY <1>1, ExcessBounds
<1>3. b.rate * Excess(now, b.lastRefill) \in Nat
  BY <1>1, <1>2, ProductIsNat
<1>4. QED
  BY <1>1, <1>3 DEF Refill, Least

(* A change of tier gives at most the difference of the capacities, leaves *)
(* the row within its new capacity and sets the new rate.                  *)
LEMMA ReconcileBounds ==
  ASSUME NEW b \in BucketRow, NEW limits \in [capacity : Nat, rate : Nat],
         b.tokens <= b.capacity
  PROVE  LET new == ReconcileTier(b, limits)
         IN /\ new \in BucketRow
            /\ new.exists = b.exists /\ new.lastRefill = b.lastRefill
            /\ new.capacity = limits.capacity /\ new.rate = limits.rate
            /\ new.tokens <= limits.capacity
            /\ new.tokens <= b.tokens + Excess(limits.capacity, b.capacity)
<1> DEFINE t == Least(b.tokens + Excess(limits.capacity, b.capacity), limits.capacity)
<1>1. ReconcileTier(b, limits) =
        [exists |-> b.exists, capacity |-> limits.capacity, rate |-> limits.rate, tokens |-> t,
         lastRefill |-> b.lastRefill]
  <2>1. b = [exists |-> b.exists, capacity |-> b.capacity, rate |-> b.rate, tokens |-> b.tokens,
             lastRefill |-> b.lastRefill]
    BY DEF BucketRow
  <2>2. ReconcileTier(b, limits) =
          [b EXCEPT !.capacity = limits.capacity, !.rate = limits.rate, !.tokens = t]
    BY DEF ReconcileTier, BucketRow
  <2> HIDE DEF t
  <2>3. [b EXCEPT !.capacity = limits.capacity, !.rate = limits.rate, !.tokens = t] =
          [exists |-> b.exists, capacity |-> limits.capacity, rate |-> limits.rate, tokens |-> t,
           lastRefill |-> b.lastRefill]
    <3> DEFINE d == [exists |-> b.exists, capacity |-> b.capacity, rate |-> b.rate,
                     tokens |-> b.tokens, lastRefill |-> b.lastRefill]
    <3> DEFINE c == limits.capacity
               q == limits.rate
               x == b.exists
               y == b.lastRefill
    <3> HIDE DEF c, q
    <3>1. [[[d EXCEPT !.capacity = c] EXCEPT !.rate = q] EXCEPT !.tokens = t] =
            [exists |-> x, capacity |-> c, rate |-> q, tokens |-> t, lastRefill |-> y]
      <4>1. [d EXCEPT !.capacity = c] =
              [exists |-> x, capacity |-> c, rate |-> b.rate, tokens |-> b.tokens, lastRefill |-> y]
        OBVIOUS
      <4>2. [[exists |-> x, capacity |-> c, rate |-> b.rate, tokens |-> b.tokens, lastRefill |-> y]
               EXCEPT !.rate = q] =
              [exists |-> x, capacity |-> c, rate |-> q, tokens |-> b.tokens, lastRefill |-> y]
        OBVIOUS
      <4>3. [[exists |-> x, capacity |-> c, rate |-> q, tokens |-> b.tokens, lastRefill |-> y]
               EXCEPT !.tokens = t] =
              [exists |-> x, capacity |-> c, rate |-> q, tokens |-> t, lastRefill |-> y]
        OBVIOUS
      <4>4. QED
        BY <4>1, <4>2, <4>3, Zenon
    <3>2. QED
      BY <2>1, <3>1 DEF c, q
  <2>4. QED
    BY <2>2, <2>3
<1>2. /\ t \in Nat /\ t <= limits.capacity
      /\ t <= b.tokens + Excess(limits.capacity, b.capacity)
  BY DEF Least, Excess, BucketRow
<1> HIDE DEF t
<1>3. QED
  BY <1>1, <1>2 DEF BucketRow

LEMMA BucketStart == ASSUME TokenBucketAssumption, BucketInit PROVE BucketInv
<1>1. tier \in Tiers /\ tier.rate \in Nat /\ tier.rate * 0 = 0
  BY DEF TokenBucketAssumption, BucketInit
<1>2. \A r \in Arrivals : arrival[r] = [pc |-> "new", now |-> 0, tier |-> tier, earned |-> 0]
  BY DEF BucketInit, Waiting
<1>3. TokenBucketTypeOK
  BY <1>1 DEF BucketInit, TokenBucketTypeOK, NoBucket, BucketRow, Waiting
<1>4. Steady
  BY <1>1, <1>2 DEF BucketInit, Steady, NoBucket
<1>5. QED
  BY <1>2, <1>3, <1>4 DEF BucketInit, BucketInv, Funded, NoBucket

(* A transaction of consumeBucket keeps the invariant: what the row is     *)
(* left with is what it had, what it was given at once and what it was     *)
(* paid for time, less what was spent.                                     *)
LEMMA ConsumeKeeps ==
  ASSUME TokenBucketAssumption, BucketInv, NEW r \in Arrivals, ConsumeBucket(r)
  PROVE  BucketInv'
<1> DEFINE now == arrival[r].now
           limits == arrival[r].tier
           worth == arrival[r].earned
           old == IF bucket.exists THEN bucket ELSE FullBucket(limits, now)
           new == ReconcileTier(old, limits)
           refilled == Refill(new, now)
           left == IF refilled >= Cost THEN refilled - Cost ELSE refilled
           since == IF bucket.exists THEN stamped ELSE worth
           paid == limits.rate * Excess(now, old.lastRefill)
           birth == IF bucket.exists THEN 0 ELSE old.tokens
           upgrade == Excess(limits.capacity, old.capacity)
           advance == Excess(worth, since)
           back == Excess(since, worth)
           above == Excess(paid, advance)
<1>1. /\ now \in Nat /\ worth \in Nat /\ worth <= earned /\ limits \in Tiers
      /\ limits \in [capacity : Nat, rate : Nat]
      /\ limits.capacity \in Nat /\ limits.rate \in Nat
      /\ clock \in Nat /\ earned \in Nat /\ stamped \in Nat /\ origin \in Nat
      /\ spent \in Nat /\ granted \in Nat /\ rewound \in Nat /\ repriced \in Nat
      /\ Cost \in Nat
  <2>1. arrival[r] \in [pc : {"new", "consume", "done"}, now : Nat, tier : Tiers, earned : Nat]
    BY DEF BucketInv, TokenBucketTypeOK
  <2>2. limits \in [capacity : Nat \ {0}, rate : Nat \ {0}]
    BY <2>1 DEF TokenBucketAssumption
  <2>3. QED
    BY <2>1, <2>2 DEF BucketInv, TokenBucketTypeOK, TokenBucketAssumption
<1>2. /\ old \in BucketRow /\ old.exists /\ old.tokens <= old.capacity
      /\ old.tokens \in Nat /\ old.capacity \in Nat /\ old.lastRefill \in Nat
  BY <1>1 DEF BucketInv, TokenBucketTypeOK, FullBucket, BucketRow
<1>3. /\ new \in BucketRow /\ new.exists /\ new.lastRefill = old.lastRefill
      /\ new.capacity = limits.capacity /\ new.rate = limits.rate
      /\ new.tokens \in Nat /\ new.tokens <= old.tokens + upgrade
  <2> HIDE DEF limits, old
  <2>1. QED
    BY <1>1, <1>2, ReconcileBounds DEF BucketRow
<1>4. /\ paid \in Nat /\ refilled \in Nat /\ refilled <= limits.capacity
      /\ refilled <= new.tokens + paid
  <2> HIDE DEF new, now, limits
  <2>1. QED
    BY <1>1, <1>3, RefillBounds
<1>5. /\ since \in Nat /\ birth \in Nat /\ upgrade \in Nat
      /\ advance \in Nat /\ back \in Nat /\ worth - since = advance - back
      /\ above \in Nat /\ paid <= advance + above
  <2>1. since \in Nat /\ birth \in Nat
    BY <1>1, <1>2
  <2> HIDE DEF since, worth, paid, limits, old
  <2>2. advance \in Nat /\ back \in Nat /\ worth - since = advance - back
    BY <1>1, <2>1, ExcessBounds
  <2>3. upgrade \in Nat
    BY <1>1, <1>2, ExcessBounds
  <2> HIDE DEF advance
  <2>4. above \in Nat /\ paid <= advance + above
    BY <1>4, <2>2, ExcessBounds
  <2>5. QED
    BY <2>1, <2>2, <2>3, <2>4
<1>6. /\ bucket' = [new EXCEPT !.tokens = left, !.lastRefill = now]
      /\ arrival' = [arrival EXCEPT ![r].pc = "done"]
      /\ spent' = spent + (refilled - left)
      /\ granted' = granted + (birth + upgrade)
      /\ rewound' = rewound + back
      /\ repriced' = repriced + above
      /\ stamped' = worth
      /\ origin' = IF bucket.exists THEN origin ELSE worth
      /\ clock' = clock /\ tier' = tier /\ changed' = changed /\ earned' = earned
  BY DEF ConsumeBucket
<1>7. spent + old.tokens <= granted + birth + (since - origin') + rewound + repriced
  <2>1. CASE bucket.exists
    BY <2>1, <1>1, <1>6 DEF BucketInv, Funded
  <2>2. CASE ~bucket.exists
    <3>1. old.tokens = birth /\ since = origin' /\ spent = 0 /\ origin' \in Nat
      BY <2>2, <1>1, <1>6 DEF BucketInv
    <3> HIDE DEF birth, old, since
    <3>2. since - origin' = 0
      <4>1. \A n \in Nat : n - n = 0
        OBVIOUS
      <4>2. QED
        BY <3>1, <4>1, Zenon
    <3>3. spent + old.tokens = birth /\ birth \in Nat
      BY <3>1, <1>2
    <3>4. QED
      BY <3>2, <3>3, <1>1
  <2>3. QED
    BY <2>1, <2>2
<1>8. left \in Nat /\ left <= refilled
  <2> HIDE DEF refilled
  <2>1. QED
    BY <1>1, <1>4
<1>9. /\ bucket'.exists /\ bucket'.capacity = limits.capacity /\ bucket'.lastRefill = now
      /\ bucket'.tokens = left /\ bucket' \in BucketRow
  <2> HIDE DEF new, left
  <2>1. bucket' = [exists |-> new.exists, capacity |-> new.capacity, rate |-> new.rate,
                   tokens |-> left, lastRefill |-> now]
    BY <1>3, <1>6 DEF BucketRow
  <2>2. QED
    BY <1>1, <1>3, <1>8, <2>1 DEF BucketRow
<1>10. origin' \in Nat
  BY <1>1, <1>6
<1>11. ASSUME ~changed
       PROVE  Steady'
  <2>1. Steady
    BY <1>11 DEF BucketInv
  <2>2. limits = tier /\ worth = tier.rate * now
    BY <2>1 DEF Steady
  <2>3. advance = paid
    <3>1. since = tier.rate * old.lastRefill
      <4>1. CASE bucket.exists
        BY <2>1, <4>1 DEF Steady
      <4>2. CASE ~bucket.exists
        BY <2>2, <4>2 DEF FullBucket
      <4>3. QED
        BY <4>1, <4>2
    <3> HIDE DEF since, old, worth, limits, now
    <3>2. tier.rate * Excess(now, old.lastRefill)
            = Excess(tier.rate * now, tier.rate * old.lastRefill)
      <4>1. tier.rate \in Nat /\ now \in Nat /\ old.lastRefill \in Nat
        BY <1>1, <1>2, <2>2
      <4>2. QED
        BY <4>1, WorthOfTime, Zenon
    <3>3. QED
      BY <2>2, <3>1, <3>2
  <2>4. above = 0
    <3> HIDE DEF paid, advance
    <3>1. QED
      BY <1>4, <2>3 DEF Excess
  <2> HIDE DEF above, left, new
  <2>5. repriced' = 0
    BY <1>6, <2>1, <2>4 DEF Steady
  <2>6. \A q \in Arrivals : arrival'[q].tier = tier /\ arrival'[q].earned = tier.rate * arrival'[q].now
    <3>1. \A q \in Arrivals : /\ arrival'[q].tier = arrival[q].tier
                              /\ arrival'[q].earned = arrival[q].earned
                              /\ arrival'[q].now = arrival[q].now
      BY <1>6 DEF BucketInv, TokenBucketTypeOK
    <3>2. QED
      BY <2>1, <3>1 DEF Steady
  <2>7. QED
    BY <1>6, <1>9, <2>1, <2>2, <2>5, <2>6 DEF Steady
<1> HIDE DEF now, limits, worth, old, new, refilled, left, since, paid, birth, upgrade, advance, back, above
<1>12. TokenBucketTypeOK'
  <2>1. arrival' \in [Arrivals -> [pc : {"new", "consume", "done"}, now : Nat, tier : Tiers, earned : Nat]]
    BY <1>6 DEF BucketInv, TokenBucketTypeOK
  <2>2. spent' \in Nat /\ granted' \in Nat /\ rewound' \in Nat /\ repriced' \in Nat /\ stamped' \in Nat
    BY <1>1, <1>4, <1>5, <1>6, <1>8
  <2>3. QED
    BY <1>6, <1>9, <1>10, <2>1, <2>2 DEF BucketInv, TokenBucketTypeOK
<1>13. Funded'
  <2>1. spent' + bucket'.tokens = spent + refilled
    BY <1>1, <1>4, <1>6, <1>8, <1>9
  <2>2. refilled <= old.tokens + upgrade + advance + above
    BY <1>2, <1>3, <1>4, <1>5
  <2>3. stamped' - origin' = (since - origin') + (advance - back)
    BY <1>1, <1>5, <1>6, <1>10
  <2>4. QED
    BY <2>1, <2>2, <2>3, <1>1, <1>2, <1>4, <1>5, <1>6, <1>7, <1>10 DEF Funded
<1>14. \A q \in Arrivals : arrival'[q].earned <= earned
  BY <1>6 DEF BucketInv, TokenBucketTypeOK
<1>15. bucket'.tokens <= bucket'.capacity
  BY <1>1, <1>4, <1>8, <1>9
<1>16. QED
  BY <1>1, <1>6, <1>9, <1>11, <1>12, <1>13, <1>14, <1>15 DEF BucketInv

(* Every step keeps the invariant.                                         *)
LEMMA BucketStep ==
  ASSUME TokenBucketAssumption, BucketInv, [BucketNext]_bucketVars
  PROVE  BucketInv'
<1>1. tier \in Tiers /\ tier.rate \in Nat /\ clock \in Nat /\ earned \in Nat
  BY DEF TokenBucketAssumption, BucketInv, TokenBucketTypeOK
<1>2. CASE Tick
  <2>1. /\ clock' = clock + 1 /\ earned' = earned + tier.rate
        /\ UNCHANGED <<tier, bucket, arrival, changed, origin, stamped, spent, granted, rewound, repriced>>
    BY <1>2 DEF Tick
  <2>2. TokenBucketTypeOK'
    BY <1>1, <2>1 DEF BucketInv, TokenBucketTypeOK
  <2>3. ASSUME Steady
        PROVE  Steady'
    <3>1. tier.rate * (clock + 1) = tier.rate * clock + tier.rate
      BY <1>1, OneMore, Zenon
    <3>2. QED
      BY <2>1, <2>3, <3>1 DEF Steady
  <2>4. \A r \in Arrivals : arrival[r].earned <= earned'
    BY <1>1, <2>1 DEF BucketInv, TokenBucketTypeOK
  <2>5. stamped <= earned'
    BY <1>1, <2>1 DEF BucketInv, TokenBucketTypeOK
  <2>6. QED
    BY <2>1, <2>2, <2>3, <2>4, <2>5 DEF BucketInv, Funded
<1>3. ASSUME NEW limits \in Tiers, ChangeTier(limits)
      PROVE  BucketInv'
  <2>1. /\ tier' = limits /\ changed' = (changed \/ limits # tier)
        /\ UNCHANGED <<clock, bucket, arrival, earned, origin, stamped, spent, granted, rewound, repriced>>
    BY <1>3 DEF ChangeTier
  <2>2. TokenBucketTypeOK'
    BY <2>1 DEF BucketInv, TokenBucketTypeOK
  <2>3. ~changed' => Steady'
    BY <2>1 DEF BucketInv, TokenBucketTypeOK, Steady
  <2>4. QED
    BY <2>1, <2>2, <2>3 DEF BucketInv, Funded
<1>4. ASSUME NEW r \in Arrivals, Arrive(r)
      PROVE  BucketInv'
  <2>1. /\ arrival' = [arrival EXCEPT ![r] = [pc |-> "consume", now |-> clock, tier |-> tier,
                                              earned |-> earned]]
        /\ UNCHANGED <<clock, tier, bucket, historyVars>>
    BY <1>4 DEF Arrive, Waiting
  <2>2. TokenBucketTypeOK'
    BY <1>1, <2>1 DEF BucketInv, TokenBucketTypeOK, historyVars
  <2>3. \A q \in Arrivals : arrival'[q].earned <= earned
    BY <1>1, <2>1 DEF BucketInv, TokenBucketTypeOK
  <2>4. ASSUME Steady
        PROVE  Steady'
    BY <2>1, <2>4 DEF BucketInv, TokenBucketTypeOK, Steady, historyVars
  <2>5. QED
    BY <2>1, <2>2, <2>3, <2>4 DEF BucketInv, Funded, historyVars
<1>5. ASSUME NEW r \in Arrivals, ConsumeBucket(r)
      PROVE  BucketInv'
  BY <1>5, ConsumeKeeps
<1>6. CASE UNCHANGED bucketVars
  BY <1>6 DEF bucketVars, historyVars, BucketInv, TokenBucketTypeOK, Funded, Steady
<1>7. QED
  BY <1>2, <1>3, <1>4, <1>5, <1>6 DEF BucketNext

(* The strengthened invariant holds in every reachable state.              *)
LEMMA BucketInvariant == BucketSpec => []BucketInv
BY TokenBucketAssumption, BucketStart, BucketStep, PTL DEF BucketSpec

-----------------------------------------------------------------------------
(* Row, requests and counters keep their types: tokens never go below zero *)
(* whatever tiers and clocks the requests bring.                           *)
THEOREM BucketTypes == BucketSpec => []TokenBucketTypeOK
<1>1. BucketInv => TokenBucketTypeOK
  BY DEF BucketInv
<1>2. QED
  BY <1>1, BucketInvariant, PTL

(* consumeBucket lets through no more than the bucket was given, than time *)
(* earned at the tier of each moment, than requests out of order refilled  *)
(* twice and than changes of tier repriced; and it reprices nothing for a  *)
(* firm that keeps its tier, whatever its rate and the order of requests.  *)
THEOREM BucketFunded == BucketSpec => []SpendIsFunded
<1>1. BucketInv => SpendIsFunded
  BY DEF BucketInv, TokenBucketTypeOK, BucketRow, Funded, Steady, SpendIsFunded
<1>2. QED
  BY <1>1, BucketInvariant, PTL

-----------------------------------------------------------------------------
(***************************************************************************)
(* Tickets, for any admins, any number of requests in flight and any       *)
(* number of them in a behaviour: the type invariant, the agreement of the *)
(* two copies of the ownership, and who may end an assignment.             *)
(*                                                                         *)
(* The argument: a request that no commit has overtaken still sees the     *)
(* state it read, so its checks hold when it commits (Current); and a      *)
(* PATCH in flight was begun by a superadmin, or releases at most its own  *)
(* author (Authority), which stays true when it is overtaken.              *)
(***************************************************************************)

\* An invitation is never one to own the ticket.
InvitedToCollaborate == \A a \in Admins : rows[a].status = "pending" => rows[a].role = "collaborator"

\* The checks of a request, against the state as it is now.
StillRight(req) ==
  /\ req.does \in {"update", "takeOver"} => req.saw = ticket
  /\ req.does \in {"invite", "join"} => rows[req.target].status # "active"
  /\ req.does = "remove" => rows[req.target].role # "assignee"
  /\ req.does = "reply" /\ req.joins => rows[req.by].status # "active"

\* A request that is not behind may still rely on its checks.
Current == \A r \in Requests \ behind : request[r] # NoOperation => StillRight(request[r])

\* A PATCH releases a row only for a superadmin or for the row's admin.
Authority ==
  overtaken \/ revived \/
    \A r \in Requests :
      request[r].does = "update" /\ Changes(request[r]) =>
        request[r].by \in Superadmins \/ request[r].saw.assignedTo \in {Nobody, request[r].by}

\* Answers and joins are requests about their author.
OwnRow ==
  \A r \in Requests : request[r].does \in {"answer", "join"} => request[r].target = request[r].by

\* Nothing is asked of a ticket that is not there yet.
BeforeTheTicket ==
  ticket.status = "absent" =>
    ticket.assignedTo = Nobody /\ \A r \in Requests : request[r] = NoOperation

OwnershipInv ==
  /\ BeforeTheTicket
  /\ TicketsTypeOK /\ InvitedToCollaborate /\ Current /\ OwnRow /\ CopiesAgree /\ Authority

-----------------------------------------------------------------------------
(* The requests, by handler.                                               *)

Updates == [does : {"update"}, by : Admins, to : Admins \cup {Nobody, AsIs},
            status : NewStatuses \cup {AsIs}, keep : BOOLEAN, saw : TicketRows]
TakeOvers == [does : {"takeOver"}, by : Superadmins, keep : BOOLEAN, saw : TicketRows]
Invites == [does : {"invite"}, by : Admins, target : Admins, status : {"active", "pending"}]
Answers == [does : {"answer"}, by : Admins, target : Admins,
            status : {"active", "declined", "removed"}]
Joins == [does : {"join"}, by : Admins, target : Admins, status : {"active"}]
Removals == [does : {"remove"}, by : Admins, target : Admins, was : {"active", "pending"}]
Replies == [does : {"reply"}, by : Admins, joins : BOOLEAN, status : Statuses]
Messages == [does : {"message"}, by : {Nobody}, status : Statuses]

LEMMA RecordsByHandler ==
  RequestRecords = Updates \cup TakeOvers \cup Invites \cup Answers \cup Joins \cup Removals
                     \cup Replies \cup Messages
  BY DEF RequestRecords, Updates, TakeOvers, Invites, Answers, Joins, Removals, Replies, Messages

\* A request is the record its handler keeps.
LEMMA HandlerOfRequest ==
  ASSUME NEW req \in {NoOperation} \cup RequestRecords
  PROVE  /\ req.does = "update" => req \in Updates
         /\ req.does = "takeOver" => req \in TakeOvers
         /\ req.does = "invite" => req \in Invites
         /\ req.does = "answer" => req \in Answers
         /\ req.does = "join" => req \in Joins
         /\ req.does = "remove" => req \in Removals
         /\ req.does = "reply" => req \in Replies
         /\ req.does = "message" => req \in Messages
         /\ req = NoOperation <=> req.does = "nothing"
<1>1. NoOperation.does = "nothing"
  BY DEF NoOperation
<1>2. CASE req = NoOperation
  BY <1>1, <1>2
<1>3. CASE req \in Updates
  BY <1>1, <1>3 DEF Updates
<1>4. CASE req \in TakeOvers
  BY <1>1, <1>4 DEF TakeOvers
<1>5. CASE req \in Invites
  BY <1>1, <1>5 DEF Invites
<1>6. CASE req \in Answers
  BY <1>1, <1>6 DEF Answers
<1>7. CASE req \in Joins
  BY <1>1, <1>7 DEF Joins
<1>8. CASE req \in Removals
  BY <1>1, <1>8 DEF Removals
<1>9. CASE req \in Replies
  BY <1>1, <1>9 DEF Replies
<1>10. CASE req \in Messages
  BY <1>1, <1>10 DEF Messages
<1>11. QED
  BY <1>2, <1>3, <1>4, <1>5, <1>6, <1>7, <1>8, <1>9, <1>10, RecordsByHandler

-----------------------------------------------------------------------------
(* Beginning a request.                                                    *)

LEMMA BeginKeeps ==
  ASSUME OwnershipInv, NEW r \in Requests, NEW req \in RequestRecords,
         Begin(r, req), StillRight(req),
         req.does \in {"answer", "join"} => req.target = req.by,
         \/ overtaken \/ revived
         \/ req.does = "update" /\ Changes(req) =>
              req.by \in Superadmins \/ req.saw.assignedTo \in {Nobody, req.by}
  PROVE  OwnershipInv'
<1> DEFINE new == [request EXCEPT ![r] = req]
<1>1. /\ request' = new /\ begun' = begun + 1
      /\ ticket' = ticket /\ rows' = rows /\ behind' = behind
      /\ overtaken' = overtaken /\ revived' = revived
      /\ begun < MaxRequests
  BY DEF Begin
<1>2. /\ request \in [Requests -> {NoOperation} \cup RequestRecords]
      /\ begun \in 0..MaxRequests /\ MaxRequests \in Nat
  BY TicketsAssumption DEF OwnershipInv, TicketsTypeOK
<1>3. /\ new \in [Requests -> {NoOperation} \cup RequestRecords]
      /\ new[r] = req
      /\ \A q \in Requests : q # r => new[q] = request[q]
  BY <1>2
<1> HIDE DEF new
<1>4. TicketsTypeOK'
  <2>1. begun' \in 0..MaxRequests
    BY <1>1, <1>2
  <2>2. IndexAllows(rows)'
    BY <1>1 DEF OwnershipInv, TicketsTypeOK, IndexAllows, Owns
  <2>3. QED
    BY <1>1, <1>3, <2>1, <2>2 DEF OwnershipInv, TicketsTypeOK
<1>5. InvitedToCollaborate'
  BY <1>1 DEF OwnershipInv, InvitedToCollaborate
<1>6. Current'
  BY <1>1, <1>3 DEF OwnershipInv, Current, StillRight
<1>7. OwnRow'
  BY <1>1, <1>3 DEF OwnershipInv, OwnRow
<1>8. CopiesAgree'
  BY <1>1 DEF OwnershipInv, CopiesAgree, AssignedToTheAssignee, Owns
<1>9. Authority'
  BY <1>1, <1>3 DEF OwnershipInv, Authority, Changes
<1>10. BeforeTheTicket'
  BY <1>1 DEF Begin, BeforeTheTicket
<1>11. QED
  BY <1>4, <1>5, <1>6, <1>7, <1>8, <1>9, <1>10 DEF OwnershipInv

\* The author of a PATCH that reassigns is a superadmin, the assignee, or claims.
LEMMA UpdateBegins ==
  ASSUME OwnershipInv, NEW r \in Requests, BeginUpdate(r)
  PROVE  OwnershipInv'
<1>1. PICK a \in Admins, to \in Admins \cup {Nobody, AsIs}, status \in NewStatuses \cup {AsIs},
          keep \in BOOLEAN :
        /\ Reassigns(to) /\ ~SelfClaim(a, to) => CanManage(a)
        /\ Begin(r, [does |-> "update", by |-> a, to |-> to, status |-> status,
                     keep |-> keep, saw |-> ticket])
  BY Zenon DEF BeginUpdate
<1> DEFINE req == [does |-> "update", by |-> a, to |-> to, status |-> status,
                   keep |-> keep, saw |-> ticket]
<1>2. req \in Updates
  BY DEF Updates, OwnershipInv, TicketsTypeOK
<1>3. /\ req.does = "update" /\ req.by = a /\ req.to = to /\ req.saw = ticket
  OBVIOUS
<1>4. Begin(r, req)
  BY <1>1
<1> HIDE DEF req
<1>5. StillRight(req)
  BY <1>3 DEF StillRight
<1>6. \/ overtaken \/ revived
      \/ Changes(req) => req.by \in Superadmins \/ req.saw.assignedTo \in {Nobody, req.by}
  BY <1>1, <1>3 DEF Changes, Reassigns, SelfClaim, CanManage, OwnershipInv, CopiesAgree,
                    AssignedToTheAssignee
<1>7. QED
  BY <1>2, <1>3, <1>4, <1>5, <1>6, BeginKeeps, RecordsByHandler

LEMMA TakeOverBegins ==
  ASSUME OwnershipInv, NEW r \in Requests, BeginTakeOver(r)
  PROVE  OwnershipInv'
<1>1. PICK a \in Superadmins, keep \in BOOLEAN :
        Begin(r, [does |-> "takeOver", by |-> a, keep |-> keep, saw |-> ticket])
  BY DEF BeginTakeOver
<1> DEFINE req == [does |-> "takeOver", by |-> a, keep |-> keep, saw |-> ticket]
<1>2. req \in TakeOvers /\ req.does = "takeOver" /\ req.saw = ticket
  BY DEF TakeOvers, OwnershipInv, TicketsTypeOK
<1>3. Begin(r, req)
  BY <1>1
<1> HIDE DEF req
<1>4. QED
  BY <1>2, <1>3, BeginKeeps, RecordsByHandler DEF StillRight

LEMMA ParticipantBegins ==
  ASSUME OwnershipInv, NEW r \in Requests,
         BeginInvite(r) \/ BeginAnswer(r) \/ BeginRemove(r) \/ BeginJoin(r)
  PROVE  OwnershipInv'
<1>1. CASE BeginInvite(r)
  <2>1. PICK a \in Admins, b \in Admins, status \in {"active", "pending"} :
          /\ rows[b].status \notin {"active", "pending"}
          /\ Begin(r, [does |-> "invite", by |-> a, target |-> b, status |-> status])
    BY <1>1 DEF BeginInvite
  <2> DEFINE req == [does |-> "invite", by |-> a, target |-> b, status |-> status]
  <2>2. req \in Invites /\ req.does = "invite" /\ req.target = b
    BY DEF Invites
  <2>3. Begin(r, req)
    BY <2>1
  <2> HIDE DEF req
  <2>4. QED
    BY <2>1, <2>2, <2>3, BeginKeeps, RecordsByHandler DEF StillRight
<1>2. CASE BeginAnswer(r)
  <2>1. PICK a \in Admins, answer \in {"active", "declined", "removed"} :
          Begin(r, [does |-> "answer", by |-> a, target |-> a, status |-> answer])
    BY <1>2 DEF BeginAnswer
  <2> DEFINE req == [does |-> "answer", by |-> a, target |-> a, status |-> answer]
  <2>2. req \in Answers /\ req.does = "answer" /\ req.target = a /\ req.by = a
    BY DEF Answers
  <2>3. Begin(r, req)
    BY <2>1
  <2> HIDE DEF req
  <2>4. QED
    BY <2>2, <2>3, BeginKeeps, RecordsByHandler DEF StillRight
<1>3. CASE BeginRemove(r)
  <2>1. PICK a \in Admins, b \in Admins :
          /\ Removable(rows[b])
          /\ Begin(r, [does |-> "remove", by |-> a, target |-> b, was |-> rows[b].status])
    BY <1>3 DEF BeginRemove
  <2> DEFINE req == [does |-> "remove", by |-> a, target |-> b, was |-> rows[b].status]
  <2>2. req \in Removals /\ req.does = "remove" /\ req.target = b
    BY <2>1 DEF Removals, Removable
  <2>3. Begin(r, req)
    BY <2>1
  <2> HIDE DEF req
  <2>4. QED
    BY <2>1, <2>2, <2>3, BeginKeeps, RecordsByHandler DEF StillRight, Removable
<1>4. CASE BeginJoin(r)
  <2>1. PICK a \in Superadmins :
          /\ ~IsActive(a)
          /\ Begin(r, [does |-> "join", by |-> a, target |-> a, status |-> "active"])
    BY <1>4 DEF BeginJoin
  <2> DEFINE req == [does |-> "join", by |-> a, target |-> a, status |-> "active"]
  <2>2. req \in Joins /\ req.does = "join" /\ req.target = a /\ req.by = a
    BY DEF Joins, Admins
  <2>3. Begin(r, req)
    BY <2>1
  <2> HIDE DEF req
  <2>4. QED
    BY <2>1, <2>2, <2>3, BeginKeeps, RecordsByHandler DEF StillRight, IsActive
<1>5. QED
  BY <1>1, <1>2, <1>3, <1>4

LEMMA MessageBegins ==
  ASSUME OwnershipInv, NEW r \in Requests, BeginReply(r) \/ BeginMessage(r)
  PROVE  OwnershipInv'
<1>0. ticket.status \in Statuses
  <2>1. ticket.status # "absent"
    BY DEF BeginReply, BeginMessage, Begin
  <2>2. QED
    BY <2>1 DEF OwnershipInv, TicketsTypeOK, TicketRows
<1>1. CASE BeginReply(r)
  <2>1. PICK a \in Admins, joins \in BOOLEAN, status \in Statuses :
          /\ joins => ~IsActive(a)
          /\ Begin(r, [does |-> "reply", by |-> a, joins |-> joins, status |-> status])
    <3>1. PICK a \in Admins, internal \in BOOLEAN :
            Begin(r, [does |-> "reply", by |-> a, joins |-> a \in Superadmins /\ ~IsActive(a),
                      status |-> IF ~internal /\ ticket.status \in {"open", "in_progress"}
                                 THEN "waiting_customer" ELSE ticket.status])
      BY <1>1 DEF BeginReply
    <3>2. (IF ~internal /\ ticket.status \in {"open", "in_progress"}
           THEN "waiting_customer" ELSE ticket.status) \in Statuses
      BY <1>0 DEF Statuses
    <3>3. (a \in Superadmins /\ ~IsActive(a)) \in BOOLEAN
      OBVIOUS
    <3>4. QED
      BY <3>1, <3>2, <3>3, Zenon
  <2> DEFINE req == [does |-> "reply", by |-> a, joins |-> joins, status |-> status]
  <2>2. req \in Replies /\ req.does = "reply" /\ req.by = a /\ (req.joins <=> joins)
    BY DEF Replies
  <2>3. Begin(r, req)
    BY <2>1
  <2> HIDE DEF req
  <2>4. QED
    BY <2>1, <2>2, <2>3, BeginKeeps, RecordsByHandler DEF StillRight, IsActive
<1>2. CASE BeginMessage(r)
  <2> DEFINE req == [does |-> "message", by |-> Nobody,
                     status |-> IF ticket.status = "waiting_customer" THEN "in_progress"
                                ELSE ticket.status]
  <2>1. req \in Messages /\ req.does = "message"
    BY <1>0 DEF Messages, Statuses
  <2>2. Begin(r, req)
    BY <1>2 DEF BeginMessage
  <2> HIDE DEF req
  <2>3. QED
    BY <2>1, <2>2, BeginKeeps, RecordsByHandler DEF StillRight
<1>3. QED
  BY <1>1, <1>2

-----------------------------------------------------------------------------
(* What the transactions write.                                            *)

\* Rows as they may be stored: typed, and invitations are to collaborate.
GoodRows(rs) ==
  /\ rs \in [Admins -> ParticipantRows]
  /\ \A a \in Admins : rs[a].status = "pending" => rs[a].role = "collaborator"

LEMMA OneRowChanged ==
  ASSUME NEW rs, GoodRows(rs), NEW who \in Admins, NEW row \in ParticipantRows,
         row.status = "pending" => row.role = "collaborator"
  PROVE  /\ GoodRows([rs EXCEPT ![who] = row])
         /\ [rs EXCEPT ![who] = row][who] = row
         /\ \A a \in Admins : a # who => [rs EXCEPT ![who] = row][a] = rs[a]
  BY DEF GoodRows

LEMMA MembersAreRows ==
  ASSUME NEW role \in {"assignee", "collaborator"},
         NEW status \in {"pending", "active", "declined", "removed"}
  PROVE  /\ Member(role, status) \in ParticipantRows
         /\ Member(role, status).role = role /\ Member(role, status).status = status
         /\ Member(role, status) = Member("assignee", "active")
              <=> role = "assignee" /\ status = "active"
  BY DEF Member, ParticipantRows

\* A stored row that exists is a member.
LEMMA RowsAreMembers ==
  ASSUME NEW row \in ParticipantRows
  PROVE  \/ row = NoRow /\ row.status = "none" /\ row.role = "none"
         \/ /\ row.role \in {"assignee", "collaborator"}
            /\ row.status \in {"pending", "active", "declined", "removed"}
            /\ row = Member(row.role, row.status)
  BY DEF Member, ParticipantRows, NoRow

\* Releasing a row takes the ownership of that admin and no other.
LEMMA ReleasedRows ==
  ASSUME GoodRows(rows), NEW who \in Admins \cup {Nobody},
         NEW keep \in BOOLEAN
  PROVE  /\ GoodRows(Released(who, keep))
         /\ \A a \in Admins : Owns(Released(who, keep), a) <=> Owns(rows, a) /\ a # who
<1>1. CASE who = Nobody \/ ~Owns(rows, who)
  BY <1>1, TicketsAssumption DEF Released
<1>2. CASE who # Nobody /\ Owns(rows, who)
  <2> DEFINE row == IF keep THEN Member("collaborator", "active") ELSE Member("assignee", "removed")
  <2>1. /\ row \in ParticipantRows /\ row.status # "pending"
        /\ row # Member("assignee", "active")
    BY MembersAreRows
  <2>2. Released(who, keep) = [rows EXCEPT ![who] = row]
    BY <1>2 DEF Released
  <2>3. who \in Admins
    BY <1>2
  <2>4. rows[who] = Member("assignee", "active")
    BY <1>2 DEF Owns
  <2> HIDE DEF row
  <2> DEFINE rs == [rows EXCEPT ![who] = row]
  <2>5. GoodRows(rs) /\ rs[who] = row /\ \A a \in Admins : a # who => rs[a] = rows[a]
    BY <2>1, <2>3, OneRowChanged
  <2> HIDE DEF rs
  <2>6. Released(who, keep) = rs
    BY <2>2 DEF rs
  <2>7. \A a \in Admins : rs[a] = Member("assignee", "active") <=>
                            rows[a] = Member("assignee", "active") /\ a # who
    BY <2>1, <2>3, <2>5
  <2>8. QED
    BY <2>5, <2>6, <2>7 DEF Owns
<1>3. QED
  BY <1>1, <1>2

\* Installing an assignee adds that admin's ownership and no other.
LEMMA InstalledRows ==
  ASSUME NEW rs, GoodRows(rs), NEW who \in Admins \cup {Nobody}
  PROVE  /\ GoodRows(Installed(rs, who))
         /\ \A a \in Admins : Owns(Installed(rs, who), a) <=> Owns(rs, a) \/ a = who
<1>1. CASE who = Nobody
  BY <1>1, TicketsAssumption DEF Installed
<1>2. CASE who \in Admins
  <2>1. who # Nobody
    BY <1>2, TicketsAssumption
  <2> DEFINE row == Member("assignee", "active")
  <2>2. row \in ParticipantRows /\ row.status # "pending"
    BY MembersAreRows
  <2>3. Installed(rs, who) = [rs EXCEPT ![who] = row]
    BY <2>1 DEF Installed
  <2>4. row = Member("assignee", "active")
    OBVIOUS
  <2> HIDE DEF row
  <2> DEFINE new == [rs EXCEPT ![who] = row]
  <2>5. GoodRows(new) /\ new[who] = row /\ \A a \in Admins : a # who => new[a] = rs[a]
    BY <1>2, <2>2, OneRowChanged
  <2> HIDE DEF new
  <2>6. Installed(rs, who) = new
    BY <2>3 DEF new
  <2>7. \A a \in Admins : new[a] = row <=> rs[a] = row \/ a = who
    BY <2>5
  <2>8. QED
    BY <2>4, <2>5, <2>6, <2>7 DEF Owns
<1>3. QED
  BY <1>1, <1>2

\* A transaction keeps the invariant when a request that is not behind writes two
\* copies that agree.
LEMMA TransactionKeeps ==
  ASSUME OwnershipInv, NEW r \in Requests,
         request[r] # NoOperation, NEW t \in TicketRows, t.status # "absent", NEW rs, GoodRows(rs),
         Transaction(r, t, rs), revived' \in BOOLEAN, revived => revived',
         r \notin behind /\ ~overtaken /\ ~revived' /\ ticket' = t /\ rows' = rs =>
           \A a \in Admins : Owns(rs, a) <=> t.assignedTo = a
  PROVE  OwnershipInv'
<1> DEFINE written == IndexAllows(rs) /\ <<t, rs>> # <<ticket, rows>>
<1>1. /\ ticket' = IF written THEN t ELSE ticket
      /\ rows' = IF written THEN rs ELSE rows
      /\ request' = [request EXCEPT ![r] = NoOperation]
      /\ behind' = (IF written THEN {q \in Requests : request[q] # NoOperation} ELSE behind) \ {r}
      /\ overtaken' = (overtaken \/ (written /\ r \in behind))
      /\ begun' = begun
  BY DEF Transaction
<1>2. written \in BOOLEAN /\ (written => IndexAllows(rs))
  OBVIOUS
<1> HIDE DEF written
<1>3. request \in [Requests -> {NoOperation} \cup RequestRecords] /\ behind \subseteq Requests
  BY DEF OwnershipInv, TicketsTypeOK
<1>4. /\ request' \in [Requests -> {NoOperation} \cup RequestRecords]
      /\ request'[r] = NoOperation
      /\ \A q \in Requests : q # r => request'[q] = request[q]
  BY <1>1, <1>3
<1>5. NoOperation.does = "nothing"
  BY DEF NoOperation
<1>6. TicketsTypeOK'
  <2>1. ticket' \in TicketRows /\ rows' \in [Admins -> ParticipantRows]
    BY <1>1 DEF OwnershipInv, TicketsTypeOK, GoodRows
  <2>2. IndexAllows(rows')
    BY <1>1, <1>2 DEF OwnershipInv, TicketsTypeOK
  <2>3. behind' \subseteq Requests /\ overtaken' \in BOOLEAN
    BY <1>1, <1>2, <1>3 DEF OwnershipInv, TicketsTypeOK
  <2>4. QED
    BY <1>1, <1>4, <2>1, <2>2, <2>3 DEF OwnershipInv, TicketsTypeOK, IndexAllows, Owns
<1>7. InvitedToCollaborate'
  BY <1>1 DEF OwnershipInv, InvitedToCollaborate, GoodRows
<1>8. Current'
  <2> SUFFICES ASSUME NEW q \in Requests, q \notin behind', request'[q] # NoOperation
               PROVE  StillRight(request[q])' /\ request'[q] = request[q]
    BY DEF Current, StillRight
  <2>1. q # r /\ request'[q] = request[q]
    BY <1>4
  <2>2. ~written /\ q \notin behind
    BY <1>1, <1>2, <2>1
  <2>3. ticket' = ticket /\ rows' = rows
    BY <1>1, <2>2
  <2>4. QED
    BY <2>1, <2>2, <2>3 DEF OwnershipInv, Current, StillRight
<1>9. OwnRow'
  BY <1>4, <1>5 DEF OwnershipInv, OwnRow
<1>10. CopiesAgree'
  <2>1. CASE ~written
    <3>1. ticket' = ticket /\ rows' = rows /\ (overtaken => overtaken')
      BY <1>1, <2>1
    <3>2. QED
      BY <3>1 DEF OwnershipInv, CopiesAgree, AssignedToTheAssignee, Owns
  <2>2. CASE written
    <3>1. ticket' = t /\ rows' = rs /\ (overtaken \/ r \in behind => overtaken')
      BY <1>1, <2>2
    <3>2. QED
      BY <3>1 DEF CopiesAgree, AssignedToTheAssignee, Owns
  <2>3. QED
    BY <2>1, <2>2
<1>11. Authority'
  BY <1>1, <1>4, <1>5 DEF OwnershipInv, Authority, Changes
<1>12. BeforeTheTicket'
  BY <1>1 DEF OwnershipInv, BeforeTheTicket
<1>13. QED
  BY <1>6, <1>7, <1>8, <1>9, <1>10, <1>11, <1>12 DEF OwnershipInv

\* The facts about a commit that the cases below share.
LEMMA RowsAreGood ==
  ASSUME OwnershipInv
  PROVE  GoodRows(rows) /\ ticket \in TicketRows
  BY DEF OwnershipInv, TicketsTypeOK, InvitedToCollaborate, GoodRows

\* An assignment ends only with the commit of a request, which then is done.
LEMMA CommitEnds ==
  ASSUME OwnershipInv, NEW r \in Requests, NEW t, NEW rs, Transaction(r, t, rs),
         request[r] # NoOperation,
         \A a \in Admins : Owns(rows, a) /\ ~Owns(rs, a) =>
           \/ request[r].by \in Superadmins \cup {a}
           \/ request[r].does \in {"invite", "remove"} /\ r \in behind
  PROVE  EndedByRight
<1>1. rows' \in {rows, rs} /\ request' = [request EXCEPT ![r] = NoOperation]
  BY DEF Transaction
<1>2. request'[r] = NoOperation
  BY <1>1 DEF OwnershipInv, TicketsTypeOK
<1>3. SUFFICES ASSUME NEW a \in Admins, Owns(rows, a), ~Owns(rows', a)
               PROVE  /\ request[r] # NoOperation /\ request'[r] = NoOperation
                      /\ \/ request[r].by \in Superadmins \cup {a}
                         \/ request[r].does \in {"invite", "remove"} /\ r \in behind
  BY DEF EndedByRight
<1>4. ~Owns(rs, a)
  BY <1>1, <1>3 DEF Owns
<1>5. QED
  BY <1>2, <1>3, <1>4

\* There is a ticket as long as a request is in flight.
LEMMA TicketIsThere ==
  ASSUME OwnershipInv, NEW r \in Requests, request[r] # NoOperation
  PROVE  ticket.status \in Statuses /\ "absent" \notin Statuses
  BY DEF OwnershipInv, BeforeTheTicket, TicketsTypeOK, TicketRows, Statuses

-----------------------------------------------------------------------------
(* Committing a request.                                                   *)

\* A cascade: it runs only where nobody is assigned, and installs at most one heir.
LEMMA CascadeCommits ==
  ASSUME OwnershipInv, NEW r \in Requests, CommitUpdate(r),
         Cascades(request[r])
  PROVE  OwnershipInv' /\ EndedByRight
<1> DEFINE req == request[r]
           status == IF req.status = AsIs THEN ticket.status ELSE req.status
<1>1. PICK locked \in SUBSET Admins : \E h \in Successors(locked) :
        /\ Transaction(r, [status |-> status,
                           assignedTo |-> IF h = Nobody THEN ticket.assignedTo ELSE h],
                       Installed(rows, h))
        /\ UNCHANGED revived
  BY DEF CommitUpdate, Cascades
<1> PICK heir \in Successors(locked) :
        /\ Transaction(r, [status |-> status,
                           assignedTo |-> IF heir = Nobody THEN ticket.assignedTo ELSE heir],
                       Installed(rows, heir))
        /\ UNCHANGED revived
  BY <1>1
<1> DEFINE t == [status |-> status,
                 assignedTo |-> IF heir = Nobody THEN ticket.assignedTo ELSE heir]
           rs == Installed(rows, heir)
<1>2. req \in Updates /\ req.does = "update" /\ req # NoOperation
  BY HandlerOfRequest DEF CommitUpdate, OwnershipInv, TicketsTypeOK, NoOperation
<1>3. heir \in Admins \cup {Nobody}
  BY DEF Successors
<1>4. status \in Statuses /\ "absent" \notin Statuses
  BY <1>2, TicketIsThere, TicketsAssumption DEF Updates
<1>5. t \in TicketRows /\ t.status # "absent"
  BY <1>3, <1>4, RowsAreGood DEF TicketRows
<1>6. GoodRows(rs) /\ \A a \in Admins : Owns(rs, a) <=> Owns(rows, a) \/ a = heir
  BY <1>3, RowsAreGood, InstalledRows
<1>7. t.assignedTo = IF heir = Nobody THEN ticket.assignedTo ELSE heir
  OBVIOUS
<1>8. r \notin behind => ticket.assignedTo = Nobody
  BY <1>2 DEF OwnershipInv, Current, StillRight, Cascades
<1>9. Transaction(r, t, rs) /\ revived' = revived
  BY <1>1
<1> HIDE DEF t, rs
<1>10. r \notin behind /\ ~overtaken /\ ~revived =>
         \A a \in Admins : Owns(rs, a) <=> t.assignedTo = a
  BY <1>3, <1>6, <1>7, <1>8, TicketsAssumption DEF OwnershipInv, CopiesAgree, AssignedToTheAssignee
<1>11. OwnershipInv'
  <2>1. revived' \in BOOLEAN
    BY <1>9 DEF OwnershipInv, TicketsTypeOK
  <2>2. QED
    BY <2>1, <1>2, <1>5, <1>6, <1>9, <1>10, TransactionKeeps
<1>12. EndedByRight
  BY <1>2, <1>6, <1>9, CommitEnds
<1>13. QED
  BY <1>11, <1>12

\* A claim, a transfer, a release or a change of the status alone.
LEMMA UpdateCommits ==
  ASSUME OwnershipInv, NEW r \in Requests, CommitUpdate(r),
         ~Cascades(request[r])
  PROVE  OwnershipInv' /\ (overtaken \/ revived \/ EndedByRight)
<1> DEFINE req == request[r]
           saw == req.saw.assignedTo
           status == IF req.status = AsIs THEN ticket.status ELSE req.status
           t == [status |-> status,
                 assignedTo |-> IF req.to = AsIs THEN ticket.assignedTo ELSE req.to]
           rs == IF Changes(req) THEN Installed(Released(saw, req.keep), req.to) ELSE rows
<1>1. Transaction(r, t, rs) /\ revived' = revived
  BY DEF CommitUpdate
<1>2. req \in Updates /\ req.does = "update" /\ req # NoOperation
  BY HandlerOfRequest DEF CommitUpdate, OwnershipInv, TicketsTypeOK, NoOperation
<1>3. /\ saw \in Admins \cup {Nobody} /\ req.keep \in BOOLEAN
      /\ req.to \in Admins \cup {Nobody, AsIs}
      /\ status \in Statuses /\ "absent" \notin Statuses
  BY <1>2, TicketIsThere, TicketsAssumption DEF Updates, TicketRows
<1>4. t \in TicketRows /\ t.status # "absent"
  BY <1>3, RowsAreGood DEF TicketRows
<1>5. t.assignedTo = IF req.to = AsIs THEN ticket.assignedTo ELSE req.to
  OBVIOUS
<1>6. ASSUME Changes(req)
      PROVE  /\ GoodRows(rs) /\ req.to \in Admins \cup {Nobody}
             /\ \A a \in Admins : Owns(rs, a) <=> (Owns(rows, a) /\ a # saw) \/ a = req.to
  <2>1. req.to \in Admins \cup {Nobody}
    BY <1>3, <1>6 DEF Changes
  <2> DEFINE left == Released(saw, req.keep)
  <2>2. GoodRows(left) /\ \A a \in Admins : Owns(left, a) <=> Owns(rows, a) /\ a # saw
    BY <1>3, RowsAreGood, ReleasedRows
  <2>3. rs = Installed(left, req.to)
    BY <1>6
  <2> HIDE DEF left, rs
  <2>4. /\ GoodRows(rs)
        /\ \A a \in Admins : Owns(rs, a) <=> Owns(left, a) \/ a = req.to
    BY <2>1, <2>2, <2>3, InstalledRows
  <2>5. QED
    BY <2>1, <2>2, <2>4
<1>7. ~Changes(req) => rs = rows
  OBVIOUS
<1>8. GoodRows(rs)
  BY <1>6, <1>7, RowsAreGood
<1>9. r \notin behind => req.saw = ticket
  BY <1>2 DEF OwnershipInv, Current, StillRight
<1> HIDE DEF t, rs
<1>10. r \notin behind /\ ~overtaken /\ ~revived =>
         \A a \in Admins : Owns(rs, a) <=> t.assignedTo = a
  <2> SUFFICES ASSUME r \notin behind, ~overtaken, ~revived, NEW a \in Admins
               PROVE  Owns(rs, a) <=> t.assignedTo = a
    OBVIOUS
  <2>1. (Owns(rows, a) <=> ticket.assignedTo = a) /\ saw = ticket.assignedTo
    BY <1>9 DEF OwnershipInv, CopiesAgree, AssignedToTheAssignee
  <2>2. a # AsIs /\ (req.to = AsIs => ~Changes(req))
    BY TicketsAssumption DEF Changes
  <2>3. CASE Changes(req)
    BY <1>5, <1>6, <2>1, <2>2, <2>3
  <2>4. CASE ~Changes(req)
    <3>1. t.assignedTo = ticket.assignedTo
      BY <1>5, <2>1, <2>4 DEF Changes
    <3>2. QED
      BY <1>7, <2>1, <2>4, <3>1
  <2>5. QED
    BY <2>3, <2>4
<1>11. OwnershipInv'
  <2>1. revived' \in BOOLEAN
    BY <1>1 DEF OwnershipInv, TicketsTypeOK
  <2>2. QED
    BY <2>1, <1>1, <1>2, <1>4, <1>8, <1>10, TransactionKeeps
<1>12. ASSUME ~overtaken, ~revived
       PROVE  EndedByRight
  <2>1. \A a \in Admins : Owns(rows, a) /\ ~Owns(rs, a) => Changes(req) /\ saw = a
    BY <1>6, <1>7
  <2>2. Changes(req) => req.by \in Superadmins \/ saw \in {Nobody, req.by}
    BY <1>2, <1>12 DEF OwnershipInv, Authority
  <2>3. \A a \in Admins : Owns(rows, a) /\ ~Owns(rs, a) => req.by \in Superadmins \cup {a}
    BY <2>1, <2>2, TicketsAssumption
  <2>4. QED
    BY <1>1, <1>2, <2>3, CommitEnds
<1>13. QED
  BY <1>11, <1>12

\* A participant row is written for its admin; only a request that was overtaken can
\* meet the active assignee there.
LEMMA ParticipantCommits ==
  ASSUME OwnershipInv, NEW r \in Requests, CommitParticipant(r)
  PROVE  OwnershipInv' /\ EndedByRight
<1> DEFINE req == request[r]
           old == rows[req.target]
           row == CASE req.does \in {"invite", "join"} -> Member("collaborator", req.status)
                    [] req.does = "answer" ->
                         IF old.status = "pending" THEN Member(old.role, req.status) ELSE old
                    [] req.does = "remove" ->
                         IF old.status = req.was THEN Member(old.role, "removed") ELSE old
           rs == [rows EXCEPT ![req.target] = row]
<1>1. /\ Transaction(r, ticket, rs) /\ revived' = revived
      /\ req.does \in {"invite", "answer", "remove", "join"}
  BY DEF CommitParticipant
<1>2. req \in Invites \cup Answers \cup Removals \cup Joins /\ req # NoOperation
  BY <1>1, HandlerOfRequest DEF OwnershipInv, TicketsTypeOK, NoOperation
<1>3. req.target \in Admins /\ req.by \in Admins
  BY <1>2 DEF Invites, Answers, Removals, Joins
<1>4. /\ GoodRows(rows) /\ ticket \in TicketRows /\ ticket.status # "absent"
      /\ old \in ParticipantRows /\ (old.status = "pending" => old.role = "collaborator")
  BY <1>2, <1>3, RowsAreGood, TicketIsThere DEF GoodRows
<1>5. /\ row \in ParticipantRows /\ (row.status = "pending" => row.role = "collaborator")
      /\ row = Member("assignee", "active") => old = Member("assignee", "active")
      /\ old = Member("assignee", "active") /\ row # Member("assignee", "active") =>
           \/ req.does = "join" /\ r \in behind
           \/ req.does \in {"invite", "remove"} /\ r \in behind
  <2> HIDE DEF old
  <2>1. r \notin behind =>
          /\ req.does \in {"invite", "join"} => old.status # "active"
          /\ req.does = "remove" => old.role # "assignee"
    BY <1>2 DEF OwnershipInv, Current, StillRight, old
  <2>2. /\ Member("assignee", "active").role = "assignee"
        /\ Member("assignee", "active").status = "active"
    BY MembersAreRows
  <2>3. CASE req.does \in {"invite", "join"}
    <3>1. req.status \in {"active", "pending"} /\ row = Member("collaborator", req.status)
      BY <1>2, <2>3 DEF Invites, Answers, Removals, Joins
    <3> HIDE DEF row
    <3>2. /\ row \in ParticipantRows /\ row.role = "collaborator"
          /\ row # Member("assignee", "active")
      BY <3>1, MembersAreRows
    <3>3. old = Member("assignee", "active") => r \in behind
      BY <2>1, <2>2, <2>3
    <3>4. QED
      BY <2>3, <3>2, <3>3
  <2>4. CASE req.does = "answer"
    <3>1. /\ req.status \in {"active", "declined", "removed"}
          /\ row = IF old.status = "pending" THEN Member(old.role, req.status) ELSE old
      BY <1>2, <2>4 DEF Invites, Answers, Removals, Joins
    <3> HIDE DEF row
    <3>2. CASE old.status = "pending"
      BY <1>4, <2>2, <3>1, <3>2, MembersAreRows
    <3>3. CASE old.status # "pending"
      BY <1>4, <3>1, <3>3
    <3>4. QED
      BY <3>2, <3>3
  <2>5. CASE req.does = "remove"
    <3>1. /\ req.was \in {"active", "pending"}
          /\ row = IF old.status = req.was THEN Member(old.role, "removed") ELSE old
      BY <1>2, <2>5 DEF Invites, Answers, Removals, Joins
    <3> HIDE DEF row
    <3>2. CASE old.status = req.was
      <4>1. old.role \in {"assignee", "collaborator"}
        BY <1>4, <3>1, <3>2, RowsAreMembers
      <4>2. QED
        BY <2>1, <2>2, <2>5, <3>1, <3>2, <4>1, MembersAreRows
    <3>3. CASE old.status # req.was
      BY <1>4, <3>1, <3>3
    <3>4. QED
      BY <3>2, <3>3
  <2>6. QED
    BY <1>1, <2>3, <2>4, <2>5
<1>6. /\ GoodRows(rs) /\ rs[req.target] = row
      /\ \A a \in Admins : a # req.target => rs[a] = rows[a]
  <2> HIDE DEF row
  <2>1. QED
    BY <1>3, <1>4, <1>5, OneRowChanged
<1> HIDE DEF row, rs
<1>7. \A a \in Admins : Owns(rs, a) => Owns(rows, a)
  BY <1>5, <1>6 DEF Owns
<1>8. \A a \in Admins : Owns(rows, a) /\ ~Owns(rs, a) =>
        a = req.target /\ req.does \in {"join", "invite", "remove"} /\ r \in behind
  BY <1>5, <1>6 DEF Owns
<1>9. OwnershipInv'
  <2>1. revived' \in BOOLEAN
    BY <1>1 DEF OwnershipInv, TicketsTypeOK
  <2>2. r \notin behind /\ ~overtaken /\ ~revived =>
          \A a \in Admins : Owns(rs, a) <=> ticket.assignedTo = a
    BY <1>7, <1>8 DEF OwnershipInv, CopiesAgree, AssignedToTheAssignee
  <2>3. QED
    BY <2>1, <2>2, <1>1, <1>2, <1>4, <1>6, TransactionKeeps
<1>10. EndedByRight
  <2>1. req.does = "join" => req.target = req.by
    BY DEF OwnershipInv, OwnRow
  <2>2. \A a \in Admins : Owns(rows, a) /\ ~Owns(rs, a) =>
          \/ req.by \in Superadmins \cup {a}
          \/ req.does \in {"invite", "remove"} /\ r \in behind
    BY <1>8, <2>1
  <2>3. QED
    BY <1>1, <1>2, <2>2, CommitEnds
<1>11. QED
  BY <1>9, <1>10

LEMMA TakeOverCommits ==
  ASSUME OwnershipInv, NEW r \in Requests, CommitTakeOver(r)
  PROVE  OwnershipInv' /\ EndedByRight
<1> DEFINE req == request[r]
           saw == req.saw.assignedTo
           left == Released(saw, req.keep)
           t == [ticket EXCEPT !.assignedTo = req.by]
           rs == Installed(left, req.by)
<1>1. Transaction(r, t, rs) /\ revived' = revived
  BY DEF CommitTakeOver
<1>2. req \in TakeOvers /\ req.does = "takeOver" /\ req # NoOperation
  BY HandlerOfRequest DEF CommitTakeOver, OwnershipInv, TicketsTypeOK, NoOperation
<1>3. /\ saw \in Admins \cup {Nobody} /\ req.keep \in BOOLEAN
      /\ req.by \in Superadmins /\ req.by \in Admins
  BY <1>2 DEF TakeOvers, TicketRows, Admins
<1>4. t \in TicketRows /\ t.status # "absent" /\ t.assignedTo = req.by
  BY <1>2, <1>3, RowsAreGood, TicketIsThere DEF TicketRows
<1>5. GoodRows(left) /\ \A a \in Admins : Owns(left, a) <=> Owns(rows, a) /\ a # saw
  BY <1>3, RowsAreGood, ReleasedRows
<1> HIDE DEF t, left
<1>6. GoodRows(rs) /\ \A a \in Admins : Owns(rs, a) <=> Owns(left, a) \/ a = req.by
  BY <1>3, <1>5, InstalledRows
<1>7. r \notin behind => req.saw = ticket
  BY <1>2 DEF OwnershipInv, Current, StillRight
<1> HIDE DEF rs
<1>8. r \notin behind /\ ~overtaken /\ ~revived =>
        \A a \in Admins : Owns(rs, a) <=> t.assignedTo = a
  BY <1>3, <1>4, <1>5, <1>6, <1>7 DEF OwnershipInv, CopiesAgree, AssignedToTheAssignee
<1>9. OwnershipInv'
  <2>1. revived' \in BOOLEAN
    BY <1>1 DEF OwnershipInv, TicketsTypeOK
  <2>2. QED
    BY <2>1, <1>1, <1>2, <1>4, <1>6, <1>8, TransactionKeeps
<1>10. EndedByRight
  BY <1>1, <1>2, <1>3, CommitEnds
<1>11. QED
  BY <1>9, <1>10

\* A reply makes its author's row active; that of a former assignee is the revival.
LEMMA ReplyCommits ==
  ASSUME OwnershipInv, NEW r \in Requests, CommitReply(r)
  PROVE  OwnershipInv' /\ EndedByRight
<1> DEFINE req == request[r]
           t == [ticket EXCEPT !.status = req.status]
           old == rows[req.by]
           row == IF req.joins THEN Joined(old) ELSE old
           rs == IF req.joins THEN [rows EXCEPT ![req.by] = Joined(old)] ELSE rows
<1>1. /\ Transaction(r, t, rs)
      /\ revived' = (revived \/ (rows # rows' /\ old.role = "assignee"))
  BY DEF CommitReply
<1>2. req \in Replies /\ req.does = "reply" /\ req # NoOperation
  BY HandlerOfRequest DEF CommitReply, OwnershipInv, TicketsTypeOK, NoOperation
<1>3. req.by \in Admins /\ req.joins \in BOOLEAN /\ req.status \in Statuses
  BY <1>2 DEF Replies
<1>4. t \in TicketRows /\ t.status # "absent" /\ t.assignedTo = ticket.assignedTo
  BY <1>2, <1>3, RowsAreGood, TicketIsThere DEF TicketRows
<1>5. /\ GoodRows(rows) /\ old \in ParticipantRows
      /\ old.status = "pending" => old.role = "collaborator"
  BY <1>3, RowsAreGood DEF GoodRows
<1>6. /\ row \in ParticipantRows /\ (row.status = "pending" => row.role = "collaborator")
      /\ old = Member("assignee", "active") => row = Member("assignee", "active")
      /\ row = Member("assignee", "active") => old.role = "assignee"
  <2> HIDE DEF old
  <2>1. CASE ~req.joins
    BY <1>5, <2>1, MembersAreRows
  <2>2. CASE req.joins /\ old = NoRow
    <3>1. row = Member("collaborator", "active")
      BY <2>2 DEF Joined
    <3> HIDE DEF row
    <3>2. NoRow # Member("assignee", "active")
      BY DEF NoRow, Member
    <3>3. QED
      BY <2>2, <3>1, <3>2, MembersAreRows
  <2>3. CASE req.joins /\ old # NoRow
    <3>1. row = Member(old.role, "active") /\ old.role \in {"assignee", "collaborator"}
      BY <1>5, <2>3, RowsAreMembers DEF Joined
    <3> HIDE DEF row
    <3>2. QED
      BY <3>1, MembersAreRows
  <2>4. QED
    BY <1>3, <2>1, <2>2, <2>3
<1>7. /\ GoodRows(rs) /\ rs[req.by] = row
      /\ \A a \in Admins : a # req.by => rs[a] = rows[a]
  <2>1. CASE req.joins
    <3>1. rs = [rows EXCEPT ![req.by] = row]
      BY <2>1
    <3> DEFINE new == [rows EXCEPT ![req.by] = row]
    <3> HIDE DEF row, rs
    <3>2. /\ GoodRows(new) /\ new[req.by] = row
          /\ \A a \in Admins : a # req.by => new[a] = rows[a]
      BY <1>3, <1>5, <1>6, OneRowChanged
    <3>3. rs = new
      BY <3>1
    <3> HIDE DEF new
    <3>4. QED
      BY <3>2, <3>3
  <2>2. CASE ~req.joins
    BY <1>5, <2>2
  <2>3. QED
    BY <1>3, <2>1, <2>2
<1> HIDE DEF t, row, rs
<1>8. \A a \in Admins : Owns(rows, a) => Owns(rs, a)
  BY <1>6, <1>7 DEF Owns
<1>9. revived' \in BOOLEAN /\ (revived => revived')
  BY <1>1 DEF OwnershipInv, TicketsTypeOK
<1>10. r \notin behind /\ ~overtaken /\ ~revived' /\ rows' = rs =>
         \A a \in Admins : Owns(rs, a) <=> t.assignedTo = a
  <2> SUFFICES ASSUME r \notin behind, ~overtaken, ~revived', rows' = rs, NEW a \in Admins
               PROVE  Owns(rs, a) <=> t.assignedTo = a
    OBVIOUS
  <2>1. ~revived /\ (old.role = "assignee" => rs = rows)
    BY <1>1
  <2>2. Owns(rs, a) <=> Owns(rows, a)
    BY <1>6, <1>7, <2>1 DEF Owns
  <2>3. QED
    BY <1>4, <2>1, <2>2 DEF OwnershipInv, CopiesAgree, AssignedToTheAssignee
<1>11. OwnershipInv'
  BY <1>1, <1>2, <1>4, <1>7, <1>9, <1>10, TransactionKeeps
<1>12. EndedByRight
  BY <1>1, <1>2, <1>8, CommitEnds
<1>13. QED
  BY <1>11, <1>12

LEMMA MessageCommits ==
  ASSUME OwnershipInv, NEW r \in Requests, CommitMessage(r)
  PROVE  OwnershipInv' /\ EndedByRight
<1> DEFINE req == request[r]
           t == [ticket EXCEPT !.status = req.status]
<1>1. Transaction(r, t, rows) /\ revived' = revived
  BY DEF CommitMessage
<1>2. req \in Messages /\ req # NoOperation
  BY HandlerOfRequest DEF CommitMessage, OwnershipInv, TicketsTypeOK, NoOperation
<1>3. t \in TicketRows /\ t.status # "absent" /\ t.assignedTo = ticket.assignedTo
  BY <1>2, RowsAreGood, TicketIsThere DEF TicketRows, Messages
<1>4. GoodRows(rows) /\ revived' \in BOOLEAN
  BY <1>1, RowsAreGood DEF OwnershipInv, TicketsTypeOK
<1> HIDE DEF t
<1>5. ~overtaken /\ ~revived => \A a \in Admins : Owns(rows, a) <=> t.assignedTo = a
  BY <1>3 DEF OwnershipInv, CopiesAgree, AssignedToTheAssignee
<1>6. OwnershipInv'
  BY <1>1, <1>2, <1>3, <1>4, <1>5, TransactionKeeps
<1>7. EndedByRight
  BY <1>1, <1>2, CommitEnds
<1>8. QED
  BY <1>6, <1>7

-----------------------------------------------------------------------------
(* The specification.                                                      *)

LEMMA StartsOwned ==
  ASSUME TicketsInit
  PROVE  OwnershipInv
<1> USE DEF TicketsInit
<1>1. /\ ticket = [status |-> "absent", assignedTo |-> Nobody]
      /\ \A a \in Admins : rows[a] = NoRow
      /\ \A r \in Requests : request[r] = NoOperation
  OBVIOUS
<1>2. NoRow.status = "none" /\ NoRow.role = "none" /\ NoOperation.does = "nothing"
  BY DEF NoRow, NoOperation
<1>3. NoRow # Member("assignee", "active")
  BY DEF NoRow, Member
<1>4. TicketsTypeOK
  <2>1. ticket \in TicketRows
    BY <1>1 DEF TicketRows
  <2>2. rows \in [Admins -> ParticipantRows] /\ IndexAllows(rows)
    BY <1>1, <1>3 DEF ParticipantRows, IndexAllows, Owns
  <2>3. begun \in 0..MaxRequests
    BY TicketsAssumption
  <2>4. request \in [Requests -> {NoOperation} \cup RequestRecords]
    OBVIOUS
  <2>5. behind \subseteq Requests /\ overtaken \in BOOLEAN /\ revived \in BOOLEAN
    OBVIOUS
  <2> HIDE DEF TicketsInit
  <2>6. QED
    BY <2>1, <2>2, <2>3, <2>4, <2>5 DEF TicketsTypeOK
<1>5. InvitedToCollaborate
  BY <1>1, <1>2 DEF InvitedToCollaborate
<1>6. Current /\ OwnRow /\ Authority /\ BeforeTheTicket
  BY <1>1, <1>2 DEF Current, OwnRow, Authority, BeforeTheTicket
<1>7. CopiesAgree
  BY <1>1, <1>3, TicketsAssumption DEF CopiesAgree, AssignedToTheAssignee, Owns
<1>8. QED
  BY <1>4, <1>5, <1>6, <1>7 DEF OwnershipInv

\* The ticket is born with the two copies in agreement.
LEMMA TicketIsCreated ==
  ASSUME OwnershipInv, CreateTicket
  PROVE  OwnershipInv' /\ (overtaken \/ revived \/ EndedByRight)
<1>1. PICK a \in Admins \cup {Nobody} :
        /\ ticket' = [status |-> "open", assignedTo |-> a]
        /\ rows' = [b \in Admins |-> IF b = a THEN Member("assignee", "active") ELSE NoRow]
  BY DEF CreateTicket, Admins
<1>2. /\ UNCHANGED <<request, behind, overtaken, revived, begun>>
      /\ ticket.assignedTo = Nobody /\ \A r \in Requests : request[r] = NoOperation
  BY DEF CreateTicket, OwnershipInv, BeforeTheTicket
<1>3. /\ Member("assignee", "active") \in ParticipantRows
      /\ Member("assignee", "active").status = "active"
  BY MembersAreRows
<1>4. NoRow \in ParticipantRows /\ NoRow.status = "none" /\ NoRow # Member("assignee", "active")
  BY DEF NoRow, ParticipantRows, Member
<1>5. \A b \in Admins : rows'[b] = IF b = a THEN Member("assignee", "active") ELSE NoRow
  BY <1>1
<1>6. \A b \in Admins : rows'[b] = Member("assignee", "active") <=> b = a
  BY <1>4, <1>5
<1>7. TicketsTypeOK'
  <2>1. ticket' \in TicketRows
    BY <1>1 DEF TicketRows, Statuses
  <2>2. rows' \in [Admins -> ParticipantRows]
    BY <1>1, <1>3, <1>4
  <2>3. IndexAllows(rows')
    BY <1>6 DEF IndexAllows, Owns
  <2>4. QED
    BY <1>2, <2>1, <2>2, <2>3 DEF OwnershipInv, TicketsTypeOK, IndexAllows, Owns
<1>8. InvitedToCollaborate'
  BY <1>3, <1>4, <1>5 DEF InvitedToCollaborate
<1>9. Current' /\ OwnRow' /\ Authority'
  <2>1. NoOperation.does = "nothing"
    BY DEF NoOperation
  <2>2. QED
    BY <1>2, <2>1 DEF Current, OwnRow, Authority
<1>10. CopiesAgree'
  BY <1>1, <1>6 DEF CopiesAgree, AssignedToTheAssignee, Owns
<1>11. BeforeTheTicket'
  BY <1>1 DEF BeforeTheTicket
<1>12. overtaken \/ revived \/ EndedByRight
  BY <1>2, TicketsAssumption DEF OwnershipInv, CopiesAgree, AssignedToTheAssignee, EndedByRight
<1>13. QED
  BY <1>7, <1>8, <1>9, <1>10, <1>11, <1>12 DEF OwnershipInv

\* A Begin touches no row.
LEMMA BeginsEndNothing ==
  ASSUME NEW r \in Requests,
         \/ BeginUpdate(r) \/ BeginInvite(r) \/ BeginAnswer(r) \/ BeginRemove(r)
         \/ BeginJoin(r) \/ BeginTakeOver(r) \/ BeginReply(r) \/ BeginMessage(r)
  PROVE  EndedByRight
<1>1. rows' = rows
  BY DEF BeginUpdate, BeginInvite, BeginAnswer, BeginRemove, BeginJoin, BeginTakeOver,
         BeginReply, BeginMessage, Begin
<1>2. QED
  BY <1>1 DEF EndedByRight, Owns

LEMMA StepsKeepOwnership ==
  ASSUME OwnershipInv, [TicketsNext]_ticketVars
  PROVE  OwnershipInv' /\ (overtaken \/ revived \/ EndedByRight)
<1>1. CASE CreateTicket
  BY <1>1, TicketIsCreated
<1>2. ASSUME NEW r \in Requests,
             \/ BeginUpdate(r) \/ BeginInvite(r) \/ BeginAnswer(r) \/ BeginRemove(r)
             \/ BeginJoin(r) \/ BeginTakeOver(r) \/ BeginReply(r) \/ BeginMessage(r)
      PROVE  OwnershipInv' /\ EndedByRight
  BY <1>2, BeginsEndNothing, UpdateBegins, TakeOverBegins, ParticipantBegins, MessageBegins
<1>3. ASSUME NEW r \in Requests, CommitUpdate(r)
      PROVE  OwnershipInv' /\ (overtaken \/ revived \/ EndedByRight)
  BY <1>3, CascadeCommits, UpdateCommits
<1>4. ASSUME NEW r \in Requests,
             \/ CommitParticipant(r) \/ CommitTakeOver(r) \/ CommitReply(r) \/ CommitMessage(r)
      PROVE  OwnershipInv' /\ EndedByRight
  BY <1>4, ParticipantCommits, TakeOverCommits, ReplyCommits, MessageCommits
<1>5. CASE UNCHANGED ticketVars
  <2> USE <1>5 DEF ticketVars
  <2>1. EndedByRight
    BY DEF EndedByRight, Owns
  <2>2. TicketsTypeOK' /\ InvitedToCollaborate' /\ BeforeTheTicket' /\ OwnRow'
    BY DEF OwnershipInv, TicketsTypeOK, InvitedToCollaborate, BeforeTheTicket, OwnRow,
           IndexAllows, Owns
  <2>3. Current' /\ CopiesAgree' /\ Authority'
    BY DEF OwnershipInv, Current, StillRight, CopiesAgree, AssignedToTheAssignee, Owns,
           Authority, Changes
  <2>4. QED
    BY <2>1, <2>2, <2>3 DEF OwnershipInv
<1>6. QED
  BY <1>1, <1>2, <1>3, <1>4, <1>5 DEF TicketsNext

LEMMA TicketsInvariant == TicketsSpec => []OwnershipInv
<1>1. TicketsInit => OwnershipInv
  BY StartsOwned
<1>2. OwnershipInv /\ [TicketsNext]_ticketVars => OwnershipInv'
  BY StepsKeepOwnership
<1>3. QED
  BY <1>1, <1>2, PTL DEF TicketsSpec

\* Every row and every request in flight is well formed, and at most one admin is the
\* active assignee, whatever the requests and their interleaving.
THEOREM TicketTypes == TicketsSpec => []TicketsTypeOK
<1>1. OwnershipInv => TicketsTypeOK
  BY DEF OwnershipInv
<1>2. QED
  BY <1>1, TicketsInvariant, PTL

\* assigned_to and the active assignee row name the same admin, or both nobody, until a
\* request commits over a change it has not seen or a reply revives an old assignee row.
THEOREM OwnershipAgrees == TicketsSpec => []CopiesAgree
<1>1. OwnershipInv => CopiesAgree
  BY DEF OwnershipInv
<1>2. QED
  BY <1>1, TicketsInvariant, PTL

\* An assignee loses the ticket by a request of their own or of a superadmin, or by an
\* overtaken invitation or removal of theirs.
THEOREM AssigneesKeepTheirTicket == TicketsSpec => OwnersAreNotDisplaced
<1>1. OwnershipInv /\ [TicketsNext]_ticketVars => [overtaken \/ revived \/ EndedByRight]_ticketVars
  BY StepsKeepOwnership
<1>2. QED
  BY <1>1, TicketsInvariant, PTL DEF TicketsSpec, OwnersAreNotDisplaced
=============================================================================
