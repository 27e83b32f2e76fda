------------------------------ MODULE Tickets ------------------------------
(***************************************************************************)
(* Who owns a support ticket (server/handlers/tickets.ts, firm-tickets.ts, *)
(* lib/ticket).  Ownership is written twice: tickets.assigned_to, and the  *)
(* participant row with role assignee and status active, of which a        *)
(* partial unique index allows one per ticket.                             *)
(*                                                                         *)
(* Every handler reads the ticket and the rows it needs, checks its        *)
(* permissions, and only then opens the transaction that writes; nothing   *)
(* is locked in between.  A request is therefore two steps: a Begin, which *)
(* keeps what the handler read, and a Commit.                              *)
(*                                                                         *)
(* Left out: priority, the two timestamps of the ticket, mutes,            *)
(* notifications, the rate limits, the messages themselves and their edit  *)
(* lock, and the audit rows.                                               *)
(***************************************************************************)
EXTENDS FiniteSets, Integers

CONSTANTS
  Superadmins, Staff, Support,  \* the admins of each role, highest first
  Nobody,                       \* assigned_to IS NULL
  Requests,                     \* the requests in flight at once
  MaxRequests,                  \* bound: the requests of a behaviour
  Operations,                   \* the handlers that are called
  NewStatuses                   \* the statuses a PATCH may ask for

VARIABLES
  ticket,     \* the row of tickets: status and assignedTo
  rows,       \* the rows of ticket_participants, by admin
  request,    \* what each request read and is about to write
  behind,     \* history: requests whose reading another commit has outdated
  overtaken,  \* history: such a request has committed
  revived,    \* history: a reply has revived the row of a former assignee
  begun       \* the number of requests so far

ticketVars == <<ticket, rows, request, behind, overtaken, revived, begun>>

Admins == Superadmins \cup Staff \cup Support
Rank(a) == IF a \in Superadmins THEN 2 ELSE IF a \in Staff THEN 1 ELSE 0

Statuses == {"open", "in_progress", "waiting_customer", "resolved", "closed"}
TerminalTicketStatuses == {"resolved", "closed"}
AsIs == "as it is"    \* a field the PATCH does not carry

\* The names are apart, and the statuses are statuses.
ASSUME TicketsAssumption ==
  /\ Nobody \notin Admins
  /\ AsIs \notin Admins \cup {Nobody}
  /\ NewStatuses \subseteq Statuses
  /\ MaxRequests \in Nat

NoOperation == [does |-> "nothing"]
NoRow == [role |-> "none", status |-> "none"]
Member(role, status) == [role |-> role, status |-> status]

Owns(rs, a) == rs[a] = Member("assignee", "active")
IsActive(a) == rows[a].status = "active"

-----------------------------------------------------------------------------
(* The permission matrix, canPerformTicketAction.                          *)

CanRead(a) ==
  a \in Superadmins \/ rows[a].status \in {"active", "pending"} \/ ticket.assignedTo = Nobody

CanPost(a) == ticket.status \notin TerminalTicketStatuses /\ (a \in Superadmins \/ IsActive(a))

\* Status, assignment and participants are the assignee's, or a superadmin's.
CanManage(a) == a \in Superadmins \/ Owns(rows, a)

-----------------------------------------------------------------------------
TicketsInit ==
  /\ ticket = [status |-> "absent", assignedTo |-> Nobody]
  /\ rows = [a \in Admins |-> NoRow]
  /\ request = [r \in Requests |-> NoOperation]
  /\ behind = {} /\ overtaken = FALSE /\ revived = FALSE
  /\ begun = 0

\* A customer's ticket is handed to an admin of the pool when it asks for support;
\* otherwise, and for a firm's ticket, it waits for somebody to claim it.
CreateTicket ==
  /\ ticket.status = "absent"
  /\ \E a \in Staff \cup Support \cup {Nobody} :
       /\ ticket' = [status |-> "open", assignedTo |-> a]
       /\ rows' = [b \in Admins |-> IF b = a THEN Member("assignee", "active") ELSE NoRow]
  /\ UNCHANGED <<request, behind, overtaken, revived, begun>>

\* A handler has passed its checks and holds in req what it read.
Begin(r, req) ==
  /\ req.does \in Operations
  /\ ticket.status # "absent" /\ request[r] = NoOperation /\ begun < MaxRequests
  /\ request' = [request EXCEPT ![r] = req]
  /\ begun' = begun + 1
  /\ UNCHANGED <<ticket, rows, behind, overtaken, revived>>

\* ticket_participants_active_assignee_key.
IndexAllows(rs) == \A a, b \in Admins : Owns(rs, a) /\ Owns(rs, b) => a = b

\* The transaction of r would write t and rs; if the index refuses them it is rolled
\* back and the request ends in an error.
Transaction(r, t, rs) ==
  LET written == IndexAllows(rs) /\ <<t, rs>> # <<ticket, rows>> IN
  /\ ticket' = IF written THEN t ELSE ticket
  /\ rows' = IF written THEN rs ELSE rows
  /\ request' = [request EXCEPT ![r] = NoOperation]
  /\ behind' = (IF written THEN {q \in Requests : request[q] # NoOperation} ELSE behind) \ {r}
  /\ overtaken' = (overtaken \/ (written /\ r \in behind))
  /\ UNCHANGED begun

-----------------------------------------------------------------------------
(* PATCH of a ticket: status and assignee.                                 *)

Reassigns(to) == to \notin {AsIs, ticket.assignedTo}
SelfClaim(a, to) == Reassigns(to) /\ ticket.assignedTo = Nobody /\ to = a

\* handleUpdateAdminTicket up to its transaction.
BeginUpdate(r) ==
  \E a \in Admins, to \in Admins \cup {Nobody, AsIs}, status \in NewStatuses \cup {AsIs},
     keep \in BOOLEAN :
    /\ CanRead(a)
    /\ status \notin {AsIs, ticket.status} => CanManage(a)
    /\ Reassigns(to) /\ ~SelfClaim(a, to) => CanManage(a)
    /\ SelfClaim(a, to) => /\ rows[a].status # "pending"
                           /\ ticket.status \in TerminalTicketStatuses => a \in Superadmins
    /\ Reassigns(to) /\ to \in Admins \ {a} => a \in Superadmins \/ Rank(a) >= Rank(to)
    \* Only a transfer from one admin to another may keep the former assignee.
    /\ keep => Reassigns(to) /\ to # Nobody /\ ticket.assignedTo # Nobody
    /\ Begin(r, [does |-> "update", by |-> a, to |-> to, status |-> status, keep |-> keep,
                 saw |-> ticket])

Changes(req) == req.to \notin {AsIs, req.saw.assignedTo}

\* shouldCascade: a ticket reopened with no assignee looks for one.
Cascades(req) ==
  /\ req.saw.status \in TerminalTicketStatuses /\ req.status \in {"open", "in_progress"}
  /\ req.to = AsIs /\ req.saw.assignedTo = Nobody

\* Whom the cascade picks when the admins in locked are locked out: an assignee row
\* left over, else an active participant of the lowest rank (the one invited first,
\* which is any of them here), else nobody.
Successors(locked) ==
  LET owners == {a \in Admins \ locked : Owns(rows, a)}
      active == {a \in Admins \ locked : IsActive(a)} IN
  IF owners # {} THEN owners
  ELSE IF active # {} THEN {a \in active : \A b \in active : Rank(a) <= Rank(b)}
  ELSE {Nobody}

\* A mutant: whoever is the active assignee is released.
ReleasedAnyone(who, keep) ==
  IF who = Nobody THEN rows
  ELSE [a \in Admins |-> IF ~Owns(rows, a) THEN rows[a]
                         ELSE Member(IF keep THEN "collaborator" ELSE "assignee",
                                     IF keep THEN "active" ELSE "removed")]

\* The row of the assignee who was read, demoted or removed; nothing if that admin is
\* the active assignee no more.
Released(who, keep) ==
  IF who = Nobody \/ ~Owns(rows, who) THEN rows
  ELSE [rows EXCEPT ![who] = IF keep THEN Member("collaborator", "active")
                             ELSE Member("assignee", "removed")]

Installed(rs, who) ==
  IF who = Nobody THEN rs ELSE [rs EXCEPT ![who] = Member("assignee", "active")]

CommitUpdate(r) ==
  LET req == request[r]
      status == IF req.status = AsIs THEN ticket.status ELSE req.status
      owner == IF req.to = AsIs THEN ticket.assignedTo ELSE req.to
      left == Released(req.saw.assignedTo, req.keep) IN
  /\ req.does = "update"
  /\ \/ /\ Cascades(req)
        /\ \E locked \in SUBSET Admins : \E heir \in Successors(locked) :
             Transaction(r, [status |-> status,
                             assignedTo |-> IF heir = Nobody THEN owner ELSE heir],
                         Installed(rows, heir))
     \/ /\ ~Cascades(req)
        /\ Transaction(r, [status |-> status, assignedTo |-> owner],
                       IF Changes(req) THEN Installed(left, req.to) ELSE rows)
  /\ UNCHANGED revived

-----------------------------------------------------------------------------
(* Participants.                                                           *)

\* handleInviteParticipant: a superadmin adds anyone, an assignee adds juniors and
\* invites peers; a row that is active or pending refuses.
BeginInvite(r) ==
  \E a \in Admins : \E b \in Admins \ {a} :
    /\ CanManage(a)
    /\ a \in Superadmins \/ Rank(b) <= Rank(a)
    /\ rows[b].status \notin {"active", "pending"}
    /\ Begin(r, [does |-> "invite", by |-> a, target |-> b,
                 status |-> IF a \in Superadmins \/ Rank(a) > Rank(b) THEN "active"
                            ELSE "pending"])

\* handleAcceptParticipantInvite, handleDeclineParticipantInvite, and the expiry that
\* either finds instead: all write where the row is still pending.
BeginAnswer(r) ==
  \E a \in Admins, answer \in {"active", "declined", "removed"} :
    /\ rows[a].status = "pending"
    /\ Begin(r, [does |-> "answer", by |-> a, target |-> a, status |-> answer])

\* A mutant: the assignee can be removed too.
RemovableAny(row) == row.status \in {"active", "pending"}

\* handleRemoveParticipant: leaving, removing another, rescinding an invitation.
Removable(row) == row.status \in {"active", "pending"} /\ row.role # "assignee"

BeginRemove(r) ==
  \E a \in Admins, b \in Admins :
    /\ CanRead(a) /\ Removable(rows[b])
    /\ IF a = b THEN IsActive(a)
       ELSE CanManage(a) /\ (a \in Superadmins \/ Rank(b) <= Rank(a))
    /\ Begin(r, [does |-> "remove", by |-> a, target |-> b, was |-> rows[b].status])

\* handleSuperadminJoinAsCollab.
BeginJoin(r) ==
  \E a \in Superadmins :
    /\ ticket.status \notin TerminalTicketStatuses /\ ~IsActive(a)
    /\ Begin(r, [does |-> "join", by |-> a, target |-> a, status |-> "active"])

CommitParticipant(r) ==
  LET req == request[r]
      row == rows[req.target] IN
  /\ req.does \in {"invite", "answer", "remove", "join"}
  /\ Transaction(r, ticket,
       [rows EXCEPT ![req.target] =
          CASE req.does \in {"invite", "join"} -> Member("collaborator", req.status)
            [] req.does = "answer" ->
                 IF row.status = "pending" THEN Member(row.role, req.status) ELSE row
            [] req.does = "remove" ->
                 IF row.status = req.was THEN Member(row.role, "removed") ELSE row])
  /\ UNCHANGED revived

-----------------------------------------------------------------------------
\* handleTakeOverTicket: a superadmin displaces whoever owns a live ticket.
BeginTakeOver(r) ==
  \E a \in Superadmins, keep \in BOOLEAN :
    /\ ticket.status \notin TerminalTicketStatuses /\ ticket.assignedTo # a
    /\ Begin(r, [does |-> "takeOver", by |-> a, keep |-> keep, saw |-> ticket])

CommitTakeOver(r) ==
  LET req == request[r] IN
  /\ req.does = "takeOver"
  /\ Transaction(r, [ticket EXCEPT !.assignedTo = req.by],
                 Installed(Released(req.saw.assignedTo, req.keep), req.by))
  /\ UNCHANGED revived

-----------------------------------------------------------------------------
(* Messages: each writes back a status computed from the one it read.      *)

\* handleAddAdminMessage: a superadmin who is no active participant joins on the way.
BeginReply(r) ==
  \E a \in Admins, internal \in BOOLEAN :
    /\ CanPost(a)
    /\ Begin(r, [does |-> "reply", by |-> a, joins |-> a \in Superadmins /\ ~IsActive(a),
                 status |-> IF ~internal /\ ticket.status \in {"open", "in_progress"}
                            THEN "waiting_customer" ELSE ticket.status])

\* The upsert of the reply keeps the role of a row that exists.
Joined(row) == IF row = NoRow THEN Member("collaborator", "active") ELSE Member(row.role, "active")

CommitReply(r) ==
  LET req == request[r] IN
  /\ req.does = "reply"
  /\ Transaction(r, [ticket EXCEPT !.status = req.status],
       IF req.joins THEN [rows EXCEPT ![req.by] = Joined(rows[req.by])] ELSE rows)
  /\ revived' = (revived \/ (rows # rows' /\ rows[req.by].role = "assignee"))

\* handleAddCustomerMessage, handleAddFirmMessage.
BeginMessage(r) ==
  /\ ticket.status \notin TerminalTicketStatuses
  /\ Begin(r, [does |-> "message", by |-> Nobody,
               status |-> IF ticket.status = "waiting_customer" THEN "in_progress"
                          ELSE ticket.status])

CommitMessage(r) ==
  /\ request[r].does = "message"
  /\ Transaction(r, [ticket EXCEPT !.status = request[r].status], rows)
  /\ UNCHANGED revived

-----------------------------------------------------------------------------
TicketsNext ==
  \/ CreateTicket
  \/ \E r \in Requests :
       \/ BeginUpdate(r) \/ CommitUpdate(r)
       \/ BeginInvite(r) \/ BeginAnswer(r) \/ BeginRemove(r) \/ BeginJoin(r)
       \/ CommitParticipant(r)
       \/ BeginTakeOver(r) \/ CommitTakeOver(r)
       \/ BeginReply(r) \/ CommitReply(r)
       \/ BeginMessage(r) \/ CommitMessage(r)

TicketsSpec == TicketsInit /\ [][TicketsNext]_ticketVars

-----------------------------------------------------------------------------
TicketRows == [status : Statuses \cup {"absent"}, assignedTo : Admins \cup {Nobody}]
ParticipantRows == {NoRow} \cup [role : {"assignee", "collaborator"},
                                 status : {"pending", "active", "declined", "removed"}]
\* What each handler keeps between its two steps.
RequestRecords ==
  [does : {"update"}, by : Admins, to : Admins \cup {Nobody, AsIs},
   status : NewStatuses \cup {AsIs}, keep : BOOLEAN, saw : TicketRows]
  \cup [does : {"takeOver"}, by : Superadmins, keep : BOOLEAN, saw : TicketRows]
  \cup [does : {"invite"}, by : Admins, target : Admins, status : {"active", "pending"}]
  \cup [does : {"answer"}, by : Admins, target : Admins,
        status : {"active", "declined", "removed"}]
  \cup [does : {"join"}, by : Admins, target : Admins, status : {"active"}]
  \cup [does : {"remove"}, by : Admins, target : Admins, was : {"active", "pending"}]
  \cup [does : {"reply"}, by : Admins, joins : BOOLEAN, status : Statuses]
  \cup [does : {"message"}, by : {Nobody}, status : Statuses]

\* Types, and the two indexes: one row per admin, one active assignee.
TicketsTypeOK ==
  /\ ticket \in TicketRows
  /\ rows \in [Admins -> ParticipantRows]
  /\ IndexAllows(rows)
  /\ request \in [Requests -> {NoOperation} \cup RequestRecords]
  /\ behind \subseteq Requests
  /\ overtaken \in BOOLEAN /\ revived \in BOOLEAN
  /\ begun \in 0..MaxRequests

\* assigned_to points at the active assignee's row, and at nobody when there is none.
\* This is what the comment over the transaction promises: "Doing both in one
\* transaction guarantees the two never diverge" (tickets.ts, handleUpdateAdminTicket).
AssignedToTheAssignee == \A a \in Admins : Owns(rows, a) <=> ticket.assignedTo = a

\* The two copies of the ownership agree through every sequence of requests, until a
\* request commits over a change it has not seen, or a superadmin who gave the ticket
\* up replies to it (the reply makes the old assignee row active again).
CopiesAgree == overtaken \/ revived \/ AssignedToTheAssignee

\* Who may end an assignment; see OwnersAreNotDisplaced.
EndedByRight ==
  \A a \in Admins : Owns(rows, a) /\ ~Owns(rows', a) =>
    \E r \in Requests :
      /\ request[r] # NoOperation /\ request'[r] = NoOperation
      /\ \/ request[r].by \in Superadmins \cup {a}
         \/ request[r].does \in {"invite", "remove"} /\ r \in behind

\* As long as the two copies agree, an assignee loses the ticket by a request of their
\* own or of a superadmin, also when the request commits over changes it has not seen:
\* a claim, a transfer or a take-over computed from a stale reading displaces nobody
\* else, because it releases only the row it read and the index refuses a second
\* assignee.  Only an invitation or a removal of the same admin can, when it was
\* overtaken, since those write the row whatever its role has become.
OwnersAreNotDisplaced == [][overtaken \/ revived \/ EndedByRight]_ticketVars
=============================================================================
