------------------------------ MODULE OauthProofs ------------------------------
(***************************************************************************)
(* For any number of customers, requests and HTTP calls: the type          *)
(* invariant of OauthFlow, what its runs check of requests, codes, tokens, *)
(* consents and grants, and that the tables, with every call in the middle *)
(* of them, implement AuthorizationGrants.                                 *)
(*                                                                         *)
(* The argument: rows are appended and stamped, never taken back or        *)
(* re-addressed (Lasting), so what a call has read of a row's owner stays  *)
(* true while it is in flight; what can change under it, the burn of its   *)
(* code and the revocation of its consent, is excluded by the row lock or  *)
(* recorded in overtaken (Fits).  A request's stage is read off its row    *)
(* and off the tokens of its codes (StageOf); it moves with the decision,  *)
(* which only the owner's call reaches (DecidedByOwner), with the token    *)
(* and with the revocation, and every other step is a stutter.             *)
(***************************************************************************)
EXTENDS OauthFlow, TableRows, TLAPS

ConsentRows == [user : Users, scope : Scopes, revoked : BOOLEAN, expired : BOOLEAN]
CodeRows == [request : Requests, user : Users, scope : Scopes, used : BOOLEAN,
             expired : BOOLEAN, replayed : BOOLEAN]
TokenRows == [code : Nat, user : Users, consent : Nat, revoked : BOOLEAN]
RequestRows == [made : BOOLEAN, user : Users \cup {NoUser}, scope : Scopes \cup {"none"},
                outcome : {"none", "approved", "rejected"}, expired : BOOLEAN]
CallRows ==
  [pc : {"idle", "attach", "gate", "reject", "approve", "handover", "reuse", "burn", "insert"},
   user : Users \cup {NoUser}, request : Requests \cup {NoRequest},
   act : {"none", "view", "reject", "approve"}, code : Nat, consent : Nat]
GrantRows == [status : {"absent", "pending", "failed", "granted"}, min : Levels,
              attempts : 0..MaxAttempts]

RowTypes ==
  /\ clientRevoked \in BOOLEAN
  /\ req \in [Requests -> RequestRows]
  /\ consents \in Seq(ConsentRows) /\ codes \in Seq(CodeRows) /\ tokens \in Seq(TokenRows)
  /\ call \in [Calls -> CallRows]
  /\ overtaken \subseteq DOMAIN consents
  /\ grants \in [Users -> GrantRows]
  /\ batch \in [Users -> Levels] /\ verdict \in [Users -> Levels]

\* A request nobody has made belongs to nobody and is undecided.
RequestsFit ==
  \A r \in Requests :
    /\ req[r].made => req[r].scope \in Scopes
    /\ ~req[r].made => req[r].user = NoUser /\ req[r].outcome = "none"

\* A code is what its request was approved for.
CodesFit ==
  \A c \in DOMAIN codes :
    /\ req[codes[c].request].made
    /\ req[codes[c].request].user = codes[c].user
    /\ req[codes[c].request].scope = codes[c].scope
    /\ codes[c].replayed => codes[c].used

\* A token's code is burnt, and is its consent's in customer and scope.
TokensFit ==
  \A t \in DOMAIN tokens :
    /\ tokens[t].code \in DOMAIN codes /\ tokens[t].consent \in DOMAIN consents
    /\ codes[tokens[t].code].used
    /\ tokens[t].user = codes[tokens[t].code].user
    /\ consents[tokens[t].consent].user = tokens[t].user
    /\ consents[tokens[t].consent].scope = codes[tokens[t].code].scope

Consented(u, m) ==
  \E i \in DOMAIN consents : consents[i].user = u /\ MinLevel(consents[i].scope) = m

\* What a call in flight has read and may still rely on.
Fits(d) ==
  /\ call[d].pc \in {"attach", "gate", "reject", "approve", "handover"} =>
       call[d].request \in Requests /\ call[d].user \in Users /\ req[call[d].request].made
  /\ call[d].pc \in {"gate", "reject", "approve", "handover"} =>
       req[call[d].request].user = call[d].user
  /\ call[d].pc = "attach" => call[d].act # "none"
  /\ call[d].pc = "gate" => call[d].act \in {"reject", "approve"}
  /\ call[d].pc = "handover" => Consented(call[d].user, MinLevel(req[call[d].request].scope))
  /\ call[d].pc \in {"reuse", "burn", "insert"} => call[d].code \in DOMAIN codes
  /\ call[d].pc = "reuse" => codes[call[d].code].used
  /\ call[d].pc = "insert" =>
       /\ call[d].consent \in DOMAIN consents
       /\ ~codes[call[d].code].used
       /\ consents[call[d].consent].user = codes[call[d].code].user
       /\ consents[call[d].consent].scope = codes[call[d].code].scope
       /\ consents[call[d].consent].revoked => call[d].consent \in overtaken

CallsFit ==
  /\ \A d \in Calls :
       /\ Fits(d)
       /\ call[d].code \in DOMAIN codes \cup {0} /\ call[d].consent \in DOMAIN consents \cup {0}
  /\ \A d, e \in Calls :
       call[d].pc = "insert" /\ call[e].pc = "insert" /\ call[d].code = call[e].code => d = e

\* What the worker's rows, its snapshot and the chain hold was consented to.
GrantsFit ==
  \A u \in Users :
    /\ grants[u].status # "absent" => Consented(u, grants[u].min)
    /\ batch[u] # "none" => /\ Consented(u, batch[u])
                            /\ grants[u].status # "absent" /\ grants[u].attempts < MaxAttempts
    /\ verdict[u] # "none" => Consented(u, verdict[u])

Tables ==
  /\ RequestsFit /\ CodesFit /\ TokensFit
  /\ OneOutcomePerRequest /\ OneTokenPerCode /\ ReusedCodeIsWorthless /\ LiveTokenHasConsent

OauthInv == RowTypes /\ Tables /\ CallsFit /\ GrantsFit

-----------------------------------------------------------------------------
(* What every step leaves of the tables.                                   *)

TableTypes ==
  /\ req \in [Requests -> RequestRows]
  /\ consents \in Seq(ConsentRows) /\ codes \in Seq(CodeRows) /\ tokens \in Seq(TokenRows)
  /\ overtaken \subseteq DOMAIN consents

RequestLasts(r) ==
  /\ req[r].made => req'[r].made /\ req'[r].scope = req[r].scope
  /\ req[r].user # NoUser => req'[r].user = req[r].user

ConsentsLast ==
  \A i \in DOMAIN consents :
    /\ i \in DOMAIN consents'
    /\ consents'[i].user = consents[i].user /\ consents'[i].scope = consents[i].scope

CodesLast ==
  \A c \in DOMAIN codes :
    /\ c \in DOMAIN codes'
    /\ codes'[c].request = codes[c].request
    /\ codes'[c].user = codes[c].user /\ codes'[c].scope = codes[c].scope
    /\ codes[c].used => codes'[c].used

Lasting == (\A r \in Requests : RequestLasts(r)) /\ ConsentsLast /\ CodesLast

LEMMA RowsAreTyped ==
  ASSUME RowTypes
  PROVE  /\ \A r \in Requests : req[r] \in RequestRows
         /\ \A i \in DOMAIN consents : consents[i] \in ConsentRows
         /\ \A c \in DOMAIN codes : codes[c] \in CodeRows
         /\ \A t \in DOMAIN tokens : tokens[t] \in TokenRows
         /\ \A d \in Calls : call[d] \in CallRows
         /\ DOMAIN consents = 1..Len(consents) /\ Len(consents) \in Nat
         /\ DOMAIN codes = 1..Len(codes) /\ Len(codes) \in Nat
         /\ DOMAIN tokens = 1..Len(tokens) /\ Len(tokens) \in Nat
<1>1. /\ consents \in Seq(ConsentRows) /\ codes \in Seq(CodeRows) /\ tokens \in Seq(TokenRows)
      /\ req \in [Requests -> RequestRows] /\ call \in [Calls -> CallRows]
  BY DEF RowTypes
<1>2. /\ consents \in [1..Len(consents) -> ConsentRows]
      /\ codes \in [1..Len(codes) -> CodeRows]
      /\ tokens \in [1..Len(tokens) -> TokenRows]
  BY <1>1, LenProperties
<1>3. Len(consents) \in Nat /\ Len(codes) \in Nat /\ Len(tokens) \in Nat
  BY <1>1, LenProperties
<1> QED
  BY <1>1, <1>2, <1>3

\* What was consented to stays so.
LEMMA ConsentStands ==
  ASSUME ConsentsLast, NEW u, NEW m, Consented(u, m)
  PROVE  Consented(u, m)'
BY DEF ConsentsLast, Consented

\* Outside the transaction that holds a code and a consent, neither changes
\* unnoticed.
Unspoilt(e) ==
  call[e].pc = "insert" =>
    /\ ~codes'[call[e].code].used
    /\ consents'[call[e].consent].revoked => call[e].consent \in overtaken'

\* A call that takes no step keeps what it relies on.
LEMMA CallStands ==
  ASSUME Lasting, NEW d \in Calls, Fits(d), Unspoilt(d), call'[d] = call[d]
  PROVE  Fits(d)'
<1>1. NoUser \notin Users
  BY OauthAssumption
<1>2. ASSUME call[d].pc \in {"attach", "gate", "reject", "approve", "handover"}
      PROVE  /\ call[d].request \in Requests /\ call[d].user \in Users
             /\ req'[call[d].request].made
             /\ req'[call[d].request].scope = req[call[d].request].scope
  BY <1>2 DEF Fits, Lasting, RequestLasts
<1>3. ASSUME call[d].pc \in {"gate", "reject", "approve", "handover"}
      PROVE  req'[call[d].request].user = call[d].user
  BY <1>1, <1>2, <1>3 DEF Fits, Lasting, RequestLasts
<1>4. ASSUME call[d].pc = "handover"
      PROVE  Consented(call[d].user, MinLevel(req[call[d].request].scope))'
  <2> DEFINE u == call[d].user  m == MinLevel(req[call[d].request].scope)
  <2>1. \E i \in DOMAIN consents : consents[i].user = u /\ MinLevel(consents[i].scope) = m
    BY <1>4 DEF Fits, Consented
  <2>2. \E i \in DOMAIN consents' : consents'[i].user = u /\ MinLevel(consents'[i].scope) = m
    BY <2>1 DEF Lasting, ConsentsLast
  <2>3. req'[call[d].request].scope = req[call[d].request].scope
    BY <1>2, <1>4
  <2> QED
    BY <2>2, <2>3 DEF Consented, MinLevel
<1>5. ASSUME call[d].pc \in {"reuse", "burn", "insert"}
      PROVE  /\ call[d].code \in DOMAIN codes /\ call[d].code \in DOMAIN codes'
             /\ codes'[call[d].code].user = codes[call[d].code].user
             /\ codes'[call[d].code].scope = codes[call[d].code].scope
             /\ codes[call[d].code].used => codes'[call[d].code].used
  BY <1>5 DEF Fits, Lasting, CodesLast
<1>6. ASSUME call[d].pc = "insert"
      PROVE  /\ call[d].consent \in DOMAIN consents'
             /\ ~codes'[call[d].code].used
             /\ consents'[call[d].consent].user = codes'[call[d].code].user
             /\ consents'[call[d].consent].scope = codes'[call[d].code].scope
             /\ consents'[call[d].consent].revoked => call[d].consent \in overtaken'
  BY <1>5, <1>6 DEF Fits, Lasting, ConsentsLast, Unspoilt
<1> QED
  BY <1>2, <1>3, <1>4, <1>5, <1>6 DEF Fits

-----------------------------------------------------------------------------
(* The four things that happen to the tables.                              *)

RequestFits(r) ==
  /\ req[r].made => req[r].scope \in Scopes
  /\ ~req[r].made => req[r].user = NoUser /\ req[r].outcome = "none"

\* Nothing but a request changes, and no request is approved.
QuietTables ==
  /\ consents' = consents /\ codes' = codes /\ tokens' = tokens /\ overtaken' = overtaken
  /\ req' \in [Requests -> RequestRows]
  /\ \A r \in Requests :
       /\ RequestLasts(r) /\ RequestFits(r)'
       /\ req'[r].outcome = "approved" <=> req[r].outcome = "approved"

LEMMA QuietStep ==
  ASSUME OauthInv, QuietTables
  PROVE  TableTypes' /\ Tables' /\ Lasting
<1>1. NoUser \notin Users
  BY OauthAssumption
<1>2. \A c \in DOMAIN codes : codes[c].request \in Requests /\ codes[c].user \in Users
  BY RowsAreTyped DEF OauthInv, CodeRows
<1>3. TableTypes'
  BY DEF OauthInv, RowTypes, TableTypes, QuietTables
<1>4. RequestsFit'
  BY DEF QuietTables, RequestsFit, RequestFits
<1>5. CodesFit'
  BY <1>1, <1>2 DEF OauthInv, Tables, CodesFit, QuietTables, RequestLasts
<1>6. TokensFit' /\ OneTokenPerCode' /\ ReusedCodeIsWorthless' /\ LiveTokenHasConsent'
  BY DEF OauthInv, Tables, TokensFit, OneTokenPerCode, ReusedCodeIsWorthless,
         LiveTokenHasConsent, QuietTables
<1>7. OneOutcomePerRequest'
  BY DEF OauthInv, Tables, OneOutcomePerRequest, QuietTables
<1>8. Lasting
  BY DEF QuietTables, Lasting, ConsentsLast, CodesLast
<1> QED
  BY <1>3, <1>4, <1>5, <1>6, <1>7, <1>8 DEF Tables

\* Rows are stamped revoked, expired or replayed; none comes or changes hands.
StampedTables ==
  /\ req' = req
  /\ consents' \in [DOMAIN consents -> ConsentRows]
  /\ codes' \in [DOMAIN codes -> CodeRows]
  /\ tokens' \in [DOMAIN tokens -> TokenRows]
  /\ overtaken \subseteq overtaken' /\ overtaken' \subseteq DOMAIN consents
  /\ \A i \in DOMAIN consents :
       consents'[i].user = consents[i].user /\ consents'[i].scope = consents[i].scope
  /\ \A c \in DOMAIN codes :
       /\ codes'[c].request = codes[c].request /\ codes'[c].used = codes[c].used
       /\ codes'[c].user = codes[c].user /\ codes'[c].scope = codes[c].scope
       /\ codes'[c].replayed => codes[c].used
  /\ \A t \in DOMAIN tokens :
       /\ tokens'[t].code = tokens[t].code /\ tokens'[t].user = tokens[t].user
       /\ tokens'[t].consent = tokens[t].consent
       /\ codes'[tokens[t].code].replayed => tokens'[t].revoked
       /\ ~tokens'[t].revoked =>
            ~consents'[tokens[t].consent].revoked \/ tokens[t].consent \in overtaken'

LEMMA StampedStep ==
  ASSUME OauthInv, StampedTables
  PROVE  TableTypes' /\ Tables' /\ Lasting
<1>1. consents \in Seq(ConsentRows) /\ codes \in Seq(CodeRows) /\ tokens \in Seq(TokenRows)
  BY DEF OauthInv, RowTypes
<1>2. /\ consents' \in Seq(ConsentRows) /\ DOMAIN consents' = DOMAIN consents
      /\ codes' \in Seq(CodeRows) /\ DOMAIN codes' = DOMAIN codes
      /\ tokens' \in Seq(TokenRows) /\ DOMAIN tokens' = DOMAIN tokens
  BY <1>1, RewrittenRows DEF StampedTables
<1>3. TableTypes'
  BY <1>2 DEF OauthInv, RowTypes, TableTypes, StampedTables
<1>4. RequestsFit' /\ CodesFit' /\ OneOutcomePerRequest'
  <2>1. RequestsFit'
    BY DEF OauthInv, Tables, RequestsFit, StampedTables
  <2>2. CodesFit'
    BY <1>2 DEF OauthInv, Tables, CodesFit, StampedTables
  <2>3. OneOutcomePerRequest'
    BY <1>2 DEF OauthInv, Tables, OneOutcomePerRequest, StampedTables
  <2> QED
    BY <2>1, <2>2, <2>3
<1>5. TokensFit'
  <2> SUFFICES ASSUME NEW t \in DOMAIN tokens
               PROVE  /\ tokens'[t].code \in DOMAIN codes' /\ tokens'[t].consent \in DOMAIN consents'
                      /\ codes'[tokens'[t].code].used
                      /\ tokens'[t].user = codes'[tokens'[t].code].user
                      /\ consents'[tokens'[t].consent].user = tokens'[t].user
                      /\ consents'[tokens'[t].consent].scope = codes'[tokens'[t].code].scope
    BY <1>2 DEF TokensFit
  <2> DEFINE c == tokens[t].code  i == tokens[t].consent
  <2>1. /\ c \in DOMAIN codes /\ i \in DOMAIN consents /\ codes[c].used
        /\ tokens[t].user = codes[c].user /\ consents[i].user = tokens[t].user
        /\ consents[i].scope = codes[c].scope
    BY DEF OauthInv, Tables, TokensFit
  <2>2. tokens'[t].code = c /\ tokens'[t].consent = i /\ tokens'[t].user = tokens[t].user
    BY DEF StampedTables
  <2>3. /\ codes'[c].used = codes[c].used /\ codes'[c].user = codes[c].user
        /\ codes'[c].scope = codes[c].scope
        /\ consents'[i].user = consents[i].user /\ consents'[i].scope = consents[i].scope
    BY <2>1 DEF StampedTables
  <2>4. /\ c \in DOMAIN codes' /\ i \in DOMAIN consents' /\ codes'[c].used
        /\ tokens'[t].user = codes'[c].user /\ consents'[i].user = tokens'[t].user
        /\ consents'[i].scope = codes'[c].scope
    BY <1>2, <2>1, <2>2, <2>3
  <2> QED
    BY <2>2, <2>4
<1>6. OneTokenPerCode' /\ ReusedCodeIsWorthless' /\ LiveTokenHasConsent'
  <2>1. \A t \in DOMAIN tokens :
          tokens'[t].code = tokens[t].code /\ tokens'[t].consent = tokens[t].consent
    BY DEF StampedTables
  <2>2. OneTokenPerCode'
    BY <1>2, <2>1 DEF OauthInv, Tables, OneTokenPerCode
  <2>3. ASSUME NEW t \in DOMAIN tokens
        PROVE  /\ codes'[tokens[t].code].replayed => tokens'[t].revoked
               /\ ~tokens'[t].revoked =>
                    ~consents'[tokens[t].consent].revoked \/ tokens[t].consent \in overtaken'
    BY DEF StampedTables
  <2>4. ReusedCodeIsWorthless'
    BY <1>2, <2>1, <2>3 DEF ReusedCodeIsWorthless
  <2>5. LiveTokenHasConsent'
    BY <1>2, <2>1, <2>3 DEF LiveTokenHasConsent
  <2> QED
    BY <2>2, <2>4, <2>5
<1>7. Lasting
  BY <1>2 DEF StampedTables, Lasting, RequestLasts, ConsentsLast, CodesLast
<1> QED
  BY <1>3, <1>4, <1>5, <1>6, <1>7 DEF Tables

\* A code that nobody has used is burnt for a token on a consent of its customer.
MintedTables(c, i) ==
  /\ c \in DOMAIN codes /\ ~codes[c].used
  /\ req' = req /\ overtaken' = overtaken
  /\ consents' \in Seq(ConsentRows) /\ i \in DOMAIN consents'
  /\ \A j \in DOMAIN consents : j \in DOMAIN consents' /\ consents'[j] = consents[j]
  /\ consents'[i].user = codes[c].user /\ consents'[i].scope = codes[c].scope
  /\ consents'[i].revoked => i \in overtaken
  /\ codes' = [codes EXCEPT ![c].used = TRUE]
  /\ tokens' = Append(tokens, NewToken(c, i))

LEMMA MintedStep ==
  ASSUME OauthInv, NEW c, NEW i, MintedTables(c, i)
  PROVE  TableTypes' /\ Tables' /\ Lasting
<1>1. /\ tokens \in Seq(TokenRows) /\ codes \in Seq(CodeRows)
      /\ consents' \in Seq(ConsentRows)
      /\ \A b \in DOMAIN codes : codes[b] \in CodeRows
      /\ \A t \in DOMAIN tokens : tokens[t] \in TokenRows
  BY RowsAreTyped DEF OauthInv, RowTypes, MintedTables
<1>2. c \in Nat /\ i \in Nat
  <2>1. DOMAIN consents' = 1..Len(consents') /\ Len(consents') \in Nat
    BY <1>1, LenProperties
  <2> QED
    BY <2>1, RowsAreTyped DEF OauthInv, MintedTables
<1>3. NewToken(c, i) \in TokenRows
  BY <1>1, <1>2 DEF NewToken, TokenRows, CodeRows, MintedTables
<1> DEFINE new == Len(tokens) + 1
<1>4. /\ tokens' \in Seq(TokenRows) /\ DOMAIN tokens' = DOMAIN tokens \cup {new}
      /\ tokens'[new] = NewToken(c, i)
      /\ \A t \in DOMAIN tokens : tokens'[t] = tokens[t] /\ t # new
  BY <1>1, <1>3, AppendedRows DEF MintedTables
<1>5. codes' \in [DOMAIN codes -> CodeRows]
  BY <1>1 DEF MintedTables, CodeRows
<1>6. codes' \in Seq(CodeRows) /\ DOMAIN codes' = DOMAIN codes
  BY <1>1, <1>5, RewrittenRows
<1>7. \A b \in DOMAIN codes :
        /\ codes'[b].request = codes[b].request /\ codes'[b].replayed = codes[b].replayed
        /\ codes'[b].user = codes[b].user /\ codes'[b].scope = codes[b].scope
        /\ codes'[b].used = (IF b = c THEN TRUE ELSE codes[b].used)
  BY <1>1 DEF MintedTables, CodeRows
<1>8. /\ tokens'[new].code = c /\ tokens'[new].user = codes[c].user
      /\ tokens'[new].consent = i /\ ~tokens'[new].revoked
  BY <1>4 DEF NewToken
<1>9. \A t \in DOMAIN tokens :
        /\ tokens[t].code \in DOMAIN codes /\ tokens[t].code # c
        /\ tokens[t].consent \in DOMAIN consents
  BY DEF OauthInv, Tables, TokensFit, MintedTables
<1>10. TableTypes'
  BY <1>4, <1>6 DEF OauthInv, RowTypes, TableTypes, MintedTables
<1>11. RequestsFit' /\ CodesFit' /\ OneOutcomePerRequest'
  BY <1>6, <1>7 DEF OauthInv, Tables, RequestsFit, CodesFit, OneOutcomePerRequest, MintedTables
<1>12. TokensFit'
  <2> SUFFICES ASSUME NEW t \in DOMAIN tokens'
               PROVE  /\ tokens'[t].code \in DOMAIN codes' /\ tokens'[t].consent \in DOMAIN consents'
                      /\ codes'[tokens'[t].code].used
                      /\ tokens'[t].user = codes'[tokens'[t].code].user
                      /\ consents'[tokens'[t].consent].user = tokens'[t].user
                      /\ consents'[tokens'[t].consent].scope = codes'[tokens'[t].code].scope
    BY DEF TokensFit
  <2>1. CASE t = new
    BY <1>6, <1>7, <1>8, <2>1 DEF MintedTables
  <2>2. CASE t \in DOMAIN tokens
    BY <1>4, <1>6, <1>7, <1>9, <2>2 DEF OauthInv, Tables, TokensFit, MintedTables
  <2> QED
    BY <1>4, <2>1, <2>2
<1>13. OneTokenPerCode'
  BY <1>4, <1>8, <1>9 DEF OauthInv, Tables, OneTokenPerCode
<1>14. ReusedCodeIsWorthless'
  <2> SUFFICES ASSUME NEW t \in DOMAIN tokens', codes'[tokens'[t].code].replayed
               PROVE  tokens'[t].revoked
    BY DEF ReusedCodeIsWorthless
  <2>1. t # new
    BY <1>7, <1>8 DEF OauthInv, Tables, CodesFit, MintedTables
  <2> QED
    BY <1>4, <1>7, <1>9, <2>1 DEF OauthInv, Tables, ReusedCodeIsWorthless
<1>15. LiveTokenHasConsent'
  <2> SUFFICES ASSUME NEW t \in DOMAIN tokens', ~tokens'[t].revoked
               PROVE  ~consents'[tokens'[t].consent].revoked \/ tokens'[t].consent \in overtaken'
    BY DEF LiveTokenHasConsent
  <2>1. CASE t = new
    BY <1>8, <2>1 DEF MintedTables
  <2>2. CASE t \in DOMAIN tokens
    BY <1>4, <1>9, <2>2 DEF OauthInv, Tables, LiveTokenHasConsent, MintedTables
  <2> QED
    BY <1>4, <2>1, <2>2
<1>16. Lasting
  BY <1>6, <1>7 DEF MintedTables, Lasting, RequestLasts, ConsentsLast, CodesLast
<1> QED
  BY <1>10, <1>11, <1>12, <1>13, <1>14, <1>15, <1>16 DEF Tables

\* An undecided request of the customer is approved and leaves a code.
ApprovedTables(r, u) ==
  /\ r \in Requests /\ u \in Users /\ req[r].made /\ req[r].user = u /\ req[r].outcome = "none"
  /\ req' = [req EXCEPT ![r].outcome = "approved"]
  /\ tokens' = tokens /\ overtaken' = overtaken
  /\ consents' \in Seq(ConsentRows)
  /\ \A j \in DOMAIN consents : j \in DOMAIN consents' /\ consents'[j] = consents[j]
  /\ codes' = Append(codes, NewCode(r, u))

LEMMA ApprovedStep ==
  ASSUME OauthInv, NEW r, NEW u, ApprovedTables(r, u)
  PROVE  TableTypes' /\ Tables' /\ Lasting
<1>1. /\ codes \in Seq(CodeRows) /\ req \in [Requests -> RequestRows]
      /\ \A q \in Requests : req[q] \in RequestRows
      /\ \A c \in DOMAIN codes : codes[c] \in CodeRows
      /\ req[r].scope \in Scopes
  BY RowsAreTyped DEF OauthInv, RowTypes, Tables, RequestsFit, ApprovedTables
<1>2. NewCode(r, u) \in CodeRows
  BY <1>1 DEF NewCode, CodeRows, ApprovedTables
<1> DEFINE new == Len(codes) + 1
<1>3. /\ codes' \in Seq(CodeRows) /\ DOMAIN codes' = DOMAIN codes \cup {new}
      /\ codes'[new] = NewCode(r, u)
      /\ \A c \in DOMAIN codes : codes'[c] = codes[c] /\ c # new
  BY <1>1, <1>2, AppendedRows DEF ApprovedTables
<1>4. /\ codes'[new].request = r /\ codes'[new].user = u /\ codes'[new].scope = req[r].scope
      /\ ~codes'[new].replayed
  BY <1>3 DEF NewCode
<1>5. /\ req' \in [Requests -> RequestRows]
      /\ \A q \in Requests :
           /\ req'[q].made = req[q].made /\ req'[q].user = req[q].user
           /\ req'[q].scope = req[q].scope
           /\ req'[q].outcome = (IF q = r THEN "approved" ELSE req[q].outcome)
  BY <1>1 DEF ApprovedTables, RequestRows
<1>6. \A c \in DOMAIN codes : codes[c].request \in Requests /\ codes[c].request # r
  BY <1>1 DEF OauthInv, Tables, OneOutcomePerRequest, ApprovedTables, CodeRows
<1>7. TableTypes'
  BY <1>3, <1>5 DEF OauthInv, RowTypes, TableTypes, ApprovedTables
<1>8. RequestsFit'
  BY <1>5 DEF OauthInv, Tables, RequestsFit, ApprovedTables
<1>9. CodesFit'
  <2> SUFFICES ASSUME NEW c \in DOMAIN codes'
               PROVE  /\ req'[codes'[c].request].made
                      /\ req'[codes'[c].request].user = codes'[c].user
                      /\ req'[codes'[c].request].scope = codes'[c].scope
                      /\ codes'[c].replayed => codes'[c].used
    BY DEF CodesFit
  <2>1. CASE c = new
    BY <1>4, <1>5, <2>1 DEF ApprovedTables
  <2>2. CASE c \in DOMAIN codes
    BY <1>3, <1>5, <1>6, <2>2 DEF OauthInv, Tables, CodesFit
  <2> QED
    BY <1>3, <2>1, <2>2
<1>10. \A t \in DOMAIN tokens :
         tokens[t].code \in DOMAIN codes /\ tokens[t].consent \in DOMAIN consents
  BY DEF OauthInv, Tables, TokensFit
<1>11. TokensFit' /\ OneTokenPerCode' /\ ReusedCodeIsWorthless' /\ LiveTokenHasConsent'
  BY <1>3, <1>10 DEF OauthInv, Tables, TokensFit, OneTokenPerCode, ReusedCodeIsWorthless,
                     LiveTokenHasConsent, ApprovedTables
<1>12. OneOutcomePerRequest'
  <2>1. \A c, d \in DOMAIN codes' : codes'[c].request = codes'[d].request => c = d
    BY <1>3, <1>4, <1>6 DEF OauthInv, Tables, OneOutcomePerRequest
  <2>2. \A q \in Requests :
          (req'[q].outcome = "approved") <=> (\E c \in DOMAIN codes' : codes'[c].request = q)
    BY <1>3, <1>4, <1>5 DEF OauthInv, Tables, OneOutcomePerRequest
  <2> QED
    BY <2>1, <2>2 DEF OneOutcomePerRequest
<1>13. Lasting
  BY <1>3, <1>5 DEF ApprovedTables, Lasting, RequestLasts, ConsentsLast, CodesLast
<1> QED
  BY <1>7, <1>8, <1>9, <1>11, <1>12, <1>13 DEF Tables

-----------------------------------------------------------------------------
(* Which of the four each action does.                                     *)

LEMMA NothingMoved ==
  ASSUME OauthInv, UNCHANGED <<oauthVars, overtaken>>
  PROVE  QuietTables
BY DEF OauthInv, RowTypes, Tables, RequestsFit, QuietTables, RequestLasts, RequestFits, oauthVars

\* The request of a call in one of the decision's steps.
LEMMA DecidedRequest ==
  ASSUME OauthInv, NEW d \in Calls, call[d].pc \in {"attach", "gate", "reject", "approve", "handover"}
  PROVE  /\ call[d].request \in Requests /\ call[d].user \in Users /\ req[call[d].request].made
         /\ req[call[d].request].scope \in Scopes
         /\ call[d].pc # "attach" => req[call[d].request].user = call[d].user
BY DEF OauthInv, CallsFit, Fits, Tables, RequestsFit

LEMMA RequestMoves ==
  ASSUME OauthInv, UNCHANGED <<consents, codes, tokens, overtaken>>
  PROVE  /\ \A r \in Requests, u \in Users \cup {NoUser}, s \in Scopes :
              Authorize(r, u, s) => QuietTables
         /\ \A d \in Calls : Attach(d) \/ Reject(d) => QuietTables
<1>1. /\ req \in [Requests -> RequestRows]
      /\ \A r \in Requests : req[r] \in RequestRows /\ RequestFits(r)
  BY RowsAreTyped DEF OauthInv, RowTypes, Tables, RequestsFit, RequestFits
<1>2. ASSUME NEW r \in Requests, NEW u \in Users \cup {NoUser}, NEW s \in Scopes, Authorize(r, u, s)
      PROVE  QuietTables
  <2>1. ~req[r].made /\ req' = [req EXCEPT ![r].made = TRUE, ![r].user = u, ![r].scope = s]
    BY <1>2 DEF Authorize
  <2>2. /\ req'[r].made /\ req'[r].user = u /\ req'[r].scope = s
        /\ req'[r].outcome = req[r].outcome /\ req'[r] \in RequestRows
        /\ \A q \in Requests \ {r} : req'[q] = req[q]
    BY <1>1, <2>1 DEF RequestRows
  <2>3. req' \in [Requests -> RequestRows]
    BY <1>1, <2>1, <2>2
  <2>4. \A q \in Requests : RequestLasts(q) /\ RequestFits(q)'
    BY <1>1, <2>1, <2>2 DEF RequestLasts, RequestFits
  <2>5. \A q \in Requests : req'[q].outcome = req[q].outcome
    BY <2>2
  <2> QED
    BY <2>3, <2>4, <2>5 DEF QuietTables
<1>3. ASSUME NEW d \in Calls, Attach(d)  PROVE QuietTables
  <2> DEFINE r == call[d].request
  <2>1. r \in Requests /\ call[d].user \in Users /\ req[r].made /\ req[r].scope \in Scopes
    BY <1>3, DecidedRequest DEF Attach
  <2>2. CASE req[r].user = NoUser
    <3>1. req' = [req EXCEPT ![r].user = call[d].user]
      BY <1>3, <2>2 DEF Attach, Claim
    <3>2. /\ req'[r].made /\ req'[r].scope = req[r].scope /\ req'[r].outcome = req[r].outcome
          /\ req'[r] \in RequestRows
          /\ \A q \in Requests \ {r} : req'[q] = req[q]
      BY <1>1, <2>1, <3>1 DEF RequestRows
    <3>3. req' \in [Requests -> RequestRows]
      BY <1>1, <2>1, <3>1, <3>2
    <3>4. \A q \in Requests : RequestLasts(q) /\ RequestFits(q)'
      BY <1>1, <2>1, <2>2, <3>2 DEF RequestLasts, RequestFits
    <3>5. \A q \in Requests : req'[q].outcome = req[q].outcome
      BY <3>2
    <3> QED
      BY <3>3, <3>4, <3>5 DEF QuietTables
  <2>3. CASE req[r].user # NoUser
    <3>1. req' = req
      BY <1>3, <2>3 DEF Attach, Claim
    <3> QED
      BY <3>1, NothingMoved DEF oauthVars
  <2> QED
    BY <2>2, <2>3
<1>4. ASSUME NEW d \in Calls, Reject(d)  PROVE QuietTables
  <2> DEFINE r == call[d].request
  <2>1. r \in Requests /\ req[r].made /\ req[r].scope \in Scopes
    BY <1>4, DecidedRequest DEF Reject
  <2>2. CASE Unclaimed(r)
    <3>1. req' = [req EXCEPT ![r].outcome = "rejected"] /\ req[r].outcome = "none"
      BY <1>4, <2>2 DEF Reject, Unclaimed
    <3>2. /\ req'[r].made /\ req'[r].scope = req[r].scope /\ req'[r].user = req[r].user
          /\ req'[r].outcome = "rejected" /\ req'[r] \in RequestRows
          /\ \A q \in Requests \ {r} : req'[q] = req[q]
      BY <1>1, <2>1, <3>1 DEF RequestRows
    <3>3. req' \in [Requests -> RequestRows]
      BY <1>1, <2>1, <3>1, <3>2
    <3>4. \A q \in Requests : RequestLasts(q) /\ RequestFits(q)'
      BY <1>1, <2>1, <3>2 DEF RequestLasts, RequestFits
    <3>5. \A q \in Requests : req'[q].outcome = "approved" <=> req[q].outcome = "approved"
      BY <3>1, <3>2
    <3> QED
      BY <3>3, <3>4, <3>5 DEF QuietTables
  <2>3. CASE ~Unclaimed(r)
    <3>1. req' = req
      BY <1>4, <2>3 DEF Reject
    <3> QED
      BY <3>1, NothingMoved DEF oauthVars
  <2> QED
    BY <2>2, <2>3
<1> QED
  BY <1>2, <1>3, <1>4

LEMMA NewConsentTyped ==
  ASSUME OauthInv, NEW u \in Users, NEW s \in Scopes, consents' = Append(consents, NewConsent(u, s))
  PROVE  /\ consents' \in Seq(ConsentRows)
         /\ DOMAIN consents' = DOMAIN consents \cup {Len(consents) + 1}
         /\ consents'[Len(consents) + 1] = NewConsent(u, s)
         /\ \A i \in DOMAIN consents : consents'[i] = consents[i] /\ i # Len(consents) + 1
<1>1. NewConsent(u, s) \in ConsentRows /\ consents \in Seq(ConsentRows)
  BY DEF NewConsent, ConsentRows, OauthInv, RowTypes
<1> QED
  BY <1>1, AppendedRows

\* An approval either approves or leaves everything as it was.
LEMMA ApproveTables ==
  ASSUME OauthInv, NEW d \in Calls, Approve(d)
  PROVE  \/ ApprovedTables(call[d].request, call[d].user)
         \/ QuietTables /\ UNCHANGED <<req, codes, consents>>
<1> DEFINE r == call[d].request  u == call[d].user  s == req[r].scope
<1>1. /\ r \in Requests /\ u \in Users /\ req[r].made /\ s \in Scopes /\ req[r].user = u
  BY DecidedRequest DEF Approve
<1>2. CASE /\ Unclaimed(r)
           /\ req' = [req EXCEPT ![r].outcome = "approved"]
           /\ codes' = Append(codes, NewCode(r, u))
           /\ consents' = consents \/ consents' = Append(consents, NewConsent(u, s))
  <2>1. /\ consents' \in Seq(ConsentRows)
        /\ \A j \in DOMAIN consents : j \in DOMAIN consents' /\ consents'[j] = consents[j]
    BY <1>1, <1>2, NewConsentTyped DEF OauthInv, RowTypes
  <2> QED
    BY <1>1, <1>2, <2>1 DEF ApprovedTables, Approve, Unclaimed
<1>3. CASE UNCHANGED <<req, codes, consents>>
  BY <1>3, NothingMoved DEF Approve, oauthVars
<1> QED
  BY <1>2, <1>3 DEF Approve

\* An exchange burns, or goes on to insert, or ends with nothing done.
LEMMA ExchangeTables ==
  ASSUME OauthInv, NEW d \in Calls, Exchange(d)
  PROVE  \/ MintedTables(call[d].code, Len(consents) + 1) /\ call' = [call EXCEPT ![d] = Idle]
         \/ QuietTables
<1> DEFINE c == call[d].code  u == codes[c].user  s == codes[c].scope
<1>1. c \in DOMAIN codes
  BY DEF Exchange, OauthInv, CallsFit, Fits
<1>2. codes[c] \in CodeRows
  BY <1>1, RowsAreTyped DEF OauthInv
<1>3. u \in Users /\ s \in Scopes
  BY <1>2 DEF CodeRows
<1>4. CASE /\ ~codes[c].used
           /\ consents' = Append(consents, NewConsent(u, s))
           /\ codes' = [codes EXCEPT ![c].used = TRUE]
           /\ tokens' = Append(tokens, NewToken(c, Len(consents) + 1))
           /\ End(d)
  <2>1. /\ consents' \in Seq(ConsentRows) /\ Len(consents) + 1 \in DOMAIN consents'
        /\ consents'[Len(consents) + 1] = NewConsent(u, s)
        /\ \A j \in DOMAIN consents : j \in DOMAIN consents' /\ consents'[j] = consents[j]
    BY <1>3, <1>4, NewConsentTyped
  <2>2. /\ NewConsent(u, s).user = u /\ NewConsent(u, s).scope = s /\ ~NewConsent(u, s).revoked
    BY DEF NewConsent
  <2> QED
    BY <1>1, <1>4, <2>1, <2>2 DEF MintedTables, Exchange, End
<1>5. CASE UNCHANGED <<consents, codes, tokens>>
  BY <1>5, NothingMoved DEF Exchange, oauthVars
<1> QED
  BY <1>4, <1>5 DEF Exchange, BurnAndFind

LEMMA InsertTables ==
  ASSUME OauthInv, NEW d \in Calls, InsertToken(d)
  PROVE  MintedTables(call[d].code, call[d].consent)
<1>1. /\ call[d].code \in DOMAIN codes /\ call[d].consent \in DOMAIN consents
      /\ ~codes[call[d].code].used
      /\ consents[call[d].consent].user = codes[call[d].code].user
      /\ consents[call[d].consent].scope = codes[call[d].code].scope
      /\ consents[call[d].consent].revoked => call[d].consent \in overtaken
  BY DEF InsertToken, OauthInv, CallsFit, Fits
<1> QED
  BY <1>1 DEF InsertToken, MintedTables, OauthInv, RowTypes

\* Revoking tokens changes nothing else of them.
LEMMA TokensRevoked ==
  ASSUME OauthInv, NEW dead, RevokeTokens(dead)
  PROVE  /\ tokens' \in [DOMAIN tokens -> TokenRows]
         /\ \A t \in DOMAIN tokens :
              /\ tokens'[t].code = tokens[t].code /\ tokens'[t].user = tokens[t].user
              /\ tokens'[t].consent = tokens[t].consent
              /\ tokens'[t].revoked <=> t \in dead \/ tokens[t].revoked
<1>1. \A t \in DOMAIN tokens : tokens[t] \in TokenRows
  BY RowsAreTyped DEF OauthInv
<1>2. \A t \in DOMAIN tokens :
        tokens'[t] = IF t \in dead THEN [tokens[t] EXCEPT !.revoked = TRUE] ELSE tokens[t]
  BY DEF RevokeTokens
<1>3. \A t \in DOMAIN tokens : tokens'[t] \in TokenRows
  BY <1>1, <1>2 DEF TokenRows
<1>4. tokens' \in [DOMAIN tokens -> TokenRows]
  BY <1>3 DEF RevokeTokens
<1> QED
  BY <1>1, <1>2, <1>4 DEF TokenRows

\* What the tables hold of a token.
LEMMA TokenRests ==
  ASSUME OauthInv, NEW t \in DOMAIN tokens
  PROVE  /\ tokens[t].code \in DOMAIN codes /\ tokens[t].consent \in DOMAIN consents
         /\ codes[tokens[t].code].replayed => tokens[t].revoked
         /\ ~tokens[t].revoked =>
              ~consents[tokens[t].consent].revoked \/ tokens[t].consent \in overtaken
BY DEF OauthInv, Tables, TokensFit, ReusedCodeIsWorthless, LiveTokenHasConsent

LEMMA TablesAreFunctions ==
  ASSUME OauthInv
  PROVE  /\ consents \in [DOMAIN consents -> ConsentRows]
         /\ codes \in [DOMAIN codes -> CodeRows]
         /\ tokens \in [DOMAIN tokens -> TokenRows]
         /\ \A i \in DOMAIN consents : consents[i] \in ConsentRows
         /\ \A c \in DOMAIN codes : codes[c] \in CodeRows /\ (codes[c].replayed => codes[c].used)
<1>1. consents \in Seq(ConsentRows) /\ codes \in Seq(CodeRows) /\ tokens \in Seq(TokenRows)
  BY DEF OauthInv, RowTypes
<1>2. /\ consents \in [1..Len(consents) -> ConsentRows]
      /\ codes \in [1..Len(codes) -> CodeRows]
      /\ tokens \in [1..Len(tokens) -> TokenRows]
  BY <1>1, LenProperties
<1> QED
  BY <1>2, RowsAreTyped DEF OauthInv, Tables, CodesFit

LEMMA ReuseTables ==
  ASSUME OauthInv, NEW d \in Calls, DetectReuse(d)
  PROVE  StampedTables
<1> DEFINE c == call[d].code  dead == {t \in DOMAIN tokens : tokens[t].code = c}
<1>1. /\ c \in DOMAIN codes /\ codes[c].used /\ RevokeTokens(dead)
      /\ codes' = [codes EXCEPT ![c].replayed = TRUE]
      /\ req' = req /\ consents' = consents /\ overtaken' = overtaken
  BY DEF DetectReuse, OauthInv, CallsFit, Fits
<1>2. /\ tokens' \in [DOMAIN tokens -> TokenRows]
      /\ \A t \in DOMAIN tokens :
           /\ tokens'[t].code = tokens[t].code /\ tokens'[t].user = tokens[t].user
           /\ tokens'[t].consent = tokens[t].consent
           /\ tokens'[t].revoked <=> t \in dead \/ tokens[t].revoked
  BY <1>1, TokensRevoked
<1>3. codes' \in [DOMAIN codes -> CodeRows]
  BY <1>1, TablesAreFunctions DEF CodeRows
<1>4. \A b \in DOMAIN codes :
        /\ codes'[b].request = codes[b].request /\ codes'[b].used = codes[b].used
        /\ codes'[b].user = codes[b].user /\ codes'[b].scope = codes[b].scope
        /\ codes'[b].replayed => codes[b].used
        /\ b # c => codes'[b].replayed = codes[b].replayed
  BY <1>1, TablesAreFunctions DEF CodeRows
<1>5. ASSUME NEW t \in DOMAIN tokens
      PROVE  /\ codes'[tokens[t].code].replayed => tokens'[t].revoked
             /\ ~tokens'[t].revoked =>
                  ~consents'[tokens[t].consent].revoked \/ tokens[t].consent \in overtaken'
  BY <1>1, <1>2, <1>4, TokenRests
<1>6. consents' \in [DOMAIN consents -> ConsentRows] /\ overtaken' \subseteq DOMAIN consents
  BY <1>1, TablesAreFunctions DEF OauthInv, RowTypes
<1> QED
  BY <1>1, <1>2, <1>3, <1>4, <1>5, <1>6 DEF StampedTables

\* Consents are stamped revoked with their tokens; who held one is on record.
LEMMA RevocationTables ==
  ASSUME OauthInv,
         \/ \E i \in DOMAIN consents : RevokeConsent(i)
         \/ RevokeClient
  PROVE  /\ StampedTables
         /\ \A i \in DOMAIN consents : consents'[i].revoked =>
              consents[i].revoked \/ (i \in Held => i \in overtaken')
<1>1. Held \subseteq DOMAIN consents
  BY DEF Held, OauthInv, CallsFit, Fits
<1>2. PICK gone \in SUBSET DOMAIN consents, dead \in SUBSET DOMAIN tokens :
        /\ consents' = [i \in DOMAIN consents |->
             IF i \in gone THEN [consents[i] EXCEPT !.revoked = TRUE] ELSE consents[i]]
        /\ RevokeTokens(dead)
        /\ \A t \in DOMAIN tokens : tokens[t].consent \in gone => t \in dead
        /\ overtaken' = overtaken \cup (gone \cap Held)
        /\ req' = req /\ codes' = codes
  <2>1. CASE \E i \in DOMAIN consents : RevokeConsent(i)
    <3>1. PICK i \in DOMAIN consents : RevokeConsent(i)
      BY <2>1
    <3>2. consents' = [j \in DOMAIN consents |->
            IF j \in {i} THEN [consents[j] EXCEPT !.revoked = TRUE] ELSE consents[j]]
      BY <3>1, TablesAreFunctions DEF RevokeConsent
    <3> QED
      BY <3>1, <3>2 DEF RevokeConsent, Cascade
  <2>2. CASE RevokeClient
    <3>1. consents' = [j \in DOMAIN consents |->
            IF j \in DOMAIN consents THEN [consents[j] EXCEPT !.revoked = TRUE] ELSE consents[j]]
      BY <2>2 DEF RevokeClient
    <3>2. overtaken' = overtaken \cup (DOMAIN consents \cap Held)
      BY <1>1, <2>2 DEF RevokeClient
    <3> QED
      BY <2>2, <3>1, <3>2 DEF RevokeClient
  <2> QED
    BY <2>1, <2>2
<1>3. /\ consents' \in [DOMAIN consents -> ConsentRows]
      /\ \A i \in DOMAIN consents :
           /\ consents'[i].user = consents[i].user /\ consents'[i].scope = consents[i].scope
           /\ consents'[i].revoked <=> i \in gone \/ consents[i].revoked
  BY <1>2, TablesAreFunctions DEF ConsentRows
<1>4. /\ tokens' \in [DOMAIN tokens -> TokenRows]
      /\ \A t \in DOMAIN tokens :
           /\ tokens'[t].code = tokens[t].code /\ tokens'[t].user = tokens[t].user
           /\ tokens'[t].consent = tokens[t].consent
           /\ tokens'[t].revoked <=> t \in dead \/ tokens[t].revoked
  BY <1>2, TokensRevoked
<1>5. ASSUME NEW t \in DOMAIN tokens
      PROVE  /\ codes'[tokens[t].code].replayed => tokens'[t].revoked
             /\ ~tokens'[t].revoked =>
                  ~consents'[tokens[t].consent].revoked \/ tokens[t].consent \in overtaken'
  BY <1>2, <1>3, <1>4, TokenRests
<1>6. codes' \in [DOMAIN codes -> CodeRows]
  BY <1>2, TablesAreFunctions
<1>7. overtaken \subseteq overtaken' /\ overtaken' \subseteq DOMAIN consents
  BY <1>1, <1>2 DEF OauthInv, RowTypes
<1>8. \A c \in DOMAIN codes : codes'[c].replayed => codes[c].used
  BY <1>2, TablesAreFunctions
<1>9. StampedTables
  BY <1>2, <1>3, <1>4, <1>5, <1>6, <1>7, <1>8 DEF StampedTables
<1> QED
  BY <1>2, <1>3, <1>9

LEMMA ExpiryTables ==
  ASSUME OauthInv, Expire
  PROVE  /\ QuietTables \/ StampedTables
         /\ \A i \in DOMAIN consents : consents'[i].revoked = consents[i].revoked
<1>1. tokens' = tokens /\ overtaken' = overtaken
  BY DEF Expire
<1>2. /\ \A i \in DOMAIN consents : consents[i] \in ConsentRows
      /\ \A c \in DOMAIN codes : codes[c] \in CodeRows
      /\ req \in [Requests -> RequestRows]
      /\ \A r \in Requests : req[r] \in RequestRows /\ RequestFits(r)
  BY RowsAreTyped DEF OauthInv, RowTypes, Tables, RequestsFit, RequestFits
<1>3. ASSUME NEW i \in DOMAIN consents, consents' = [consents EXCEPT ![i].expired = TRUE],
             UNCHANGED <<req, codes>>
      PROVE  StampedTables /\ \A j \in DOMAIN consents : consents'[j].revoked = consents[j].revoked
  <2>1. /\ consents' \in [DOMAIN consents -> ConsentRows]
        /\ \A j \in DOMAIN consents :
             /\ consents'[j].user = consents[j].user /\ consents'[j].scope = consents[j].scope
             /\ consents'[j].revoked = consents[j].revoked
    BY <1>2, <1>3, TablesAreFunctions DEF ConsentRows
  <2> QED
    BY <1>1, <1>3, <2>1, TablesAreFunctions, TokenRests DEF StampedTables, OauthInv, RowTypes
<1>4. ASSUME NEW r \in Requests, req[r].made, req' = [req EXCEPT ![r].expired = TRUE],
             UNCHANGED <<consents, codes>>
      PROVE  QuietTables
  <2>1. /\ req' \in [Requests -> RequestRows]
        /\ \A q \in Requests :
             /\ req'[q].made = req[q].made /\ req'[q].user = req[q].user
             /\ req'[q].scope = req[q].scope /\ req'[q].outcome = req[q].outcome
    BY <1>2, <1>4 DEF RequestRows
  <2> QED
    BY <1>1, <1>2, <1>4, <2>1 DEF QuietTables, RequestLasts, RequestFits
<1>5. ASSUME NEW c \in DOMAIN codes, codes' = [codes EXCEPT ![c].expired = TRUE],
             UNCHANGED <<consents, req>>
      PROVE  StampedTables
  <2>1. /\ codes' \in [DOMAIN codes -> CodeRows]
        /\ \A b \in DOMAIN codes :
             /\ codes'[b].request = codes[b].request /\ codes'[b].used = codes[b].used
             /\ codes'[b].user = codes[b].user /\ codes'[b].scope = codes[b].scope
             /\ codes'[b].replayed = codes[b].replayed
    BY <1>2, <1>5, TablesAreFunctions DEF CodeRows
  <2>2. \A b \in DOMAIN codes : codes'[b].replayed => codes[b].used
    BY <2>1, TablesAreFunctions
  <2>3. \A t \in DOMAIN tokens : codes'[tokens[t].code].replayed => tokens'[t].revoked
    BY <1>1, <2>1, TokenRests
  <2> QED
    BY <1>1, <1>5, <2>1, <2>2, <2>3, TablesAreFunctions, TokenRests
       DEF StampedTables, OauthInv, RowTypes
<1> QED
  BY <1>3, <1>4, <1>5 DEF Expire

-----------------------------------------------------------------------------
(* A step keeps the tables, and which way.                                 *)

\* No call and no table moves: only the sweep and the chain do.
SweepStep == StartSweep \/ (\E u \in Users : Grant(u)) \/ SweepDies

\* One call moves alone.
CallStep(d) ==
  \/ \E u \in Users, r \in Requests, act \in {"view", "reject", "approve"} : LoadRequest(d, u, r, act)
  \/ \E c \in DOMAIN codes : PresentCode(d, c)
  \/ Decision(d) \/ TokenCall(d) \/ CallFails(d)

LEMMA NextCases ==
  ASSUME [Next]_vars
  PROVE  \/ \E r \in Requests, u \in Users \cup {NoUser}, s \in Scopes : Authorize(r, u, s)
         \/ \E d \in Calls : CallStep(d)
         \/ (\E i \in DOMAIN consents : RevokeConsent(i)) \/ RevokeClient
         \/ Expire \/ SweepStep
         \/ UNCHANGED vars
BY DEF Next, CallStep, SweepStep, Sweep

LEMMA TablesStep ==
  ASSUME OauthInv, [Next]_vars
  PROVE  TableTypes' /\ Tables' /\ Lasting
<1>1. CASE \E r \in Requests, u \in Users \cup {NoUser}, s \in Scopes : Authorize(r, u, s)
  <2>1. PICK r \in Requests, u \in Users \cup {NoUser}, s \in Scopes : Authorize(r, u, s)
    BY <1>1
  <2>2. UNCHANGED <<consents, codes, tokens, overtaken>>
    BY <2>1 DEF Authorize
  <2> QED
    BY <2>1, <2>2, RequestMoves, QuietStep
<1>2. ASSUME NEW d \in Calls, CallStep(d)  PROVE TableTypes' /\ Tables' /\ Lasting
  <2>1. CASE \/ \E u \in Users, r \in Requests, act \in {"view", "reject", "approve"} :
                  LoadRequest(d, u, r, act)
             \/ \E c \in DOMAIN codes : PresentCode(d, c)
             \/ Gate(d) \/ HandOver(d) \/ CallFails(d)
    BY <2>1, NothingMoved, QuietStep DEF LoadRequest, PresentCode, Gate, HandOver, CallFails
  <2>2. CASE Attach(d) \/ Reject(d)
    <3>1. UNCHANGED <<consents, codes, tokens, overtaken>>
      BY <2>2 DEF Attach, Reject
    <3> QED
      BY <2>2, <3>1, RequestMoves, QuietStep
  <2>3. CASE Approve(d)
    BY <2>3, ApproveTables, ApprovedStep, QuietStep
  <2>4. CASE DetectReuse(d)
    BY <2>4, ReuseTables, StampedStep
  <2>5. CASE Exchange(d)
    BY <2>5, ExchangeTables, MintedStep, QuietStep
  <2>6. CASE InsertToken(d)
    BY <2>6, InsertTables, MintedStep
  <2> QED
    BY <1>2, <2>1, <2>2, <2>3, <2>4, <2>5, <2>6 DEF CallStep, Decision, TokenCall
<1>3. CASE (\E i \in DOMAIN consents : RevokeConsent(i)) \/ RevokeClient
  BY <1>3, RevocationTables, StampedStep
<1>4. CASE Expire
  BY <1>4, ExpiryTables, StampedStep, QuietStep
<1>5. CASE SweepStep
  BY <1>5, NothingMoved, QuietStep DEF SweepStep, StartSweep, Grant, SweepDies
<1>6. CASE UNCHANGED vars
  BY <1>6, NothingMoved, QuietStep DEF vars, oauthVars
<1> QED
  BY <1>1, <1>2, <1>3, <1>4, <1>5, <1>6, NextCases

-----------------------------------------------------------------------------
(* A step keeps what the calls rely on.                                    *)

\* Between two steps that move no code and no consent nothing is spoilt.
LEMMA SpoiltByNobody ==
  ASSUME OauthInv, NEW e \in Calls,
         call[e].pc = "insert" =>
           /\ codes'[call[e].code].used = codes[call[e].code].used
           /\ consents'[call[e].consent].revoked = consents[call[e].consent].revoked
           /\ overtaken \subseteq overtaken'
  PROVE  Unspoilt(e)
BY DEF Unspoilt, OauthInv, CallsFit, Fits

LEMMA References ==
  ASSUME OauthInv, Lasting, NEW e \in Calls, call'[e] = call[e]
  PROVE  call'[e].code \in DOMAIN codes' \cup {0} /\ call'[e].consent \in DOMAIN consents' \cup {0}
BY DEF OauthInv, CallsFit, Lasting, ConsentsLast, CodesLast

\* Calls that stand still beside one that moves, if any.
LEMMA CallsAround ==
  ASSUME OauthInv, Lasting, NEW moved \in SUBSET Calls,
         \A d, e \in moved : d = e,
         \A e \in Calls \ moved : call'[e] = call[e] /\ Unspoilt(e),
         \A d \in moved :
           /\ Fits(d)'
           /\ call'[d].code \in DOMAIN codes' \cup {0}
           /\ call'[d].consent \in DOMAIN consents' \cup {0}
           /\ call'[d].pc = "insert" => \A e \in Calls \ moved :
                call[e].pc = "insert" => call[e].code # call'[d].code
  PROVE  CallsFit'
<1>1. \A e \in Calls \ moved : Fits(e)'
  BY CallStands DEF OauthInv, CallsFit
<1>2. \A d \in Calls :
        /\ Fits(d)'
        /\ call'[d].code \in DOMAIN codes' \cup {0} /\ call'[d].consent \in DOMAIN consents' \cup {0}
  BY <1>1, References
<1>3. ASSUME NEW d \in Calls, NEW e \in Calls, call'[d].pc = "insert", call'[e].pc = "insert",
             call'[d].code = call'[e].code
      PROVE  d = e
  BY <1>3 DEF OauthInv, CallsFit
<1> QED
  BY <1>2, <1>3 DEF CallsFit

\* A call that is over relies on nothing.
LEMMA EndedCall ==
  ASSUME OauthInv, Lasting, NEW d \in Calls, End(d), \A e \in Calls \ {d} : Unspoilt(e)
  PROVE  CallsFit'
<1>1. call \in [Calls -> CallRows]
  BY DEF OauthInv, RowTypes
<1>2. call'[d] = Idle /\ \A e \in Calls \ {d} : call'[e] = call[e]
  BY <1>1 DEF End
<1>3. Fits(d)' /\ call'[d].code = 0 /\ call'[d].consent = 0 /\ call'[d].pc = "idle"
  BY <1>2 DEF Fits, Idle
<1> QED
  BY <1>2, <1>3, CallsAround, {d} \in SUBSET Calls

\* Codes and consents stand still while a call moves on.
Still == UNCHANGED <<consents, codes, overtaken>>

LEMMA MovedCall ==
  ASSUME OauthInv, Lasting, Still, NEW d \in Calls, NEW x,
         call' = [call EXCEPT ![d] = x], Fits(d)',
         x.code \in DOMAIN codes \cup {0}, x.consent \in DOMAIN consents \cup {0},
         x.pc = "insert" => \A e \in Calls \ {d} : call[e].pc = "insert" => call[e].code # x.code
  PROVE  CallsFit'
<1>1. call \in [Calls -> CallRows]
  BY DEF OauthInv, RowTypes
<1>2. call'[d] = x /\ \A e \in Calls \ {d} : call'[e] = call[e]
  BY <1>1
<1>3. \A e \in Calls : Unspoilt(e)
  BY SpoiltByNobody DEF Still
<1>4. DOMAIN codes' = DOMAIN codes /\ DOMAIN consents' = DOMAIN consents
  BY DEF Still
<1>5. \A b \in {d} :
        /\ Fits(b)'
        /\ call'[b].code \in DOMAIN codes' \cup {0}
        /\ call'[b].consent \in DOMAIN consents' \cup {0}
        /\ call'[b].pc = "insert" => \A e \in Calls \ {d} :
             call[e].pc = "insert" => call[e].code # call'[b].code
  BY <1>2, <1>4
<1>6. \A e \in Calls \ {d} : call'[e] = call[e] /\ Unspoilt(e)
  BY <1>2, <1>3
<1> QED
  BY <1>5, <1>6, CallsAround, {d} \in SUBSET Calls

LEMMA GoesOn ==
  ASSUME OauthInv, NEW d \in Calls, NEW p, Goto(d, p)
  PROVE  LET x == [call[d] EXCEPT !.pc = p]
         IN  /\ call' = [call EXCEPT ![d] = x]
             /\ x.pc = p /\ x.user = call[d].user /\ x.request = call[d].request
             /\ x.act = call[d].act /\ x.code = call[d].code /\ x.consent = call[d].consent
<1>1. call[d] \in CallRows
  BY RowsAreTyped DEF OauthInv
<1> QED
  BY <1>1 DEF Goto, CallRows

\* The steps of a decision.
LEMMA DecisionCalls ==
  ASSUME OauthInv, Lasting, NEW d \in Calls, Decision(d)
  PROVE  CallsFit'
<1>1. /\ call \in [Calls -> CallRows] /\ req \in [Requests -> RequestRows]
      /\ call[d].code \in DOMAIN codes \cup {0} /\ call[d].consent \in DOMAIN consents \cup {0}
      /\ \A r \in Requests : req[r] \in RequestRows
  BY RowsAreTyped DEF OauthInv, RowTypes, CallsFit
<1>2. CASE Attach(d)
  <2> DEFINE r == call[d].request
  <2>1. r \in Requests /\ call[d].user \in Users /\ req[r].made
    BY <1>2, DecidedRequest DEF Attach
  <2>2. Still
    BY <1>2 DEF Attach, Still
  <2>3. CASE End(d)
    BY <2>2, <2>3, EndedCall, SpoiltByNobody DEF Still
  <2>4. CASE Goto(d, "gate") /\ req[r].user \in {NoUser, call[d].user} /\ call[d].act # "view"
    <3> DEFINE x == [call[d] EXCEPT !.pc = "gate"]
    <3>1. /\ call' = [call EXCEPT ![d] = x] /\ x.pc = "gate"
          /\ x.user = call[d].user /\ x.request = call[d].request
          /\ x.act = call[d].act /\ x.code = call[d].code /\ x.consent = call[d].consent
      BY <2>4, GoesOn
    <3>2. req'[r].user = call[d].user /\ req'[r].made
      BY <1>1, <1>2, <2>1, <2>4 DEF Attach, Claim, RequestRows
    <3>3. call[d].act \in {"reject", "approve"}
      BY <1>1, <1>2, <2>4, RowsAreTyped DEF OauthInv, CallsFit, Fits, Attach, CallRows
    <3> QED
      BY <1>1, <2>1, <2>2, <3>1, <3>2, <3>3, MovedCall DEF Fits
  <2> QED
    BY <1>2, <2>3, <2>4 DEF Attach, Claim
<1>3. CASE Gate(d)
  <2>1. Still /\ req' = req
    BY <1>3 DEF Gate, Still, oauthVars
  <2>2. CASE End(d)
    BY <2>1, <2>2, EndedCall, SpoiltByNobody DEF Still
  <2>3. CASE Goto(d, call[d].act)
    <3> DEFINE x == [call[d] EXCEPT !.pc = call[d].act]
    <3>1. /\ call' = [call EXCEPT ![d] = x] /\ x.pc = call[d].act
          /\ x.user = call[d].user /\ x.request = call[d].request
          /\ x.act = call[d].act /\ x.code = call[d].code /\ x.consent = call[d].consent
      BY <2>3, GoesOn
    <3>2. /\ call[d].act \in {"reject", "approve"}
          /\ call[d].request \in Requests /\ call[d].user \in Users
          /\ req[call[d].request].made /\ req[call[d].request].user = call[d].user
      BY <1>3 DEF OauthInv, CallsFit, Fits, Gate
    <3>3. call'[d] = x
      BY <1>1, <3>1
    <3>4. Fits(d)'
      BY <2>1, <3>1, <3>2, <3>3 DEF Fits
    <3>5. x.pc # "insert"
      BY <3>1, <3>2
    <3> QED
      BY <1>1, <2>1, <3>1, <3>4, <3>5, MovedCall
  <2> QED
    BY <1>3, <2>2, <2>3 DEF Gate
<1>4. CASE Reject(d) \/ HandOver(d)
  <2>1. Still /\ End(d)
    BY <1>4 DEF Reject, HandOver, Still, oauthVars
  <2> QED
    BY <2>1, EndedCall, SpoiltByNobody DEF Still
<1>5. CASE Approve(d)
  <2> DEFINE r == call[d].request  u == call[d].user  s == req[r].scope
             new == Len(consents) + 1
  <2>1. /\ r \in Requests /\ u \in Users /\ req[r].made /\ s \in Scopes /\ req[r].user = u
    BY <1>5, DecidedRequest DEF Approve
  <2>2. CASE Still /\ End(d)
    BY <2>2, EndedCall, SpoiltByNobody DEF Still
  <2>3. CASE /\ req' = [req EXCEPT ![r].outcome = "approved"]
             /\ codes' = Append(codes, NewCode(r, u))
             /\ \/ End(d) /\ consents' = consents
                \/ Goto(d, "handover") /\ consents' = Append(consents, NewConsent(u, s))
    <3>1. \A c \in DOMAIN codes : c \in DOMAIN codes' /\ codes'[c] = codes[c]
      <4>1. codes \in Seq(CodeRows) /\ NewCode(r, u) \in CodeRows
        BY <2>1 DEF OauthInv, RowTypes, NewCode, CodeRows
      <4> QED
        BY <2>3, <4>1, AppendedRows
    <3>2. consents' # consents =>
            /\ DOMAIN consents' = DOMAIN consents \cup {new}
            /\ consents'[new] = NewConsent(u, s)
            /\ \A i \in DOMAIN consents : consents'[i] = consents[i]
      BY <2>1, <2>3, NewConsentTyped
    <3>3. overtaken' = overtaken
      BY <1>5 DEF Approve
    <3>4. ASSUME NEW e \in Calls  PROVE Unspoilt(e)
      <4>1. call[e].pc = "insert" => call[e].code \in DOMAIN codes /\ call[e].consent \in DOMAIN consents
        BY DEF OauthInv, CallsFit, Fits
      <4> QED
        BY <3>1, <3>2, <3>3, <4>1, SpoiltByNobody
    <3>5. CASE End(d)
      BY <3>4, <3>5, EndedCall
    <3>6. CASE Goto(d, "handover") /\ consents' = Append(consents, NewConsent(u, s))
      <4> DEFINE x == [call[d] EXCEPT !.pc = "handover"]
      <4>1. /\ call' = [call EXCEPT ![d] = x] /\ x.pc = "handover"
            /\ x.user = u /\ x.request = r
            /\ x.act = call[d].act /\ x.code = call[d].code /\ x.consent = call[d].consent
        BY <3>6, GoesOn
      <4>2. call'[d] = x /\ \A e \in Calls \ {d} : call'[e] = call[e]
        BY <1>1, <4>1
      <4>3. req'[r].made /\ req'[r].user = u /\ req'[r].scope = s
        BY <1>1, <2>1, <2>3 DEF RequestRows
      <4>4. /\ new \in DOMAIN consents' /\ consents'[new].user = u /\ consents'[new].scope = s
        BY <2>1, <3>6, NewConsentTyped DEF NewConsent
      <4>5. /\ call'[d].pc = "handover" /\ call'[d].user = u /\ call'[d].request = r
            /\ \E i \in DOMAIN consents' :
                 consents'[i].user = u /\ MinLevel(consents'[i].scope) = MinLevel(req'[r].scope)
        BY <4>1, <4>2, <4>3, <4>4
      <4>6. Fits(d)'
        BY <2>1, <4>3, <4>5 DEF Fits, Consented, MinLevel
      <4>7. /\ call[d].code \in DOMAIN codes' \cup {0}
            /\ call[d].consent \in DOMAIN consents' \cup {0}
        BY <1>1 DEF Lasting, CodesLast, ConsentsLast
      <4>8. \A b \in {d} :
              /\ Fits(b)'
              /\ call'[b].code \in DOMAIN codes' \cup {0}
              /\ call'[b].consent \in DOMAIN consents' \cup {0}
              /\ call'[b].pc = "insert" => \A e \in Calls \ {d} :
                   call[e].pc = "insert" => call[e].code # call'[b].code
        BY <4>1, <4>2, <4>6, <4>7
      <4>9. \A e \in Calls \ {d} : call'[e] = call[e] /\ Unspoilt(e)
        BY <3>4, <4>2
      <4> QED
        BY <4>8, <4>9, CallsAround, {d} \in SUBSET Calls
    <3> QED
      BY <2>3, <3>5, <3>6
  <2> QED
    BY <1>5, <2>2, <2>3 DEF Approve, RolledBack, Still
<1> QED
  BY <1>2, <1>3, <1>4, <1>5 DEF Decision

\* Only the transaction that holds a code's row burns it.
LEMMA MintedCalls ==
  ASSUME OauthInv, Lasting, NEW d \in Calls, End(d), NEW c, NEW i, MintedTables(c, i),
         \A e \in Calls \ {d} : call[e].pc = "insert" => call[e].code # c
  PROVE  CallsFit'
<1>1. \A b \in DOMAIN codes : codes[b] \in CodeRows
  BY RowsAreTyped DEF OauthInv
<1>2. ASSUME NEW e \in Calls \ {d}  PROVE Unspoilt(e)
  <2>1. call[e].pc = "insert" => call[e].code \in DOMAIN codes /\ call[e].consent \in DOMAIN consents
    BY DEF OauthInv, CallsFit, Fits
  <2>2. call[e].pc = "insert" => codes'[call[e].code].used = codes[call[e].code].used
    BY <1>1, <2>1 DEF MintedTables, CodeRows
  <2> QED
    BY <2>1, <2>2, SpoiltByNobody DEF MintedTables
<1> QED
  BY <1>2, EndedCall

\* The steps of an exchange.
LEMMA TokenCalls ==
  ASSUME OauthInv, Lasting, NEW d \in Calls, TokenCall(d)
  PROVE  CallsFit'
<1>1. /\ call \in [Calls -> CallRows]
      /\ call[d].code \in DOMAIN codes \cup {0}
  BY DEF OauthInv, RowTypes, CallsFit
<1>2. CASE DetectReuse(d)
  <2>1. End(d) /\ consents' = consents /\ overtaken' = overtaken
    BY <1>2 DEF DetectReuse
  <2>2. StampedTables
    BY <1>2, ReuseTables
  <2>3. ASSUME NEW e \in Calls  PROVE Unspoilt(e)
    BY <2>1, <2>2, SpoiltByNobody DEF StampedTables, OauthInv, CallsFit, Fits
  <2> QED
    BY <2>1, <2>3, EndedCall
<1>3. CASE InsertToken(d)
  <2>1. MintedTables(call[d].code, call[d].consent) /\ End(d) /\ call[d].pc = "insert"
    BY <1>3, InsertTables DEF InsertToken
  <2>2. \A e \in Calls \ {d} : call[e].pc = "insert" => call[e].code # call[d].code
    BY <2>1 DEF OauthInv, CallsFit
  <2> QED
    BY <2>1, <2>2, MintedCalls
<1>4. CASE Exchange(d)
  <2> DEFINE c == call[d].code  u == codes[c].user  s == codes[c].scope
  <2>1. c \in DOMAIN codes /\ \A e \in Calls : call[e].pc = "insert" => call[e].code # c
    BY <1>4 DEF Exchange, Locked, OauthInv, CallsFit, Fits
  <2>2. CASE End(d) /\ UNCHANGED <<consents, codes, tokens>>
    BY <1>4, <2>2, EndedCall, SpoiltByNobody DEF Exchange
  <2>3. ASSUME NEW i \in Active(u, s), ~codes[c].used, UNCHANGED <<consents, codes, tokens>>,
               call' = [call EXCEPT ![d].pc = "insert", ![d].consent = i]
        PROVE  CallsFit'
    <3> DEFINE x == [call[d] EXCEPT !.pc = "insert", !.consent = i]
    <3>1. call[d] \in CallRows
      BY <1>1
    <3>2. /\ call' = [call EXCEPT ![d] = x] /\ x.pc = "insert" /\ x.code = c /\ x.consent = i
      BY <1>1, <2>3, <3>1 DEF CallRows
    <3>3. /\ i \in DOMAIN consents /\ consents[i].user = u /\ consents[i].scope = s
          /\ ~consents[i].revoked
      BY DEF Active, Unrevoked
    <3>4. Still
      BY <1>4, <2>3 DEF Exchange, Still
    <3>5. call'[d] = x
      BY <1>1, <3>2
    <3>6. Fits(d)'
      BY <2>1, <2>3, <3>2, <3>3, <3>5 DEF Fits
    <3> QED
      BY <1>1, <2>1, <3>2, <3>3, <3>4, <3>6, MovedCall
  <2>4. CASE /\ ~codes[c].used
             /\ consents' = Append(consents, NewConsent(u, s))
             /\ codes' = [codes EXCEPT ![c].used = TRUE]
             /\ tokens' = Append(tokens, NewToken(c, Len(consents) + 1))
             /\ End(d)
    <3>1. CASE MintedTables(c, Len(consents) + 1)
      BY <2>1, <2>4, <3>1, MintedCalls
    <3>2. CASE QuietTables
      BY <2>4, <3>2, EndedCall, SpoiltByNobody DEF QuietTables
    <3> QED
      BY <1>4, <3>1, <3>2, ExchangeTables
  <2> QED
    BY <1>4, <2>2, <2>3, <2>4 DEF Exchange, BurnAndFind
<1> QED
  BY <1>2, <1>3, <1>4 DEF TokenCall

\* A call begins, or fails.
LEMMA OtherCalls ==
  ASSUME OauthInv, Lasting, NEW d \in Calls, CallStep(d), ~Decision(d), ~TokenCall(d)
  PROVE  CallsFit'
<1>1. call \in [Calls -> CallRows] /\ NoUser \notin Users
  BY OauthAssumption DEF OauthInv, RowTypes
<1>2. ASSUME NEW u \in Users, NEW r \in Requests, NEW act \in {"view", "reject", "approve"},
             LoadRequest(d, u, r, act)
      PROVE  CallsFit'
  <2> DEFINE x == [Idle EXCEPT !.user = u, !.request = r, !.act = act,
                               !.pc = IF req[r].user = u THEN "gate" ELSE "attach"]
  <2>1. /\ call' = [call EXCEPT ![d] = x] /\ Still /\ req' = req /\ req[r].made
        /\ req[r].user = NoUser \/ (req[r].user = u /\ act # "view")
    BY <1>2 DEF LoadRequest, Still, oauthVars
  <2>2. /\ x.user = u /\ x.request = r /\ x.act = act /\ x.code = 0 /\ x.consent = 0
        /\ x.pc = IF req[r].user = u THEN "gate" ELSE "attach"
    BY DEF Idle
  <2>3. call'[d] = x
    BY <1>1, <2>1
  <2>4. Fits(d)'
    BY <1>1, <2>1, <2>2, <2>3 DEF Fits
  <2>5. x.pc # "insert" /\ x.code \in DOMAIN codes \cup {0} /\ x.consent \in DOMAIN consents \cup {0}
    BY <2>2
  <2> HIDE DEF x
  <2> QED
    BY <2>1, <2>4, <2>5, MovedCall
<1>3. ASSUME NEW c \in DOMAIN codes, PresentCode(d, c)
      PROVE  CallsFit'
  <2> DEFINE x == [Idle EXCEPT !.code = c, !.pc = IF codes[c].used THEN "reuse" ELSE "burn"]
  <2>1. call' = [call EXCEPT ![d] = x] /\ Still
    BY <1>3 DEF PresentCode, Still, oauthVars
  <2>2. /\ x.code = c /\ x.consent = 0
        /\ x.pc = IF codes[c].used THEN "reuse" ELSE "burn"
    BY DEF Idle
  <2>3. call'[d] = x
    BY <1>1, <2>1
  <2>4. /\ call'[d].pc \in {"reuse", "burn"} /\ call'[d].code = c /\ c \in DOMAIN codes'
        /\ call'[d].pc = "reuse" => codes'[c].used
    <3>1. codes' = codes /\ DOMAIN codes' = DOMAIN codes
      BY <2>1 DEF Still
    <3>2. CASE codes[c].used
      BY <2>2, <2>3, <3>1, <3>2
    <3>3. CASE ~codes[c].used
      BY <2>2, <2>3, <3>1, <3>3
    <3> QED
      BY <3>2, <3>3
  <2>5. Fits(d)'
    BY <2>4 DEF Fits
  <2>6. x.pc # "insert" /\ x.code \in DOMAIN codes \cup {0} /\ x.consent \in DOMAIN consents \cup {0}
    BY <2>2
  <2> HIDE DEF x
  <2> QED
    BY <2>1, <2>5, <2>6, MovedCall
<1>4. CASE CallFails(d)
  <2>1. End(d) /\ Still
    BY <1>4 DEF CallFails, Still, oauthVars
  <2> QED
    BY <2>1, EndedCall, SpoiltByNobody DEF Still
<1> QED
  BY <1>2, <1>3, <1>4 DEF CallStep

LEMMA CallsStep ==
  ASSUME OauthInv, [Next]_vars
  PROVE  CallsFit'
<1>1. Lasting
  BY TablesStep
<1>2. ASSUME call' = call, \A e \in Calls : Unspoilt(e)
      PROVE  CallsFit'
  BY <1>1, <1>2, CallsAround, {} \in SUBSET Calls
<1>3. ASSUME Still, call' = call  PROVE CallsFit'
  BY <1>2, <1>3, SpoiltByNobody DEF Still
<1>4. CASE \E r \in Requests, u \in Users \cup {NoUser}, s \in Scopes : Authorize(r, u, s)
  BY <1>3, <1>4 DEF Authorize, Still
<1>5. ASSUME NEW d \in Calls, CallStep(d)  PROVE CallsFit'
  BY <1>1, <1>5, DecisionCalls, TokenCalls, OtherCalls
<1>6. CASE (\E i \in DOMAIN consents : RevokeConsent(i)) \/ RevokeClient
  <2>1. /\ StampedTables /\ call' = call
        /\ \A i \in DOMAIN consents : consents'[i].revoked =>
             consents[i].revoked \/ (i \in Held => i \in overtaken')
    BY <1>6, RevocationTables DEF RevokeConsent, RevokeClient
  <2>2. ASSUME NEW e \in Calls, call[e].pc = "insert"
        PROVE  /\ ~codes'[call[e].code].used
               /\ consents'[call[e].consent].revoked => call[e].consent \in overtaken'
    <3>1. /\ call[e].code \in DOMAIN codes /\ ~codes[call[e].code].used
          /\ call[e].consent \in DOMAIN consents /\ call[e].consent \in Held
          /\ consents[call[e].consent].revoked => call[e].consent \in overtaken
      BY <2>2 DEF OauthInv, CallsFit, Fits, Held
    <3>2. ~codes'[call[e].code].used
      BY <2>1, <3>1 DEF StampedTables
    <3>3. overtaken \subseteq overtaken'
      BY <2>1 DEF StampedTables
    <3> QED
      BY <2>1, <3>1, <3>2, <3>3
  <2> QED
    BY <1>2, <2>1, <2>2 DEF Unspoilt
<1>7. CASE Expire
  <2>1. /\ QuietTables \/ StampedTables
        /\ \A i \in DOMAIN consents : consents'[i].revoked = consents[i].revoked
        /\ call' = call /\ overtaken' = overtaken
    BY <1>7, ExpiryTables DEF Expire
  <2>2. \A c \in DOMAIN codes : codes'[c].used = codes[c].used
    BY <2>1 DEF QuietTables, StampedTables
  <2>3. ASSUME NEW e \in Calls  PROVE Unspoilt(e)
    BY <2>1, <2>2, SpoiltByNobody DEF OauthInv, CallsFit, Fits
  <2> QED
    BY <1>2, <2>1, <2>3
<1>8. CASE SweepStep
  BY <1>3, <1>8 DEF SweepStep, StartSweep, Grant, SweepDies, Still, oauthVars
<1>9. CASE UNCHANGED vars
  BY <1>3, <1>9 DEF vars, oauthVars, Still
<1> QED
  BY <1>4, <1>5, <1>6, <1>7, <1>8, <1>9, NextCases

-----------------------------------------------------------------------------
(* Types of what is not a table.                                           *)

LEMMA CallsTyped ==
  ASSUME OauthInv, [Next]_vars
  PROVE  call' \in [Calls -> CallRows]
<1>1. /\ call \in [Calls -> CallRows] /\ \A d \in Calls : call[d] \in CallRows
      /\ Idle \in CallRows
  BY RowsAreTyped DEF OauthInv, RowTypes, Idle, CallRows
<1>2. CASE call' = call
  BY <1>1, <1>2
<1>3. ASSUME NEW d \in Calls, End(d)  PROVE call' \in [Calls -> CallRows]
  BY <1>1, <1>3 DEF End
<1>4. ASSUME NEW d \in Calls,
             NEW p \in {"gate", "reject", "approve", "handover"}, Goto(d, p)
      PROVE  call' \in [Calls -> CallRows]
  BY <1>1, <1>4 DEF Goto, CallRows
<1>5. ASSUME NEW d \in Calls, CallStep(d)  PROVE call' \in [Calls -> CallRows]
  <2>1. ASSUME NEW u \in Users, NEW r \in Requests, NEW act \in {"view", "reject", "approve"},
               LoadRequest(d, u, r, act)
        PROVE  call' \in [Calls -> CallRows]
    <3>1. [Idle EXCEPT !.user = u, !.request = r, !.act = act,
                       !.pc = IF req[r].user = u THEN "gate" ELSE "attach"] \in CallRows
      BY <1>1 DEF CallRows
    <3> QED
      BY <1>1, <2>1, <3>1 DEF LoadRequest
  <2>2. ASSUME NEW c \in DOMAIN codes, PresentCode(d, c)  PROVE call' \in [Calls -> CallRows]
    <3>1. c \in Nat
      BY RowsAreTyped DEF OauthInv
    <3>2. [Idle EXCEPT !.code = c, !.pc = IF codes[c].used THEN "reuse" ELSE "burn"] \in CallRows
      BY <1>1, <3>1 DEF CallRows
    <3> QED
      BY <1>1, <2>2, <3>2 DEF PresentCode
  <2>3. CASE Attach(d)
    BY <1>3, <1>4, <2>3 DEF Attach, Claim
  <2>4. CASE Gate(d)
    <3>1. call[d].act \in {"reject", "approve"}
      BY <2>4 DEF Gate, OauthInv, CallsFit, Fits
    <3> QED
      BY <1>3, <1>4, <2>4, <3>1 DEF Gate
  <2>5. CASE Reject(d) \/ HandOver(d) \/ DetectReuse(d) \/ InsertToken(d) \/ CallFails(d)
    BY <1>3, <2>5 DEF Reject, HandOver, DetectReuse, InsertToken, CallFails
  <2>6. CASE Approve(d)
    BY <1>3, <1>4, <2>6 DEF Approve, RolledBack
  <2>7. CASE Exchange(d)
    <3>1. ASSUME NEW i \in DOMAIN consents,
                 call' = [call EXCEPT ![d].pc = "insert", ![d].consent = i]
          PROVE  call' \in [Calls -> CallRows]
      <4>1. i \in Nat
        BY RowsAreTyped DEF OauthInv
      <4>2. [call[d] EXCEPT !.pc = "insert", !.consent = i] \in CallRows
        BY <1>1, <4>1 DEF CallRows
      <4>3. call' = [call EXCEPT ![d] = [call[d] EXCEPT !.pc = "insert", !.consent = i]]
        BY <1>1, <3>1 DEF CallRows
      <4> QED
        BY <1>1, <4>2, <4>3
    <3> QED
      BY <1>3, <2>7, <3>1 DEF Exchange, BurnAndFind, Active, Unrevoked
  <2> QED
    BY <1>5, <2>1, <2>2, <2>3, <2>4, <2>5, <2>6, <2>7 DEF CallStep, Decision, TokenCall
<1> QED
  BY <1>2, <1>5, NextCases
     DEF Authorize, RevokeConsent, RevokeClient, Expire, SweepStep, StartSweep, Grant, SweepDies, vars

-----------------------------------------------------------------------------
(* The worker's rows.                                                      *)

GrantTypes ==
  /\ grants \in [Users -> GrantRows]
  /\ batch \in [Users -> Levels] /\ verdict \in [Users -> Levels]

\* What GrantsFit says of one customer.
Admissible(u) ==
  /\ grants[u].status # "absent" => Consented(u, grants[u].min)
  /\ batch[u] # "none" => /\ Consented(u, batch[u])
                          /\ grants[u].status # "absent" /\ grants[u].attempts < MaxAttempts
  /\ verdict[u] # "none" => Consented(u, verdict[u])

LEMMA StillAdmissible ==
  ASSUME OauthInv, ConsentsLast, NEW u \in Users,
         grants'[u] = grants[u], verdict'[u] = verdict[u], batch'[u] = batch[u] \/ batch'[u] = "none"
  PROVE  Admissible(u)'
<1>1. /\ grants[u].status # "absent" => Consented(u, grants[u].min)
      /\ batch[u] # "none" => Consented(u, batch[u])
      /\ verdict[u] # "none" => Consented(u, verdict[u])
  BY DEF OauthInv, GrantsFit
<1>2. ASSUME NEW m, Consented(u, m)
      PROVE  \E i \in DOMAIN consents' : consents'[i].user = u /\ MinLevel(consents'[i].scope) = m
  BY <1>2 DEF ConsentsLast, Consented
<1>3. batch[u] # "none" => grants[u].status # "absent" /\ grants[u].attempts < MaxAttempts
  BY DEF OauthInv, GrantsFit
<1> QED
  BY <1>1, <1>2, <1>3 DEF Admissible, Consented

LEMMA GrantsStep ==
  ASSUME OauthInv, [Next]_vars
  PROVE  GrantTypes' /\ GrantsFit'
<1>1. /\ grants \in [Users -> GrantRows] /\ \A u \in Users : grants[u] \in GrantRows
      /\ batch \in [Users -> Levels] /\ verdict \in [Users -> Levels]
      /\ MaxAttempts \in Nat \ {0} /\ "none" \in Levels
  BY OauthAssumption DEF OauthInv, RowTypes, Levels
<1>2. ConsentsLast
  BY TablesStep DEF Lasting
<1>3. ASSUME \A u \in Users : Admissible(u)'  PROVE GrantsFit'
  BY <1>3 DEF GrantsFit, Admissible
<1>4. CASE UNCHANGED grantVars
  BY <1>1, <1>2, <1>3, <1>4, StillAdmissible DEF grantVars, GrantTypes
<1>5. ASSUME NEW d \in Calls, HandOver(d)  PROVE GrantTypes' /\ GrantsFit'
  <2>1. PICK v \in Users, s \in Scopes :
          v = call[d].user /\ s = req[call[d].request].scope /\ Consented(v, MinLevel(s))
    BY <1>5, DecidedRequest DEF HandOver, OauthInv, CallsFit, Fits
  <2> DEFINE m == MinLevel(s)  row == [status |-> "pending", min |-> m, attempts |-> 0]
  <2>2. m \in Levels
    BY <2>1, OauthAssumption DEF MinLevel, Levels
  <2>3. row \in GrantRows
    BY <1>1, <2>2 DEF GrantRows
  <2>4. /\ grants' = [grants EXCEPT ![v] = row] /\ batch' = batch /\ verdict' = verdict
        /\ consents' = consents
    BY <1>5, <2>1 DEF HandOver, oauthVars
  <2>5. GrantTypes'
    BY <1>1, <2>1, <2>3, <2>4 DEF GrantTypes
  <2>6. ASSUME NEW u \in Users, u # v  PROVE Admissible(u)'
    BY <1>1, <1>2, <2>4, <2>6, StillAdmissible
  <2>7. Admissible(v)'
    <3>1. grants'[v] = row /\ row.status = "pending" /\ row.min = m /\ row.attempts = 0
      BY <1>1, <2>1, <2>4
    <3>2. /\ batch[v] # "none" => Consented(v, batch[v])
          /\ verdict[v] # "none" => Consented(v, verdict[v])
      BY <2>1 DEF OauthInv, GrantsFit
    <3>3. /\ v \in Users /\ grants'[v].status # "absent" /\ grants'[v].min = m
          /\ grants'[v].attempts < MaxAttempts
      BY <1>1, <2>1, <3>1
    <3>4. /\ \E i \in DOMAIN consents' : consents'[i].user = v /\ MinLevel(consents'[i].scope) = m
          /\ batch'[v] # "none" => \E i \in DOMAIN consents' :
               consents'[i].user = v /\ MinLevel(consents'[i].scope) = batch'[v]
          /\ verdict'[v] # "none" => \E i \in DOMAIN consents' :
               consents'[i].user = v /\ MinLevel(consents'[i].scope) = verdict'[v]
      BY <2>1, <2>4, <3>2 DEF Consented
    <3> QED
      BY <3>3, <3>4 DEF Admissible, Consented
  <2> QED
    BY <1>3, <2>5, <2>6, <2>7
<1>6. CASE StartSweep
  <2>1. /\ batch' = [u \in Users |-> IF Claimable(u) THEN grants[u].min ELSE "none"]
        /\ grants' = grants /\ verdict' = verdict /\ consents' = consents
    BY <1>1, <1>6 DEF StartSweep, oauthVars
  <2>2. GrantTypes'
    <3>1. \A u \in Users : grants[u].min \in Levels
      BY <1>1 DEF GrantRows
    <3> QED
      BY <1>1, <2>1, <3>1 DEF GrantTypes
  <2>3. ASSUME NEW u \in Users  PROVE Admissible(u)'
    <3>1. CASE Claimable(u)
      <4>1. batch'[u] = grants[u].min /\ grants[u].status # "absent" /\ grants[u].attempts < MaxAttempts
        BY <2>1, <3>1 DEF Claimable
      <4>2. /\ Consented(u, grants[u].min)
            /\ verdict[u] # "none" => Consented(u, verdict[u])
        BY <4>1 DEF OauthInv, GrantsFit
      <4> QED
        BY <2>1, <4>1, <4>2 DEF Admissible, Consented
    <3>2. CASE ~Claimable(u)
      BY <1>2, <2>1, <3>2, StillAdmissible
    <3> QED
      BY <3>1, <3>2
  <2> QED
    BY <1>3, <2>2, <2>3
<1>7. ASSUME NEW v \in Users, Grant(v)  PROVE GrantTypes' /\ GrantsFit'
  <2>1. /\ batch[v] # "none" /\ batch' = [batch EXCEPT ![v] = "none"] /\ consents' = consents
        /\ verdict' = verdict \/ verdict' = [verdict EXCEPT ![v] = batch[v]]
        /\ \/ grants' = [grants EXCEPT ![v].status = "granted"]
           \/ grants' = [grants EXCEPT ![v].status = "failed", ![v].attempts = @ + 1]
    BY <1>7 DEF Grant, Admitted, MarkGranted, MarkFailed, oauthVars
  <2>2. /\ grants[v].status # "absent" /\ grants[v].attempts < MaxAttempts
        /\ Consented(v, grants[v].min) /\ Consented(v, batch[v])
        /\ verdict[v] # "none" => Consented(v, verdict[v])
    BY <2>1 DEF OauthInv, GrantsFit
  <2>3. grants[v].attempts + 1 \in 0..MaxAttempts
    BY <1>1, <2>2 DEF GrantRows
  <2>4. /\ grants' \in [Users -> GrantRows]
        /\ grants'[v].status # "absent" /\ grants'[v].min = grants[v].min
        /\ \A u \in Users \ {v} : grants'[u] = grants[u]
    BY <1>1, <2>1, <2>3 DEF GrantRows
  <2>5. /\ batch' \in [Users -> Levels] /\ batch'[v] = "none"
        /\ \A u \in Users \ {v} : batch'[u] = batch[u]
    BY <1>1, <2>1
  <2>6. /\ verdict' \in [Users -> Levels] /\ verdict'[v] \in {verdict[v], batch[v]}
        /\ \A u \in Users \ {v} : verdict'[u] = verdict[u]
    BY <1>1, <2>1
  <2>7. ASSUME NEW u \in Users, u # v  PROVE Admissible(u)'
    BY <1>2, <2>4, <2>5, <2>6, <2>7, StillAdmissible
  <2>8. Admissible(v)'
    BY <2>1, <2>2, <2>4, <2>5, <2>6 DEF Admissible, Consented
  <2> QED
    BY <1>3, <2>4, <2>5, <2>6, <2>7, <2>8 DEF GrantTypes
<1>8. CASE SweepDies
  <2>1. PICK v \in Users : batch[v] # "none" /\ (Admitted(v) \/ UNCHANGED verdict)
    BY <1>8 DEF SweepDies
  <2>2. /\ batch' = [u \in Users |-> "none"]
        /\ grants' = grants /\ consents' = consents
    BY <1>1, <1>8 DEF SweepDies, oauthVars
  <2>3. /\ verdict' \in [Users -> Levels] /\ verdict'[v] \in {verdict[v], batch[v]}
        /\ \A u \in Users \ {v} : verdict'[u] = verdict[u]
    BY <1>1, <2>1 DEF Admitted
  <2>4. \A u \in Users : batch'[u] = "none"
    BY <2>2
  <2>5. GrantTypes'
    BY <1>1, <2>2, <2>3 DEF GrantTypes, Levels
  <2>6. ASSUME NEW u \in Users, u # v  PROVE Admissible(u)'
    BY <1>2, <2>2, <2>3, <2>4, <2>6, StillAdmissible
  <2>7. Admissible(v)'
    BY <2>1, <2>2, <2>3, <2>4 DEF Admissible, Consented, OauthInv, GrantsFit
  <2> QED
    BY <1>3, <2>5, <2>6, <2>7
<1>9. CASE \E d \in Calls : CallStep(d)
  BY <1>4, <1>5, <1>9
     DEF CallStep, Decision, TokenCall, LoadRequest, PresentCode, Attach, Gate, Reject, Approve,
         DetectReuse, Exchange, InsertToken, CallFails
<1> QED
  BY <1>4, <1>6, <1>7, <1>8, <1>9, NextCases
     DEF SweepStep, Authorize, RevokeConsent, RevokeClient, Expire, vars

-----------------------------------------------------------------------------
(* The theorems.                                                           *)

LEMMA InitInv == Init => OauthInv
<1> SUFFICES ASSUME Init  PROVE OauthInv
  OBVIOUS
<1>1. /\ consents = <<>> /\ codes = <<>> /\ tokens = <<>> /\ overtaken = {}
      /\ DOMAIN consents = {} /\ DOMAIN codes = {} /\ DOMAIN tokens = {}
  BY DEF Init
<1>2. /\ \A r \in Requests : ~req[r].made /\ req[r].user = NoUser /\ req[r].outcome = "none"
      /\ \A d \in Calls : call[d].pc = "idle" /\ call[d].code = 0 /\ call[d].consent = 0
      /\ \A u \in Users : grants[u].status = "absent" /\ batch[u] = "none" /\ verdict[u] = "none"
  BY DEF Init, Idle, NoRow
<1>3. RowTypes
  <2>1. MaxAttempts \in Nat
    BY OauthAssumption
  <2>2. req \in [Requests -> RequestRows] /\ call \in [Calls -> CallRows]
    BY DEF Init, RequestRows, Idle, CallRows
  <2>3. grants \in [Users -> GrantRows] /\ batch \in [Users -> Levels] /\ verdict \in [Users -> Levels]
    BY <2>1 DEF Init, NoRow, GrantRows, Levels
  <2>4. consents \in Seq(ConsentRows) /\ codes \in Seq(CodeRows) /\ tokens \in Seq(TokenRows)
    BY <1>1, EmptySeq
  <2> QED
    BY <1>1, <2>2, <2>3, <2>4 DEF Init, RowTypes
<1>4. Tables
  <2>1. RequestsFit /\ CodesFit /\ TokensFit
    BY <1>1, <1>2 DEF RequestsFit, CodesFit, TokensFit
  <2>2. OneOutcomePerRequest
    BY <1>1, <1>2 DEF OneOutcomePerRequest
  <2>3. OneTokenPerCode /\ ReusedCodeIsWorthless /\ LiveTokenHasConsent
    BY <1>1 DEF OneTokenPerCode, ReusedCodeIsWorthless, LiveTokenHasConsent
  <2> QED
    BY <2>1, <2>2, <2>3 DEF Tables
<1>5. CallsFit
  BY <1>2 DEF CallsFit, Fits
<1>6. GrantsFit
  BY <1>2 DEF GrantsFit
<1> QED
  BY <1>3, <1>4, <1>5, <1>6 DEF OauthInv

LEMMA NextInv == OauthInv /\ [Next]_vars => OauthInv'
<1> SUFFICES ASSUME OauthInv, [Next]_vars  PROVE OauthInv'
  OBVIOUS
<1>1. TableTypes' /\ Tables'
  BY TablesStep
<1>2. call' \in [Calls -> CallRows] /\ CallsFit'
  BY CallsTyped, CallsStep
<1>3. GrantTypes' /\ GrantsFit'
  BY GrantsStep
<1>4. clientRevoked' \in BOOLEAN
  <2>1. clientRevoked \in BOOLEAN
    BY DEF OauthInv, RowTypes
  <2>2. clientRevoked' = clientRevoked \/ clientRevoked' = TRUE
    BY NextCases DEF CallStep, Decision, TokenCall, SweepStep, Authorize, LoadRequest, PresentCode,
       Attach, Gate, Reject, Approve, HandOver, DetectReuse, Exchange, InsertToken, CallFails,
       RevokeConsent, RevokeClient, Expire, StartSweep, Grant, SweepDies, vars
  <2> QED
    BY <2>1, <2>2
<1>5. RowTypes'
  BY <1>1, <1>2, <1>3, <1>4 DEF RowTypes, TableTypes, GrantTypes
<1> QED
  BY <1>1, <1>2, <1>3, <1>5 DEF OauthInv

LEMMA OauthInvariant == Spec => []OauthInv
BY InitInv, NextInv, PTL DEF Spec

\* OauthTypeOK: every row, every local of a call and every grant has its type,
\* and what a row or a call refers to exists.
THEOREM OauthTypes == Spec => []OauthTypeOK
<1>1. OauthInv => OauthTypeOK
  <2> SUFFICES ASSUME OauthInv  PROVE OauthTypeOK
    OBVIOUS
  <2>1. \A t \in DOMAIN tokens :
          tokens[t] \in [code : DOMAIN codes, user : Users, consent : DOMAIN consents, revoked : BOOLEAN]
    BY RowsAreTyped DEF OauthInv, Tables, TokensFit, TokenRows
  <2>2. call \in [Calls -> Call]
    <3>1. call \in [Calls -> CallRows] /\ \A d \in Calls : call[d] \in CallRows
      BY RowsAreTyped DEF OauthInv, RowTypes
    <3>2. \A d \in Calls : call[d] \in Call
      BY <3>1 DEF Call, CallRows, OauthInv, CallsFit
    <3> QED
      BY <3>1, <3>2
  <2>3. /\ \A i \in DOMAIN consents : consents[i] \in ConsentRows
        /\ \A c \in DOMAIN codes : codes[c] \in CodeRows
    BY RowsAreTyped DEF OauthInv
  <2> QED
    BY <2>1, <2>2, <2>3
       DEF OauthTypeOK, OauthInv, RowTypes, RequestRows, ConsentRows, CodeRows, GrantRows
<1> QED
  BY <1>1, OauthInvariant, PTL

\* OneOutcomePerRequest: of all the calls racing to decide a request, one does.
THEOREM OneOutcome == Spec => []OneOutcomePerRequest
<1>1. OauthInv => OneOutcomePerRequest
  BY DEF OauthInv, Tables
<1> QED
  BY <1>1, OauthInvariant, PTL

\* OneTokenPerCode: of all the exchanges that present a code, one is served.
THEOREM OneToken == Spec => []OneTokenPerCode
<1>1. OauthInv => OneTokenPerCode
  BY DEF OauthInv, Tables
<1> QED
  BY <1>1, OauthInvariant, PTL

\* TokensFollowTheOwner: code, consent and token are the request's customer's.
THEOREM OwnersFollowed == Spec => []TokensFollowTheOwner
<1>1. OauthInv => TokensFollowTheOwner
  BY DEF OauthInv, Tables, CodesFit, TokensFit, TokensFollowTheOwner
<1> QED
  BY <1>1, OauthInvariant, PTL

\* ReusedCodeIsWorthless: a detected reuse leaves nothing of the code alive.
THEOREM ReuseIsPunished == Spec => []ReusedCodeIsWorthless
<1>1. OauthInv => ReusedCodeIsWorthless
  BY DEF OauthInv, Tables
<1> QED
  BY <1>1, OauthInvariant, PTL

\* LiveTokenHasConsent: a revocation reaches every token but those of exchanges
\* that had read the consent before it.
THEOREM RevocationReachesTokens == Spec => []LiveTokenHasConsent
<1>1. OauthInv => LiveTokenHasConsent
  BY DEF OauthInv, Tables
<1> QED
  BY <1>1, OauthInvariant, PTL

\* GrantHasConsent: what the chain tests for the firm was consented to.
THEOREM GrantsAreConsented == Spec => []GrantHasConsent
<1>1. OauthInv => GrantHasConsent
  <2> SUFFICES ASSUME OauthInv, NEW u \in DOMAIN verdict, verdict[u] # "none"
               PROVE  Consented(u, verdict[u])
    BY DEF GrantHasConsent, Consented
  <2>1. u \in Users
    BY DEF OauthInv, RowTypes
  <2> QED
    BY <2>1 DEF OauthInv, GrantsFit
<1> QED
  BY <1>1, OauthInvariant, PTL

-----------------------------------------------------------------------------
(* The tables implement AuthorizationGrants.                               *)

\* Whether the request's code was redeemed, and whether its token is alive.
Spent(r) == \E t \in DOMAIN tokens : codes[tokens[t].code].request = r
Alive(r) == \E t \in DOMAIN tokens : codes[tokens[t].code].request = r /\ ~tokens[t].revoked

StageOf(r) ==
  IF ~req[r].made THEN "none"
  ELSE IF req[r].outcome = "none" THEN "open"
  ELSE IF req[r].outcome = "rejected" THEN "rejected"
  ELSE IF Alive(r) THEN "live"
  ELSE IF Spent(r) THEN "withdrawn" ELSE "approved"

Grants == INSTANCE AuthorizationGrants WITH
  stage <- [r \in Requests |-> StageOf(r)],
  owner <- [r \in Requests |-> req[r].user],
  wanted <- [r \in Requests |-> req[r].scope]

\* Nobody decides for nobody.
DecidedByOwner == \A r \in Requests : req[r].outcome # "none" => req[r].user \in Users

SameStage(r) == StageOf(r)' = StageOf(r)
SameOwner(r) == req'[r].user = req[r].user /\ req'[r].scope = req[r].scope

LEMMA StageStands ==
  ASSUME NEW r, req'[r].made = req[r].made, req'[r].outcome = req[r].outcome, tokens' = tokens,
         \A t \in DOMAIN tokens :
           codes'[tokens[t].code].request = codes[tokens[t].code].request
  PROVE  SameStage(r)
BY DEF SameStage, StageOf, Spent, Alive

\* One request moves on, and nothing changes hands.
LEMMA OneAdvances ==
  ASSUME NEW r \in Requests, NEW from, NEW to, StageOf(r) = from, StageOf(r)' = to,
         \A q \in Requests : q # r => SameStage(q)
  PROVE  Grants!Advance(r, from, to)
<1>1. \A q \in Requests : StageOf(q)' = IF q = r THEN to ELSE StageOf(q)
  BY DEF SameStage
<1> QED
  BY <1>1 DEF Grants!Advance

LEMMA NobodyMoves ==
  ASSUME \A q \in Requests : SameOwner(q)
  PROVE  UNCHANGED <<[r \in Requests |-> req[r].user], [r \in Requests |-> req[r].scope]>>
BY DEF SameOwner

LEMMA NothingHappens ==
  ASSUME \A q \in Requests : SameOwner(q) /\ SameStage(q)
  PROVE  UNCHANGED <<[r \in Requests |-> StageOf(r)], [r \in Requests |-> req[r].user],
                     [r \in Requests |-> req[r].scope]>>
BY DEF SameOwner, SameStage

\* What a step does to the grants.
GrantStep ==
  \/ Grants!GrantsNext
  \/ UNCHANGED <<[r \in Requests |-> StageOf(r)], [r \in Requests |-> req[r].user],
                 [r \in Requests |-> req[r].scope]>>

LEMMA StillTables ==
  ASSUME req' = req, codes' = codes, tokens' = tokens
  PROVE  GrantStep
BY NothingHappens, StageStands DEF GrantStep, SameOwner

LEMMA AskedStep ==
  ASSUME OauthInv, NEW r \in Requests, NEW u \in Users \cup {NoUser}, NEW s \in Scopes,
         Authorize(r, u, s)
  PROVE  GrantStep
<1>1. req \in [Requests -> RequestRows] /\ req[r] \in RequestRows /\ req[r].outcome = "none"
  BY RowsAreTyped DEF OauthInv, RowTypes, Tables, RequestsFit, Authorize
<1>2. /\ ~req[r].made /\ codes' = codes /\ tokens' = tokens
      /\ req' = [req EXCEPT ![r].made = TRUE, ![r].user = u, ![r].scope = s]
  BY DEF Authorize
<1>3. /\ req'[r].made /\ req'[r].user = u /\ req'[r].scope = s /\ req'[r].outcome = "none"
      /\ \A q \in Requests : q # r => req'[q] = req[q]
  BY <1>1, <1>2 DEF RequestRows
<1>4. Grants!Advance(r, "none", "open")
  <2>1. StageOf(r) = "none" /\ StageOf(r)' = "open"
    BY <1>2, <1>3 DEF StageOf
  <2>2. \A q \in Requests : q # r => SameStage(q)
    BY <1>2, <1>3, StageStands
  <2> QED
    BY <2>1, <2>2, OneAdvances
<1>5. /\ [q \in Requests |-> req'[q].user] = [[q \in Requests |-> req[q].user] EXCEPT ![r] = u]
      /\ [q \in Requests |-> req'[q].scope] = [[q \in Requests |-> req[q].scope] EXCEPT ![r] = s]
  BY <1>3
<1>6. Grants!Ask(r, u, s)
  BY <1>4, <1>5 DEF Grants!Ask
<1> QED
  BY <1>6 DEF GrantStep, Grants!GrantsNext

LEMMA TakenUpStep ==
  ASSUME OauthInv, DecidedByOwner, NEW d \in Calls, Attach(d)
  PROVE  GrantStep
<1>1. PICK r \in Requests, u \in Users :
        r = call[d].request /\ u = call[d].user /\ req[r].made
  BY DecidedRequest DEF Attach
<1>2. req \in [Requests -> RequestRows] /\ req[r] \in RequestRows /\ NoUser \notin Users
  BY <1>1, RowsAreTyped, OauthAssumption DEF OauthInv, RowTypes
<1>3. codes' = codes /\ tokens' = tokens
  BY DEF Attach
<1>4. CASE req[r].user = NoUser
  <2>1. req' = [req EXCEPT ![r].user = u]
    BY <1>1, <1>4 DEF Attach, Claim
  <2>2. /\ req'[r].made = req[r].made /\ req'[r].outcome = req[r].outcome
        /\ req'[r].user = u /\ req'[r].scope = req[r].scope
        /\ \A q \in Requests : q # r => req'[q] = req[q]
    BY <1>1, <1>2, <2>1 DEF RequestRows
  <2>3. \A q \in Requests : SameStage(q)
    BY <1>3, <2>2, StageStands
  <2>4. StageOf(r) = "open"
    BY <1>1, <1>2, <1>4 DEF StageOf, DecidedByOwner
  <2>5. UNCHANGED <<[q \in Requests |-> StageOf(q)], [q \in Requests |-> req[q].scope]>>
    <3>1. \A q \in Requests : req'[q].scope = req[q].scope
      BY <2>2
    <3> QED
      BY <2>3, <3>1 DEF SameStage
  <2>6. [q \in Requests |-> req'[q].user] = [[q \in Requests |-> req[q].user] EXCEPT ![r] = u]
    BY <2>2
  <2>7. Grants!TakeUp(r, u)
    BY <1>1, <1>4, <2>4, <2>5, <2>6 DEF Grants!TakeUp
  <2> QED
    BY <1>1, <2>7 DEF GrantStep, Grants!GrantsNext
<1>5. CASE req[r].user # NoUser
  BY <1>1, <1>3, <1>5, StillTables DEF Attach, Claim
<1> QED
  BY <1>4, <1>5

LEMMA RejectedStep ==
  ASSUME OauthInv, NEW d \in Calls, Reject(d)
  PROVE  GrantStep
<1>1. PICK r \in Requests : r = call[d].request /\ req[r].user \in Users /\ req[r].made
  BY DecidedRequest DEF Reject
<1>2. req \in [Requests -> RequestRows] /\ req[r] \in RequestRows
  BY <1>1, RowsAreTyped DEF OauthInv, RowTypes
<1>3. codes' = codes /\ tokens' = tokens
  BY DEF Reject
<1>4. CASE Unclaimed(r)
  <2>1. req' = [req EXCEPT ![r].outcome = "rejected"] /\ req[r].outcome = "none"
    BY <1>1, <1>4 DEF Reject, Unclaimed
  <2>2. /\ req'[r].made = req[r].made /\ req'[r].outcome = "rejected"
        /\ req'[r].user = req[r].user /\ req'[r].scope = req[r].scope
        /\ \A q \in Requests : q # r => req'[q] = req[q]
    BY <1>1, <1>2, <2>1 DEF RequestRows
  <2>3. StageOf(r) = "open" /\ StageOf(r)' = "rejected"
    BY <1>1, <2>1, <2>2 DEF StageOf
  <2>4. \A q \in Requests : q # r => SameStage(q)
    BY <1>3, <2>2, StageStands
  <2>5. Grants!Advance(r, "open", "rejected")
    BY <1>1, <2>3, <2>4, OneAdvances
  <2>6. \A q \in Requests : SameOwner(q)
    BY <2>2 DEF SameOwner
  <2>7. Grants!Decide(r)
    BY <1>1, <2>5, <2>6, NobodyMoves DEF Grants!Decide
  <2> QED
    BY <1>1, <2>7 DEF GrantStep, Grants!GrantsNext
<1>5. CASE ~Unclaimed(r)
  BY <1>1, <1>3, <1>5, StillTables DEF Reject
<1> QED
  BY <1>4, <1>5

LEMMA ApprovedGrant ==
  ASSUME OauthInv, NEW r, NEW u, ApprovedTables(r, u)
  PROVE  GrantStep
<1>1. /\ r \in Requests /\ u \in Users /\ req[r].made /\ req[r].user = u /\ req[r].outcome = "none"
      /\ req' = [req EXCEPT ![r].outcome = "approved"] /\ tokens' = tokens
  BY DEF ApprovedTables
<1>2. req \in [Requests -> RequestRows] /\ req[r] \in RequestRows
  BY <1>1, RowsAreTyped DEF OauthInv, RowTypes
<1>3. /\ req'[r].made /\ req'[r].outcome = "approved"
      /\ req'[r].user = u /\ req'[r].scope = req[r].scope
      /\ \A q \in Requests : q # r => req'[q] = req[q]
  BY <1>1, <1>2 DEF RequestRows
<1>4. /\ \A c \in DOMAIN codes : codes'[c] = codes[c] /\ codes[c].request # r
      /\ \A t \in DOMAIN tokens : tokens[t].code \in DOMAIN codes
  <2>1. codes \in Seq(CodeRows) /\ NewCode(r, u) \in CodeRows
    BY <1>1, <1>2, RowsAreTyped
       DEF OauthInv, RowTypes, Tables, RequestsFit, NewCode, CodeRows
  <2>2. \A c \in DOMAIN codes : codes'[c] = codes[c]
    BY <2>1, AppendedRows DEF ApprovedTables
  <2>3. \A c \in DOMAIN codes : codes[c].request # r
    BY <1>1 DEF OauthInv, Tables, OneOutcomePerRequest
  <2> QED
    BY <2>2, <2>3 DEF OauthInv, Tables, TokensFit
<1>5. StageOf(r) = "open" /\ StageOf(r)' = "approved"
  <2>1. ~Spent(r)' /\ ~Alive(r)'
    BY <1>1, <1>4 DEF Spent, Alive
  <2> QED
    BY <1>1, <1>3, <2>1 DEF StageOf
<1>6. \A q \in Requests : q # r => SameStage(q)
  BY <1>1, <1>3, <1>4, StageStands
<1>7. Grants!Advance(r, "open", "approved")
  BY <1>1, <1>5, <1>6, OneAdvances
<1>8. \A q \in Requests : SameOwner(q)
  BY <1>1, <1>3 DEF SameOwner
<1>9. Grants!Decide(r)
  BY <1>1, <1>7, <1>8, NobodyMoves DEF Grants!Decide
<1> QED
  BY <1>1, <1>9 DEF GrantStep, Grants!GrantsNext

LEMMA MintedGrant ==
  ASSUME OauthInv, NEW c, NEW i, MintedTables(c, i)
  PROVE  GrantStep
<1>1. /\ c \in DOMAIN codes /\ ~codes[c].used /\ req' = req
      /\ codes' = [codes EXCEPT ![c].used = TRUE]
      /\ tokens' = Append(tokens, NewToken(c, i))
  BY DEF MintedTables
<1>2. PICK r \in Requests : r = codes[c].request
  BY <1>1, RowsAreTyped DEF OauthInv, CodeRows
<1>3. \A b \in DOMAIN codes : codes'[b].request = codes[b].request
  BY <1>1, RowsAreTyped DEF OauthInv, CodeRows
<1> DEFINE new == Len(tokens) + 1
<1>4. /\ new \in DOMAIN tokens' /\ tokens'[new].code = c /\ ~tokens'[new].revoked
      /\ DOMAIN tokens' = DOMAIN tokens \cup {new}
      /\ \A t \in DOMAIN tokens : tokens'[t] = tokens[t] /\ tokens[t].code \in DOMAIN codes
  <2>1. c \in Nat /\ i \in Nat /\ codes[c].user \in Users
    <3>1. i \in 1..Len(consents') /\ Len(consents') \in Nat
      BY LenProperties DEF MintedTables
    <3> QED
      BY <1>1, <3>1, RowsAreTyped DEF OauthInv, CodeRows
  <2>2. tokens \in Seq(TokenRows) /\ NewToken(c, i) \in TokenRows
    BY <2>1 DEF OauthInv, RowTypes, NewToken, TokenRows
  <2>3. NewToken(c, i).code = c /\ ~NewToken(c, i).revoked
    BY DEF NewToken
  <2>4. \A t \in DOMAIN tokens : tokens[t].code \in DOMAIN codes
    BY DEF OauthInv, Tables, TokensFit
  <2> QED
    BY <1>1, <2>2, <2>3, <2>4, AppendedRows
<1>5. \A t \in DOMAIN tokens : codes[tokens[t].code].request # r
  BY <1>1, <1>2 DEF OauthInv, Tables, TokensFit, OneOutcomePerRequest
<1>6. StageOf(r) = "approved"
  <2>1. ~Spent(r) /\ ~Alive(r)
    BY <1>5 DEF Spent, Alive
  <2>2. req[r].made /\ req[r].outcome = "approved"
    BY <1>1, <1>2 DEF OauthInv, Tables, CodesFit, OneOutcomePerRequest
  <2> QED
    BY <2>1, <2>2 DEF StageOf
<1>7. StageOf(r)' = "live"
  <2>1. Alive(r)'
    BY <1>1, <1>2, <1>3, <1>4 DEF Alive
  <2>2. req'[r].made /\ req'[r].outcome = "approved"
    BY <1>1, <1>2 DEF OauthInv, Tables, CodesFit, OneOutcomePerRequest
  <2> QED
    BY <2>1, <2>2 DEF StageOf
<1>8. ASSUME NEW q \in Requests, q # r  PROVE SameStage(q)
  <2>1. Spent(q)' = Spent(q)
    BY <1>1, <1>2, <1>3, <1>4, <1>8 DEF Spent
  <2>2. Alive(q)' = Alive(q)
    BY <1>1, <1>2, <1>3, <1>4, <1>8 DEF Alive
  <2> QED
    BY <1>1, <2>1, <2>2 DEF SameStage, StageOf
<1>9. Grants!Advance(r, "approved", "live")
  BY <1>6, <1>7, <1>8, OneAdvances
<1>10. Grants!Redeem(r)
  BY <1>1, <1>9, NobodyMoves DEF Grants!Redeem, SameOwner
<1> QED
  BY <1>10 DEF GrantStep, Grants!GrantsNext

LEMMA WithdrawnGrants ==
  ASSUME OauthInv, NEW dead \in SUBSET DOMAIN tokens, RevokeTokens(dead), req' = req,
         \A c \in DOMAIN codes : codes'[c].request = codes[c].request
  PROVE  GrantStep
<1>1. /\ DOMAIN tokens' = DOMAIN tokens
      /\ \A t \in DOMAIN tokens :
           /\ tokens'[t].code = tokens[t].code /\ tokens[t].code \in DOMAIN codes
           /\ tokens'[t].revoked <=> t \in dead \/ tokens[t].revoked
  BY TokensRevoked DEF OauthInv, Tables, TokensFit
<1>2. ASSUME NEW r \in Requests
      PROVE  (Spent(r)' <=> Spent(r)) /\ (Alive(r)' => Alive(r)) /\ (Alive(r) => Spent(r))
  <2>1. Spent(r)' <=> Spent(r)
    BY <1>1 DEF Spent
  <2>2. (Alive(r)' => Alive(r)) /\ (Alive(r) => Spent(r))
    BY <1>1 DEF Alive, Spent
  <2> QED
    BY <2>1, <2>2
<1>3. PICK gone \in SUBSET Requests :
        \A r \in Requests : r \in gone <=> StageOf(r) = "live" /\ ~Alive(r)'
  <2>1. {r \in Requests : StageOf(r) = "live" /\ ~Alive(r)'} \in SUBSET Requests
    OBVIOUS
  <2> QED
    BY <2>1
<1>4. ASSUME NEW r \in Requests
      PROVE  StageOf(r)' = IF r \in gone THEN "withdrawn" ELSE StageOf(r)
  BY <1>2, <1>3 DEF StageOf
<1>5. Grants!Withdraw(gone)
  <2>1. \A r \in gone : StageOf(r) = "live"
    BY <1>3
  <2>2. \A q \in Requests : SameOwner(q)
    BY DEF SameOwner
  <2> QED
    BY <1>4, <2>1, <2>2, NobodyMoves DEF Grants!Withdraw
<1> QED
  BY <1>5 DEF GrantStep, Grants!GrantsNext

LEMMA ExpiryGrants ==
  ASSUME OauthInv, Expire
  PROVE  GrantStep
<1>1. /\ tokens' = tokens
      /\ req \in [Requests -> RequestRows] /\ \A r \in Requests : req[r] \in RequestRows
      /\ \A c \in DOMAIN codes : codes[c] \in CodeRows
      /\ \A t \in DOMAIN tokens : tokens[t].code \in DOMAIN codes
  BY RowsAreTyped DEF Expire, OauthInv, RowTypes, Tables, TokensFit
<1>2. \A q \in Requests :
        req'[q].made = req[q].made /\ req'[q].outcome = req[q].outcome /\ SameOwner(q)
  BY <1>1 DEF Expire, RequestRows, SameOwner
<1>3. \A c \in DOMAIN codes : codes'[c].request = codes[c].request
  BY <1>1 DEF Expire, CodeRows
<1>4. \A q \in Requests : SameStage(q)
  BY <1>1, <1>2, <1>3, StageStands
<1> QED
  BY <1>2, <1>4, NothingHappens DEF GrantStep

LEMMA RevocationGrants ==
  ASSUME OauthInv,
         (\E i \in DOMAIN consents : RevokeConsent(i)) \/ RevokeClient
  PROVE  GrantStep
<1>1. req' = req /\ codes' = codes
  BY DEF RevokeConsent, RevokeClient
<1>2. PICK dead \in SUBSET DOMAIN tokens : RevokeTokens(dead)
  BY DEF RevokeConsent, RevokeClient, Cascade
<1> QED
  BY <1>1, <1>2, WithdrawnGrants

LEMMA ReuseGrants ==
  ASSUME OauthInv, NEW d \in Calls, DetectReuse(d)
  PROVE  GrantStep
<1>1. PICK dead \in SUBSET DOMAIN tokens : RevokeTokens(dead)
  BY DEF DetectReuse
<1>2. req' = req /\ \A c \in DOMAIN codes : codes'[c].request = codes[c].request
  <2>1. \A c \in DOMAIN codes : codes[c] \in CodeRows
    BY RowsAreTyped DEF OauthInv
  <2> QED
    BY <2>1 DEF DetectReuse, CodeRows
<1> QED
  BY <1>1, <1>2, WithdrawnGrants

LEMMA GrantsAdvance ==
  ASSUME OauthInv, DecidedByOwner, [Next]_vars
  PROVE  GrantStep
<1>1. CASE \E r \in Requests, u \in Users \cup {NoUser}, s \in Scopes : Authorize(r, u, s)
  BY <1>1, AskedStep
<1>2. ASSUME NEW d \in Calls, CallStep(d)  PROVE GrantStep
  <2>1. CASE \/ \E u \in Users, r \in Requests, act \in {"view", "reject", "approve"} :
                  LoadRequest(d, u, r, act)
             \/ \E c \in DOMAIN codes : PresentCode(d, c)
             \/ Gate(d) \/ HandOver(d) \/ CallFails(d)
    BY <2>1, StillTables DEF LoadRequest, PresentCode, Gate, HandOver, CallFails, oauthVars
  <2>2. CASE Attach(d)
    BY <2>2, TakenUpStep
  <2>3. CASE Reject(d)
    BY <2>3, RejectedStep
  <2>4. CASE Approve(d)
    <3>1. CASE UNCHANGED <<req, codes, consents>>
      BY <2>4, <3>1, StillTables DEF Approve
    <3> QED
      BY <2>4, <3>1, ApproveTables, ApprovedGrant
  <2>5. CASE DetectReuse(d)
    BY <2>5, ReuseGrants
  <2>6. CASE Exchange(d)
    <3>1. CASE QuietTables
      BY <2>6, <3>1, StillTables DEF Exchange, QuietTables
    <3> QED
      BY <2>6, <3>1, ExchangeTables, MintedGrant
  <2>7. CASE InsertToken(d)
    BY <2>7, InsertTables, MintedGrant
  <2> QED
    BY <1>2, <2>1, <2>2, <2>3, <2>4, <2>5, <2>6, <2>7 DEF CallStep, Decision, TokenCall
<1>3. CASE (\E i \in DOMAIN consents : RevokeConsent(i)) \/ RevokeClient
  BY <1>3, RevocationGrants
<1>4. CASE Expire
  BY <1>4, ExpiryGrants
<1>5. CASE SweepStep
  BY <1>5, StillTables DEF SweepStep, StartSweep, Grant, SweepDies, oauthVars
<1>6. CASE UNCHANGED vars
  BY <1>6, StillTables DEF vars, oauthVars
<1> QED
  BY <1>1, <1>2, <1>3, <1>4, <1>5, <1>6, NextCases

\* A decision is written by a call whose customer owns the request.
LEMMA OwnersDecide ==
  ASSUME OauthInv, DecidedByOwner, [Next]_vars
  PROVE  DecidedByOwner'
<1>1. /\ NoUser \notin Users /\ req \in [Requests -> RequestRows]
      /\ \A r \in Requests : req[r] \in RequestRows
  BY RowsAreTyped, OauthAssumption DEF OauthInv, RowTypes
<1>2. Lasting
  BY TablesStep
<1>3. ASSUME \A r \in Requests : req'[r].outcome # req[r].outcome => req[r].user \in Users
      PROVE  DecidedByOwner'
  BY <1>1, <1>2, <1>3 DEF DecidedByOwner, Lasting, RequestLasts
<1>4. CASE UNCHANGED req
  BY <1>3, <1>4
<1>5. ASSUME NEW d \in Calls, Reject(d) \/ Approve(d)  PROVE DecidedByOwner'
  <2>1. PICK r \in Requests : r = call[d].request /\ req[r].user \in Users
    BY <1>5, DecidedRequest DEF Reject, Approve
  <2>2. \A q \in Requests : q # r => req'[q] = req[q]
    BY <1>1, <1>5, <2>1 DEF Reject, Approve
  <2> QED
    BY <1>3, <2>1, <2>2
<1>6. ASSUME NEW d \in Calls, Attach(d)  PROVE DecidedByOwner'
  <2>1. \A q \in Requests : req'[q].outcome = req[q].outcome
    BY <1>1, <1>6 DEF Attach, Claim, RequestRows
  <2> QED
    BY <1>3, <2>1
<1>7. CASE \E r \in Requests, u \in Users \cup {NoUser}, s \in Scopes : Authorize(r, u, s)
  <2>1. \A q \in Requests : req'[q].outcome = req[q].outcome
    BY <1>1, <1>7 DEF Authorize, RequestRows
  <2> QED
    BY <1>3, <2>1
<1>8. CASE Expire
  <2>1. \A q \in Requests : req'[q].outcome = req[q].outcome
    BY <1>1, <1>8 DEF Expire, RequestRows
  <2> QED
    BY <1>3, <2>1
<1>9. CASE \E d \in Calls : CallStep(d)
  BY <1>4, <1>5, <1>6, <1>9
     DEF CallStep, Decision, TokenCall, LoadRequest, PresentCode, Gate, HandOver,
         DetectReuse, Exchange, InsertToken, CallFails, oauthVars
<1> QED
  BY <1>4, <1>7, <1>8, <1>9, NextCases
     DEF RevokeConsent, RevokeClient, SweepStep, StartSweep, Grant, SweepDies, vars, oauthVars

\* The tables, with every call that is in the middle of them, implement
\* AuthorizationGrants: whatever races, fails, is replayed or revoked, a request
\* has one owner, one decision, made by that owner, and one token at most, which
\* is dead for good once withdrawn.
THEOREM TablesImplementGrants == Spec => Grants!GrantsSpec
<1>1. Init => DecidedByOwner /\ Grants!GrantsInit
  <2> SUFFICES ASSUME Init  PROVE DecidedByOwner /\ Grants!GrantsInit
    OBVIOUS
  <2>1. \A r \in Requests :
          ~req[r].made /\ req[r].user = NoUser /\ req[r].outcome = "none" /\ req[r].scope = "none"
    BY DEF Init
  <2>2. \A r \in Requests : StageOf(r) = "none"
    BY <2>1 DEF StageOf
  <2> QED
    BY <2>1, <2>2 DEF DecidedByOwner, Grants!GrantsInit
<1>2. OauthInv /\ DecidedByOwner /\ [Next]_vars => DecidedByOwner'
  BY OwnersDecide
<1>3. OauthInv /\ DecidedByOwner /\ [Next]_vars
        => [Grants!GrantsNext]_<<[r \in Requests |-> StageOf(r)], [r \in Requests |-> req[r].user],
                                 [r \in Requests |-> req[r].scope]>>
  BY GrantsAdvance DEF GrantStep
<1> QED
  BY <1>1, <1>2, <1>3, OauthInvariant, PTL DEF Spec, Grants!GrantsSpec
=============================================================================
