--------------------------- MODULE SessionsProofs ---------------------------
(***************************************************************************)
(* Proofs about Sessions, for every set of identities, tenants, assertions,*)
(* requests and operator processes and every bound, and about the abstract *)
(* specification SingleUse it implements.                                  *)
(***************************************************************************)
EXTENDS Sessions, TLAPS

-----------------------------------------------------------------------------
(* The inductive invariant. *)

(* A request that holds an assertion verified it; one that holds a token   *)
(* holds a session, and from its record on a recorded one.                 *)
RequestsSound ==
  \A r \in Requests :
    /\ requests[r].step = "verified" =>
         requests[r].assertion \in Assertions /\ Claims[requests[r].assertion].genuine
    /\ requests[r].step \in {"issued", "answering", "serving"} =>
         requests[r].token \in DOMAIN tokens /\ ~tokens[requests[r].token].single
    /\ requests[r].step \in {"answering", "serving"} => requests[r].token \in recorded

(* A command under way is about a known identity, and revokes only after   *)
(* it has disabled.                                                        *)
CommandsSound ==
  \A c \in Operators :
    /\ commands[c].step # "idle" =>
         commands[c].identity \in Identities /\ Known(commands[c].identity)
    /\ commands[c].step = "revoking" => identities[commands[c].identity].disabled

(* The foreign key of auth_tokens. *)
TokensKnown == \A n \in DOMAIN tokens : Known(tokens[n].identity)

BarredAreDisabled == \A i \in barred : Known(i) /\ identities[i].disabled

(* The value of a session left the server only after its record. *)
HeldAreRecorded == \A n \in held : ~tokens[n].single => n \in recorded

IInv ==
  /\ TypeOK
  /\ RequestsSound
  /\ CommandsSound
  /\ TokensKnown
  /\ BarredAreDisabled
  /\ HeldAreRecorded
  /\ BarredSessionsAreRevoked
  /\ ActsWhereAsserted

-----------------------------------------------------------------------------
(* What the steps leave in place. *)

IdentitiesStay ==
  \A i \in Identities : Known(i) =>
    /\ identities'[i] # None
    /\ identities'[i].tenant = identities[i].tenant
    /\ identities'[i].kind = identities[i].kind
    /\ identities[i].disabled => identities'[i].disabled

SameRow(n) ==
  /\ tokens'[n].identity = tokens[n].identity
  /\ tokens'[n].single = tokens[n].single
  /\ tokens'[n].paidBy = tokens[n].paidBy
  /\ tokens[n].revoked => tokens'[n].revoked

TokensStay ==
  /\ Len(tokens) <= Len(tokens')
  /\ DOMAIN tokens \subseteq DOMAIN tokens'
  /\ \A n \in DOMAIN tokens : SameRow(n)

(* What a sequence of tokens with one more row is. *)
LEMMA Appended ==
  ASSUME NEW s \in Seq(Token), NEW row \in Token
  PROVE  /\ Append(s, row) \in Seq(Token)
         /\ Len(Append(s, row)) = Len(s) + 1
         /\ DOMAIN s = 1..Len(s)
         /\ DOMAIN Append(s, row) = 1..(Len(s) + 1)
         /\ Len(s) + 1 \notin DOMAIN s
         /\ \A n \in DOMAIN s : n \in DOMAIN Append(s, row) /\ Append(s, row)[n] = s[n]
         /\ Append(s, row)[Len(s) + 1] = row
         /\ \A n \in DOMAIN Append(s, row) : n \in DOMAIN s \/ n = Len(s) + 1
  OBVIOUS

(* RevokeIdentity touches one column of the rows of one identity. *)
LEMMA Revocation ==
  ASSUME TypeOK, NEW i \in Identities, tokens' = RevokedFor(i)
  PROVE  /\ tokens' \in Seq(Token)
         /\ Len(tokens') = Len(tokens)
         /\ DOMAIN tokens' = DOMAIN tokens
         /\ \A n \in DOMAIN tokens :
              /\ SameRow(n)
              /\ tokens'[n].consumed = tokens[n].consumed
              /\ tokens[n].identity = i => tokens'[n].revoked
<1>1. tokens \in Seq(Token) /\ DOMAIN tokens = 1..Len(tokens) /\ Len(tokens) \in Nat
  BY DEF TypeOK
<1>2. ASSUME NEW n \in DOMAIN tokens PROVE tokens[n] \in Token /\ tokens'[n] \in Token
  <2>1. tokens[n] \in Token BY <1>1
  <2>2. [tokens[n] EXCEPT !.revoked = TRUE] \in Token BY <2>1 DEF Token
  <2>3. tokens'[n] = IF tokens[n].identity = i THEN [tokens[n] EXCEPT !.revoked = TRUE]
                     ELSE tokens[n]
    BY DEF RevokedFor
  <2>4. QED BY <2>1, <2>2, <2>3
<1>3. DOMAIN tokens' = 1..Len(tokens)
  BY <1>1 DEF RevokedFor
<1>4. tokens' \in [1..Len(tokens) -> Token]
  BY <1>1, <1>2 DEF RevokedFor
<1>5. tokens' \in Seq(Token) /\ Len(tokens') = Len(tokens)
  BY <1>1, <1>3, <1>4
<1>6. ASSUME NEW n \in DOMAIN tokens
      PROVE  /\ SameRow(n)
             /\ tokens'[n].consumed = tokens[n].consumed
             /\ tokens[n].identity = i => tokens'[n].revoked
  <2>1. tokens[n] \in Token BY <1>2
  <2>2. tokens'[n] = IF tokens[n].identity = i THEN [tokens[n] EXCEPT !.revoked = TRUE]
                     ELSE tokens[n]
    BY DEF RevokedFor
  <2>3. QED BY <2>1, <2>2 DEF SameRow, Token
<1>7. QED BY <1>1, <1>3, <1>5, <1>6

(* The update of consume touches one column. *)
LEMMA ConsumedRow ==
  ASSUME NEW row \in Token
  PROVE  /\ [row EXCEPT !.consumed = TRUE] \in Token
         /\ [row EXCEPT !.consumed = TRUE].identity = row.identity
         /\ [row EXCEPT !.consumed = TRUE].single = row.single
         /\ [row EXCEPT !.consumed = TRUE].paidBy = row.paidBy
         /\ [row EXCEPT !.consumed = TRUE].revoked = row.revoked
         /\ [row EXCEPT !.consumed = TRUE].consumed = TRUE
  BY DEF Token

(* Exchange: a consumed row, then a new one behind it. *)
LEMMA Consumption ==
  ASSUME TypeOK, NEW n \in DOMAIN tokens, NEW row \in Token,
         tokens' = Append(Consumed(n), row)
  PROVE  /\ tokens' \in Seq(Token)
         /\ Len(tokens') = Len(tokens) + 1
         /\ DOMAIN tokens' = 1..(Len(tokens) + 1)
         /\ DOMAIN tokens = 1..Len(tokens)
         /\ \A m \in DOMAIN tokens :
              /\ SameRow(m)
              /\ m # n => tokens'[m].consumed = tokens[m].consumed
         /\ tokens'[n].consumed = TRUE
         /\ tokens'[Len(tokens) + 1] = row
<1>1. tokens \in Seq(Token) /\ DOMAIN tokens = 1..Len(tokens) /\ Len(tokens) \in Nat
  BY DEF TypeOK
<1>2. tokens[n] \in Token
  BY <1>1
<1>3. [tokens[n] EXCEPT !.consumed = TRUE] \in Token
  BY <1>2, ConsumedRow
<1>4. Consumed(n) \in Seq(Token) /\ Len(Consumed(n)) = Len(tokens)
  BY <1>1, <1>3 DEF Consumed
<1>5. ASSUME NEW m \in DOMAIN tokens
      PROVE  /\ Consumed(n)[m].identity = tokens[m].identity
             /\ Consumed(n)[m].single = tokens[m].single
             /\ Consumed(n)[m].paidBy = tokens[m].paidBy
             /\ Consumed(n)[m].revoked = tokens[m].revoked
             /\ m # n => Consumed(n)[m].consumed = tokens[m].consumed
             /\ m = n => Consumed(n)[m].consumed = TRUE
  <2>1. Consumed(n)[m] = IF m = n THEN [tokens[n] EXCEPT !.consumed = TRUE] ELSE tokens[m]
    BY <1>1 DEF Consumed
  <2>2. tokens[m] \in Token
    BY <1>1
  <2>3. CASE m = n
    BY <2>1, <2>3, ConsumedRow, <1>2
  <2>4. CASE m # n
    BY <2>1, <2>4
  <2>5. QED BY <2>3, <2>4
<1>7. /\ Append(Consumed(n), row) \in Seq(Token)
      /\ Len(Append(Consumed(n), row)) = Len(tokens) + 1
      /\ DOMAIN Append(Consumed(n), row) = 1..(Len(tokens) + 1)
      /\ \A m \in DOMAIN tokens : Append(Consumed(n), row)[m] = Consumed(n)[m]
      /\ Append(Consumed(n), row)[Len(tokens) + 1] = row
  BY <1>1, <1>4
<1>8. QED BY <1>1, <1>5, <1>7 DEF SameRow

(* handleLogout touches one column of one row. *)
LEMMA LogoutRow ==
  ASSUME TypeOK, NEW n \in DOMAIN tokens, tokens' = Revoked(n)
  PROVE  /\ tokens' \in Seq(Token)
         /\ Len(tokens') = Len(tokens)
         /\ DOMAIN tokens' = DOMAIN tokens
         /\ \A m \in DOMAIN tokens :
              SameRow(m) /\ tokens'[m].consumed = tokens[m].consumed
<1>1. tokens \in Seq(Token) /\ DOMAIN tokens = 1..Len(tokens) /\ Len(tokens) \in Nat
  BY DEF TypeOK
<1>2. tokens[n] \in Token
  BY <1>1
<1>3. /\ [tokens[n] EXCEPT !.revoked = TRUE] \in Token
      /\ [tokens[n] EXCEPT !.revoked = TRUE].identity = tokens[n].identity
      /\ [tokens[n] EXCEPT !.revoked = TRUE].single = tokens[n].single
      /\ [tokens[n] EXCEPT !.revoked = TRUE].paidBy = tokens[n].paidBy
      /\ [tokens[n] EXCEPT !.revoked = TRUE].consumed = tokens[n].consumed
      /\ [tokens[n] EXCEPT !.revoked = TRUE].revoked
  BY <1>2 DEF Token
<1>4. tokens' \in Seq(Token) /\ Len(tokens') = Len(tokens)
  BY <1>1, <1>3 DEF Revoked
<1>5. ASSUME NEW m \in DOMAIN tokens
      PROVE  tokens'[m] = IF m = n THEN [tokens[n] EXCEPT !.revoked = TRUE] ELSE tokens[m]
  BY <1>1 DEF Revoked
<1>6. ASSUME NEW m \in DOMAIN tokens
      PROVE  SameRow(m) /\ tokens'[m].consumed = tokens[m].consumed
  <2>1. CASE m = n
    BY <1>3, <1>5, <2>1 DEF SameRow
  <2>2. CASE m # n
    BY <1>5, <2>2 DEF SameRow
  <2>3. QED BY <2>1, <2>2
<1>7. QED BY <1>1, <1>4, <1>6

-----------------------------------------------------------------------------
(* The steps that leave the tables alone. *)

(* Verify, a refusal, a record, an answer, an authentication, the ends of  *)
(* requests and commands, a seal or a restart, and the clock.              *)
LEMMA Elsewhere ==
  ASSUME IInv, UNCHANGED database,
         TypeOK', RequestsSound', CommandsSound', HeldAreRecorded', barred' = barred
  PROVE  IInv'
  BY DEF IInv, TokensKnown, BarredAreDisabled, BarredSessionsAreRevoked, Known,
         ActsWhereAsserted, database

(* Requests that move on, or end, without touching a table. *)
LEMMA QuietRequests ==
  ASSUME IInv, NEW r \in Requests,
         \/ \E a \in Assertions : Verify(r, a)
         \/ RefuseInstance(r) \/ Record(r) \/ RecordFails(r)
         \/ Answer(r) \/ LoseAnswer(r)
         \/ \E n \in DOMAIN tokens : Authenticate(r, n)
         \/ Serve(r)
  PROVE  IInv'
<1> USE DEF Reaches, Ends, IdleRequest
<1> DEFINE Safe(q) ==
      /\ q \in Request
      /\ q.step = "verified" => q.assertion \in Assertions /\ Claims[q.assertion].genuine
      /\ q.step \in {"issued", "answering", "serving"} =>
           q.token \in DOMAIN tokens /\ ~tokens[q.token].single
      /\ q.step \in {"answering", "serving"} => q.token \in recorded'
<1>0. requests[r] \in Request /\ Safe(IdleRequest)
  BY NoneAssumption, BoundsAssumption DEF IInv, TypeOK, Request
<1>1. ASSUME UNCHANGED <<database, commands, now, barred>>, sealed' \in BOOLEAN,
             NEW q, Safe(q), requests' = [requests EXCEPT ![r] = q],
             recorded \subseteq recorded', recorded' \subseteq DOMAIN tokens,
             held' \subseteq DOMAIN tokens,
             \A n \in held' : ~tokens[n].single => n \in recorded'
      PROVE  IInv'
  <2>1. TypeOK'
    BY <1>1 DEF IInv, TypeOK, database
  <2>2. RequestsSound'
    BY <1>1 DEF IInv, TypeOK, RequestsSound, database
  <2>3. CommandsSound' /\ HeldAreRecorded'
    BY <1>1 DEF IInv, CommandsSound, HeldAreRecorded, Known, database
  <2>4. QED BY <1>1, <2>1, <2>2, <2>3, Elsewhere
<1>2. ASSUME NEW a \in Assertions, Verify(r, a) PROVE IInv'
  <2>1. Safe([step |-> "verified", assertion |-> a, token |-> 0])
    BY <1>2, BoundsAssumption DEF Verify, Verifies, Request
  <2>2. QED BY <1>1, <1>2, <2>1 DEF Verify, IInv, TypeOK, HeldAreRecorded, outside
<1>3. CASE RefuseInstance(r) \/ RecordFails(r) \/ LoseAnswer(r) \/ Serve(r)
  BY <1>0, <1>1, <1>3 DEF RefuseInstance, RecordFails, LoseAnswer, Serve, IInv, TypeOK,
                          HeldAreRecorded, outside
<1>4. CASE Record(r)
  <2>1. requests[r].token \in DOMAIN tokens /\ ~tokens[requests[r].token].single
    BY <1>4 DEF IInv, RequestsSound, Record
  <2>2. Safe([step |-> "answering", assertion |-> None, token |-> requests[r].token])
    BY <1>0, <1>4, <2>1 DEF Record, Request
  <2>3. QED BY <1>1, <1>4, <2>1, <2>2 DEF Record, IInv, TypeOK, HeldAreRecorded
<1>5. CASE Answer(r)
  <2>1. requests[r].token \in DOMAIN tokens /\ requests[r].token \in recorded
    BY <1>5 DEF IInv, RequestsSound, Answer
  <2>2. QED BY <1>0, <1>1, <1>5, <2>1 DEF Answer, IInv, TypeOK, HeldAreRecorded
<1>6. ASSUME NEW n \in DOMAIN tokens, Authenticate(r, n) PROVE IInv'
  <2>1. n \in 0..MaxTokens
    BY BoundsAssumption DEF IInv, TypeOK
  <2>2. Safe([step |-> "serving", assertion |-> None, token |-> n])
    BY <1>6, <2>1 DEF Authenticate, Authentic, Request, IInv, HeldAreRecorded, outside
  <2>3. QED BY <1>1, <1>6, <2>2 DEF Authenticate, IInv, TypeOK, HeldAreRecorded, outside
<1>7. QED BY <1>2, <1>3, <1>4, <1>5, <1>6

(* Commands that move on or end without touching a table, the seal, a      *)
(* restart and the clock.                                                  *)
LEMMA QuietOthers ==
  ASSUME IInv,
         \/ \E c \in Operators : Interrupt(c)
         \/ \E c \in Operators, i \in Identities : ReadIdentity(c, i)
         \/ Unseal \/ Restart \/ Tick
  PROVE  IInv'
<1>1. ASSUME NEW c \in Operators, Interrupt(c) PROVE IInv'
  <2>0. IdleCommand \in Command /\ IdleCommand.step = "idle"
    BY DEF IdleCommand, Command
  <2>1. TypeOK' /\ CommandsSound' /\ RequestsSound' /\ HeldAreRecorded'
    BY <1>1, <2>0 DEF IInv, TypeOK, CommandsSound, RequestsSound, HeldAreRecorded, Known,
                Interrupt, Finishes, database, outside
  <2>2. QED BY <1>1, <2>1, Elsewhere DEF Interrupt, outside
<1>2. ASSUME NEW c \in Operators, NEW i \in Identities, ReadIdentity(c, i) PROVE IInv'
  <2>1. TypeOK' /\ CommandsSound' /\ RequestsSound' /\ HeldAreRecorded'
    BY <1>2 DEF IInv, TypeOK, CommandsSound, RequestsSound, HeldAreRecorded, Known,
                ReadIdentity, MayIssue, Proceeds, Command, database, outside
  <2>2. QED BY <1>2, <2>1, Elsewhere DEF ReadIdentity, outside
<1>3. CASE Unseal \/ Tick
  <2>1. UNCHANGED <<database, requests, commands, outside>>
    BY <1>3 DEF Unseal, Tick
  <2>2. now' \in 0..MaxTime
    BY <1>3, BoundsAssumption DEF IInv, TypeOK, Unseal, Tick
  <2>3. sealed' \in BOOLEAN
    BY <1>3 DEF IInv, TypeOK, Unseal, Tick
  <2>4. TypeOK'
    BY <2>1, <2>2, <2>3 DEF IInv, TypeOK, database, outside
  <2>5. CommandsSound' /\ RequestsSound' /\ HeldAreRecorded'
    BY <2>1 DEF IInv, CommandsSound, RequestsSound, HeldAreRecorded, Known, database, outside
  <2>6. QED BY <2>1, <2>4, <2>5, Elsewhere DEF outside
<1>4. CASE Restart
  <2>1. IdleRequest \in Request
    BY BoundsAssumption DEF IdleRequest, Request
  <2>2. TypeOK' /\ CommandsSound' /\ RequestsSound' /\ HeldAreRecorded'
    BY <1>4, <2>1 DEF IInv, TypeOK, CommandsSound, RequestsSound, HeldAreRecorded, Known,
                      Restart, IdleRequest, database, outside
  <2>3. QED BY <1>4, <2>2, Elsewhere DEF Restart, outside
<1>5. QED BY <1>1, <1>2, <1>3, <1>4

-----------------------------------------------------------------------------
(* The steps that write to the tables. *)

(* Rows change only in their consumed and revoked columns, identities only *)
(* in being disabled, so what the invariant says of the old rows stays     *)
(* true; what is new must be shown.                                        *)
LEMMA Growth ==
  ASSUME IInv, TypeOK', IdentitiesStay, TokensStay, recorded' = recorded,
         \A r \in Requests :
           \/ requests'[r] = requests[r]
           \/ requests'[r] = IdleRequest
           \/ /\ requests'[r].step = "issued"
              /\ requests'[r].token \in DOMAIN tokens' /\ ~tokens'[requests'[r].token].single,
         \A c \in Operators :
           \/ commands'[c] = commands[c]
           \/ commands'[c] = IdleCommand
           \/ /\ commands'[c].identity \in Identities
              /\ identities'[commands'[c].identity] # None
              /\ identities'[commands'[c].identity].disabled,
         \A n \in DOMAIN tokens' \ DOMAIN tokens :
           /\ identities'[tokens'[n].identity] # None
           /\ \A a \in Assertions : tokens'[n].paidBy = Assertion(a) =>
                /\ Claims[a].genuine
                /\ tokens'[n].identity = Claims[a].subject
                /\ identities'[tokens'[n].identity].tenant = Claims[a].tenant
                /\ identities'[tokens'[n].identity].kind = "instance",
         \A n \in held' : n \in held \/ tokens'[n].single,
         \A i \in barred' : identities'[i] # None /\ identities'[i].disabled,
         BarredSessionsAreRevoked'
  PROVE  IInv'
<1>t. TypeOK /\ tokens \in Seq(Token)
  BY DEF IInv, TypeOK
<1>0. ASSUME NEW n \in DOMAIN tokens PROVE tokens[n].identity \in Identities /\ SameRow(n)
  <2>1. tokens[n] \in Token
    BY <1>t
  <2>2. QED BY <2>1 DEF TokensStay, Token
<1>1. RequestsSound'
  <2> SUFFICES ASSUME NEW r \in Requests
      PROVE  /\ requests'[r].step = "verified" =>
                  /\ requests'[r].assertion \in Assertions
                  /\ Claims[requests'[r].assertion].genuine
             /\ requests'[r].step \in {"issued", "answering", "serving"} =>
                  /\ requests'[r].token \in DOMAIN tokens'
                  /\ ~tokens'[requests'[r].token].single
             /\ requests'[r].step \in {"answering", "serving"} =>
                  requests'[r].token \in recorded'
    BY DEF RequestsSound
  <2>1. CASE requests'[r] = requests[r]
    BY <2>1 DEF IInv, RequestsSound, TokensStay, SameRow
  <2>2. CASE requests'[r] = IdleRequest
    BY <2>2 DEF IdleRequest
  <2>3. QED BY <2>1, <2>2
<1>2. CommandsSound'
  <2> SUFFICES ASSUME NEW c \in Operators
      PROVE  /\ commands'[c].step # "idle" =>
                  /\ commands'[c].identity \in Identities
                  /\ identities'[commands'[c].identity] # None
             /\ commands'[c].step = "revoking" => identities'[commands'[c].identity].disabled
    BY DEF CommandsSound, Known
  <2>1. CASE commands'[c] = commands[c]
    BY <2>1 DEF IInv, CommandsSound, IdentitiesStay, Known
  <2>2. CASE commands'[c] = IdleCommand
    BY <2>2 DEF IdleCommand
  <2>3. QED BY <2>1, <2>2
<1>3. TokensKnown'
  BY <1>0 DEF IInv, TokensKnown, Known, IdentitiesStay, SameRow
<1>4. BarredAreDisabled'
  BY DEF BarredAreDisabled, Known
<1>5. HeldAreRecorded'
  <2>1. held \subseteq DOMAIN tokens
    BY <1>t DEF TypeOK
  <2>2. QED BY <1>0, <2>1 DEF IInv, HeldAreRecorded, SameRow
<1>6. ActsWhereAsserted'
  <2> SUFFICES ASSUME NEW n \in DOMAIN tokens', NEW a \in Assertions,
                      tokens'[n].paidBy = Assertion(a)
               PROVE  /\ Claims[a].genuine
                      /\ tokens'[n].identity = Claims[a].subject
                      /\ identities'[tokens'[n].identity] # None
                      /\ identities'[tokens'[n].identity].tenant = Claims[a].tenant
                      /\ identities'[tokens'[n].identity].kind = "instance"
    BY DEF ActsWhereAsserted, Known, Assertion
  <2>1. CASE n \in DOMAIN tokens
    BY <1>0, <2>1 DEF IInv, ActsWhereAsserted, Known, IdentitiesStay, SameRow
  <2>2. QED BY <2>1
<1>7. QED BY <1>1, <1>2, <1>3, <1>4, <1>5, <1>6 DEF IInv

(* Revocations: by logout, of a lease's holder, and by the operator. *)
LEMMA RevokingSteps ==
  ASSUME IInv,
         \/ \E r \in Requests : Logout(r) \/ \E i \in Identities : RevokeHolder(r, i)
         \/ \E c \in Operators : RevokeIdentity(c)
  PROVE  IInv'
<1> USE DEF IInv
<1>1. ASSUME NEW r \in Requests, Logout(r) PROVE IInv'
  <2>1. requests[r].token \in DOMAIN tokens
    BY <1>1 DEF RequestsSound, Logout
  <2>2. /\ tokens' \in Seq(Token) /\ Len(tokens') = Len(tokens) /\ DOMAIN tokens' = DOMAIN tokens
        /\ \A m \in DOMAIN tokens : SameRow(m)
    BY <1>1, <2>1, LogoutRow DEF Logout
  <2>3. TypeOK'
    <3>1. IdleRequest \in Request BY BoundsAssumption DEF IdleRequest, Request
    <3>2. QED BY <1>1, <2>2, <3>1 DEF TypeOK, Logout, Ends, outside
  <2>4. IdentitiesStay /\ TokensStay
    BY <1>1, <2>2 DEF IdentitiesStay, TokensStay, Logout, Known, TypeOK
  <2>5. BarredSessionsAreRevoked'
    BY <1>1, <2>2 DEF BarredSessionsAreRevoked, SameRow, Logout, outside
  <2>6. \A q \in Requests : requests'[q] = requests[q] \/ requests'[q] = IdleRequest
    BY <1>1 DEF Logout, Ends, TypeOK
  <2>7. QED BY <1>1, <2>2, <2>3, <2>4, <2>5, <2>6, Growth
           DEF Logout, outside, BarredAreDisabled, Known
<1>2. ASSUME NEW r \in Requests, NEW i \in Identities, RevokeHolder(r, i) PROVE IInv'
  <2>2. /\ tokens' \in Seq(Token) /\ Len(tokens') = Len(tokens) /\ DOMAIN tokens' = DOMAIN tokens
        /\ \A m \in DOMAIN tokens : SameRow(m)
    BY <1>2, Revocation DEF RevokeHolder
  <2>3. TypeOK'
    <3>1. IdleRequest \in Request BY BoundsAssumption DEF IdleRequest, Request
    <3>2. QED BY <1>2, <2>2, <3>1 DEF TypeOK, RevokeHolder, Ends, outside
  <2>4. IdentitiesStay /\ TokensStay
    BY <1>2, <2>2 DEF IdentitiesStay, TokensStay, RevokeHolder, Known, TypeOK
  <2>5. BarredSessionsAreRevoked'
    BY <1>2, <2>2 DEF BarredSessionsAreRevoked, SameRow, RevokeHolder, outside
  <2>6. \A q \in Requests : requests'[q] = requests[q] \/ requests'[q] = IdleRequest
    BY <1>2 DEF RevokeHolder, Ends, TypeOK
  <2>7. QED BY <1>2, <2>2, <2>3, <2>4, <2>5, <2>6, Growth
           DEF RevokeHolder, outside, BarredAreDisabled, Known
<1>3. ASSUME NEW c \in Operators, RevokeIdentity(c) PROVE IInv'
  <2> DEFINE i == commands[c].identity
  <2>1. i \in Identities /\ Known(i) /\ identities[i].disabled
    BY <1>3 DEF CommandsSound, RevokeIdentity
  <2>2. /\ tokens' \in Seq(Token) /\ Len(tokens') = Len(tokens) /\ DOMAIN tokens' = DOMAIN tokens
        /\ \A m \in DOMAIN tokens : SameRow(m) /\ (tokens[m].identity = i => tokens'[m].revoked)
    BY <1>3, <2>1, Revocation DEF RevokeIdentity
  <2>3. TypeOK'
    <3>1. IdleCommand \in Command BY DEF IdleCommand, Command
    <3>2. QED BY <1>3, <2>1, <2>2, <3>1 DEF TypeOK, RevokeIdentity, Finishes
  <2>4. IdentitiesStay /\ TokensStay
    BY <1>3, <2>2 DEF IdentitiesStay, TokensStay, RevokeIdentity, Known, TypeOK
  <2>5. BarredSessionsAreRevoked'
    BY <1>3, <2>2 DEF BarredSessionsAreRevoked, SameRow, RevokeIdentity
  <2>6. \A o \in Operators : commands'[o] = commands[o] \/ commands'[o] = IdleCommand
    BY <1>3 DEF RevokeIdentity, Finishes, TypeOK
  <2>7. \A k \in barred' : identities'[k] # None /\ identities'[k].disabled
    BY <1>3, <2>1 DEF RevokeIdentity, BarredAreDisabled, Known
  <2>8. QED BY <1>3, <2>2, <2>3, <2>4, <2>5, <2>6, <2>7, Growth DEF RevokeIdentity
<1>4. QED BY <1>1, <1>2, <1>3

(* Writes to auth_identities by the operator. *)
LEMMA IdentitySteps ==
  ASSUME IInv, NEW c \in Operators, NEW i \in Identities,
         \/ \E k \in Kinds, t \in Tenants : RegisterIdentity(c, i, k, t)
         \/ DisableIdentity(c, i)
  PROVE  IInv'
<1> USE DEF IInv
<1>1. ASSUME NEW k \in Kinds, NEW t \in Tenants, RegisterIdentity(c, i, k, t) PROVE IInv'
  <2>1. [kind |-> k, tenant |-> t, disabled |-> FALSE] \in Identity
    BY DEF Identity
  <2>2. TypeOK'
    BY <1>1, <2>1 DEF TypeOK, RegisterIdentity, outside
  <2>3. IdentitiesStay /\ TokensStay
    BY <1>1 DEF IdentitiesStay, TokensStay, SameRow, RegisterIdentity, Known, TypeOK
  <2>4. BarredSessionsAreRevoked'
    BY <1>1 DEF BarredSessionsAreRevoked, RegisterIdentity, outside
  <2>5. \A j \in barred : identities'[j] # None /\ identities'[j].disabled
    BY <2>3 DEF IdentitiesStay, BarredAreDisabled, TypeOK
  <2>6. QED BY <1>1, <2>2, <2>3, <2>4, <2>5, Growth DEF RegisterIdentity, outside
<1>2. CASE DisableIdentity(c, i)
  <2>1. identities[i] \in Identity
    BY <1>2 DEF DisableIdentity, TypeOK, Known
  <2>2. /\ [identities[i] EXCEPT !.disabled = TRUE] \in Identity
        /\ [identities[i] EXCEPT !.disabled = TRUE].tenant = identities[i].tenant
        /\ [identities[i] EXCEPT !.disabled = TRUE].kind = identities[i].kind
        /\ [identities[i] EXCEPT !.disabled = TRUE].disabled
    BY <2>1 DEF Identity
  <2>3. PICK row \in Identity :
          /\ identities' = [identities EXCEPT ![i] = row]
          /\ row.tenant = identities[i].tenant /\ row.kind = identities[i].kind /\ row.disabled
    <3>1. identities' = [identities EXCEPT ![i] = [identities[i] EXCEPT !.disabled = TRUE]]
      BY <1>2, <2>1 DEF DisableIdentity, TypeOK
    <3>2. QED BY <2>2, <3>1
  <2>4. UNCHANGED <<tokens, spent, requests, sealed, now, held, recorded, barred>>
    BY <1>2 DEF DisableIdentity, outside
  <2>5. commands' = [commands EXCEPT ![c] = [step |-> "revoking", identity |-> i]]
    BY <1>2 DEF DisableIdentity, Proceeds
  <2>6. TypeOK'
    <3>1. [step |-> "revoking", identity |-> i] \in Command
      BY DEF Command
    <3>2. QED BY <2>3, <2>4, <2>5, <3>1 DEF TypeOK
  <2>7. IdentitiesStay /\ TokensStay
    BY <2>3, <2>4, NoneAssumption DEF IdentitiesStay, TokensStay, SameRow, Known, TypeOK
  <2>8. BarredSessionsAreRevoked'
    BY <2>4 DEF BarredSessionsAreRevoked
  <2>9. \A j \in barred : identities'[j] # None /\ identities'[j].disabled
    BY <2>7 DEF IdentitiesStay, BarredAreDisabled, TypeOK
  <2>10. \A o \in Operators :
           \/ commands'[o] = commands[o]
           \/ /\ commands'[o].identity \in Identities
              /\ identities'[commands'[o].identity] # None
              /\ identities'[commands'[o].identity].disabled
    BY <2>3, <2>5, NoneAssumption DEF TypeOK
  <2>11. QED BY <2>4, <2>6, <2>7, <2>8, <2>9, <2>10, Growth
<1>3. QED BY <1>1, <1>2

(* The bootstrap command inserts its token after the identity it read may  *)
(* have been disabled: the new row is single-use, so it is no session.     *)
LEMMA BootstrapStep ==
  ASSUME IInv, NEW c \in Operators, IssueBootstrap(c)
  PROVE  IInv'
<1> USE DEF IInv
<1> DEFINE i == commands[c].identity
           row == NewToken(i, TRUE, BootstrapTTL, None)
<1>1. i \in Identities /\ Known(i)
  BY DEF CommandsSound, IssueBootstrap
<1>2. row \in Token /\ row.identity = i /\ row.single = TRUE /\ row.paidBy = None
  <2>1. TRUE \in BOOLEAN /\ BootstrapTTL \in Nat /\ None \in Credentials \cup {None}
    BY BoundsAssumption
  <2>2. now \in Nat
    BY DEF TypeOK
  <2>3. QED BY <1>1, <2>1, <2>2 DEF NewToken, Token
<1> HIDE DEF row
<1>3. tokens \in Seq(Token) /\ tokens' = Append(tokens, row) /\ Len(tokens) < MaxTokens
  BY DEF IssueBootstrap, TypeOK, row
<1>4. /\ tokens' \in Seq(Token) /\ Len(tokens') = Len(tokens) + 1
      /\ DOMAIN tokens = 1..Len(tokens) /\ DOMAIN tokens' = 1..(Len(tokens) + 1)
      /\ \A n \in DOMAIN tokens : tokens'[n] = tokens[n]
      /\ tokens'[Len(tokens) + 1] = row
      /\ \A n \in DOMAIN tokens' : n \in DOMAIN tokens \/ n = Len(tokens) + 1
      /\ DOMAIN tokens \subseteq DOMAIN tokens' /\ Len(tokens) + 1 \in DOMAIN tokens'
      /\ Len(tokens) <= Len(tokens') /\ Len(tokens') <= MaxTokens
  BY <1>2, <1>3, Appended, BoundsAssumption
<1>5. UNCHANGED <<identities, spent, requests, sealed, now, recorded, barred>>
  BY DEF IssueBootstrap
<1>6. held' = held \cup {Len(tokens) + 1} /\ commands' = [commands EXCEPT ![c] = IdleCommand]
  BY DEF IssueBootstrap, Finishes
<1>7. TypeOK'
  <2>1. IdleCommand \in Command BY DEF IdleCommand, Command
  <2>2. QED BY <1>4, <1>5, <1>6, <2>1 DEF TypeOK
<1>8. IdentitiesStay /\ TokensStay
  BY <1>4, <1>5 DEF IdentitiesStay, TokensStay, SameRow, Known
<1>9. BarredSessionsAreRevoked'
  BY <1>2, <1>4, <1>5 DEF BarredSessionsAreRevoked
<1>10. \A o \in Operators : commands'[o] = commands[o] \/ commands'[o] = IdleCommand
  BY <1>6 DEF TypeOK
<1>11. \A n \in DOMAIN tokens' \ DOMAIN tokens :
         /\ identities'[tokens'[n].identity] # None
         /\ \A a \in Assertions : tokens'[n].paidBy # Assertion(a)
  <2>1. ASSUME NEW a \in Assertions PROVE None # Assertion(a)
    BY NoneAssumption DEF Assertion, Credentials
  <2>2. QED BY <1>1, <1>2, <1>4, <1>5, <2>1 DEF Known
<1>12. \A n \in held' : n \in held \/ tokens'[n].single
  BY <1>2, <1>4, <1>6
<1>13. QED BY <1>5, <1>7, <1>8, <1>9, <1>10, <1>11, <1>12, Growth
          DEF BarredAreDisabled, Known

(* The logins insert a session of an identity that is not disabled. *)
LEMMA LoginSteps ==
  ASSUME IInv, NEW r \in Requests,
         (\E n \in DOMAIN tokens : Exchange(r, n)) \/ LoginInstance(r)
  PROVE  IInv'
<1> USE DEF IInv
<1>1. ASSUME NEW row \in Token, ~row.single, row.identity \in Identities,
             identities' \in [Identities -> Identity \cup {None}],
             spent' \subseteq Assertions, IdentitiesStay, identities'[row.identity] # None,
             \A i \in Identities : (Known(i) /\ identities'[i].disabled) => identities[i].disabled,
             Known(row.identity) => ~identities[row.identity].disabled,
             \A a \in Assertions : row.paidBy = Assertion(a) =>
               /\ Claims[a].genuine
               /\ row.identity = Claims[a].subject
               /\ identities'[row.identity].tenant = Claims[a].tenant
               /\ identities'[row.identity].kind = "instance",
             tokens' \in Seq(Token), Len(tokens') = Len(tokens) + 1, Len(tokens) < MaxTokens,
             DOMAIN tokens = 1..Len(tokens), DOMAIN tokens' = 1..(Len(tokens) + 1),
             \A n \in DOMAIN tokens : SameRow(n),
             tokens'[Len(tokens) + 1] = row,
             requests' = [requests EXCEPT ![r] =
               [step |-> "issued", assertion |-> None, token |-> Len(tokens) + 1]],
             UNCHANGED <<commands, sealed, now, held, recorded, barred>>
      PROVE  IInv'
  <2>1. /\ DOMAIN tokens \subseteq DOMAIN tokens' /\ Len(tokens) <= Len(tokens')
        /\ \A n \in DOMAIN tokens' : n \in DOMAIN tokens \/ n = Len(tokens) + 1
        /\ Len(tokens) + 1 \in DOMAIN tokens' /\ Len(tokens) + 1 \in 0..MaxTokens
        /\ Len(tokens') <= MaxTokens
    BY <1>1, BoundsAssumption DEF TypeOK
  <2>2. TypeOK'
    <3>1. [step |-> "issued", assertion |-> None, token |-> Len(tokens) + 1] \in Request
      BY <2>1 DEF Request
    <3>2. QED BY <1>1, <2>1, <3>1 DEF TypeOK
  <2>3. TokensStay
    BY <1>1, <2>1 DEF TokensStay
  <2>4. ASSUME NEW n \in DOMAIN tokens', tokens'[n].identity \in barred', ~tokens'[n].single
        PROVE  tokens'[n].revoked
    <3>1. CASE n \in DOMAIN tokens
      BY <1>1, <2>4, <3>1 DEF BarredSessionsAreRevoked, SameRow
    <3>2. CASE n = Len(tokens) + 1
      BY <1>1, <2>4, <3>2 DEF BarredAreDisabled
    <3>3. QED BY <2>1, <3>1, <3>2
  <2>5. \A q \in Requests :
          \/ requests'[q] = requests[q]
          \/ /\ requests'[q].step = "issued"
             /\ requests'[q].token \in DOMAIN tokens' /\ ~tokens'[requests'[q].token].single
    BY <1>1, <2>1 DEF TypeOK
  <2>6. \A i \in barred' : identities'[i] # None /\ identities'[i].disabled
    BY <1>1 DEF BarredAreDisabled, IdentitiesStay, TypeOK
  <2>7. \A n \in DOMAIN tokens' \ DOMAIN tokens :
          /\ identities'[tokens'[n].identity] # None
          /\ \A a \in Assertions : tokens'[n].paidBy = Assertion(a) =>
                /\ Claims[a].genuine
                /\ tokens'[n].identity = Claims[a].subject
                /\ identities'[tokens'[n].identity].tenant = Claims[a].tenant
                /\ identities'[tokens'[n].identity].kind = "instance"
    BY <1>1, <2>1
  <2>8. BarredSessionsAreRevoked'
    BY <2>4 DEF BarredSessionsAreRevoked
  <2>9. QED BY <1>1, <2>2, <2>3, <2>5, <2>6, <2>7, <2>8, Growth
<1>2. ASSUME NEW n \in DOMAIN tokens, Exchange(r, n) PROVE IInv'
  <2> DEFINE row == NewToken(tokens[n].identity, FALSE, SessionTTL, Bootstrap(n))
  <2>1. tokens[n] \in Token /\ tokens[n].identity \in Identities /\ n \in 1..MaxTokens
    <3>1. tokens \in Seq(Token) BY DEF TypeOK
    <3>2. tokens[n] \in Token BY <3>1
    <3>3. QED BY <3>1, <3>2, BoundsAssumption DEF Token, TypeOK
  <2>2. Known(tokens[n].identity) /\ ~identities[tokens[n].identity].disabled
    BY <1>2 DEF TokensKnown, Exchange, Consumable
  <2>3. row \in Token /\ row.identity = tokens[n].identity /\ row.single = FALSE
        /\ row.paidBy = Bootstrap(n)
    <3>1. FALSE \in BOOLEAN /\ SessionTTL \in Nat /\ Bootstrap(n) \in Credentials \cup {None}
      BY <2>1, BoundsAssumption DEF Credentials
    <3>2. now \in Nat
      BY DEF TypeOK
    <3>3. QED BY <2>1, <3>1, <3>2 DEF NewToken, Token
  <2>4. \A a \in Assertions : Bootstrap(n) # Assertion(a)
    BY DEF Bootstrap, Assertion
  <2>5. tokens' = Append(Consumed(n), row)
    BY <1>2 DEF Exchange
  <2> HIDE DEF row
  <2>6. /\ tokens' \in Seq(Token) /\ Len(tokens') = Len(tokens) + 1
        /\ DOMAIN tokens' = 1..(Len(tokens) + 1) /\ DOMAIN tokens = 1..Len(tokens)
        /\ \A m \in DOMAIN tokens : SameRow(m)
        /\ tokens'[Len(tokens) + 1] = row
    BY <2>3, <2>5, Consumption
  <2>7. /\ UNCHANGED <<identities, spent, commands, sealed, now, held, recorded, barred>>
        /\ Len(tokens) < MaxTokens
        /\ requests' = [requests EXCEPT ![r] =
              [step |-> "issued", assertion |-> None, token |-> Len(tokens) + 1]]
    BY <1>2 DEF Exchange, Reaches, outside
  <2>8. IdentitiesStay
    BY <2>7 DEF IdentitiesStay, Known
  <2>9. QED BY <1>1, <2>1, <2>2, <2>3, <2>4, <2>6, <2>7, <2>8 DEF TypeOK, Known
<1>3. CASE LoginInstance(r)
  <2> DEFINE a == requests[r].assertion
             i == Claims[a].subject
             row == NewToken(i, FALSE, SessionTTL, Assertion(a))
             fresh == [kind |-> "instance", tenant |-> Claims[a].tenant, disabled |-> FALSE]
  <2>1. a \in Assertions /\ Claims[a].genuine
    BY <1>3 DEF RequestsSound, LoginInstance
  <2>2. Claims[a] \in Claim /\ i \in Identities /\ Claims[a].tenant \in Tenants
    BY <2>1, ClaimsAssumption DEF Claim
  <2>3. row \in Token /\ row.identity = i /\ row.single = FALSE /\ row.paidBy = Assertion(a)
    <3>1. FALSE \in BOOLEAN /\ SessionTTL \in Nat /\ Assertion(a) \in Credentials \cup {None}
      BY <2>1, BoundsAssumption DEF Credentials
    <3>2. now \in Nat
      BY DEF TypeOK
    <3>3. QED BY <2>2, <3>1, <3>2 DEF NewToken, Token
  <2>4. fresh \in Identity /\ fresh # None
        /\ fresh.tenant = Claims[a].tenant /\ fresh.kind = "instance" /\ ~fresh.disabled
    <3>1. fresh \in Identity
      BY <2>2 DEF Identity, Kinds
    <3>2. fresh # None
      BY <3>1, NoneAssumption
    <3>3. QED BY <3>1, <3>2
  <2>5. /\ Known(i) => /\ identities[i].tenant = Claims[a].tenant
                       /\ identities[i].kind = "instance"
                       /\ ~identities[i].disabled
        /\ identities' = IF Known(i) THEN identities ELSE [identities EXCEPT ![i] = fresh]
        /\ spent' = spent \cup {a}
        /\ tokens' = Append(tokens, row)
        /\ Len(tokens) < MaxTokens
        /\ UNCHANGED <<commands, sealed, now, held, recorded, barred>>
        /\ requests' = [requests EXCEPT ![r] =
              [step |-> "issued", assertion |-> None, token |-> Len(tokens) + 1]]
    BY <1>3 DEF LoginInstance, Enrols, Enrolled, Reaches, outside
  <2>6. \A b \in Assertions : Assertion(a) = Assertion(b) => a = b
    BY DEF Assertion
  <2> HIDE DEF row, fresh, a
  <2>7. /\ tokens' \in Seq(Token) /\ Len(tokens') = Len(tokens) + 1
        /\ DOMAIN tokens' = 1..(Len(tokens) + 1) /\ DOMAIN tokens = 1..Len(tokens)
        /\ \A m \in DOMAIN tokens : SameRow(m)
        /\ tokens'[Len(tokens) + 1] = row
    <3>1. tokens \in Seq(Token) BY DEF TypeOK
    <3>2. QED BY <2>3, <2>5, <3>1, Appended DEF SameRow
  <2>8. /\ identities' \in [Identities -> Identity \cup {None}] /\ IdentitiesStay
        /\ identities'[i] # None
        /\ identities'[i].tenant = Claims[a].tenant /\ identities'[i].kind = "instance"
        /\ \A j \in Identities : (Known(j) /\ identities'[j].disabled) => identities[j].disabled
    BY <2>2, <2>4, <2>5 DEF TypeOK, IdentitiesStay, Known
  <2>9. QED BY <1>1, <2>1, <2>2, <2>3, <2>5, <2>6, <2>7, <2>8 DEF TypeOK
<1>4. QED BY <1>2, <1>3

-----------------------------------------------------------------------------
(* The invariant. *)

LEMMA InitInvariant == Init => IInv
<1> SUFFICES ASSUME Init PROVE IInv
  OBVIOUS
<1>1. IdleRequest \in Request /\ IdleRequest.step = "idle"
  BY BoundsAssumption DEF IdleRequest, Request
<1>2. IdleCommand \in Command /\ IdleCommand.step = "idle"
  BY DEF IdleCommand, Command
<1>3. tokens = <<>> /\ tokens \in Seq(Token) /\ Len(tokens) = 0 /\ DOMAIN tokens = {}
  BY DEF Init
<1>4. TypeOK
  BY <1>1, <1>2, <1>3, BoundsAssumption DEF Init, TypeOK
<1>5. RequestsSound /\ CommandsSound
  BY <1>1, <1>2 DEF Init, RequestsSound, CommandsSound
<1>6. /\ TokensKnown /\ BarredAreDisabled /\ HeldAreRecorded
      /\ BarredSessionsAreRevoked /\ ActsWhereAsserted
  BY <1>3 DEF Init, TokensKnown, BarredAreDisabled, HeldAreRecorded,
              BarredSessionsAreRevoked, ActsWhereAsserted
<1>7. QED BY <1>4, <1>5, <1>6 DEF IInv

LEMMA NextInvariant == IInv /\ [Next]_vars => IInv'
<1> SUFFICES ASSUME IInv, [Next]_vars PROVE IInv'
  OBVIOUS
<1>login. ASSUME NEW r \in Requests, Login(r) PROVE IInv'
  BY <1>login, LoginSteps, QuietRequests DEF Login
<1>use. ASSUME NEW r \in Requests, Use(r) PROVE IInv'
  BY <1>use, RevokingSteps, QuietRequests DEF Use
<1>operate. ASSUME NEW c \in Operators, Operate(c) PROVE IInv'
  BY <1>operate, IdentitySteps, QuietOthers, BootstrapStep, RevokingSteps DEF Operate
<1>server. CASE Unseal \/ Restart \/ Tick
  BY <1>server, QuietOthers
<1>still. CASE UNCHANGED vars
  BY <1>still DEF vars, IInv, TypeOK, RequestsSound, CommandsSound, TokensKnown, Known,
                  BarredAreDisabled, HeldAreRecorded, BarredSessionsAreRevoked,
                  ActsWhereAsserted
<1>q. QED BY <1>login, <1>use, <1>operate, <1>server, <1>still DEF Next

LEMMA Invariant == Spec => []IInv
  BY InitInvariant, NextInvariant, PTL DEF Spec

(* The state keeps its types, and what is held or recorded was issued. *)
THEOREM TypeCorrect == Spec => []TypeOK
<1>1. IInv => TypeOK
  BY DEF IInv
<1>2. QED BY <1>1, Invariant, PTL

(* No session of an identity is left usable once the operator was told it  *)
(* is disabled, whatever login or bootstrap command was under way.         *)
THEOREM BarredStaysBarred == Spec => []BarredSessionsAreRevoked
<1>1. IInv => BarredSessionsAreRevoked
  BY DEF IInv
<1>2. QED BY <1>1, Invariant, PTL

(* An assertion's session acts as its subject in its tenant, although the  *)
(* name may be registered between Verify and enrol.                        *)
THEOREM AssertionBindsTenant == Spec => []ActsWhereAsserted
<1>1. IInv => ActsWhereAsserted
  BY DEF IInv
<1>2. QED BY <1>1, Invariant, PTL

(* Nobody is served on a session whose login is not in the audit log. *)
THEOREM OnlyRecordedLoginsServe == Spec => []ServesRecordedLogins
<1>1. IInv => ServesRecordedLogins
  BY DEF IInv, RequestsSound, ServesRecordedLogins
<1>2. QED BY <1>1, Invariant, PTL

-----------------------------------------------------------------------------
(* Every credential buys one session. *)

(* Steps that insert no session, consume no token and spend no assertion. *)
LEMMA NoSale ==
  ASSUME spent' = spent, DOMAIN tokens \subseteq DOMAIN tokens',
         \A n \in DOMAIN tokens :
           /\ tokens'[n].consumed = tokens[n].consumed
           /\ tokens'[n].single = tokens[n].single
           /\ tokens'[n].paidBy = tokens[n].paidBy,
         \A n \in DOMAIN tokens' \ DOMAIN tokens : ~tokens'[n].consumed /\ tokens'[n].single
  PROVE  UNCHANGED Paid!vars
<1>1. {m \in DOMAIN tokens' : tokens'[m].consumed} = {m \in DOMAIN tokens : tokens[m].consumed}
  OBVIOUS
<1>2. SpentCredentials' = SpentCredentials
  BY <1>1 DEF SpentCredentials
<1>3. {m \in DOMAIN tokens' : ~tokens'[m].single} = {m \in DOMAIN tokens : ~tokens[m].single}
  OBVIOUS
<1>4. Sales' = Sales
  BY <1>3 DEF Sales
<1>5. QED BY <1>2, <1>4 DEF Paid!vars

(* The row a login inserts is the one new sale. *)
LEMMA NewSale ==
  ASSUME NEW row, ~row.single, Len(tokens) + 1 \notin DOMAIN tokens,
         DOMAIN tokens' = DOMAIN tokens \cup {Len(tokens) + 1},
         \A n \in DOMAIN tokens :
           tokens'[n].single = tokens[n].single /\ tokens'[n].paidBy = tokens[n].paidBy,
         tokens'[Len(tokens) + 1] = row
  PROVE  /\ Sales' = Sales \cup {<<row.paidBy, Len(tokens) + 1>>}
         /\ \A sale \in Sales : sale[2] # Len(tokens) + 1
<1> DEFINE old == {m \in DOMAIN tokens : ~tokens[m].single}
           new == {m \in DOMAIN tokens' : ~tokens'[m].single}
           k == Len(tokens) + 1
<1>1. new = old \cup {k}
  OBVIOUS
<1>2. \A n \in old : <<tokens'[n].paidBy, n>> = <<tokens[n].paidBy, n>>
  OBVIOUS
<1>3. <<tokens'[k].paidBy, k>> = <<row.paidBy, k>>
  OBVIOUS
<1>4. Sales = {<<tokens[n].paidBy, n>> : n \in old} /\ Sales' = {<<tokens'[n].paidBy, n>> : n \in new}
  BY DEF Sales
<1>5. k \notin old
  OBVIOUS
<1> HIDE DEF old, new, k
<1>6. Sales' = Sales \cup {<<row.paidBy, k>>}
  BY <1>1, <1>2, <1>3, <1>4
<1>7. \A sale \in Sales : sale[2] # k
  BY <1>4, <1>5
<1>8. QED BY <1>6, <1>7 DEF k

(* Exchange sells the session of a bootstrap token. *)
LEMMA ExchangeSells ==
  ASSUME IInv, NEW r \in Requests, NEW n \in DOMAIN tokens, Exchange(r, n)
  PROVE  Paid!Next
<1> DEFINE row == NewToken(tokens[n].identity, FALSE, SessionTTL, Bootstrap(n))
           k == Len(tokens) + 1
<1>1. TypeOK /\ tokens \in Seq(Token)
  BY DEF IInv, TypeOK
<1>2. /\ row \in Token /\ row.single = FALSE /\ row.consumed = FALSE
      /\ row.paidBy = Bootstrap(n) /\ Bootstrap(n) \in Credentials
  <2>1. tokens[n] \in Token /\ n \in 1..MaxTokens
    BY <1>1, BoundsAssumption DEF TypeOK
  <2>2. now \in Nat /\ SessionTTL \in Nat /\ Bootstrap(n) \in Credentials
    BY <1>1, <2>1, BoundsAssumption DEF TypeOK, Credentials
  <2>3. QED BY <2>1, <2>2 DEF NewToken, Token
<1>3. /\ tokens' = Append(Consumed(n), row) /\ Len(tokens) < MaxTokens
      /\ ~tokens[n].consumed /\ spent' = spent
  BY DEF Exchange, Consumable
<1> HIDE DEF row
<1>4. /\ DOMAIN tokens' = 1..k /\ DOMAIN tokens = 1..Len(tokens)
      /\ \A m \in DOMAIN tokens :
           SameRow(m) /\ (m # n => tokens'[m].consumed = tokens[m].consumed)
      /\ tokens'[n].consumed = TRUE
      /\ tokens'[k] = row
  BY <1>1, <1>2, <1>3, Consumption
<1>5. /\ k \in 1..MaxTokens /\ k \notin DOMAIN tokens
      /\ DOMAIN tokens' = DOMAIN tokens \cup {k}
  BY <1>1, <1>3, <1>4, BoundsAssumption
<1>6. Sales' = Sales \cup {<<Bootstrap(n), k>>} /\ \A sale \in Sales : sale[2] # k
  BY <1>2, <1>4, <1>5, NewSale DEF SameRow
<1>7. {m \in DOMAIN tokens' : tokens'[m].consumed}
        = {m \in DOMAIN tokens : tokens[m].consumed} \cup {n}
  BY <1>2, <1>4, <1>5
<1>8. SpentCredentials' = SpentCredentials \cup {Bootstrap(n)}
  BY <1>3, <1>7 DEF SpentCredentials
<1>9. Bootstrap(n) \notin SpentCredentials
  BY <1>3 DEF SpentCredentials, Bootstrap, Assertion
<1>10. Paid!Buy(Bootstrap(n), k)
  BY <1>6, <1>8, <1>9 DEF Paid!Buy
<1>11. QED BY <1>2, <1>5, <1>10 DEF Paid!Next

(* LoginInstance sells the session of an assertion. *)
LEMMA AssertionSells ==
  ASSUME IInv, NEW r \in Requests, LoginInstance(r)
  PROVE  Paid!Next
<1> DEFINE a == requests[r].assertion
           row == NewToken(Claims[a].subject, FALSE, SessionTTL, Assertion(a))
           k == Len(tokens) + 1
<1>1. TypeOK /\ tokens \in Seq(Token)
  BY DEF IInv, TypeOK
<1>2. a \in Assertions
  BY DEF IInv, RequestsSound, LoginInstance
<1>3. /\ row \in Token /\ row.single = FALSE /\ row.consumed = FALSE
      /\ row.paidBy = Assertion(a) /\ Assertion(a) \in Credentials
  <2>1. Claims[a] \in Claim /\ Claims[a].subject \in Identities
    BY <1>2, ClaimsAssumption DEF Claim
  <2>2. now \in Nat /\ SessionTTL \in Nat /\ Assertion(a) \in Credentials
    BY <1>1, <1>2, BoundsAssumption DEF TypeOK, Credentials
  <2>3. QED BY <2>1, <2>2 DEF NewToken, Token
<1>4. /\ tokens' = Append(tokens, row) /\ Len(tokens) < MaxTokens
      /\ spent' = spent \cup {a} /\ a \notin spent
  BY DEF LoginInstance
<1> HIDE DEF row, a
<1>5. /\ DOMAIN tokens' = 1..k /\ DOMAIN tokens = 1..Len(tokens)
      /\ \A m \in DOMAIN tokens : tokens'[m] = tokens[m]
      /\ tokens'[k] = row
  BY <1>1, <1>3, <1>4, Appended
<1>6. /\ k \in 1..MaxTokens /\ k \notin DOMAIN tokens
      /\ DOMAIN tokens' = DOMAIN tokens \cup {k}
  BY <1>1, <1>4, <1>5, BoundsAssumption
<1>7. Sales' = Sales \cup {<<Assertion(a), k>>} /\ \A sale \in Sales : sale[2] # k
  BY <1>3, <1>5, <1>6, NewSale
<1>8. {m \in DOMAIN tokens' : tokens'[m].consumed} = {m \in DOMAIN tokens : tokens[m].consumed}
  BY <1>3, <1>5, <1>6
<1>9. SpentCredentials' = SpentCredentials \cup {Assertion(a)}
  BY <1>4, <1>8 DEF SpentCredentials
<1>10. Assertion(a) \notin SpentCredentials
  BY <1>4 DEF SpentCredentials, Bootstrap, Assertion
<1>11. Paid!Buy(Assertion(a), k)
  BY <1>7, <1>9, <1>10 DEF Paid!Buy
<1>12. QED BY <1>3, <1>6, <1>11 DEF Paid!Next

(* The bootstrap command inserts a token that is no session. *)
LEMMA BootstrapSellsNothing ==
  ASSUME IInv, NEW c \in Operators, IssueBootstrap(c)
  PROVE  UNCHANGED Paid!vars
<1> DEFINE row == NewToken(commands[c].identity, TRUE, BootstrapTTL, None)
<1>1. tokens \in Seq(Token) /\ now \in Nat
  BY DEF IInv, TypeOK
<1>2. row \in Token /\ row.single = TRUE /\ row.consumed = FALSE
  <2>1. commands[c].identity \in Identities
    BY DEF IInv, CommandsSound, IssueBootstrap
  <2>2. QED BY <1>1, <2>1, BoundsAssumption DEF NewToken, Token
<1>3. tokens' = Append(tokens, row) /\ spent' = spent
  BY DEF IssueBootstrap
<1> HIDE DEF row
<1>4. /\ DOMAIN tokens \subseteq DOMAIN tokens'
      /\ \A m \in DOMAIN tokens : tokens'[m] = tokens[m]
      /\ \A m \in DOMAIN tokens' \ DOMAIN tokens : tokens'[m] = row
  BY <1>1, <1>2, <1>3, Appended
<1>5. QED BY <1>2, <1>3, <1>4, NoSale

(* The revocations mark rows and sell nothing. *)
LEMMA RevocationsSellNothing ==
  ASSUME IInv,
         \/ \E r \in Requests : Logout(r) \/ \E i \in Identities : RevokeHolder(r, i)
         \/ \E c \in Operators : RevokeIdentity(c)
  PROVE  UNCHANGED Paid!vars
<1>0. TypeOK
  BY DEF IInv
<1>1. ASSUME NEW r \in Requests, Logout(r) PROVE UNCHANGED Paid!vars
  <2>1. requests[r].token \in DOMAIN tokens
    BY <1>1 DEF IInv, RequestsSound, Logout
  <2>2. spent' = spent /\ tokens' = Revoked(requests[r].token)
    BY <1>1 DEF Logout
  <2>3. QED BY <1>0, <2>1, <2>2, LogoutRow, NoSale DEF SameRow
<1>2. ASSUME NEW i \in Identities, spent' = spent, tokens' = RevokedFor(i)
      PROVE  UNCHANGED Paid!vars
  BY <1>0, <1>2, Revocation, NoSale DEF SameRow
<1>3. ASSUME NEW r \in Requests, NEW i \in Identities, RevokeHolder(r, i)
      PROVE  UNCHANGED Paid!vars
  BY <1>2, <1>3 DEF RevokeHolder
<1>4. ASSUME NEW c \in Operators, RevokeIdentity(c) PROVE UNCHANGED Paid!vars
  <2>1. commands[c].identity \in Identities
    BY <1>4 DEF IInv, CommandsSound, RevokeIdentity
  <2>2. QED BY <1>2, <1>4, <2>1 DEF RevokeIdentity
<1>5. QED BY <1>1, <1>3, <1>4

(* Every other step leaves the tokens and the spent assertions alone. *)
LEMMA OthersSellNothing ==
  ASSUME UNCHANGED <<tokens, spent>>
  PROVE  UNCHANGED Paid!vars
  BY NoSale

(* The two logins implement SingleUse: the credential is spent in the step *)
(* that inserts its one session, and no step before or after, of any       *)
(* request or operator process, sells it again or gives it back.           *)
THEOREM ImplementsSingleUse == Spec => BuysOnce
<1>start. Init => Paid!Init
  BY DEF Init, Paid!Init, SpentCredentials, Sales
<1>step. IInv /\ [Next]_vars => [Paid!Next]_(Paid!vars)
  <2> SUFFICES ASSUME IInv, [Next]_vars PROVE Paid!Next \/ UNCHANGED Paid!vars
    OBVIOUS
  <2>login. ASSUME NEW r \in Requests, Login(r) PROVE Paid!Next \/ UNCHANGED Paid!vars
    <3>1. \/ \E n \in DOMAIN tokens : Exchange(r, n)
          \/ LoginInstance(r)
          \/ UNCHANGED <<tokens, spent>>
      BY <2>login DEF Login, Verify, RefuseInstance, Record, RecordFails, Answer, LoseAnswer,
                      database
    <3>2. QED BY <3>1, ExchangeSells, AssertionSells, OthersSellNothing
  <2>use. ASSUME NEW r \in Requests, Use(r) PROVE UNCHANGED Paid!vars
    <3>1. \/ Logout(r) \/ \E i \in Identities : RevokeHolder(r, i)
          \/ UNCHANGED <<tokens, spent>>
      BY <2>use DEF Use, Authenticate, Serve, database
    <3>2. QED BY <3>1, RevocationsSellNothing, OthersSellNothing
  <2>operate. ASSUME NEW c \in Operators, Operate(c) PROVE UNCHANGED Paid!vars
    <3>1. IssueBootstrap(c) \/ RevokeIdentity(c) \/ UNCHANGED <<tokens, spent>>
      BY <2>operate DEF Operate, RegisterIdentity, ReadIdentity, DisableIdentity, Interrupt,
                        database
    <3>2. QED BY <3>1, BootstrapSellsNothing, RevocationsSellNothing, OthersSellNothing
  <2>server. CASE Unseal \/ Restart \/ Tick
    BY <2>server, OthersSellNothing DEF Unseal, Restart, Tick, database
  <2>still. CASE UNCHANGED vars
    BY <2>still, OthersSellNothing DEF vars
  <2>q. QED BY <2>login, <2>use, <2>operate, <2>server, <2>still DEF Next
<1>q. QED BY <1>start, <1>step, Invariant, PTL DEF Spec, BuysOnce, Paid!Spec

(* OneSessionEach of any sales. *)
Apart(S, B) ==
  /\ \A one, other \in B : (one[1] = other[1] \/ one[2] = other[2]) => one = other
  /\ S = {sale[1] : sale \in B}

(* One more sale keeps the sales apart. *)
LEMMA SaleKeepsApart ==
  ASSUME NEW S, NEW B, NEW credential, NEW session,
         credential \notin S, \A sale \in B : sale[2] # session, Apart(S, B)
  PROVE  Apart(S \cup {credential}, B \cup {<<credential, session>>})
<1>1. ASSUME NEW one \in B PROVE one[1] # credential /\ one[2] # session
  BY <1>1 DEF Apart
<1>2. <<credential, session>>[1] = credential /\ <<credential, session>>[2] = session
  OBVIOUS
<1>3. \A one, other \in B \cup {<<credential, session>>} :
        (one[1] = other[1] \/ one[2] = other[2]) => one = other
  BY <1>1, <1>2 DEF Apart
<1> DEFINE All == B \cup {<<credential, session>>}
<1>4. \A x : x \in {sale[1] : sale \in All} <=> x \in S \/ x = credential
  <2>1. <<credential, session>> \in All /\ B \subseteq All
    OBVIOUS
  <2>2. \A sale \in All : sale \in B \/ sale[1] = credential
    BY <1>2
  <2> HIDE DEF All
  <2>3. QED BY <1>2, <2>1, <2>2 DEF Apart
<1>5. S \cup {credential} = {sale[1] : sale \in All}
  BY <1>4
<1>6. QED BY <1>3, <1>5 DEF Apart

(* So no bootstrap token and no assertion ever pays for two sessions, and  *)
(* one is spent exactly when a session in the table was paid with it.      *)
THEOREM CredentialsBuyOneSession == Spec => []Paid!OneSessionEach
<1>start. Paid!Init => Paid!OneSessionEach
  BY DEF Paid!Init, Paid!OneSessionEach
<1>step. Paid!OneSessionEach /\ [Paid!Next]_(Paid!vars) => Paid!OneSessionEach'
  <2> SUFFICES ASSUME Paid!OneSessionEach, [Paid!Next]_(Paid!vars) PROVE Paid!OneSessionEach'
    OBVIOUS
  <2>buy. ASSUME NEW credential, NEW session, Paid!Buy(credential, session)
          PROVE  Paid!OneSessionEach'
    <3>1. /\ credential \notin SpentCredentials
          /\ \A sale \in Sales : sale[2] # session
          /\ SpentCredentials' = SpentCredentials \cup {credential}
          /\ Sales' = Sales \cup {<<credential, session>>}
      BY <2>buy DEF Paid!Buy
    <3>2. Apart(SpentCredentials, Sales)
      BY DEF Paid!OneSessionEach, Apart
    <3>3. Apart(SpentCredentials \cup {credential}, Sales \cup {<<credential, session>>})
      BY <3>1, <3>2, SaleKeepsApart
    <3>4. Apart(SpentCredentials', Sales')
      BY <3>1, <3>3
    <3>5. QED BY <3>4 DEF Paid!OneSessionEach, Apart
  <2>still. CASE UNCHANGED Paid!vars
    BY <2>still DEF Paid!vars, Paid!OneSessionEach
  <2>q. QED BY <2>buy, <2>still DEF Paid!Next
<1>q. QED BY <1>start, <1>step, ImplementsSingleUse, PTL DEF BuysOnce, Paid!Spec

=============================================================================
