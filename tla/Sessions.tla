------------------------------ MODULE Sessions ------------------------------
(***************************************************************************)
(* Identities, bootstrap tokens, instance assertions and sessions: package *)
(* auth of the server, the check of package jwt, and the operator commands *)
(* that write to the same database from other processes.                   *)
(*                                                                         *)
(* A transaction is one step, and so is a statement outside one. The login *)
(* handlers are split where they leave the database: after the assertion   *)
(* was verified, after the commit, and after the audit record. The         *)
(* identity read of IssueBootstrap and its insert are two steps, as are    *)
(* the two statements of "identity disable".                               *)
(*                                                                         *)
(* Left out: refused logins, which only leave a record; the binding of a   *)
(* token, which every caller leaves empty; the purges, which nothing calls *)
(* (PurgeSpentAssertions is here for the slip that calls it).              *)
(***************************************************************************)
EXTENDS Naturals, Sequences

CONSTANTS
  Identities,    \* identity names
  Tenants,
  Assertions,    \* assertions of the control plane, each with an id (jti) of its own
  Claims,        \* Claims[a]: subject, tenant, nbf, exp, and whether it is genuine
  Requests,      \* requests the server can have in hand
  Operators,     \* operator processes on the server host
  Skew,          \* the clock skew the verifier allows
  BootstrapTTL,
  SessionTTL,
  MaxTime,       \* bound of the clock
  MaxTokens,     \* bound on the rows of auth_tokens
  None           \* no identity, no assertion, no credential

Kinds == {"instance", "bootstrap"}

(* A row of auth_identities. *)
Identity == [kind: Kinds, tenant: Tenants, disabled: BOOLEAN]

(* What a login presents. A session remembers what paid for it, which no   *)
(* table does: it is there for the properties.                             *)
Bootstrap(n) == <<"bootstrap", n>>
Assertion(a) == <<"assertion", a>>
Credentials == {Bootstrap(n) : n \in 1..MaxTokens} \cup {Assertion(a) : a \in Assertions}

(* The claims of an assertion that login depends on. *)
Claim == [subject: Identities, tenant: Tenants, nbf: Nat, exp: Nat, genuine: BOOLEAN]

ASSUME ClaimsAssumption == Claims \in [Assertions -> Claim]
ASSUME BoundsAssumption ==
  /\ Skew \in Nat /\ BootstrapTTL \in Nat /\ SessionTTL \in Nat
  /\ MaxTime \in Nat /\ MaxTokens \in Nat
ASSUME NoneAssumption == None \notin Identities \cup Assertions \cup Identity \cup Credentials

VARIABLES
  identities,  \* auth_identities: None, or kind, tenant and whether disabled
  tokens,      \* auth_tokens in the order of their inserts
  spent,       \* auth_spent_assertions: ids of assertions
  requests,    \* what each request in the server has got to
  commands,    \* what each operator process has got to
  sealed,
  now,
  held,        \* tokens somebody outside the server has the value of
  recorded,    \* tokens whose login is in the audit log
  barred       \* identities whose disabling the operator was told is done

vars == <<identities, tokens, spent, requests, commands, sealed, now,
          held, recorded, barred>>
database == <<identities, tokens, spent>>
outside  == <<held, recorded, barred>>

Token == [identity: Identities, single: BOOLEAN, consumed: BOOLEAN,
          revoked: BOOLEAN, expires: Nat, paidBy: Credentials \cup {None}]

IdleRequest == [step |-> "idle", assertion |-> None, token |-> 0]
Request == [step: {"idle", "verified", "issued", "answering", "serving"},
            assertion: Assertions \cup {None}, token: 0..MaxTokens]

IdleCommand == [step |-> "idle", identity |-> None]
Command == [step: {"idle", "issuing", "revoking"}, identity: Identities \cup {None}]

Init ==
  /\ identities = [i \in Identities |-> None]
  /\ tokens = <<>>
  /\ spent = {}
  /\ requests = [r \in Requests |-> IdleRequest]
  /\ commands = [c \in Operators |-> IdleCommand]
  /\ sealed = TRUE
  /\ now = 0
  /\ held = {} /\ recorded = {} /\ barred = {}

-----------------------------------------------------------------------------
(* State predicates of the code. *)

Known(i) == identities[i] # None

(* identityOn, and the check issue makes of what it returns. *)
MayIssue(i) == Known(i) /\ ~identities[i].disabled

(* The row issue inserts. *)
NewToken(i, single, ttl, paidBy) ==
  [identity |-> i, single |-> single, consumed |-> FALSE, revoked |-> FALSE,
   expires |-> now + ttl, paidBy |-> paidBy]

(* UPDATE auth_tokens SET revoked_at ... WHERE identity_id = ? *)
RevokedFor(i) ==
  [n \in DOMAIN tokens |->
     IF tokens[n].identity = i THEN [tokens[n] EXCEPT !.revoked = TRUE] ELSE tokens[n]]

(* The cases of consume. *)
Consumable(n) ==
  /\ tokens[n].single
  /\ ~tokens[n].revoked
  /\ ~tokens[n].consumed
  /\ ~identities[tokens[n].identity].disabled
  /\ now < tokens[n].expires

(* UPDATE auth_tokens SET consumed_at ... of consume, and the one of Revoke. *)
Consumed(n) == [tokens EXCEPT ![n].consumed = TRUE]
Revoked(n) == [tokens EXCEPT ![n].revoked = TRUE]

(* The cases of Authenticate. *)
Authentic(n) ==
  /\ ~tokens[n].single
  /\ ~tokens[n].revoked
  /\ ~identities[tokens[n].identity].disabled
  /\ now < tokens[n].expires

(* Verify: the signature, issuer and audience of a genuine assertion, and  *)
(* its time window widened by the skew at both ends. The claims nbf and    *)
(* iat are compared alike; nbf stands for the later of the two.            *)
Verifies(a) ==
  /\ Claims[a].genuine
  /\ now < Claims[a].exp + Skew
  /\ Claims[a].nbf <= now + Skew

(* Slip: a known instance logs in whatever its tenant. *)
EnrolsAnyTenant(a) ==
  LET i == Claims[a].subject
  IN Known(i) => identities[i].kind = "instance"

(* enrol: an unknown subject is enrolled, a known one must be the instance *)
(* of that tenant.                                                         *)
Enrols(a) ==
  LET i == Claims[a].subject
  IN Known(i) => /\ identities[i].tenant = Claims[a].tenant
                 /\ identities[i].kind = "instance"

Enrolled(a) ==
  LET i == Claims[a].subject
  IN IF Known(i) THEN identities
     ELSE [identities EXCEPT ![i] = [kind |-> "instance", tenant |-> Claims[a].tenant,
                                     disabled |-> FALSE]]

-----------------------------------------------------------------------------
(* Logins. *)

(* Every route of package auth is refused while the store is sealed. *)
Enter(r) == requests[r].step = "idle" /\ ~sealed

Reaches(r, step, a, n) ==
  requests' = [requests EXCEPT ![r] = [step |-> step, assertion |-> a, token |-> n]]

Ends(r) == requests' = [requests EXCEPT ![r] = IdleRequest]

(* handleBootstrapLogin up to the commit of Exchange. The client may be    *)
(* anyone who holds the token's value.                                     *)
Exchange(r, n) ==
  /\ Enter(r)
  /\ n \in held
  /\ Consumable(n)
  /\ Len(tokens) < MaxTokens
  /\ tokens' = Append(Consumed(n),
                      NewToken(tokens[n].identity, FALSE, SessionTTL, Bootstrap(n)))
  /\ Reaches(r, "issued", None, Len(tokens) + 1)
  /\ UNCHANGED <<identities, spent, commands, sealed, now, outside>>

(* handleInstanceLogin: Verify, before the transaction. *)
Verify(r, a) ==
  /\ Enter(r)
  /\ Verifies(a)
  /\ Reaches(r, "verified", a, 0)
  /\ UNCHANGED <<database, commands, sealed, now, outside>>

(* Slip: issue does not look whether the identity is disabled. *)
LoginAnyInstance(r) ==
  LET a == requests[r].assertion
      i == Claims[a].subject
  IN /\ requests[r].step = "verified"
     /\ a \notin spent
     /\ Enrols(a)
     /\ Len(tokens) < MaxTokens
     /\ spent' = spent \cup {a}
     /\ identities' = Enrolled(a)
     /\ tokens' = Append(tokens, NewToken(i, FALSE, SessionTTL, Assertion(a)))
     /\ Reaches(r, "issued", None, Len(tokens) + 1)
     /\ UNCHANGED <<commands, sealed, now, outside>>

(* The transaction of LoginInstance: spend, enrol, issue, commit. *)
LoginInstance(r) ==
  LET a == requests[r].assertion
      i == Claims[a].subject
  IN /\ requests[r].step = "verified"
     /\ a \notin spent
     /\ Enrols(a)
     /\ Known(i) => ~identities[i].disabled
     /\ Len(tokens) < MaxTokens
     /\ spent' = spent \cup {a}
     /\ identities' = Enrolled(a)
     /\ tokens' = Append(tokens, NewToken(i, FALSE, SessionTTL, Assertion(a)))
     /\ Reaches(r, "issued", None, Len(tokens) + 1)
     /\ UNCHANGED <<commands, sealed, now, outside>>

(* A replay, a tenant or kind mismatch, a disabled identity, a busy        *)
(* database or a client that left: the transaction is rolled back.         *)
RefuseInstance(r) ==
  /\ requests[r].step = "verified"
  /\ Ends(r)
  /\ UNCHANGED <<database, commands, sealed, now, outside>>

(* The audit record of a login that was committed. *)
Record(r) ==
  /\ requests[r].step = "issued"
  /\ recorded' = recorded \cup {requests[r].token}
  /\ Reaches(r, "answering", None, requests[r].token)
  /\ UNCHANGED <<database, commands, sealed, now, held, barred>>

(* Slip: a failed append is not noticed and the login goes on. *)
RecordFailsUnnoticed(r) ==
  /\ requests[r].step = "issued"
  /\ sealed' = TRUE
  /\ Reaches(r, "answering", None, requests[r].token)
  /\ UNCHANGED <<database, commands, now, outside>>

(* The append failed: the sink seals the store, and the session, which is  *)
(* committed, is answered to nobody (unrecorded).                          *)
RecordFails(r) ==
  /\ requests[r].step = "issued"
  /\ sealed' = TRUE
  /\ Ends(r)
  /\ UNCHANGED <<database, commands, now, outside>>

(* The reply reaches the client, or is lost on the way. *)
Answer(r) ==
  /\ requests[r].step = "answering"
  /\ held' = held \cup {requests[r].token}
  /\ Ends(r)
  /\ UNCHANGED <<database, commands, sealed, now, recorded, barred>>

LoseAnswer(r) ==
  /\ requests[r].step = "answering"
  /\ Ends(r)
  /\ UNCHANGED <<database, commands, sealed, now, outside>>

-----------------------------------------------------------------------------
(* Requests with a session. *)

(* Require: the request goes on as the identity of its token. *)
Authenticate(r, n) ==
  /\ Enter(r)
  /\ n \in held
  /\ Authentic(n)
  /\ Reaches(r, "serving", None, n)
  /\ UNCHANGED <<database, commands, sealed, now, outside>>

(* Any handler behind Require that leaves the tables of auth alone. *)
Serve(r) ==
  /\ requests[r].step = "serving"
  /\ Ends(r)
  /\ UNCHANGED <<database, commands, sealed, now, outside>>

(* handleLogout. *)
Logout(r) ==
  /\ requests[r].step = "serving"
  /\ tokens' = Revoked(requests[r].token)
  /\ Ends(r)
  /\ UNCHANGED <<identities, spent, commands, sealed, now, outside>>

(* A revocation of leases by prefix takes the tokens of a holder. *)
RevokeHolder(r, i) ==
  /\ requests[r].step = "serving"
  /\ tokens' = RevokedFor(i)
  /\ Ends(r)
  /\ UNCHANGED <<identities, spent, commands, sealed, now, outside>>

-----------------------------------------------------------------------------
(* Operator commands, each in a process of its own. *)

Proceeds(c, step, i) ==
  commands' = [commands EXCEPT ![c] = [step |-> step, identity |-> i]]

Finishes(c) == commands' = [commands EXCEPT ![c] = IdleCommand]

(* identity add: the primary key refuses a name that is taken. *)
RegisterIdentity(c, i, kind, tenant) ==
  /\ commands[c].step = "idle"
  /\ ~Known(i)
  /\ identities' = [identities EXCEPT ![i] = [kind |-> kind, tenant |-> tenant, disabled |-> FALSE]]
  /\ UNCHANGED <<tokens, spent, requests, commands, sealed, now, outside>>

(* bootstrap: issue reads the identity... *)
ReadIdentity(c, i) ==
  /\ commands[c].step = "idle"
  /\ MayIssue(i)
  /\ Proceeds(c, "issuing", i)
  /\ UNCHANGED <<database, requests, sealed, now, outside>>

(* Slip: the value is printed and its row is not inserted. *)
IssueBootstrapUnstored(c) ==
  /\ commands[c].step = "issuing"
  /\ held' = held \cup {Len(tokens) + 1}
  /\ Finishes(c)
  /\ UNCHANGED <<identities, tokens, spent, requests, sealed, now, recorded, barred>>

(* ...and inserts the token in a statement of its own; the value is printed. *)
IssueBootstrap(c) ==
  /\ commands[c].step = "issuing"
  /\ Len(tokens) < MaxTokens
  /\ tokens' = Append(tokens, NewToken(commands[c].identity, TRUE, BootstrapTTL, None))
  /\ held' = held \cup {Len(tokens) + 1}
  /\ Finishes(c)
  /\ UNCHANGED <<identities, spent, requests, sealed, now, recorded, barred>>

(* identity disable: DisableIdentity... *)
DisableIdentity(c, i) ==
  /\ commands[c].step = "idle"
  /\ Known(i)
  /\ identities' = [identities EXCEPT ![i].disabled = TRUE]
  /\ Proceeds(c, "revoking", i)
  /\ UNCHANGED <<tokens, spent, requests, sealed, now, outside>>

(* ...then RevokeIdentity, and the command says so. *)
RevokeIdentity(c) ==
  /\ commands[c].step = "revoking"
  /\ tokens' = RevokedFor(commands[c].identity)
  /\ barred' = barred \cup {commands[c].identity}
  /\ Finishes(c)
  /\ UNCHANGED <<identities, spent, requests, sealed, now, held, recorded>>

(* The command is killed, or its next statement finds the database busy. *)
Interrupt(c) ==
  /\ commands[c].step # "idle"
  /\ Finishes(c)
  /\ UNCHANGED <<database, requests, sealed, now, outside>>

-----------------------------------------------------------------------------
(* The server and the clock. *)

Unseal ==
  /\ sealed
  /\ sealed' = FALSE
  /\ UNCHANGED <<database, requests, commands, now, outside>>

(* The server stops anywhere and comes back sealed. *)
Restart ==
  /\ requests' = [r \in Requests |-> IdleRequest]
  /\ sealed' = TRUE
  /\ UNCHANGED <<database, commands, now, outside>>

(* PurgeSpentAssertions as written deletes at exp, before Verifies gives up. *)
PurgeSpentAssertions(at) == {a \in spent : Claims[a].exp > at}

(* Slip: the purge of spent assertions runs as time passes. *)
TickAndPurge ==
  /\ now < MaxTime
  /\ now' = now + 1
  /\ spent' = PurgeSpentAssertions(now + 1)
  /\ UNCHANGED <<identities, tokens, requests, commands, sealed, outside>>

Tick ==
  /\ now < MaxTime
  /\ now' = now + 1
  /\ UNCHANGED <<database, requests, commands, sealed, outside>>

Login(r) ==
  \/ \E n \in DOMAIN tokens : Exchange(r, n)
  \/ \E a \in Assertions : Verify(r, a)
  \/ LoginInstance(r) \/ RefuseInstance(r)
  \/ Record(r) \/ RecordFails(r)
  \/ Answer(r) \/ LoseAnswer(r)

Use(r) ==
  \/ \E n \in DOMAIN tokens : Authenticate(r, n)
  \/ Serve(r) \/ Logout(r)
  \/ \E i \in Identities : RevokeHolder(r, i)

Operate(c) ==
  \/ \E i \in Identities, k \in Kinds, t \in Tenants : RegisterIdentity(c, i, k, t)
  \/ \E i \in Identities : ReadIdentity(c, i) \/ DisableIdentity(c, i)
  \/ IssueBootstrap(c) \/ RevokeIdentity(c) \/ Interrupt(c)

Next ==
  \/ \E r \in Requests : Login(r) \/ Use(r)
  \/ \E c \in Operators : Operate(c)
  \/ Unseal \/ Restart \/ Tick

Spec == Init /\ [][Next]_vars

-----------------------------------------------------------------------------
(* Properties. *)

(* The state keeps its types, and every token is one that was issued. *)
TypeOK ==
  /\ identities \in [Identities -> Identity \cup {None}]
  /\ tokens \in Seq(Token) /\ Len(tokens) <= MaxTokens
  /\ spent \subseteq Assertions
  /\ requests \in [Requests -> Request]
  /\ commands \in [Operators -> Command]
  /\ sealed \in BOOLEAN
  /\ now \in 0..MaxTime
  /\ held \subseteq DOMAIN tokens
  /\ recorded \subseteq DOMAIN tokens
  /\ barred \subseteq Identities

(* What the tables say of the logins: the credentials that are spent, and  *)
(* who paid for which session.                                             *)
SpentCredentials ==
  {Bootstrap(n) : n \in {m \in DOMAIN tokens : tokens[m].consumed}}
    \cup {Assertion(a) : a \in spent}

Sales == {<<tokens[n].paidBy, n>> : n \in {m \in DOMAIN tokens : ~tokens[m].single}}

(* A bootstrap token or an assertion buys one session, however often, by   *)
(* however many requests and however late it is presented again, and none  *)
(* is spent without a session: Exchange and LoginInstance implement        *)
(* SingleUse.                                                              *)
Paid == INSTANCE SingleUse WITH
  Sessions <- 1..MaxTokens, spent <- SpentCredentials, bought <- Sales

BuysOnce == Paid!Spec

(* Once the operator is told that an identity is disabled and its tokens   *)
(* are revoked, every session of it is revoked and none is added, whatever *)
(* login or bootstrap command was under way: RevokeIdentity ran after the  *)
(* disabling, and issue reads the identity inside the login's transaction. *)
BarredSessionsAreRevoked ==
  \A n \in DOMAIN tokens :
    (tokens[n].identity \in barred /\ ~tokens[n].single) => tokens[n].revoked

(* A session bought with an assertion acts as the assertion's subject, an  *)
(* instance of the assertion's tenant, although operators may register the *)
(* same name at any moment between Verify and enrol.                       *)
ActsWhereAsserted ==
  \A n \in DOMAIN tokens, a \in Assertions :
    tokens[n].paidBy = Assertion(a) =>
      /\ Claims[a].genuine
      /\ tokens[n].identity = Claims[a].subject
      /\ Known(tokens[n].identity)
      /\ identities[tokens[n].identity].tenant = Claims[a].tenant
      /\ identities[tokens[n].identity].kind = "instance"

(* A request is served only on a session whose login is in the audit log:  *)
(* a login whose record failed leaves a session in the table that nobody   *)
(* can present.                                                            *)
ServesRecordedLogins ==
  \A r \in Requests :
    requests[r].step = "serving" => requests[r].token \in recorded

=============================================================================
