----------------------------- MODULE Parameters -----------------------------
(***************************************************************************)
(* Package param on top of Policies: the handlers of the parameter store,  *)
(* inheritance along the path, and references to secrets, each authorised  *)
(* on its own, while operators change the policies and other requests      *)
(* write.                                                                  *)
(*                                                                         *)
(* A handler is split at its statements: the authorisation, one read for   *)
(* each candidate of the inheritance chain, the authorisation and the      *)
(* reading of each reference, the write, the audit record. Encryption is   *)
(* the subject of Rotation, kinds of values are left out, and the secrets  *)
(* themselves do not change here.                                          *)
(***************************************************************************)
EXTENDS Policies

CONSTANTS
  Named,          \* tenants a client may name, Tenants among them
  Paths,          \* parameter paths
  Values,         \* values clients may write
  Secrets,        \* Secrets[target]: the plaintext of a secret, or None
  Requests,
  MaxReferences,
  MaxWrites       \* bound on the writes to the tables

ASSUME NamedAssumption == Tenants \subseteq Named
ASSUME ReferencesAssumption == MaxReferences \in Nat /\ MaxWrites \in Nat
ASSUME PathsAssumption ==
  /\ Paths \subseteq Seq(STRING) \ {<<>>}
  /\ \A p \in Paths : \A k \in 1..Len(p) : Append(SubSeq(p, 1, k - 1), Last(p)) \in Paths

VARIABLES
  parameters,  \* param_values: the value of <<tenant, path>>, or None
  requests,    \* what each request has got to
  writes,      \* writes so far
  allowed,     \* what the caller of each request was allowed since it began
  absent       \* parameters that were absent at some time since it began

handlerVars == <<parameters, requests>>
vars == <<policyVars, handlerVars, writes, allowed, absent>>

(* A value is a sequence of parts: text of its own, text of a secret, or   *)
(* the text of a reference, which a secret may happen to contain too.      *)
Text == <<"text">>
TextOf(target) == <<"secret", target>>
Reference(target) == <<"reference", target>>

References(value) ==
  FlattenSeq([k \in DOMAIN value |->
                IF value[k][1] = "reference" THEN <<value[k]>> ELSE <<>>])

(* Clients write text and references. A secret's plaintext is its own text, *)
(* which may look like text or references but is not another secret's.      *)
Written == {Text} \cup {Reference(s) : s \in DOMAIN Secrets}

ASSUME ValuesAssumption == Values \subseteq Seq(Written) /\ None \notin Values
ASSUME SecretsAssumption ==
  \A s \in DOMAIN Secrets : Secrets[s] \in Seq(Written \cup {TextOf(s)}) \cup {None}

(* strings.ReplaceAll, on what earlier replacements put there as well. *)
Substitute(value, reference, plaintext) ==
  FlattenSeq([k \in DOMAIN value |->
                IF value[k] = reference THEN plaintext ELSE <<value[k]>>])

PolicyPath(tenant, path) == <<"param", tenant>> \o path

(* acceptable: a secret of the same tenant. *)
Acceptable(tenant, target) ==
  /\ Len(target) > 2
  /\ target[1] = "secret" /\ target[2] = tenant
  /\ Safe(target)

(* Slip: the shortest prefix comes first. *)
ChainFromRoot(path) ==
  [k \in 1..Len(path) |-> Append(SubSeq(path, 1, k - 1), Last(path))]

(* The path itself, then its last segment under each shorter prefix. *)
InheritanceChain(path) ==
  [k \in 1..Len(path) |-> Append(SubSeq(path, 1, Len(path) - k), Last(path))]

Operations == {"read", "write", "delete", "list"}

(* A list may name no prefix at all; every other request has a path. *)
ListPrefixes == Paths \cup {<<>>}
PathsOf(op) == IF op = "list" THEN ListPrefixes ELSE Paths

NoRequest == [step |-> "idle", op |-> None, identity |-> None, tenant |-> None,
              path |-> <<>>, chain |-> <<>>, value |-> <<>>, references |-> <<>>,
              listed |-> {}]

(* What a request asks the policies for: a list is decided on its prefix   *)
(* with a wildcard behind it.                                              *)
Subject(q) ==
  PolicyPath(q.tenant, IF q.op = "list" THEN Append(q.path, "*") ELSE q.path)

Init ==
  /\ PolicyInit
  /\ parameters = [p \in Named \X Paths |-> None]
  /\ requests = [r \in Requests |-> NoRequest]
  /\ writes = 0
  /\ allowed = [r \in Requests |-> {}]
  /\ absent = [r \in Requests |-> {}]

-----------------------------------------------------------------------------
(* The handlers. *)

Becomes(r, q) == requests' = [requests EXCEPT ![r] = q]
Ends(r) == Becomes(r, NoRequest)

(* permitted. A refusal only leaves a record and an answer. *)
Permit(r, op, i, tenant, path) ==
  LET q == [step |-> "permitted", op |-> op, identity |-> i, tenant |-> tenant,
            path |-> path, chain |-> InheritanceChain(path), value |-> <<>>,
            references |-> <<>>, listed |-> {}]
  IN /\ requests[r].step = "idle"
     /\ Authorize(i, tenant, Subject(q), op)
     /\ Becomes(r, q)
     /\ UNCHANGED <<parameters, writes>>

(* The references still to resolve decide whether the value is complete. *)
Resolving(q, value, references) ==
  [q EXCEPT !.step = IF references = <<>> THEN "done" ELSE "found",
            !.value = value, !.references = references]

(* Store.Resolve: one candidate, one statement. *)
ReadCandidate(r) ==
  LET q == requests[r]
      found == parameters[<<q.tenant, Head(q.chain)>>]
  IN /\ q.step = "permitted" /\ q.op = "read"
     /\ IF found # None
        THEN Becomes(r, Resolving(q, found, References(found)))
        ELSE IF Tail(q.chain) # <<>>
        THEN Becomes(r, [q EXCEPT !.chain = Tail(q.chain)])
        ELSE Ends(r)
     /\ UNCHANGED <<parameters, writes>>

(* Slip: a target of the tenant is read without asking the policies. *)
AuthorizeReferenceAccepted(r) ==
  LET q == requests[r]
      target == Head(q.references)[2]
  IN /\ q.step = "found"
     /\ IF /\ Len(q.references) <= MaxReferences
           /\ Acceptable(q.tenant, target)
        THEN Becomes(r, [q EXCEPT !.step = "revealing"])
        ELSE Ends(r)
     /\ UNCHANGED <<parameters, writes>>

(* Service.Resolve: too many references, or each in turn is authorised... *)
AuthorizeReference(r) ==
  LET q == requests[r]
      target == Head(q.references)[2]
  IN /\ q.step = "found"
     /\ IF /\ Len(q.references) <= MaxReferences
           /\ Acceptable(q.tenant, target)
           /\ Authorize(q.identity, q.tenant, target, "read")
        THEN Becomes(r, [q EXCEPT !.step = "revealing"])
        ELSE Ends(r)
     /\ UNCHANGED <<parameters, writes>>

(* ...then read and put in place of the reference. *)
Reveal(r) ==
  LET q == requests[r]
      reference == Head(q.references)
      plaintext == Secrets[reference[2]]
  IN /\ q.step = "revealing"
     /\ IF plaintext # None
        THEN Becomes(r, Resolving(q, Substitute(q.value, reference, plaintext),
                                  Tail(q.references)))
        ELSE Ends(r)
     /\ UNCHANGED <<parameters, writes>>

(* handleWrite and handleDelete: the statement. *)
Write(r, value) ==
  LET q == requests[r]
  IN /\ q.step = "permitted" /\ q.op = "write"
     /\ writes < MaxWrites
     /\ parameters' = [parameters EXCEPT ![<<q.tenant, q.path>>] = value]
     /\ Becomes(r, [q EXCEPT !.step = "done"])
     /\ writes' = writes + 1

DeleteParameter(r) ==
  LET q == requests[r]
  IN /\ q.step = "permitted" /\ q.op = "delete"
     /\ IF parameters[<<q.tenant, q.path>>] = None
        THEN /\ Ends(r)
             /\ UNCHANGED <<parameters, writes>>
        ELSE /\ writes < MaxWrites
             /\ parameters' = [parameters EXCEPT ![<<q.tenant, q.path>>] = None]
             /\ Becomes(r, [q EXCEPT !.step = "done"])
             /\ writes' = writes + 1

(* handleList. *)
Listing(r) ==
  LET q == requests[r]
      under == {p \in Paths : IsPrefix(q.path, p) /\ parameters[<<q.tenant, p>>] # None}
  IN /\ q.step = "permitted" /\ q.op = "list"
     /\ Becomes(r, [q EXCEPT !.step = "done", !.listed = under])
     /\ UNCHANGED <<parameters, writes>>

(* The record is appended and the answer goes out; or the record, the      *)
(* body, the value or a statement failed and the client gets an error.     *)
End(r) ==
  /\ requests[r].step # "idle"
  /\ Ends(r)
  /\ UNCHANGED <<parameters, writes>>

Handle(r) ==
  \/ \E op \in Operations, i \in Identities, t \in Named :
       \E p \in PathsOf(op) : Permit(r, op, i, t, p)
  \/ ReadCandidate(r) \/ AuthorizeReference(r) \/ Reveal(r)
  \/ (\E v \in Values : Write(r, v)) \/ DeleteParameter(r) \/ Listing(r)
  \/ End(r)

Operate(c) ==
  /\ PolicyStep(c)
  /\ writes' = IF UNCHANGED <<definitions, bindings>> THEN writes ELSE writes + 1
  /\ writes' <= MaxWrites
  /\ UNCHANGED handlerVars

(* What a request may come to rely on, and what the tables say of it. *)
Needs(q) ==
  {<<Subject(q), q.op>>} \cup
  IF q.op = "read" THEN {<<target, "read">> : target \in DOMAIN Secrets} ELSE {}

AllowedNow(q) ==
  {need \in Needs(q) : Authorize(q.identity, q.tenant, need[1], need[2])}

AbsentNow(q) ==
  {p \in Paths : /\ q.op = "read" /\ Last(p) = Last(q.path) /\ Len(p) <= Len(q.path)
                 /\ parameters[<<q.tenant, p>>] = None}

(* Each step adds what it could see, for every request under way. *)
Remember ==
  /\ allowed' = [r \in Requests |->
       LET q == requests'[r]
       IN IF q.step = "idle" THEN {} ELSE allowed[r] \cup AllowedNow(q)]
  /\ absent' = [r \in Requests |->
       LET q == requests'[r]
       IN IF q.step = "idle" THEN {} ELSE absent[r] \cup AbsentNow(q)]

Step ==
  \/ \E r \in Requests : Handle(r) /\ UNCHANGED policyVars
  \/ \E c \in Operators : Operate(c)

Next == Step /\ Remember

Spec == Init /\ [][Next]_vars

-----------------------------------------------------------------------------
(* Properties. *)

(* Policies, parameters and requests keep their types; a request under way *)
(* is for a tenant a client may name.                                      *)
Part == Written \cup {TextOf(s) : s \in DOMAIN Secrets}

Request ==
  [step: {"permitted", "found", "revealing", "done"}, op: Operations,
   identity: Identities, tenant: Named, path: ListPrefixes, chain: Seq(Paths),
   value: Seq(Part), references: Seq(Part), listed: SUBSET Paths]

TypeOK ==
  /\ PolicyTypeOK
  /\ parameters \in [Named \X Paths -> Values \cup {None}]
  /\ requests \in [Requests -> Request \cup {NoRequest}]
  /\ writes \in 0..MaxWrites

(* Everything a request did or is about to answer, its caller was allowed  *)
(* at some time since it began, in the caller's own tenant: the parameter, *)
(* and each secret whose text is in the value, although policies change while  *)
(* references are resolved one by one and one secret's text may hold the   *)
(* reference to another.                                                   *)
AnsweredWasAllowed ==
  \A r \in Requests :
    LET q == requests[r]
    IN q.step = "done" =>
         /\ q.tenant = Home[q.identity]
         /\ <<Subject(q), q.op>> \in allowed[r]
         /\ \A s \in DOMAIN Secrets :
              TextOf(s) \in ToSet(q.value) =>
                <<s, "read">> \in allowed[r] /\ s[2] = Home[q.identity]

(* An answer comes from the parameter asked for or from one that shares    *)
(* its last segment under a shorter prefix, and only when each nearer one  *)
(* was absent at some time since the request began: the candidates are     *)
(* read in statements of their own, and others write between them.         *)
ResolvesNearest ==
  \A r \in Requests :
    LET q == requests[r]
    IN (q.step = "done" /\ q.op = "read") =>
         LET from == Head(q.chain)
         IN /\ Last(from) = Last(q.path) /\ IsPrefix(Front(from), q.path)
            /\ \A p \in Paths :
                 (/\ Last(p) = Last(q.path) /\ IsPrefix(Front(p), q.path)
                  /\ Len(p) > Len(from) /\ Len(p) <= Len(q.path))
                 => p \in absent[r]

(* Evaluate, a loop with an early return and a running best, decides as    *)
(* the rules state (AllowedByRules), on every list of up to three rules.   *)
(* It depends on its arguments alone, so the first state speaks for all.   *)
DecidesAsStated ==
  Init =>
    \A rules \in BoundedSeq(Rules, 3), path \in Subjects, capability \in Capabilities :
      Evaluate(rules, path, capability) <=> AllowedByRules(rules, path, capability)

=============================================================================
