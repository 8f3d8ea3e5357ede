------------------------------ MODULE Policies ------------------------------
(***************************************************************************)
(* Package policy: rules and how a request is decided by them, the tables  *)
(* of definitions and bindings, and the operator commands that write them  *)
(* while the server reads.                                                 *)
(*                                                                         *)
(* A path is a sequence of pieces of text. Nothing in Evaluate looks at    *)
(* the separator, so a wildcard that cuts a segment is one that ends at a  *)
(* finer piece. Limits on lengths are left out. A statement is one step;   *)
(* Bind makes three.                                                       *)
(***************************************************************************)
EXTENDS Naturals, FiniteSets, Sequences, SequencesExt

CONSTANTS
  Tenants,
  Identities,
  Home,        \* Home[i]: the tenant of identity i
  Names,       \* the policy names in their order, a sequence
  Documents,   \* rule lists operators may put, those New refuses included
  Operators,   \* operator processes
  MaxBound,    \* maxBoundPolicies
  Rules,       \* rules and paths the decision is checked on, see DecidesAsStated of Parameters
  Subjects,
  None

Capabilities == {"read", "write", "list", "delete", "destroy", "deny"}
Grantable == Capabilities \ {"deny"}

ASSUME HomeAssumption == Home \in [Identities -> Tenants]
ASSUME OperatorsAssumption == IsFiniteSet(Operators)
ASSUME MaxBoundAssumption == MaxBound \in Nat \ {0}

(* A rule of a document; validateRule may still refuse it. *)
Rule == [path: Seq(STRING), wild: BOOLEAN, capabilities: SUBSET Capabilities]

ASSUME NamesAssumption == Names \in Seq(STRING)
ASSUME DocumentsAssumption == Documents \subseteq Seq(Rule) /\ None \notin Documents
ASSUME NoneRuleAssumption == None \notin Rule

VARIABLES
  definitions,  \* policy_definitions: the rules of <<tenant, name>>, or None
  bindings,     \* policy_bindings: set of <<tenant, identity, name>>
  commands      \* what each operator process has got to

policyVars == <<definitions, bindings, commands>>

-----------------------------------------------------------------------------
(* Rules. *)

(* safeSegments. *)
Safe(path) == \A k \in DOMAIN path : path[k] \notin {".", ".."}

(* validateRule; wild is a trailing wildcard, the only one it lets pass.   *)
ValidRule(rule) ==
  /\ rule.path # <<>> \/ rule.wild
  /\ Safe(rule.path)
  /\ rule.capabilities # {} /\ rule.capabilities \subseteq Capabilities
  /\ "deny" \in rule.capabilities => rule.capabilities = {"deny"}

ASSUME RulesAssumption == Rules \subseteq {rule \in Rule : ValidRule(rule)}

(* New. *)
Valid(rules) ==
  /\ rules # <<>>
  /\ \A k \in DOMAIN rules : ValidRule(rules[k])
  /\ \A k, l \in DOMAIN rules :
       (rules[k].path = rules[l].path /\ rules[k].wild = rules[l].wild) => k = l

Matches(rule, path) == IF rule.wild THEN IsPrefix(rule.path, path) ELSE rule.path = path

Beats(rule, other) ==
  IF rule.wild # other.wild THEN ~rule.wild ELSE Len(rule.path) > Len(other.path)

(* The loop of Evaluate over the rules of all bound policies, in the order *)
(* it meets them: the best matching rule among the first n.                *)
Best(rules, path) ==
  LET best[n \in 0..Len(rules)] ==
        IF n = 0 THEN None
        ELSE IF Matches(rules[n], path) /\ (best[n-1] = None \/ Beats(rules[n], best[n-1]))
        THEN rules[n]
        ELSE best[n-1]
  IN best[Len(rules)]

(* Slip: a denial is weighed like any other rule. *)
EvaluateMostSpecificOnly(rules, path, capability) ==
  /\ capability \in Grantable
  /\ path # <<>> /\ Safe(path)
  /\ Best(rules, path) # None
  /\ capability \in Best(rules, path).capabilities

(* Denied is the early return. *)
Denied(rules, path) ==
  \E k \in DOMAIN rules : Matches(rules[k], path) /\ "deny" \in rules[k].capabilities

Evaluate(rules, path, capability) ==
  /\ capability \in Grantable
  /\ path # <<>> /\ Safe(path)
  /\ ~Denied(rules, path)
  /\ Best(rules, path) # None
  /\ capability \in Best(rules, path).capabilities

(* SetFor: the rules of the policies bound to an identity, by name. The    *)
(* code validates them again as it decodes them; Put stores only what was  *)
(* valid and nothing else writes the table, so that never fails here.      *)
SetFor(i) ==
  FlattenSeq([k \in DOMAIN Names |->
                IF <<Home[i], i, Names[k]>> \in bindings
                THEN definitions[<<Home[i], Names[k]>>] ELSE <<>>])

Authorize(i, tenant, path, capability) ==
  /\ Home[i] = tenant
  /\ Evaluate(SetFor(i), path, capability)

-----------------------------------------------------------------------------
(* Operator commands. *)

PolicyNames == {Names[k] : k \in DOMAIN Names}
Stored == {rules \in Documents : Valid(rules)}
Defined(tenant, name) == definitions[<<tenant, name>>] # None
BindingsFor(tenant, i) == {n \in PolicyNames : <<tenant, i, n>> \in bindings}

IdleCommand == [step |-> "idle", binding |-> None]
Command == [step: {"idle", "found", "counted"},
            binding: (Tenants \X Identities \X PolicyNames) \cup {None}]

PolicyInit ==
  /\ definitions = [d \in Tenants \X PolicyNames |-> None]
  /\ bindings = {}
  /\ commands = [c \in Operators |-> IdleCommand]

Idle(c) == commands[c].step = "idle"

(* Slip: the document is stored without being validated. *)
PutUnchecked(c, tenant, name, rules) ==
  /\ Idle(c)
  /\ definitions' = [definitions EXCEPT ![<<tenant, name>>] = rules]
  /\ UNCHANGED <<bindings, commands>>

(* policy put: an upsert of a valid document. *)
Put(c, tenant, name, rules) ==
  /\ Idle(c)
  /\ Valid(rules)
  /\ definitions' = [definitions EXCEPT ![<<tenant, name>>] = rules]
  /\ UNCHANGED <<bindings, commands>>

(* policy delete: the foreign key takes the bindings along. *)
Delete(c, tenant, name) ==
  /\ Idle(c)
  /\ Defined(tenant, name)
  /\ definitions' = [definitions EXCEPT ![<<tenant, name>>] = None]
  /\ bindings' = {b \in bindings : ~(b[1] = tenant /\ b[3] = name)}
  /\ UNCHANGED commands

(* policy bind: Get, then BindingsFor and the limit, then the insert, each *)
(* a statement of its own.                                                 *)
BindGet(c, tenant, i, name) ==
  /\ Idle(c)
  /\ Defined(tenant, name)
  /\ commands' = [commands EXCEPT ![c] = [step |-> "found", binding |-> <<tenant, i, name>>]]
  /\ UNCHANGED <<definitions, bindings>>

(* Slip: the limit is compared with the wrong relation. *)
RoomAtLimit(tenant, i) == Cardinality(BindingsFor(tenant, i)) <= MaxBound

Room(tenant, i) == Cardinality(BindingsFor(tenant, i)) < MaxBound

BindCount(c) ==
  /\ commands[c].step = "found"
  /\ commands' = [commands EXCEPT ![c] =
       IF Room(@.binding[1], @.binding[2]) THEN [@ EXCEPT !.step = "counted"]
       ELSE IdleCommand]
  /\ UNCHANGED <<definitions, bindings>>

(* The foreign key refuses a policy deleted since; a binding that is there *)
(* already stays.                                                          *)
BindInsert(c) ==
  LET b == commands[c].binding
  IN /\ commands[c].step = "counted"
     /\ bindings' = IF Defined(b[1], b[3]) THEN bindings \cup {b} ELSE bindings
     /\ commands' = [commands EXCEPT ![c] = IdleCommand]
     /\ UNCHANGED definitions

Unbind(c, tenant, i, name) ==
  /\ Idle(c)
  /\ bindings' = bindings \ {<<tenant, i, name>>}
  /\ UNCHANGED <<definitions, commands>>

(* The command is killed, or a statement of it finds the database busy. *)
Abandon(c) ==
  /\ ~Idle(c)
  /\ commands' = [commands EXCEPT ![c] = IdleCommand]
  /\ UNCHANGED <<definitions, bindings>>

PolicyStep(c) ==
  \/ \E t \in Tenants, n \in PolicyNames, d \in Documents : Put(c, t, n, d)
  \/ \E t \in Tenants, n \in PolicyNames : Delete(c, t, n)
  \/ \E t \in Tenants, i \in Identities, n \in PolicyNames :
       BindGet(c, t, i, n) \/ Unbind(c, t, i, n)
  \/ BindCount(c) \/ BindInsert(c) \/ Abandon(c)

-----------------------------------------------------------------------------
(* Properties. *)

PolicyTypeOK ==
  /\ definitions \in [Tenants \X PolicyNames -> Stored \cup {None}]
  /\ bindings \subseteq Tenants \X Identities \X PolicyNames
  /\ commands \in [Operators -> Command]

(* A decision follows the rules alone, whatever list they come in: nothing *)
(* is allowed against a matching denial, and otherwise the most specific   *)
(* matching rule decides, the first in the order of the policies' names    *)
(* among equals.                                                           *)
Decides(rules, path, k) ==
  /\ Matches(rules[k], path)
  /\ \A l \in DOMAIN rules \ {k} :
       Matches(rules[l], path) =>
         Beats(rules[k], rules[l]) \/ (k < l /\ ~Beats(rules[l], rules[k]))

AllowedByRules(rules, path, capability) ==
  /\ path # <<>> /\ Safe(path) /\ capability # "deny"
  /\ \A k \in DOMAIN rules : Matches(rules[k], path) => rules[k].capabilities # {"deny"}
  /\ \E k \in DOMAIN rules :
       Decides(rules, path, k) /\ capability \in rules[k].capabilities

PastCount(t, i) ==
  {c \in Operators : /\ commands[c].step = "counted"
                     /\ commands[c].binding[1] = t
                     /\ commands[c].binding[2] = i}

(* A binding names a policy that is defined, although it may be deleted    *)
(* between the statements of Bind; and Bind, which counts in one statement *)
(* and inserts in a later one, exceeds its limit by at most the binds that *)
(* were past the count together, less one.                                 *)
BindingsSound ==
  /\ \A b \in bindings : Defined(b[1], b[3])
  /\ \A t \in Tenants, i \in Identities :
       Cardinality(BindingsFor(t, i)) + Cardinality(PastCount(t, i))
         < MaxBound + Cardinality(Operators)

=============================================================================
