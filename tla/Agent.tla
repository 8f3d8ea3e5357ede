------------------------------- MODULE Agent -------------------------------
(***************************************************************************)
(* Package agent, the process beside an application that renders secrets   *)
(* and parameters into files, runs a command when a file changed and       *)
(* renews the leases of what it read.                                      *)
(*                                                                         *)
(* A cycle is split at every call of the client, at the rename and around  *)
(* the command. The store moves on meanwhile: it writes new versions,      *)
(* refuses paths, cannot be reached, ends sessions, forgets leases. Text   *)
(* is left out: what a template renders to is the sequence of the versions *)
(* its lookups returned.                                                   *)
(***************************************************************************)
EXTENDS Naturals, Sequences

CONSTANTS
  Keys,        \* paths of secrets and parameters
  SecretKeys,  \* those of secrets, whose reads are leased
  Lookups,     \* Lookups[t]: the paths template t looks up, in order
  Commanded,   \* templates that have a command
  None,        \* no file
  MaxVersion,  \* bound on the versions of a path
  MaxFaults    \* bound on what goes wrong

Templates == DOMAIN Lookups

ASSUME KeysAssumption ==
  /\ SecretKeys \subseteq Keys
  /\ Lookups \in Seq(Seq(Keys)) /\ Lookups # <<>>
  /\ Commanded \subseteq Templates
ASSUME VersionsAssumption == MaxVersion \in Nat \ {0} /\ MaxFaults \in Nat

VARIABLES
  \* the store
  store,        \* the version of each path
  refused,      \* paths the store answers with an error
  up,           \* the store answers at all
  credential,   \* the credential file still buys a login
  session,      \* the store honours the token the agent holds
  \* the agent
  phase,        \* where in Run and Cycle the process is
  turn,         \* the template in hand
  buffer,       \* what its lookups returned so far
  loggedIn,
  leases,       \* how the tracked leases stand: "held", "due" or "gone"
  \* the application's machine
  destination,  \* the content of each rendered file, or None
  applied,      \* the content its command last ran to its end for
  \* history
  began,        \* the store when the cycle began
  missed,       \* templates whose command failed, or did not end, since
  faults

storeVars == <<store, refused, up, credential, session>>
machineVars == <<destination, applied, missed>>
vars == <<storeVars, machineVars, phase, turn, buffer, loggedIn, leases, began, faults>>

Phases ==
  {"stopped", "waiting", "session", "lookup", "place", "rename", "command", "renew"}

(* Between cycles, and in a stopped process, nothing is in hand. *)
Idle(to) == phase' = to /\ turn' = 1 /\ buffer' = <<>>

(* New: no session and no lease; the files are what an earlier process left. *)
Init ==
  /\ store = [k \in Keys |-> 1]
  /\ refused = {} /\ up = TRUE
  /\ credential = TRUE /\ session = FALSE
  /\ phase = "waiting" /\ turn = 1 /\ buffer = <<>>
  /\ loggedIn = FALSE /\ leases = {}
  /\ destination = [t \in Templates |-> None]
  /\ applied = destination /\ missed = {}
  /\ began = store /\ faults = 0

Fault == faults < MaxFaults /\ faults' = faults + 1

-----------------------------------------------------------------------------
(* Run: wait, then the next cycle; a cycle that failed ends the login. *)

Wake ==
  /\ phase = "waiting"
  /\ phase' = "session" /\ began' = store
  /\ UNCHANGED <<storeVars, machineVars, turn, buffer, loggedIn, leases, faults>>

(* Slip: a failed cycle keeps its login. *)
FailCycleKept == Idle("waiting") /\ UNCHANGED loggedIn

FailCycle == Idle("waiting") /\ loggedIn' = FALSE

(* ensureSession. A token of either method buys one session; the store     *)
(* may have spent it although its answer is lost.                          *)
HaveSession ==
  /\ phase = "session" /\ loggedIn
  /\ phase' = "lookup"
  /\ UNCHANGED <<storeVars, machineVars, turn, buffer, loggedIn, leases, began, faults>>

Login ==
  /\ phase = "session" /\ ~loggedIn
  /\ up /\ credential
  /\ credential' = FALSE /\ session' = TRUE
  /\ loggedIn' = TRUE /\ phase' = "lookup"
  /\ UNCHANGED <<store, refused, up, machineVars, turn, buffer, leases, began, faults>>

LoginAnswerLost ==
  /\ phase = "session" /\ ~loggedIn
  /\ up /\ credential /\ Fault
  /\ credential' = FALSE
  /\ FailCycle
  /\ UNCHANGED <<store, refused, up, session, machineVars, leases, began>>

LoginFails ==
  /\ phase = "session" /\ ~loggedIn
  /\ ~(up /\ credential)
  /\ FailCycle
  /\ UNCHANGED <<storeVars, machineVars, leases, began, faults>>

(* render and its functions: the lookups of the template in hand. *)
Answered(key) == up /\ session /\ key \notin refused

Looking == phase = "lookup" /\ Len(buffer) < Len(Lookups[turn])

NextKey == Lookups[turn][Len(buffer) + 1]

Lookup ==
  /\ Looking /\ Answered(NextKey)
  /\ buffer' = Append(buffer, store[NextKey])
  /\ leases' = leases \cup (IF NextKey \in SecretKeys THEN {"held"} ELSE {})
  /\ UNCHANGED <<storeVars, machineVars, phase, turn, loggedIn, began, faults>>

LookupFails ==
  /\ Looking /\ ~Answered(NextKey)
  /\ FailCycle
  /\ UNCHANGED <<storeVars, machineVars, leases, began, faults>>

(* The template cannot be read, is too large, does not parse, or fails as  *)
(* it is executed for a reason of its own.                                 *)
RenderFails ==
  /\ phase = "lookup" /\ Fault
  /\ FailCycle
  /\ UNCHANGED <<storeVars, machineVars, leases, began>>

(* Slip: a template is placed before its last lookup. *)
RenderedEarly == phase = "lookup" /\ buffer # <<>>

Rendered == phase = "lookup" /\ Len(buffer) = Len(Lookups[turn])

Render ==
  /\ Rendered
  /\ phase' = "place"
  /\ UNCHANGED <<storeVars, machineVars, turn, buffer, loggedIn, leases, began, faults>>

NextTemplate ==
  /\ buffer' = <<>>
  /\ \/ turn < Len(Lookups) /\ turn' = turn + 1 /\ phase' = "lookup"
     \/ turn = Len(Lookups) /\ turn' = 1 /\ phase' = "renew"

(* place: nothing when the file has this content, else a temporary file,   *)
(* then the rename. A step before the rename that fails leaves the file.   *)
Unchanged ==
  /\ phase = "place" /\ destination[turn] = buffer
  /\ NextTemplate
  /\ UNCHANGED <<storeVars, machineVars, loggedIn, leases, began, faults>>

WriteTemporary ==
  /\ phase = "place" /\ destination[turn] # buffer
  /\ phase' = "rename"
  /\ UNCHANGED <<storeVars, machineVars, turn, buffer, loggedIn, leases, began, faults>>

WriteFails ==
  /\ phase \in {"place", "rename"} /\ destination[turn] # buffer
  /\ Fault /\ FailCycle
  /\ UNCHANGED <<storeVars, machineVars, leases, began>>

Rename ==
  /\ phase = "rename"
  /\ destination' = [destination EXCEPT ![turn] = buffer]
  /\ \/ turn \in Commanded /\ phase' = "command" /\ UNCHANGED <<turn, buffer>>
     \/ turn \notin Commanded /\ NextTemplate
  /\ UNCHANGED <<storeVars, applied, missed, loggedIn, leases, began, faults>>

Command ==
  /\ phase = "command"
  /\ applied' = [applied EXCEPT ![turn] = destination[turn]]
  /\ missed' = missed \ {turn}
  /\ NextTemplate
  /\ UNCHANGED <<storeVars, destination, loggedIn, leases, began, faults>>

CommandFails ==
  /\ phase = "command" /\ Fault
  /\ missed' = missed \cup {turn}
  /\ FailCycle
  /\ UNCHANGED <<storeVars, destination, applied, leases, began>>

(* renewLeases: what is due is renewed, what the store answers 404 for is  *)
(* dropped, any other error ends the cycle.                                *)
Renew ==
  /\ phase = "renew" /\ up /\ session
  /\ \/ "due" \in leases /\ leases' = (leases \ {"due"}) \cup {"held"}
     \/ "gone" \in leases /\ leases' = leases \ {"gone"}
  /\ UNCHANGED <<storeVars, machineVars, phase, turn, buffer, loggedIn, began, faults>>

RenewFails ==
  /\ phase = "renew" /\ leases \cap {"due", "gone"} # {}
  /\ ~(up /\ session)
  /\ FailCycle
  /\ UNCHANGED <<storeVars, machineVars, leases, began, faults>>

EndCycle ==
  /\ phase = "renew" /\ leases \cap {"due", "gone"} = {}
  /\ Idle("waiting")
  /\ UNCHANGED <<storeVars, machineVars, loggedIn, leases, began, faults>>

(* SIGTERM, a kill, or the end of --once. The process keeps nothing. *)
Stop ==
  /\ phase # "stopped" /\ Fault
  /\ Idle("stopped")
  /\ loggedIn' = FALSE /\ leases' = {} /\ session' = FALSE
  /\ missed' = IF phase = "command" THEN missed \cup {turn} ELSE missed
  /\ UNCHANGED <<store, refused, up, credential, destination, applied, began>>

Start ==
  /\ phase = "stopped" /\ Idle("waiting")
  /\ UNCHANGED <<storeVars, machineVars, loggedIn, leases, began, faults>>

-----------------------------------------------------------------------------
(* The store, and whoever provisions the machine. *)

Update(k) ==
  /\ store[k] < MaxVersion
  /\ store' = [store EXCEPT ![k] = @ + 1]
  /\ UNCHANGED <<refused, up, credential, session>>

Refuse(k) ==
  /\ k \notin refused /\ Fault
  /\ refused' = refused \cup {k}
  /\ UNCHANGED <<store, up, credential, session>>

Permit(k) ==
  /\ k \in refused
  /\ refused' = refused \ {k}
  /\ UNCHANGED <<store, up, credential, session>>

GoDown == up /\ Fault /\ up' = FALSE /\ UNCHANGED <<store, refused, credential, session>>

ComeUp == ~up /\ up' = TRUE /\ UNCHANGED <<store, refused, credential, session>>

EndSession == session /\ Fault /\ session' = FALSE /\ UNCHANGED <<store, refused, up, credential>>

(* A new bootstrap token or instance assertion is put into the file. *)
Provision ==
  /\ ~credential /\ credential' = TRUE
  /\ UNCHANGED <<store, refused, up, session>>

(* renewLeases takes its deadline once: nothing comes due while it runs. *)
AgeLeases ==
  \/ "held" \in leases /\ phase # "renew" /\ leases' = (leases \ {"held"}) \cup {"due"}
  \/ "due" \in leases /\ leases' = (leases \ {"due"}) \cup {"gone"}

StoreStep ==
  /\ \/ /\ \/ \E k \in Keys : Update(k) \/ Permit(k)
           \/ ComeUp \/ Provision
        /\ UNCHANGED <<leases, faults>>
     \/ /\ (\E k \in Keys : Refuse(k)) \/ GoDown \/ EndSession
        /\ UNCHANGED leases
     \/ AgeLeases /\ UNCHANGED <<storeVars, faults>>
  /\ UNCHANGED <<machineVars, phase, turn, buffer, loggedIn, began>>

(* The steps an agent takes that nothing goes wrong for, failures reported *)
(* by the client among them.                                               *)
AgentStep ==
  \/ Wake \/ HaveSession \/ Login \/ LoginFails
  \/ Lookup \/ LookupFails \/ Render
  \/ Unchanged \/ WriteTemporary \/ Rename \/ Command
  \/ Renew \/ RenewFails \/ EndCycle \/ Start

Mishap == LoginAnswerLost \/ RenderFails \/ WriteFails \/ CommandFails \/ Stop

Next == AgentStep \/ Mishap \/ StoreStep

(* The agent runs whenever it can; an outage ends and a spent credential   *)
(* is replaced. Nothing says that a refused path is ever permitted again.  *)
Fairness ==
  /\ WF_vars(AgentStep)
  /\ WF_vars(ComeUp /\ UNCHANGED <<machineVars, phase, turn, buffer, loggedIn, leases, began, faults>>)
  /\ WF_vars(Provision /\ UNCHANGED <<machineVars, phase, turn, buffer, loggedIn, leases, began, faults>>)

Spec == Init /\ [][Next]_vars /\ Fairness

-----------------------------------------------------------------------------
(* Every file that changes becomes one whole rendering, and each value in  *)
(* it is at least as new as when the cycle began and as the one it         *)
(* replaces: failed, interrupted and restarted cycles included, the agent  *)
(* never overwrites a file with anything worse (render, place).            *)
NothingWorse ==
  [][\A t \in Templates : destination'[t] # destination[t] =>
       /\ Len(destination'[t]) = Len(Lookups[t])
       /\ \A i \in DOMAIN Lookups[t] :
            /\ destination'[t][i] >= began[Lookups[t][i]]
            /\ destination[t] # None => destination'[t][i] >= destination[t][i]]_vars

Current(t) == [i \in DOMAIN Lookups[t] |-> store[Lookups[t][i]]]

(* No path of the template, or of one before it in the cycle, is refused. *)
Reachable(t) == \A u \in 1..t : \A i \in DOMAIN Lookups[u] : Lookups[u][i] \notin refused

(* When the store settles and faults end, every file that no refused path  *)
(* holds up comes to show the store's values and stays so, and its command *)
(* has run for it unless an attempt failed: whatever cycles failed before, *)
(* the agent has logged in again with the next credential (Run,            *)
(* ensureSession). A failed command is not repeated for the same content.  *)
Converges ==
  <>[](\A t \in Templates : Reachable(t) =>
         /\ destination[t] = Current(t)
         /\ t \in Commanded => applied[t] = destination[t] \/ t \in missed)

=============================================================================
