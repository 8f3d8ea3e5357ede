---------------------------- MODULE AgentProofs ----------------------------
(***************************************************************************)
(* The agent never overwrites a file with anything worse: NothingWorse of  *)
(* Agent, for every list of templates, every store and every number of     *)
(* faults. Fairness plays no part in it.                                   *)
(***************************************************************************)
EXTENDS Agent, TLAPS

(* The inductive invariant. *)

Types ==
  /\ store \in [Keys -> Nat] /\ began \in [Keys -> Nat]
  /\ phase \in Phases /\ turn \in Templates /\ buffer \in Seq(Nat)
  /\ destination \in [Templates -> Seq(Nat) \cup {None}]

(* Versions only rise. *)
StoreAdvances == \A k \in Keys : began[k] <= store[k]

(* A file is a whole rendering of versions the store has had. *)
FilesWhole ==
  \A t \in Templates : destination[t] # None =>
    /\ Len(destination[t]) = Len(Lookups[t])
    /\ \A i \in DOMAIN Lookups[t] : destination[t][i] <= store[Lookups[t][i]]

(* What was looked up is of this cycle. *)
BufferFresh ==
  /\ Len(buffer) <= Len(Lookups[turn])
  /\ \A i \in 1..Len(buffer) :
       /\ began[Lookups[turn][i]] <= buffer[i]
       /\ buffer[i] <= store[Lookups[turn][i]]

BufferWhole == phase \in {"place", "rename"} => Len(buffer) = Len(Lookups[turn])

NothingInHand ==
  phase \in {"stopped", "waiting", "session", "renew"} => turn = 1 /\ buffer = <<>>

(* The file of template t is none newer than the cycle: the cycle has not  *)
(* come to it yet.                                                         *)
FromBefore(t) ==
  destination[t] # None =>
    \A i \in DOMAIN Lookups[t] : destination[t][i] <= began[Lookups[t][i]]

Pending ==
  /\ phase \in {"session", "lookup", "place", "rename"} =>
       \A t \in Templates : t >= turn => FromBefore(t)
  /\ phase = "command" => \A t \in Templates : t > turn => FromBefore(t)

IInv ==
  /\ Types /\ StoreAdvances /\ FilesWhole
  /\ BufferFresh /\ BufferWhole /\ NothingInHand /\ Pending

-----------------------------------------------------------------------------
(* Lookups is a list of lists of paths. *)
LEMMA LookupsFacts ==
  /\ Templates = 1..Len(Lookups) /\ Len(Lookups) \in Nat \ {0}
  /\ \A t \in Templates : Lookups[t] \in Seq(Keys) /\ Len(Lookups[t]) \in Nat
  /\ \A t \in Templates : \A i \in DOMAIN Lookups[t] : Lookups[t][i] \in Keys
<1>1. Lookups \in Seq(Seq(Keys)) /\ Lookups # <<>>
  BY KeysAssumption
<1>2. Templates = 1..Len(Lookups) /\ Len(Lookups) \in Nat \ {0}
  BY <1>1 DEF Templates
<1>3. \A t \in Templates : Lookups[t] \in Seq(Keys)
  BY <1>1, <1>2
<1>4. QED
  BY <1>2, <1>3

(* A cycle that ends, well or not, leaves the files and the store. *)
LEMMA IdleKeeps ==
  ASSUME IInv, Idle("waiting") \/ Idle("stopped"), UNCHANGED <<store, began, destination>>
  PROVE  IInv'
<1> USE LookupsFacts DEF IInv
<1>1. turn' = 1 /\ buffer' = <<>> /\ phase' \in {"waiting", "stopped"}
  BY DEF Idle
<1>2. Types' /\ StoreAdvances' /\ FilesWhole'
  BY <1>1 DEF Types, Phases, StoreAdvances, FilesWhole
<1>3. BufferFresh'
  BY <1>1 DEF BufferFresh
<1>4. BufferWhole' /\ NothingInHand' /\ Pending'
  BY <1>1 DEF BufferWhole, NothingInHand, Pending
<1>5. QED
  BY <1>2, <1>3, <1>4

(* From one place of a cycle to the next with the same template in hand. *)
LEMMA MoveKeeps ==
  ASSUME IInv, UNCHANGED <<store, began, destination, turn, buffer>>,
         \/ phase' = phase
         \/ phase = "session" /\ phase' = "lookup"
         \/ Rendered /\ phase' = "place"
         \/ phase = "place" /\ phase' = "rename"
  PROVE  IInv'
<1> USE DEF IInv
<1>1. Types' /\ StoreAdvances' /\ FilesWhole' /\ BufferFresh'
  BY DEF Types, Phases, StoreAdvances, FilesWhole, BufferFresh
<1>2. BufferWhole' /\ NothingInHand'
  BY DEF BufferWhole, NothingInHand, Rendered
<1>3. Pending'
  BY DEF Pending, FromBefore, Rendered
<1>4. QED
  BY <1>1, <1>2, <1>3

(* A cycle begins with nothing in hand, and with files from before it. *)
LEMMA WakeKeeps ==
  ASSUME IInv, Wake
  PROVE  IInv'
<1> USE LookupsFacts DEF IInv
<1>1. /\ phase = "waiting" /\ phase' = "session" /\ began' = store
      /\ UNCHANGED <<store, destination, turn, buffer>>
  BY DEF Wake, storeVars, machineVars
<1>2. turn = 1 /\ buffer = <<>>
  BY <1>1 DEF NothingInHand
<1>3. Types' /\ FilesWhole' /\ BufferWhole' /\ NothingInHand'
  BY <1>1, <1>2 DEF Types, Phases, FilesWhole, BufferWhole, NothingInHand
<1>4. StoreAdvances'
  BY <1>1 DEF StoreAdvances, Types
<1>5. BufferFresh'
  BY <1>1, <1>2 DEF BufferFresh, Types
<1>6. Pending'
  BY <1>1, <1>2 DEF Pending, FromBefore, FilesWhole
<1>7. QED
  BY <1>3, <1>4, <1>5, <1>6

(* A lookup returns a version of this cycle. *)
LEMMA LookupKeeps ==
  ASSUME IInv, Lookup
  PROVE  IInv'
<1> USE LookupsFacts DEF IInv
<1>1. /\ phase = "lookup" /\ Len(buffer) < Len(Lookups[turn])
      /\ buffer' = Append(buffer, store[NextKey])
      /\ UNCHANGED <<store, began, destination, turn, phase>>
  BY DEF Lookup, Looking, storeVars, machineVars
<1>2. turn \in Templates /\ buffer \in Seq(Nat) /\ Len(buffer) \in Nat
  BY DEF Types
<1>3. Len(buffer) + 1 \in DOMAIN Lookups[turn]
  BY <1>1, <1>2
<1>4. NextKey \in Keys /\ NextKey = Lookups[turn][Len(buffer) + 1]
  BY <1>2, <1>3 DEF NextKey
<1>5. store[NextKey] \in Nat /\ began[NextKey] \in Nat /\ began[NextKey] <= store[NextKey]
  BY <1>4 DEF Types, StoreAdvances
<1>6. /\ buffer' \in Seq(Nat) /\ Len(buffer') = Len(buffer) + 1
      /\ \A i \in 1..Len(buffer) : buffer'[i] = buffer[i]
      /\ buffer'[Len(buffer) + 1] = store[NextKey]
  BY <1>1, <1>2, <1>5
<1>7. Types' /\ StoreAdvances' /\ FilesWhole'
  BY <1>1, <1>6 DEF Types, StoreAdvances, FilesWhole
<1>8. BufferFresh'
  <2>1. Len(buffer') <= Len(Lookups[turn])
    BY <1>1, <1>2, <1>6
  <2>2. ASSUME NEW i \in 1..Len(buffer')
        PROVE  began[Lookups[turn][i]] <= buffer'[i] /\ buffer'[i] <= store[Lookups[turn][i]]
    <3>1. CASE i \in 1..Len(buffer)
      BY <3>1, <1>6 DEF BufferFresh
    <3>2. CASE i = Len(buffer) + 1
      BY <3>2, <1>4, <1>5, <1>6
    <3>3. QED
      BY <3>1, <3>2, <1>2, <1>6
  <2>3. QED
    BY <2>1, <2>2, <1>1 DEF BufferFresh
<1>9. BufferWhole' /\ NothingInHand' /\ Pending'
  BY <1>1 DEF BufferWhole, NothingInHand, Pending, FromBefore
<1>10. QED
  BY <1>7, <1>8, <1>9

(* The cycle goes on to the next template, whose file it has not touched. *)
LEMMA NextTemplateKeeps ==
  ASSUME IInv, phase \in {"place", "command"}, NextTemplate,
         UNCHANGED <<store, began, destination>>
  PROVE  IInv'
<1> USE LookupsFacts DEF IInv
<1>1. turn \in Templates
  BY DEF Types
<1>2. /\ buffer' = <<>>
      /\ \/ turn < Len(Lookups) /\ turn' = turn + 1 /\ phase' = "lookup"
         \/ turn' = 1 /\ phase' = "renew"
  BY DEF NextTemplate
<1>3. Types' /\ StoreAdvances' /\ FilesWhole'
  BY <1>1, <1>2 DEF Types, Phases, StoreAdvances, FilesWhole
<1>4. BufferFresh'
  BY <1>2, <1>3 DEF BufferFresh, Types
<1>5. BufferWhole' /\ NothingInHand'
  BY <1>2 DEF BufferWhole, NothingInHand
<1>6. Pending'
  BY <1>1, <1>2 DEF Pending, FromBefore
<1>7. QED
  BY <1>3, <1>4, <1>5, <1>6

(* What the rename puts in place, and what it replaces. *)
LEMMA RenameReplaces ==
  ASSUME IInv, Rename
  PROVE  /\ turn \in Templates
         /\ destination' = [destination EXCEPT ![turn] = buffer]
         /\ buffer \in Seq(Nat) /\ Len(buffer) = Len(Lookups[turn])
         /\ \A i \in DOMAIN Lookups[turn] :
              /\ began[Lookups[turn][i]] <= buffer[i]
              /\ buffer[i] <= store[Lookups[turn][i]]
              /\ destination[turn] # None => destination[turn][i] <= began[Lookups[turn][i]]
<1> USE LookupsFacts DEF IInv
<1>1. phase = "rename" /\ destination' = [destination EXCEPT ![turn] = buffer]
  BY DEF Rename
<1>2. turn \in Templates /\ buffer \in Seq(Nat)
  BY DEF Types
<1>3. Len(buffer) = Len(Lookups[turn])
  BY <1>1 DEF BufferWhole
<1>4. turn >= turn
  BY <1>2
<1>5. FromBefore(turn)
  BY <1>1, <1>2, <1>4 DEF Pending
<1>6. DOMAIN Lookups[turn] = 1..Len(buffer)
  BY <1>2, <1>3
<1>7. QED
  BY <1>1, <1>2, <1>3, <1>5, <1>6 DEF BufferFresh, FromBefore

LEMMA RenameKeeps ==
  ASSUME IInv, Rename
  PROVE  IInv'
<1> USE LookupsFacts DEF IInv
<1>1. /\ phase = "rename"
      /\ \/ phase' = "command" /\ UNCHANGED <<turn, buffer>>
         \/ NextTemplate
      /\ UNCHANGED <<store, began>>
  BY DEF Rename, storeVars
<1>2. turn \in Templates /\ destination \in [Templates -> Seq(Nat) \cup {None}]
  BY DEF Types
<1>3. /\ destination'[turn] = buffer
      /\ \A t \in Templates \ {turn} : destination'[t] = destination[t]
      /\ destination' \in [Templates -> Seq(Nat) \cup {None}]
  BY <1>2, RenameReplaces
<1>4. \/ phase' = "command" /\ turn' = turn /\ buffer' = buffer
      \/ turn < Len(Lookups) /\ turn' = turn + 1 /\ phase' = "lookup" /\ buffer' = <<>>
      \/ turn' = 1 /\ phase' = "renew" /\ buffer' = <<>>
  BY <1>1 DEF NextTemplate
<1>5. turn' \in Templates /\ phase' \in Phases /\ buffer' \in Seq(Nat)
  <2>1. turn' \in Templates
    BY <1>2, <1>4
  <2>2. phase' \in Phases
    BY <1>4 DEF Phases
  <2>3. buffer \in Seq(Nat) /\ <<>> \in Seq(Nat)
    BY DEF Types
  <2>4. buffer' = buffer \/ buffer' = <<>>
    BY <1>4
  <2>5. QED
    BY <2>1, <2>2, <2>3, <2>4
<1>6. Types' /\ StoreAdvances'
  BY <1>1, <1>3, <1>5 DEF Types, StoreAdvances
<1>7. FilesWhole'
  <2>1. ASSUME NEW t \in Templates, destination'[t] # None
        PROVE  /\ Len(destination'[t]) = Len(Lookups[t])
               /\ \A i \in DOMAIN Lookups[t] : destination'[t][i] <= store[Lookups[t][i]]
    <3>1. CASE t = turn
      BY <3>1, <1>3, RenameReplaces
    <3>2. CASE t # turn
      BY <3>2, <2>1, <1>3 DEF FilesWhole
    <3>3. QED
      BY <3>1, <3>2
  <2>2. QED
    BY <2>1, <1>1 DEF FilesWhole
<1>8. BufferFresh'
  BY <1>1, <1>4, <1>5 DEF BufferFresh
<1>9. BufferWhole' /\ NothingInHand'
  BY <1>4 DEF BufferWhole, NothingInHand
<1>10. Pending'
  <2>1. \A t \in Templates : t > turn => FromBefore(t)
    BY <1>1, <1>2 DEF Pending
  <2>2. \A t \in Templates : t > turn => FromBefore(t)'
    BY <2>1, <1>1, <1>2, <1>3 DEF FromBefore
  <2>3. CASE phase' = "command" /\ turn' = turn
    BY <2>2, <2>3 DEF Pending
  <2>4. CASE turn' = turn + 1 /\ phase' = "lookup"
    BY <2>2, <2>4, <1>2 DEF Pending
  <2>5. CASE phase' = "renew"
    BY <2>5 DEF Pending
  <2>6. QED
    BY <2>3, <2>4, <2>5, <1>4
<1>11. QED
  BY <1>6, <1>7, <1>8, <1>9, <1>10

(* The store only writes newer versions. *)
LEMMA UpdateKeeps ==
  ASSUME IInv, NEW k \in Keys, Update(k),
         UNCHANGED <<began, destination, phase, turn, buffer>>
  PROVE  IInv'
<1> USE LookupsFacts DEF IInv
<1>1. /\ store \in [Keys -> Nat] /\ store' \in [Keys -> Nat]
      /\ \A l \in Keys : store[l] <= store'[l]
  BY DEF Update, Types
<1>2. Types' /\ BufferWhole' /\ NothingInHand'
  BY <1>1 DEF Types, BufferWhole, NothingInHand
<1>3. StoreAdvances'
  BY <1>1 DEF StoreAdvances, Types
<1>4. FilesWhole'
  <2>1. ASSUME NEW t \in Templates, destination[t] # None
        PROVE  /\ Len(destination[t]) = Len(Lookups[t])
               /\ \A i \in DOMAIN Lookups[t] : destination[t][i] <= store'[Lookups[t][i]]
    <3>1. destination[t] \in Seq(Nat) /\ Len(destination[t]) = Len(Lookups[t])
      BY <2>1 DEF Types, FilesWhole
    <3>2. ASSUME NEW i \in DOMAIN Lookups[t]
          PROVE  destination[t][i] <= store'[Lookups[t][i]]
      <4>1. Lookups[t][i] \in Keys /\ i \in 1..Len(destination[t])
        BY <3>1
      <4>2. destination[t][i] \in Nat /\ destination[t][i] <= store[Lookups[t][i]]
        BY <2>1, <3>1, <4>1 DEF FilesWhole
      <4>3. QED
        BY <1>1, <4>1, <4>2
    <3>3. QED
      BY <3>1, <3>2
  <2>2. QED
    BY <2>1 DEF FilesWhole
<1>5. BufferFresh'
  <2>1. turn \in Templates /\ buffer \in Seq(Nat) /\ Len(buffer) <= Len(Lookups[turn])
    BY DEF Types, BufferFresh
  <2>2. ASSUME NEW i \in 1..Len(buffer)
        PROVE  /\ began[Lookups[turn][i]] <= buffer[i]
               /\ buffer[i] <= store'[Lookups[turn][i]]
    <3>1. i \in DOMAIN Lookups[turn] /\ buffer[i] \in Nat
      BY <2>1
    <3>2. Lookups[turn][i] \in Keys
      BY <2>1, <3>1
    <3>3. QED
      BY <1>1, <3>1, <3>2 DEF BufferFresh
  <2>3. QED
    BY <2>1, <2>2 DEF BufferFresh
<1>6. Pending'
  BY DEF Pending, FromBefore
<1>7. QED
  BY <1>2, <1>3, <1>4, <1>5, <1>6

LEMMA InitEstablishes == Init => IInv
<1> SUFFICES ASSUME Init PROVE IInv
  OBVIOUS
<1> USE LookupsFacts DEF Init
<1>1. Types
  BY DEF Types, Phases
<1>2. StoreAdvances /\ FilesWhole /\ BufferFresh
  BY DEF StoreAdvances, FilesWhole, BufferFresh
<1>3. BufferWhole /\ NothingInHand /\ Pending
  BY DEF BufferWhole, NothingInHand, Pending
<1>4. QED
  BY <1>1, <1>2, <1>3 DEF IInv

(* The steps in which a cycle ends, well or not, and the process stops or  *)
(* starts.                                                                 *)
LEMMA EndsKeep ==
  ASSUME IInv, \/ LoginFails \/ LookupFails \/ RenewFails \/ EndCycle \/ Start
               \/ Mishap
  PROVE  IInv' /\ UNCHANGED destination
<1>1. Idle("waiting") \/ Idle("stopped")
  BY DEF LoginFails, LookupFails, RenewFails, EndCycle, Start, Mishap,
         LoginAnswerLost, RenderFails, WriteFails, CommandFails, Stop, FailCycle
<1>2. UNCHANGED <<store, began, destination>>
  BY DEF LoginFails, LookupFails, RenewFails, EndCycle, Start, Mishap,
         LoginAnswerLost, RenderFails, WriteFails, CommandFails, Stop, storeVars, machineVars
<1>3. QED
  BY <1>1, <1>2, IdleKeeps

LEMMA MovesKeep ==
  ASSUME IInv, HaveSession \/ Login \/ Render \/ WriteTemporary \/ Renew
  PROVE  IInv' /\ UNCHANGED destination
<1>1. UNCHANGED <<store, began, destination, turn, buffer>>
  BY DEF HaveSession, Login, Render, WriteTemporary, Renew, storeVars, machineVars
<1>2. \/ phase' = phase
      \/ phase = "session" /\ phase' = "lookup"
      \/ Rendered /\ phase' = "place"
      \/ phase = "place" /\ phase' = "rename"
  BY DEF HaveSession, Login, Render, WriteTemporary, Renew
<1>3. QED
  BY <1>1, <1>2, MoveKeeps

LEMMA StoreKeeps ==
  ASSUME IInv, StoreStep
  PROVE  IInv' /\ UNCHANGED destination
<1>1. UNCHANGED <<destination, phase, turn, buffer, began>>
  BY DEF StoreStep, machineVars
<1>2. (\E k \in Keys : Update(k)) \/ UNCHANGED store
  BY DEF StoreStep, Permit, ComeUp, Provision, Refuse, GoDown, EndSession, storeVars
<1>3. CASE \E k \in Keys : Update(k)
  BY <1>1, <1>3, UpdateKeeps
<1>4. CASE UNCHANGED store
  BY <1>1, <1>4, MoveKeeps
<1>5. QED
  BY <1>1, <1>2, <1>3, <1>4

(* One step keeps the invariant, and only the rename changes a file. *)
LEMMA StepKeeps ==
  ASSUME IInv, [Next]_vars
  PROVE  IInv' /\ (Rename \/ UNCHANGED destination)
<1>1. CASE Wake
  BY <1>1, WakeKeeps DEF Wake, machineVars
<1>2. CASE Lookup
  BY <1>2, LookupKeeps DEF Lookup, machineVars
<1>3. CASE Unchanged
  BY <1>3, NextTemplateKeeps DEF Unchanged, storeVars, machineVars
<1>4. CASE Rename
  BY <1>4, RenameKeeps
<1>5. CASE Command
  BY <1>5, NextTemplateKeeps DEF Command, storeVars
<1>6. CASE HaveSession \/ Login \/ Render \/ WriteTemporary \/ Renew
  BY <1>6, MovesKeep
<1>7. CASE LoginFails \/ LookupFails \/ RenewFails \/ EndCycle \/ Start \/ Mishap
  BY <1>7, EndsKeep
<1>8. CASE StoreStep
  BY <1>8, StoreKeeps
<1>9. CASE vars' = vars
  BY <1>9, MoveKeeps DEF vars, storeVars, machineVars
<1>10. QED
  BY <1>1, <1>2, <1>3, <1>4, <1>5, <1>6, <1>7, <1>8, <1>9 DEF Next, AgentStep

(* In every state the store's versions have only risen since the cycle     *)
(* began, every file is whole, and what the cycle has not come to is from  *)
(* before it.                                                              *)
THEOREM CycleInvariant == Spec => []IInv
<1>1. IInv /\ [Next]_vars => IInv'
  BY StepKeeps
<1>2. QED
  BY InitEstablishes, <1>1, PTL DEF Spec

(* The one step that changes a file puts a whole and newer rendering there. *)
LEMMA RenameImproves ==
  ASSUME IInv, Rename, NEW t \in Templates, destination'[t] # destination[t]
  PROVE  /\ Len(destination'[t]) = Len(Lookups[t])
         /\ \A i \in DOMAIN Lookups[t] :
              /\ destination'[t][i] >= began[Lookups[t][i]]
              /\ destination[t] # None => destination'[t][i] >= destination[t][i]
<1>1. destination \in [Templates -> Seq(Nat) \cup {None}] /\ began \in [Keys -> Nat]
  BY DEF IInv, Types
<1>2. t = turn /\ destination'[t] = buffer
  BY <1>1, RenameReplaces
<1>3. Len(buffer) = Len(Lookups[t]) /\ buffer \in Seq(Nat)
  BY <1>2, RenameReplaces
<1>4. ASSUME NEW i \in DOMAIN Lookups[t]
      PROVE  /\ buffer[i] >= began[Lookups[t][i]]
             /\ destination[t] # None => buffer[i] >= destination[t][i]
  <2>1. /\ began[Lookups[t][i]] <= buffer[i]
        /\ destination[t] # None => destination[t][i] <= began[Lookups[t][i]]
    BY <1>2, RenameReplaces
  <2>2. Lookups[t] \in Seq(Keys) /\ Lookups[t][i] \in Keys /\ i \in 1..Len(buffer)
    BY <1>3, LookupsFacts
  <2>3. began[Lookups[t][i]] \in Nat /\ buffer[i] \in Nat
    BY <1>1, <1>3, <2>2
  <2>4. destination[t] # None => destination[t][i] \in Nat
    <3>1. destination[t] # None =>
            destination[t] \in Seq(Nat) /\ Len(destination[t]) = Len(Lookups[t])
      BY <1>1 DEF IInv, FilesWhole
    <3>2. QED
      BY <1>3, <2>2, <3>1
  <2>5. QED
    BY <2>1, <2>3, <2>4
<1>5. QED
  BY <1>2, <1>3, <1>4

(* No file is ever replaced by a partial or an older rendering: what the   *)
(* agent leaves in place when a cycle fails is the last good one.          *)
THEOREM NeverAnythingWorse == Spec => NothingWorse
<1> DEFINE Improves ==
      \A t \in Templates : destination'[t] # destination[t] =>
        /\ Len(destination'[t]) = Len(Lookups[t])
        /\ \A i \in DOMAIN Lookups[t] :
             /\ destination'[t][i] >= began[Lookups[t][i]]
             /\ destination[t] # None => destination'[t][i] >= destination[t][i]
<1>1. IInv /\ [Next]_vars => [Improves]_vars
  <2>1. ASSUME IInv, [Next]_vars PROVE Improves
    <3>1. CASE UNCHANGED destination
      BY <3>1
    <3>2. CASE Rename
      BY <2>1, <3>2, RenameImproves
    <3>3. QED
      BY <2>1, <3>1, <3>2, StepKeeps
  <2>2. QED
    BY <2>1
<1>2. QED
  BY CycleInvariant, <1>1, PTL DEF Spec, NothingWorse

=============================================================================
