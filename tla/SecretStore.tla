----------------------------- MODULE SecretStore -----------------------------
(***************************************************************************)
(* The secret store (internal/modules/secret) and the two things every     *)
(* request shares: the one database connection (platform/sqlite) and the   *)
(* seal manager's read-write lock (internal/modules/seal).                 *)
(*                                                                         *)
(* A statement, and a transaction that waits for nothing, is a step that   *)
(* finds the connection free. A write waits inside its transaction: it     *)
(* keeps the connection while it takes the lock to seal its value, and the *)
(* seal manager keeps the lock while it waits for the connection. What     *)
(* ends such a wait is the context of a request whose client gives up.     *)
(***************************************************************************)
EXTENDS Naturals, FiniteSets

CONSTANTS
    Paths,         \* paths of secrets
    MaxVersions,   \* bound: versions written to one path
    Keep,          \* Store.maxVersions
    MaxKEK,        \* bound: key encryption key versions
    Requests,      \* requests in flight
    NoOne,         \* nobody has the connection, or the lock
    MaxOps,        \* bound: requests ever made
    Kinds          \* the operations that requests ask for

ASSUME SizesAssumption ==
    /\ MaxVersions \in Nat \ {0} /\ MaxOps \in Nat
    /\ Keep \in Nat \ {0} /\ MaxKEK \in Nat \ {0}
ASSUME NoOneAssumption == NoOne \notin Requests
ASSUME KindsAssumption ==
    Kinds \subseteq {"put", "get", "status", "gauge", "rotate", "unseal", "seal"}

VARIABLES
    conn,      \* the request whose transaction has the connection
    writer,    \* the request that holds the lock, or has announced it will
    readers,   \* requests that hold the lock for reading
    stored,    \* seal_config.kek_version
    held,      \* seal.Manager.kekVersion, 0 while sealed
    row,       \* secret_versions
    current,   \* secret_metadata.current_version, 0 when there is none
    request,   \* the requests
    issued     \* requests made so far

lockVars == <<writer, readers>>
keyVars == <<stored, held>>
storeVars == <<row, current>>
vars == <<conn, writer, readers, stored, held, row, current, request, issued>>

-----------------------------------------------------------------------------
(* State *)

Version == 1..MaxVersions

(***************************************************************************)
(* A row knows, beside its state and the version of its key, the version   *)
(* that its write named, if it named one. "pruned" and "destroyed" are the *)
(* same to the database.                                                   *)
(***************************************************************************)
AnyVersion == MaxVersions + 1
NoRow == [state |-> "absent", after |-> AnyVersion, kek |-> 0]
Row == {NoRow} \cup
    [state : {"live", "deleted", "pruned", "destroyed"},
     after : 0..AnyVersion, kek : 1..MaxKEK]

(***************************************************************************)
(* "asked" is the version a write or a read names. "seen", "floor" and     *)
(* "gone" are history: the stored key version when a write was sealed, and *)
(* what was current, and what was deleted or destroyed, when a request was *)
(* let in. "ended" says that its context has ended.                        *)
(***************************************************************************)
Idle == [pc |-> "idle", op |-> "none", path |-> NoOne, asked |-> 0,
         version |-> 0, kek |-> 0, seen |-> 0, floor |-> 0, gone |-> {},
         ended |-> FALSE]
InFlight(pcs, keks) ==
    [pc : pcs, op : Kinds, path : Paths, asked : 0..AnyVersion,
     version : 0..MaxVersions, kek : keks, seen : keks, floor : 0..MaxVersions,
     gone : SUBSET Version, ended : BOOLEAN]
Request ==
    {Idle}
      \cup InFlight({"begin", "row", "lock", "config", "update", "answered"}, {0})
      \cup InFlight({"sealed"}, 1..MaxKEK)

TypeOK ==
    /\ conn \in Requests \cup {NoOne}
    /\ writer \in Requests \cup {NoOne}
    /\ readers \subseteq Requests
    /\ stored \in 1..MaxKEK
    /\ held \in 0..MaxKEK
    /\ row \in [Paths \X Version -> Row]
    /\ current \in [Paths -> 0..MaxVersions]
    /\ request \in [Requests -> Request]
    /\ issued \in 0..MaxOps

(* An unsealed store, in which a path may have been written to once. *)
Init ==
    /\ conn = NoOne
    /\ writer = NoOne /\ readers = {}
    /\ stored = 1 /\ held = 1
    /\ current \in [Paths -> 0..1]
    /\ row = [k \in Paths \X Version |->
          IF k[2] = current[k[1]]
          THEN [state |-> "live", after |-> AnyVersion, kek |-> 1] ELSE NoRow]
    /\ request = [r \in Requests |-> Idle]
    /\ issued = 0

-----------------------------------------------------------------------------
(* The shared parts *)

Finish(r) == request' = [request EXCEPT ![r] = Idle]

(***************************************************************************)
(* sync.RWMutex: an announced writer keeps new readers out, and waits for  *)
(* those that are in. A read that waits for nothing under the lock is one  *)
(* step; only Status keeps it for reading while it waits.                  *)
(***************************************************************************)
CanRead == writer = NoOne

RLock(r) ==
    /\ request[r].pc = "lock"
    /\ request[r].op \in {"status", "gauge"}
    /\ r \notin readers
    /\ CanRead
    /\ readers' = readers \cup {r}
    /\ UNCHANGED <<conn, writer, keyVars, storeVars, request, issued>>

RUnlock(r) == readers' = readers \ {r} /\ UNCHANGED writer

Lock(r) ==
    /\ request[r].pc = "lock"
    /\ request[r].op \in {"rotate", "unseal", "seal"}
    /\ writer = NoOne
    /\ writer' = r
    /\ request' = [request EXCEPT ![r].pc = "config"]
    /\ UNCHANGED <<conn, readers, keyVars, storeVars, issued>>

HasLock(r) == writer = r /\ readers = {}

Unlock == writer' = NoOne /\ UNCHANGED readers

(***************************************************************************)
(* requireUnsealed asks the manager, under its lock, unless the path is    *)
(* one of the seal's own. A failing audit append may seal at any time.     *)
(***************************************************************************)
FirstStep(op) ==
    CASE op = "put" -> "begin" [] op = "get" -> "begin" [] OTHER -> "lock"

Hidden(p) ==
    {v \in Version : row[<<p, v>>].state \in {"deleted", "pruned", "destroyed"}}

(* The members of Requests only name requests: a new one takes a free name. *)
FreeSlot == CHOOSE r \in Requests : request[r].pc = "idle"

Admit(r, op, p, asked) ==
    /\ request[r].pc = "idle"
    /\ r = FreeSlot
    /\ issued < MaxOps
    /\ op \in {"put", "get", "rotate"} => CanRead /\ held # 0
    /\ issued' = issued + 1
    /\ request' = [request EXCEPT ![r] =
          [pc |-> FirstStep(op), op |-> op, path |-> p, asked |-> asked,
           version |-> 0, kek |-> 0, seen |-> 0,
           floor |-> IF op = "get" THEN current[p] ELSE 0,
           gone |-> IF op = "get" THEN Hidden(p) ELSE {}, ended |-> FALSE]]
    /\ UNCHANGED <<conn, lockVars, keyVars, storeVars>>

(***************************************************************************)
(* Where a request waits for the database, and no longer for the lock.     *)
(***************************************************************************)
AtDatabase(r) ==
    \/ request[r].pc \in {"begin", "row", "sealed"}
    \/ r \in readers
    \/ request[r].pc \in {"config", "update"} /\ HasLock(r)

(* The statement fails, and the handler returns. *)
Return(r) ==
    /\ Finish(r)
    /\ \/ r \in readers /\ RUnlock(r)
       \/ writer = r /\ Unlock
       \/ r \notin readers \cup {writer} /\ UNCHANGED lockVars

CanCancel(r) ==
    /\ request[r].pc \notin {"idle", "answered"}
    /\ request[r].op \notin {"gauge", "seal"}
    /\ ~request[r].ended

(* Slip: a transaction is rolled back only when its function returns. *)
CancelKeepingConnection(r) ==
    /\ CanCancel(r)
    /\ IF AtDatabase(r)
       THEN Return(r) /\ conn' = IF conn = r THEN NoOne ELSE conn
       ELSE /\ request' = [request EXCEPT ![r].ended = TRUE]
            /\ UNCHANGED <<conn, lockVars>>
    /\ UNCHANGED <<keyVars, storeVars, issued>>

(***************************************************************************)
(* The client gives up. The database ends the statement, rolls back the    *)
(* transaction and takes the connection from it, even while its function   *)
(* waits for the lock, which no context ends. Nothing ends the background  *)
(* context of the gauge, or a seal.                                        *)
(***************************************************************************)
Cancel(r) ==
    /\ CanCancel(r)
    /\ conn' = IF conn = r THEN NoOne ELSE conn
    /\ IF AtDatabase(r) THEN Return(r)
       ELSE /\ request' = [request EXCEPT ![r].ended = TRUE]
            /\ UNCHANGED lockVars
    /\ UNCHANGED <<keyVars, storeVars, issued>>

(* A request whose context has ended gets the lock it waited for. *)
Fails(r) ==
    /\ request[r].ended
    /\ AtDatabase(r)
    /\ Return(r)
    /\ UNCHANGED <<conn, keyVars, storeVars, issued>>

(* Slip: the pool opens a connection for everyone who wants one. *)
RunsAside(r) == ~request[r].ended

Runs(r) == conn = NoOne /\ ~request[r].ended

-----------------------------------------------------------------------------
(* Put *)

(* Slip: the version a write names is not compared. *)
AlwaysSatisfied(asked, version) == TRUE

SatisfiedBy(asked, version) == asked = AnyVersion \/ asked = version

(***************************************************************************)
(* BeginTx and the comparison with the current version. The transaction    *)
(* has the connection from here on.                                        *)
(***************************************************************************)
Begin(r) ==
    LET p == request[r].path IN
    /\ request[r].pc = "begin" /\ request[r].op = "put"
    /\ Runs(r)
    /\ current[p] < MaxVersions
    /\ SatisfiedBy(request[r].asked, current[p])
    /\ conn' = r
    /\ request' = [request EXCEPT ![r].pc = "lock", ![r].version = current[p] + 1]
    /\ UNCHANGED <<lockVars, keyVars, storeVars, issued>>

(* The version named is not the current one, or the bound is used up. *)
Conflict(r) ==
    /\ request[r].pc = "begin" /\ request[r].op = "put"
    /\ Runs(r)
    /\ \/ ~SatisfiedBy(request[r].asked, current[request[r].path])
       \/ current[request[r].path] = MaxVersions
    /\ Finish(r)
    /\ UNCHANGED <<conn, lockVars, keyVars, storeVars, issued>>

SealValue(r) ==
    /\ request[r].pc = "lock" /\ request[r].op = "put"
    /\ CanRead
    /\ held # 0
    /\ request' = [request EXCEPT ![r].pc = "sealed", ![r].kek = held,
                                   ![r].seen = stored]
    /\ UNCHANGED <<conn, lockVars, keyVars, storeVars, issued>>

(* The store was sealed meanwhile: the transaction is rolled back. *)
SealRefused(r) ==
    /\ request[r].pc = "lock" /\ request[r].op = "put"
    /\ CanRead
    /\ held = 0
    /\ conn' = IF conn = r THEN NoOne ELSE conn
    /\ Finish(r)
    /\ UNCHANGED <<lockVars, keyVars, storeVars, issued>>

Pruned(v, next) == v + Keep <= next

Written(r) ==
    [state |-> "live", after |-> request[r].asked, kek |-> request[r].kek]

Erased(k, state) ==
    [state |-> state, after |-> row[k].after, kek |-> row[k].kek]

Commit(r) ==
    LET p == request[r].path
        next == request[r].version
    IN
    /\ request[r].pc = "sealed"
    /\ conn = r
    /\ conn' = NoOne
    /\ current' = [current EXCEPT ![p] = next]
    /\ row' = [k \in Paths \X Version |->
          IF k = <<p, next>> THEN Written(r)
          ELSE IF k[1] = p /\ row[k].state \in {"live", "deleted"} /\ Pruned(k[2], next)
          THEN Erased(k, "pruned")
          ELSE row[k]]
    /\ Finish(r)
    /\ UNCHANGED <<lockVars, keyVars, issued>>

-----------------------------------------------------------------------------
(* Get *)

Resolve(r) ==
    LET p == request[r].path IN
    /\ request[r].pc = "begin" /\ request[r].op = "get"
    /\ Runs(r)
    /\ request' = [request EXCEPT ![r] =
          IF request[r].asked # 0
          THEN [request[r] EXCEPT !.pc = "row", !.version = request[r].asked]
          ELSE IF current[p] # 0
          THEN [request[r] EXCEPT !.pc = "row", !.version = current[p]]
          ELSE Idle]
    /\ UNCHANGED <<conn, lockVars, keyVars, storeVars, issued>>

(* Slip: a version that was deleted or destroyed is read like any other. *)
ReadAnyRow(r) ==
    /\ request[r].pc = "row"
    /\ Runs(r)
    /\ request' = [request EXCEPT ![r] =
          IF row[<<request[r].path, request[r].version>>].state # "absent"
          THEN [request[r] EXCEPT !.pc = "lock"] ELSE Idle]
    /\ UNCHANGED <<conn, lockVars, keyVars, storeVars, issued>>

ReadRow(r) ==
    /\ request[r].pc = "row"
    /\ Runs(r)
    /\ request' = [request EXCEPT ![r] =
          IF row[<<request[r].path, request[r].version>>].state = "live"
          THEN [request[r] EXCEPT !.pc = "lock"] ELSE Idle]
    /\ UNCHANGED <<conn, lockVars, keyVars, storeVars, issued>>

(***************************************************************************)
(* The value is opened with a key derived under the lock and answered.     *)
(***************************************************************************)
OpenValue(r) ==
    /\ request[r].pc = "lock" /\ request[r].op = "get"
    /\ CanRead
    /\ request' = [request EXCEPT ![r] =
          IF held # 0 /\ ~request[r].ended
          THEN [request[r] EXCEPT !.pc = "answered"] ELSE Idle]
    /\ UNCHANGED <<conn, lockVars, keyVars, storeVars, issued>>

Answer(r) ==
    /\ request[r].pc = "answered"
    /\ Finish(r)
    /\ UNCHANGED <<conn, lockVars, keyVars, storeVars, issued>>

-----------------------------------------------------------------------------
(* Delete, Undelete and Destroy: transactions that wait for nothing. They  *)
(* may have been let in before the store was sealed.                       *)

Mark(p, v, from, to) ==
    /\ conn = NoOne
    /\ issued < MaxOps
    /\ issued' = issued + 1
    /\ row[<<p, v>>].state \in from
    /\ row' = [row EXCEPT ![<<p, v>>] = Erased(<<p, v>>, to)]
    /\ UNCHANGED <<conn, lockVars, keyVars, current>>

Delete(p, v) == Mark(p, v, {"live"}, "deleted") /\ UNCHANGED request

(* Slip: a version that was destroyed is undeleted. *)
UndeleteAny(p, v) ==
    /\ Mark(p, v, {"deleted", "destroyed"}, "live")
    /\ request' = [r \in Requests |->
          IF request[r].path = p
          THEN [request[r] EXCEPT !.gone = request[r].gone \ {v}] ELSE request[r]]

(* What was undeleted may be read by requests that began before. *)
Undelete(p, v) ==
    /\ Mark(p, v, {"deleted"}, "live")
    /\ request' = [r \in Requests |->
          IF request[r].path = p
          THEN [request[r] EXCEPT !.gone = request[r].gone \ {v}] ELSE request[r]]

Destroy(p, v) == Mark(p, v, {"live", "deleted"}, "destroyed") /\ UNCHANGED request

-----------------------------------------------------------------------------
(* The seal manager *)

(***************************************************************************)
(* Status keeps the lock, for reading, while it waits for the connection.  *)
(***************************************************************************)
Status(r) ==
    /\ request[r].op \in {"status", "gauge"}
    /\ r \in readers
    /\ Runs(r)
    /\ RUnlock(r)
    /\ Finish(r)
    /\ UNCHANGED <<conn, keyVars, storeVars, issued>>

(***************************************************************************)
(* The share that completes a quorum: the configuration is read under the  *)
(* lock.                                                                   *)
(***************************************************************************)
Unseal(r) ==
    /\ request[r].pc = "config" /\ request[r].op = "unseal"
    /\ HasLock(r) /\ Runs(r)
    /\ held' = IF held = 0 THEN stored ELSE held
    /\ Unlock
    /\ Finish(r)
    /\ UNCHANGED <<conn, stored, storeVars, issued>>

ReadConfig(r) ==
    /\ request[r].pc = "config" /\ request[r].op = "rotate"
    /\ HasLock(r) /\ Runs(r)
    /\ IF held = 0 \/ stored = MaxKEK
       THEN Unlock /\ Finish(r)
       ELSE request' = [request EXCEPT ![r].pc = "update"] /\ UNCHANGED lockVars
    /\ UNCHANGED <<conn, keyVars, storeVars, issued>>

(***************************************************************************)
(* The update counts on from the stored version, whatever version is held. *)
(***************************************************************************)
UpdateVersion(r) ==
    /\ request[r].pc = "update"
    /\ HasLock(r) /\ Runs(r)
    /\ stored' = stored + 1
    /\ held' = stored + 1
    /\ Unlock
    /\ Finish(r)
    /\ UNCHANGED <<conn, storeVars, issued>>

(***************************************************************************)
(* The update takes effect and is reported as failed: the manager goes on  *)
(* sealing under the version it holds, until the next rotation or unseal.  *)
(***************************************************************************)
UpdateUnreported(r) ==
    /\ request[r].pc = "update"
    /\ HasLock(r) /\ Runs(r)
    /\ stored' = stored + 1
    /\ Unlock
    /\ Finish(r)
    /\ UNCHANGED <<conn, held, storeVars, issued>>

Seal(r) ==
    /\ request[r].pc = "config" /\ request[r].op = "seal"
    /\ HasLock(r)
    /\ held' = 0
    /\ Unlock
    /\ Finish(r)
    /\ UNCHANGED <<conn, stored, storeVars, issued>>

-----------------------------------------------------------------------------

PutStep(r) == Begin(r) \/ Conflict(r) \/ SealValue(r) \/ SealRefused(r) \/ Commit(r)
GetStep(r) == Resolve(r) \/ ReadRow(r) \/ OpenValue(r) \/ Answer(r)
ManagerStep(r) ==
    \/ Status(r) \/ Unseal(r) \/ Seal(r)
    \/ ReadConfig(r) \/ UpdateVersion(r) \/ UpdateUnreported(r)

RequestStep(r) ==
    RLock(r) \/ Lock(r) \/ PutStep(r) \/ GetStep(r) \/ ManagerStep(r) \/ Fails(r)

MarkStep(p, v) == Delete(p, v) \/ Undelete(p, v) \/ Destroy(p, v)

(* Naming the last version of the bound can only conflict. *)
Asks(op) ==
    CASE op = "put" -> 0..(MaxVersions - 1) \cup {AnyVersion}
      [] op = "get" -> 0..MaxVersions
      [] OTHER -> {0}

Next ==
    \/ \E r \in Requests : RequestStep(r) \/ Cancel(r)
    \/ \E r \in Requests, op \in Kinds, p \in Paths :
          \E asked \in Asks(op) : Admit(r, op, p, asked)
    \/ \E p \in Paths, v \in Version : MarkStep(p, v)

Spec == Init /\ [][Next]_vars

(***************************************************************************)
(* A handler that can go on does so, and the client of one that cannot     *)
(* gives up: no timeout of the server ends a request's context.            *)
(***************************************************************************)
FairSpec == Spec /\ \A r \in Requests : WF_vars(RequestStep(r) \/ Cancel(r))

-----------------------------------------------------------------------------
(* Properties *)

(***************************************************************************)
(* Between the sealing of a value and its commit nothing moves, although   *)
(* the lock was let go: the stored key version is the one the write saw,   *)
(* no other version came to be held (a seal may forget it), and the write  *)
(* is not sealed ahead of what is stored, even when an update that was     *)
(* reported as failed left the manager behind. The connection that the     *)
(* transaction has is what keeps rotations, unseals and other writes out   *)
(* (secret/store.go, Put; seal/manager.go, Rotate and Unseal).             *)
(***************************************************************************)
NothingMovesBeforeCommit ==
    \A r \in Requests :
        request[r].pc = "sealed" /\ conn = r =>
            /\ request[r].seen = stored
            /\ held \in {0, request[r].kek}
            /\ request[r].kek <= stored
            /\ request[r].version = current[request[r].path] + 1

(***************************************************************************)
(* Writes stand: a write that named a version made the very next one, no   *)
(* version is skipped, and the rows that keep a value are those of the     *)
(* last Keep versions that nobody destroyed (secret/store.go, Put;         *)
(* secret/queries.go, pruneOldVersions).                                   *)
(***************************************************************************)
WritesStand ==
    \A p \in Paths, v \in Version :
        LET k == <<p, v>> IN
        /\ row[k].state # "absent" <=> v <= current[p]
        /\ row[k].after # AnyVersion => v = row[k].after + 1
        /\ row[k].state = "pruned" => v + Keep <= current[p]
        /\ row[k].state \in {"live", "deleted"} => current[p] < v + Keep

(***************************************************************************)
(* A write, which compares in one step, seals in another and stores in a   *)
(* third, and may be given up in between, is to everyone else one step     *)
(* that compares and stores; and what was pruned or destroyed stays erased *)
(* (secret/store.go, Put, Undelete and Destroy).                           *)
(***************************************************************************)
Versions == INSTANCE VersionedSecrets
            WITH kept <- [k \in Paths \X Version |->
                            [state |-> row[k].state, after |-> row[k].after]]
KeepsVersions == Versions!Spec

(***************************************************************************)
(* A read observes what was written, deleted or destroyed before it began, *)
(* whatever happens between its two statements and the opening of the      *)
(* value (secret/store.go, Get; secret/service.go, Get).                   *)
(***************************************************************************)
ReadsObserveWrites ==
    \A r \in Requests :
        request[r].pc = "answered" =>
            /\ request[r].asked = 0 => request[r].version >= request[r].floor
            /\ request[r].version \notin request[r].gone

(***************************************************************************)
(* Every request ends: a write that has the connection and waits for the   *)
(* lock, behind a seal operation that waits for a reader that waits for    *)
(* the connection, is freed when a client gives up, gauges and all         *)
(* (secret/store.go, Put; seal/manager.go; app/telemetry.go).              *)
(***************************************************************************)
EveryRequestEnds == \A r \in Requests : request[r].pc # "idle" ~> request[r].pc = "idle"

=============================================================================
