------------------------- MODULE SecretStoreProofs -------------------------
(***************************************************************************)
(* Proofs about SecretStore, for every set of paths and requests and every *)
(* bound: the type, NothingMovesBeforeCommit, WritesStand,                 *)
(* ReadsObserveWrites, and that it implements VersionedSecrets.            *)
(***************************************************************************)
EXTENDS SecretStore, TLAPS

(* The inductive invariant. *)

(* The version held is not ahead of the stored one; it may be behind, when *)
(* an update was reported as failed.                                       *)
HeldNotAhead == held <= stored

(* A request that has announced the lock is the writer, and one that is    *)
(* about to raise the version found room for it, which nobody else takes.  *)
LockSound(r, q) ==
    /\ q.pc \in {"config", "update"} => writer = r
    /\ q.pc = "update" => stored < MaxKEK

(* What a request that has the connection is doing: a write that is sealed *)
(* for the version behind the current one, under a key that is still the   *)
(* one to seal with unless it was forgotten.                               *)
WriteSound(q) ==
    /\ q.op = "put" /\ q.pc \in {"lock", "sealed"} /\ ~q.ended
    /\ q.version = current[q.path] + 1
    /\ q.asked # AnyVersion => q.version = q.asked + 1
    /\ q.pc = "sealed" =>
          q.seen = stored /\ q.kek <= stored /\ held \in {0, q.kek}

(* A read: what was gone when it began is gone still, or was undeleted and *)
(* is no longer counted; what it resolved is none older than its floor;    *)
(* and past its second statement it holds a version that was there.        *)
ReadSound(q) ==
    /\ q.pc \in {"row", "answered"} => q.op = "get"
    /\ q.pc = "row" => q.version # 0
    /\ q.op = "get" =>
        /\ q.asked <= MaxVersions
        /\ q.floor <= current[q.path]
        /\ \A v \in q.gone : row[<<q.path, v>>].state \in {"deleted", "pruned", "destroyed"}
        /\ q.pc # "begin" /\ q.asked = 0 => q.version >= q.floor
        /\ q.pc \in {"lock", "answered"} => q.version \notin q.gone

RequestsSound ==
    \A r \in Requests :
        /\ LockSound(r, request[r])
        /\ ReadSound(request[r])
        /\ conn = r => WriteSound(request[r])

IInv == TypeOK /\ HeldNotAhead /\ RequestsSound /\ WritesStand

-----------------------------------------------------------------------------
(* The fields of a request under way. *)
LEMMA RequestFields ==
    ASSUME NEW q \in Request, q.pc # "idle"
    PROVE  /\ q \in InFlight({"begin", "row", "lock", "config", "update", "answered", "sealed"},
                             0..MaxKEK)
           /\ q.pc # "sealed" => q.kek = 0 /\ q.seen = 0
           /\ q.pc = "sealed" => q.kek \in 1..MaxKEK /\ q.seen \in 1..MaxKEK
<1> USE SizesAssumption
<1>1. q # Idle
  BY DEF Idle
<1>2. CASE q \in InFlight({"begin", "row", "lock", "config", "update", "answered"}, {0})
  BY <1>2 DEF InFlight
<1>3. CASE q \in InFlight({"sealed"}, 1..MaxKEK)
  BY <1>3 DEF InFlight
<1>4. QED
  BY <1>1, <1>2, <1>3 DEF Request

LEMMA IdleSound ==
    /\ Idle \in Request /\ ReadSound(Idle)
    /\ \A r : LockSound(r, Idle)
BY DEF Idle, Request, ReadSound, LockSound

(* Only one request changes, and what it is now is sound; the tables and   *)
(* the keys stay.                                                          *)
LEMMA ChangeKeeps ==
    ASSUME IInv, NEW r \in Requests,
           UNCHANGED <<stored, held, row, current>>,
           request' \in [Requests -> Request],
           \A s \in Requests \ {r} : request'[s] = request[s],
           conn' \in {conn, r, NoOne}, writer' \in {writer, r, NoOne},
           writer' # writer => writer \in {r, NoOne},
           conn' # conn => conn \in {r, NoOne},
           readers' \subseteq Requests, issued' \in 0..MaxOps,
           LockSound(r, request[r])', ReadSound(request[r])',
           conn' = r => WriteSound(request[r])'
    PROVE  IInv'
<1> USE NoOneAssumption
<1>1. TypeOK'
  BY DEF IInv, TypeOK
<1>2. HeldNotAhead' /\ WritesStand'
  BY DEF IInv, HeldNotAhead, WritesStand
<1>3. ASSUME NEW s \in Requests
      PROVE  /\ LockSound(s, request[s])'
             /\ ReadSound(request[s])'
             /\ conn' = s => WriteSound(request[s])'
  <2>1. CASE s = r
    BY <2>1 DEF LockSound, ReadSound, WriteSound
  <2>2. CASE s # r
    <3>1. /\ LockSound(s, request[s]) /\ ReadSound(request[s])
          /\ conn = s => WriteSound(request[s])
          /\ request'[s] = request[s]
      BY <2>2 DEF IInv, RequestsSound
    <3>2. LockSound(s, request[s])'
      BY <2>2, <3>1 DEF LockSound
    <3>3. ReadSound(request[s])'
      BY <3>1 DEF ReadSound
    <3>4. conn' = s => WriteSound(request[s])'
      BY <2>2, <3>1 DEF WriteSound
    <3>5. QED
      BY <3>2, <3>3, <3>4
  <2>3. QED
    BY <2>1, <2>2
<1>4. RequestsSound'
  BY <1>3 DEF RequestsSound
<1>5. QED
  BY <1>1, <1>2, <1>4 DEF IInv

(* A request that ends, and gives back what it has. *)
LEMMA FinishKeeps ==
    ASSUME IInv, NEW r \in Requests, Finish(r),
           UNCHANGED <<stored, held, row, current, issued>>,
           conn' \in {conn, NoOne}, conn' # r, conn' # conn => conn = r,
           \/ UNCHANGED lockVars
           \/ r \in readers /\ RUnlock(r)
           \/ writer = r /\ Unlock
    PROVE  IInv'
<1> USE NoOneAssumption
<1>1. request \in [Requests -> Request] /\ readers \subseteq Requests /\ issued \in 0..MaxOps
  BY DEF IInv, TypeOK
<1>2. /\ request' \in [Requests -> Request] /\ request'[r] = Idle
      /\ \A s \in Requests \ {r} : request'[s] = request[s]
  BY <1>1, IdleSound DEF Finish
<1>3. /\ readers' \subseteq Requests /\ writer' \in {writer, NoOne}
      /\ writer' # writer => writer = r
  BY <1>1 DEF lockVars, RUnlock, Unlock
<1>4. LockSound(r, request[r])' /\ ReadSound(request[r])'
  BY <1>2 DEF LockSound, ReadSound, Idle
<1>5. QED
  BY <1>1, <1>2, <1>3, <1>4, ChangeKeeps

(* The lock. *)
LEMMA RLockKeeps ==
    ASSUME IInv, NEW r \in Requests, RLock(r)
    PROVE  IInv'
<1>1. /\ UNCHANGED <<conn, writer, stored, held, row, current, request, issued>>
      /\ readers' = readers \cup {r}
  BY DEF RLock, keyVars, storeVars
<1>2. TypeOK'
  BY <1>1 DEF IInv, TypeOK
<1>3. HeldNotAhead' /\ WritesStand'
  BY <1>1 DEF IInv, HeldNotAhead, WritesStand
<1>4. RequestsSound'
  BY <1>1 DEF IInv, RequestsSound, LockSound, ReadSound, WriteSound
<1>5. QED
  BY <1>2, <1>3, <1>4 DEF IInv

LEMMA LockKeeps ==
    ASSUME IInv, NEW r \in Requests, Lock(r)
    PROVE  IInv'
<1> USE NoOneAssumption
<1> DEFINE q == request[r]
<1>1. /\ q \in Request /\ request \in [Requests -> Request] /\ q.pc = "lock"
      /\ q.op \in {"rotate", "unseal", "seal"} /\ writer = NoOne /\ writer' = r
      /\ readers \subseteq Requests /\ issued \in 0..MaxOps
      /\ UNCHANGED <<conn, readers, stored, held, row, current, issued>>
  BY DEF IInv, TypeOK, Lock, keyVars, storeVars
<1>2. request' = [request EXCEPT ![r] = [q EXCEPT !.pc = "config"]]
  BY DEF Lock
<1>3. [q EXCEPT !.pc = "config"] \in Request
  BY <1>1, RequestFields DEF Request, InFlight
<1>4. /\ request' \in [Requests -> Request] /\ request'[r] = [q EXCEPT !.pc = "config"]
      /\ \A s \in Requests \ {r} : request'[s] = request[s]
  BY <1>1, <1>2, <1>3
<1>5. q \in InFlight({"begin", "row", "lock", "config", "update", "answered", "sealed"}, 0..MaxKEK)
  BY <1>1, RequestFields
<1>6. request'[r].pc = "config" /\ request'[r].op = q.op
  BY <1>4, <1>5 DEF InFlight
<1>7. LockSound(r, request[r])' /\ ReadSound(request[r])'
  BY <1>1, <1>6 DEF LockSound, ReadSound
<1>8. conn' # r
  BY <1>1 DEF IInv, RequestsSound, WriteSound
<1>9. QED
  BY <1>1, <1>4, <1>7, <1>8, ChangeKeeps

-----------------------------------------------------------------------------
(* Writes. *)
LEMMA BeginKeeps ==
    ASSUME IInv, NEW r \in Requests, Begin(r)
    PROVE  IInv'
<1> USE NoOneAssumption, SizesAssumption
<1> DEFINE q == request[r]
           next == [q EXCEPT !.pc = "lock", !.version = current[q.path] + 1]
<1>1. /\ request \in [Requests -> Request] /\ q \in Request
      /\ readers \subseteq Requests /\ issued \in 0..MaxOps
      /\ current \in [Paths -> 0..MaxVersions]
  BY DEF IInv, TypeOK
<1>2. /\ q.pc = "begin" /\ q.op = "put" /\ conn = NoOne /\ conn' = r /\ ~q.ended
      /\ current[q.path] < MaxVersions
      /\ q.asked = AnyVersion \/ q.asked = current[q.path]
      /\ UNCHANGED <<writer, readers, stored, held, row, current, issued>>
  BY DEF Begin, Runs, SatisfiedBy, lockVars, keyVars, storeVars
<1>3. q \in InFlight({"begin"}, {0})
  BY <1>1, <1>2, RequestFields DEF InFlight
<1>4. q.path \in Paths /\ current[q.path] + 1 \in 0..MaxVersions
  BY <1>1, <1>2, <1>3 DEF InFlight
<1>5. next \in InFlight({"lock"}, {0})
  BY <1>3, <1>4 DEF InFlight
<1>6. next \in Request
  BY <1>5 DEF Request, InFlight
<1>7. request' = [request EXCEPT ![r] = next]
  BY <1>1 DEF Begin
<1>8. /\ request' \in [Requests -> Request] /\ request'[r] = next
      /\ \A s \in Requests \ {r} : request'[s] = request[s]
  BY <1>1, <1>6, <1>7
<1>9. /\ next.pc = "lock" /\ next.op = "put" /\ next.path = q.path /\ next.asked = q.asked
      /\ next.version = current[q.path] + 1 /\ next.ended = FALSE
  BY <1>2, <1>3 DEF InFlight
<1>10. LockSound(r, request[r])' /\ ReadSound(request[r])' /\ WriteSound(request[r])'
  BY <1>2, <1>8, <1>9 DEF LockSound, ReadSound, WriteSound
<1>11. QED
  BY <1>1, <1>2, <1>8, <1>10, ChangeKeeps

LEMMA SealValueKeeps ==
    ASSUME IInv, NEW r \in Requests, SealValue(r)
    PROVE  IInv'
<1> USE NoOneAssumption, SizesAssumption
<1> DEFINE q == request[r]
           next == [q EXCEPT !.pc = "sealed", !.kek = held, !.seen = stored]
<1>1. /\ request \in [Requests -> Request] /\ q \in Request
      /\ readers \subseteq Requests /\ issued \in 0..MaxOps
      /\ stored \in 1..MaxKEK /\ held \in 0..MaxKEK /\ held <= stored
      /\ conn = r => WriteSound(q)
  BY DEF IInv, TypeOK, RequestsSound, HeldNotAhead
<1>2. /\ q.pc = "lock" /\ q.op = "put" /\ held # 0
      /\ UNCHANGED <<conn, writer, readers, stored, held, row, current, issued>>
  BY DEF SealValue, lockVars, keyVars, storeVars
<1>3. q \in InFlight({"lock"}, {0})
  BY <1>1, <1>2, RequestFields DEF InFlight
<1>4. next \in InFlight({"sealed"}, 1..MaxKEK)
  <2>1. held \in 1..MaxKEK
    BY <1>1, <1>2
  <2>2. QED
    BY <1>1, <1>3, <2>1 DEF InFlight
<1>5. next \in Request
  BY <1>4 DEF Request, InFlight
<1>6. request' = [request EXCEPT ![r] = next]
  BY <1>1 DEF SealValue
<1>7. /\ request' \in [Requests -> Request] /\ request'[r] = next
      /\ \A s \in Requests \ {r} : request'[s] = request[s]
  BY <1>1, <1>5, <1>6
<1>8. /\ next.pc = "sealed" /\ next.op = "put" /\ next.path = q.path /\ next.asked = q.asked
      /\ next.version = q.version /\ next.ended = q.ended
      /\ next.kek = held /\ next.seen = stored
  BY <1>2, <1>3 DEF InFlight
<1>9. LockSound(r, request[r])' /\ ReadSound(request[r])'
  BY <1>7, <1>8 DEF LockSound, ReadSound
<1>10. conn' = r => WriteSound(request[r])'
  BY <1>1, <1>2, <1>7, <1>8 DEF WriteSound
<1>11. QED
  BY <1>1, <1>2, <1>7, <1>9, <1>10, ChangeKeeps

(* Whoever is at the beginning, or reads, or has ended, has no connection. *)
LEMMA NoConnection ==
    ASSUME IInv, NEW r \in Requests,
           request[r].pc \notin {"lock", "sealed"} \/ request[r].op # "put" \/ request[r].ended
    PROVE  conn # r
BY DEF IInv, RequestsSound, WriteSound

LEMMA WriteEndsKeep ==
    ASSUME IInv, NEW r \in Requests, Conflict(r) \/ SealRefused(r)
    PROVE  IInv'
<1> USE NoOneAssumption
<1>1. CASE Conflict(r)
  <2>1. conn # r
    BY <1>1, NoConnection DEF Conflict
  <2>2. Finish(r) /\ UNCHANGED <<conn, stored, held, row, current, issued, lockVars>>
    BY <1>1 DEF Conflict, keyVars, storeVars
  <2>3. QED
    BY <2>1, <2>2, FinishKeeps
<1>2. CASE SealRefused(r)
  <2>1. /\ Finish(r) /\ UNCHANGED <<stored, held, row, current, issued, lockVars>>
        /\ conn' = IF conn = r THEN NoOne ELSE conn
    BY <1>2 DEF SealRefused, keyVars, storeVars
  <2>2. QED
    BY <2>1, FinishKeeps
<1>3. QED
  BY <1>1, <1>2

(* The row Commit writes, those it prunes, and the others. *)
LEMMA CommitRows ==
    ASSUME IInv, NEW r \in Requests, Commit(r)
    PROVE  LET p == request[r].path
               next == request[r].version
           IN /\ p \in Paths /\ next \in Version /\ next = current[p] + 1
              /\ current' = [current EXCEPT ![p] = next]
              /\ row' \in [Paths \X Version -> Row]
              /\ row'[<<p, next>>].state = "live"
              /\ row'[<<p, next>>].after # AnyVersion => next = row'[<<p, next>>].after + 1
              /\ \A o \in Paths, v \in Version : <<o, v>> # <<p, next>> =>
                   /\ row'[<<o, v>>].after = row[<<o, v>>].after
                   /\ \/ /\ o = p /\ v + Keep <= next
                         /\ row[<<o, v>>].state \in {"live", "deleted"}
                         /\ row'[<<o, v>>].state = "pruned"
                      \/ /\ ~(o = p /\ v + Keep <= next /\ row[<<o, v>>].state \in {"live", "deleted"})
                         /\ row'[<<o, v>>] = row[<<o, v>>]
<1> USE SizesAssumption
<1> DEFINE q == request[r]
           p == q.path
           next == q.version
<1>1. /\ q \in Request /\ q.pc = "sealed" /\ conn = r
      /\ row \in [Paths \X Version -> Row] /\ current \in [Paths -> 0..MaxVersions]
  BY DEF IInv, TypeOK, Commit
<1>2. WriteSound(q)
  BY <1>1 DEF IInv, RequestsSound
<1>3. q \in InFlight({"sealed"}, 1..MaxKEK)
  BY <1>1, RequestFields DEF InFlight
<1>4. /\ p \in Paths /\ next \in 0..MaxVersions /\ q.kek \in 1..MaxKEK
      /\ q.asked \in 0..AnyVersion
  BY <1>3 DEF InFlight
<1>5. next = current[p] + 1 /\ (q.asked # AnyVersion => next = q.asked + 1)
  BY <1>2 DEF WriteSound
<1>6. next \in Version
  BY <1>1, <1>4, <1>5 DEF Version
<1>7. Written(r) \in Row
  BY <1>4 DEF Written, Row
<1>8. ASSUME NEW k \in Paths \X Version, row[k].state \in {"live", "deleted"}
      PROVE  /\ Erased(k, "pruned") \in Row
             /\ Erased(k, "pruned").state = "pruned" /\ Erased(k, "pruned").after = row[k].after
  <2>1. row[k] \in Row /\ row[k] # NoRow
    BY <1>1, <1>8 DEF NoRow
  <2>2. row[k].after \in 0..AnyVersion /\ row[k].kek \in 1..MaxKEK
    BY <2>1 DEF Row
  <2>3. QED
    BY <2>2 DEF Erased, Row
<1>9. row' = [k \in Paths \X Version |->
          IF k = <<p, next>> THEN Written(r)
          ELSE IF k[1] = p /\ row[k].state \in {"live", "deleted"} /\ Pruned(k[2], next)
          THEN Erased(k, "pruned")
          ELSE row[k]]
  BY DEF Commit
<1>10. row' \in [Paths \X Version -> Row]
  BY <1>1, <1>7, <1>8, <1>9
<1>11. row'[<<p, next>>] = Written(r)
  BY <1>4, <1>6, <1>9
<1>12. Written(r).state = "live" /\ Written(r).after = q.asked
  BY DEF Written
<1>13. ASSUME NEW o \in Paths, NEW v \in Version, <<o, v>> # <<p, next>>
       PROVE  /\ row'[<<o, v>>].after = row[<<o, v>>].after
              /\ \/ /\ o = p /\ v + Keep <= next
                    /\ row[<<o, v>>].state \in {"live", "deleted"}
                    /\ row'[<<o, v>>].state = "pruned"
                 \/ /\ ~(o = p /\ v + Keep <= next /\ row[<<o, v>>].state \in {"live", "deleted"})
                    /\ row'[<<o, v>>] = row[<<o, v>>]
  <2>1. <<o, v>> \in Paths \X Version /\ <<o, v>>[1] = o /\ <<o, v>>[2] = v
    OBVIOUS
  <2>2. CASE o = p /\ v + Keep <= next /\ row[<<o, v>>].state \in {"live", "deleted"}
    BY <1>8, <1>9, <1>13, <2>1, <2>2 DEF Pruned
  <2>3. CASE ~(o = p /\ v + Keep <= next /\ row[<<o, v>>].state \in {"live", "deleted"})
    BY <1>9, <1>13, <2>1, <2>3 DEF Pruned
  <2>4. QED
    BY <2>2, <2>3
<1>14. current' = [current EXCEPT ![p] = next]
  BY DEF Commit
<1>15. QED
  BY <1>4, <1>5, <1>6, <1>10, <1>11, <1>12, <1>13, <1>14

LEMMA CommitKeeps ==
    ASSUME IInv, NEW r \in Requests, Commit(r)
    PROVE  IInv'
<1> USE NoOneAssumption, SizesAssumption
<1> DEFINE p == request[r].path
           next == request[r].version
<1>1. /\ p \in Paths /\ next \in Version /\ next = current[p] + 1
      /\ current' = [current EXCEPT ![p] = next]
      /\ row' \in [Paths \X Version -> Row]
      /\ row'[<<p, next>>].state = "live"
      /\ row'[<<p, next>>].after # AnyVersion => next = row'[<<p, next>>].after + 1
  BY CommitRows
<1>2. \A o \in Paths, v \in Version : <<o, v>> # <<p, next>> =>
        /\ row'[<<o, v>>].after = row[<<o, v>>].after
        /\ \/ /\ o = p /\ v + Keep <= next
              /\ row[<<o, v>>].state \in {"live", "deleted"}
              /\ row'[<<o, v>>].state = "pruned"
           \/ /\ ~(o = p /\ v + Keep <= next /\ row[<<o, v>>].state \in {"live", "deleted"})
              /\ row'[<<o, v>>] = row[<<o, v>>]
  BY CommitRows
<1>3. /\ request' = [request EXCEPT ![r] = Idle] /\ conn' = NoOne
      /\ UNCHANGED <<writer, readers, stored, held, issued>>
  BY DEF Commit, Finish, lockVars, keyVars
<1>4. /\ current \in [Paths -> 0..MaxVersions] /\ request \in [Requests -> Request]
      /\ current' \in [Paths -> 0..MaxVersions]
  BY <1>1 DEF IInv, TypeOK, Version
<1>5. /\ request' \in [Requests -> Request] /\ request'[r] = Idle
      /\ \A s \in Requests \ {r} : request'[s] = request[s]
  BY <1>3, <1>4, IdleSound
<1>6. TypeOK'
  BY <1>1, <1>3, <1>4, <1>5 DEF IInv, TypeOK
<1>7. HeldNotAhead'
  BY <1>3 DEF IInv, HeldNotAhead
<1>8. ASSUME NEW o \in Paths, NEW v \in Version
      PROVE  /\ row'[<<o, v>>].state # "absent" <=> v <= current'[o]
             /\ row'[<<o, v>>].after # AnyVersion => v = row'[<<o, v>>].after + 1
             /\ row'[<<o, v>>].state = "pruned" => v + Keep <= current'[o]
             /\ row'[<<o, v>>].state \in {"live", "deleted"} => current'[o] < v + Keep
  <2>1. /\ row[<<o, v>>].state # "absent" <=> v <= current[o]
        /\ row[<<o, v>>].after # AnyVersion => v = row[<<o, v>>].after + 1
        /\ row[<<o, v>>].state = "pruned" => v + Keep <= current[o]
        /\ row[<<o, v>>].state \in {"live", "deleted"} => current[o] < v + Keep
    BY DEF IInv, WritesStand
  <2>2. v \in Nat /\ next \in Nat /\ current[o] \in Nat /\ Keep \in Nat \ {0}
    BY <1>1, <1>4 DEF Version
  <2>3. CASE o = p /\ v = next
    BY <1>1, <1>4, <2>2, <2>3
  <2>4. CASE o = p /\ v # next
    <3>1. current'[o] = next /\ current[o] + 1 = next
      BY <1>1, <1>4, <2>4
    <3>2. <<o, v>> # <<p, next>>
      BY <2>4
    <3>3. CASE v + Keep <= next /\ row[<<o, v>>].state \in {"live", "deleted"}
      BY <1>2, <2>1, <2>2, <2>4, <3>1, <3>2, <3>3
    <3>4. CASE ~(v + Keep <= next /\ row[<<o, v>>].state \in {"live", "deleted"})
      BY <1>2, <2>1, <2>2, <2>4, <3>1, <3>2, <3>4
    <3>5. QED
      BY <3>3, <3>4
  <2>5. CASE o # p
    <3>1. current'[o] = current[o] /\ row'[<<o, v>>] = row[<<o, v>>]
      BY <1>1, <1>2, <1>4, <2>5
    <3>2. QED
      BY <2>1, <3>1
  <2>6. QED
    BY <2>3, <2>4, <2>5
<1>9. WritesStand'
  BY <1>8 DEF WritesStand
<1>10. ASSUME NEW s \in Requests
       PROVE  LockSound(s, request[s])' /\ ReadSound(request[s])' /\ conn' # s
  <2>1. CASE s = r
    BY <1>3, <1>5, <2>1 DEF LockSound, ReadSound, Idle
  <2>2. CASE s # r
    <3>1. request'[s] = request[s] /\ LockSound(s, request[s]) /\ ReadSound(request[s])
      BY <1>5, <2>2 DEF IInv, RequestsSound
    <3>2. LockSound(s, request[s])' /\ conn' # s
      BY <1>3, <3>1 DEF LockSound
    <3>3. CASE request[s].op # "get"
      BY <3>1, <3>2, <3>3 DEF ReadSound
    <3>4. CASE request[s].op = "get"
      <4> DEFINE q == request[s]
      <4>1. q \in InFlight({"begin", "row", "lock", "config", "update", "answered", "sealed"},
                           0..MaxKEK)
        BY <1>4, <3>4, RequestFields DEF Idle, Request, InFlight
      <4>2. q.path \in Paths /\ q.gone \subseteq Version /\ q.floor \in Nat
        BY <4>1 DEF InFlight
      <4>3. q.floor <= current'[q.path]
        BY <1>1, <1>4, <3>1, <3>4, <4>2 DEF ReadSound
      <4>4. ASSUME NEW v \in q.gone
            PROVE  row'[<<q.path, v>>].state \in {"deleted", "pruned", "destroyed"}
        <5>1. v \in Version /\ row[<<q.path, v>>].state \in {"deleted", "pruned", "destroyed"}
          BY <3>1, <3>4, <4>2 DEF ReadSound
        <5>2. v <= current[q.path]
          BY <4>2, <5>1 DEF IInv, WritesStand
        <5>3. <<q.path, v>> # <<p, next>>
          BY <1>1, <1>4, <4>2, <5>2
        <5>4. QED
          BY <1>2, <4>2, <5>1, <5>3
      <4>5. QED
        BY <3>1, <3>2, <3>4, <4>3, <4>4 DEF ReadSound
    <3>5. QED
      BY <3>3, <3>4
  <2>3. QED
    BY <2>1, <2>2
<1>11. RequestsSound'
  BY <1>10 DEF RequestsSound
<1>12. QED
  BY <1>6, <1>7, <1>9, <1>11 DEF IInv

-----------------------------------------------------------------------------
(* Reads. *)

(* A read that goes on: only its place and its version change. *)
LEMMA ReadGoesOn ==
    ASSUME IInv, NEW r \in Requests, NEW pc \in {"row", "lock", "answered"},
           NEW version \in 0..MaxVersions, pc = "row" => version # 0,
           request[r].op = "get", request[r].pc \in {"begin", "row", "lock"},
           request' = [request EXCEPT ![r] =
               [request[r] EXCEPT !.pc = pc, !.version = version]],
           UNCHANGED <<conn, writer, readers, stored, held, row, current, issued>>,
           request[r].asked = 0 => version >= request[r].floor,
           pc # "row" => version \notin request[r].gone
    PROVE  IInv'
<1> USE NoOneAssumption, SizesAssumption
<1> DEFINE q == request[r]
           next == [q EXCEPT !.pc = pc, !.version = version]
<1>1. /\ request \in [Requests -> Request] /\ q \in Request
      /\ readers \subseteq Requests /\ issued \in 0..MaxOps /\ ReadSound(q)
  BY DEF IInv, TypeOK, RequestsSound
<1>2. q \in InFlight({"begin", "row", "lock"}, {0})
  BY <1>1, RequestFields DEF InFlight
<1>3. next \in InFlight({pc}, {0})
  BY <1>2 DEF InFlight
<1>4. next \in Request
  BY <1>3 DEF Request, InFlight
<1>5. /\ request' \in [Requests -> Request] /\ request'[r] = next
      /\ \A s \in Requests \ {r} : request'[s] = request[s]
  BY <1>1, <1>4
<1>6. /\ next.pc = pc /\ next.op = "get" /\ next.path = q.path /\ next.asked = q.asked
      /\ next.version = version /\ next.floor = q.floor /\ next.gone = q.gone
  BY <1>2 DEF InFlight
<1>7. LockSound(r, request[r])'
  BY <1>5, <1>6 DEF LockSound
<1>8. ReadSound(request[r])'
  BY <1>1, <1>5, <1>6 DEF ReadSound
<1>9. conn' # r
  BY NoConnection
<1>10. QED
  BY <1>1, <1>5, <1>7, <1>8, <1>9, ChangeKeeps

LEMMA ResolveKeeps ==
    ASSUME IInv, NEW r \in Requests, Resolve(r)
    PROVE  IInv'
<1> USE NoOneAssumption, SizesAssumption
<1> DEFINE q == request[r]
           p == q.path
<1>1. /\ q.pc = "begin" /\ q.op = "get"
      /\ UNCHANGED <<conn, writer, readers, stored, held, row, current, issued, lockVars>>
  BY DEF Resolve, lockVars, keyVars, storeVars
<1>2. /\ q \in Request /\ ReadSound(q) /\ current \in [Paths -> 0..MaxVersions]
  BY DEF IInv, TypeOK, RequestsSound
<1>3. p \in Paths /\ q.asked \in Nat /\ q.floor \in Nat
  BY <1>1, <1>2, RequestFields DEF InFlight, AnyVersion
<1>4. q.asked <= MaxVersions /\ q.floor <= current[p]
  BY <1>1, <1>2 DEF ReadSound
<1>5. CASE q.asked # 0
  <2>1. q.asked \in 0..MaxVersions
    BY <1>3, <1>4
  <2>2. request' = [request EXCEPT ![r] = [q EXCEPT !.pc = "row", !.version = q.asked]]
    BY <1>5 DEF Resolve
  <2>3. QED
    BY <1>1, <1>5, <2>1, <2>2, ReadGoesOn
<1>6. CASE q.asked = 0 /\ current[p] # 0
  <2>1. current[p] \in 0..MaxVersions
    BY <1>2, <1>3
  <2>2. request' = [request EXCEPT ![r] = [q EXCEPT !.pc = "row", !.version = current[p]]]
    BY <1>6 DEF Resolve
  <2>3. current[p] >= q.floor
    BY <1>2, <1>3, <1>4
  <2>4. QED
    BY <1>1, <1>6, <2>1, <2>2, <2>3, ReadGoesOn
<1>7. CASE q.asked = 0 /\ current[p] = 0
  <2>1. Finish(r)
    BY <1>7 DEF Resolve, Finish
  <2>2. conn # r
    BY <1>1, NoConnection
  <2>3. QED
    BY <1>1, <2>1, <2>2, FinishKeeps
<1>8. QED
  BY <1>5, <1>6, <1>7

LEMMA ReadRowKeeps ==
    ASSUME IInv, NEW r \in Requests, ReadRow(r)
    PROVE  IInv'
<1> USE NoOneAssumption, SizesAssumption
<1> DEFINE q == request[r]
           found == row[<<q.path, q.version>>].state = "live"
<1>1. /\ q.pc = "row"
      /\ UNCHANGED <<conn, writer, readers, stored, held, row, current, issued, lockVars>>
  BY DEF ReadRow, lockVars, keyVars, storeVars
<1>2. q \in Request /\ ReadSound(q)
  BY DEF IInv, TypeOK, RequestsSound
<1>3. q \in InFlight({"row"}, {0})
  BY <1>1, <1>2, RequestFields DEF InFlight
<1>4. q.op = "get" /\ q.version \in 0..MaxVersions
  BY <1>1, <1>2, <1>3 DEF ReadSound, InFlight
<1>5. CASE found
  <2>1. request' = [request EXCEPT ![r] = [q EXCEPT !.pc = "lock"]]
    BY <1>5 DEF ReadRow
  <2>2. [q EXCEPT !.pc = "lock"] = [q EXCEPT !.pc = "lock", !.version = q.version]
    BY <1>3 DEF InFlight
  <2>3. q.version \notin q.gone
    BY <1>2, <1>4, <1>5 DEF ReadSound
  <2>4. q.asked = 0 => q.version >= q.floor
    BY <1>1, <1>2, <1>4 DEF ReadSound
  <2>5. QED
    BY <1>1, <1>4, <2>1, <2>2, <2>3, <2>4, ReadGoesOn
<1>6. CASE ~found
  <2>1. Finish(r)
    BY <1>6 DEF ReadRow, Finish
  <2>2. conn # r
    BY <1>1, NoConnection
  <2>3. QED
    BY <1>1, <2>1, <2>2, FinishKeeps
<1>7. QED
  BY <1>5, <1>6

LEMMA OpenValueKeeps ==
    ASSUME IInv, NEW r \in Requests, OpenValue(r)
    PROVE  IInv'
<1> USE NoOneAssumption, SizesAssumption
<1> DEFINE q == request[r]
<1>1. /\ q.pc = "lock" /\ q.op = "get"
      /\ UNCHANGED <<conn, writer, readers, stored, held, row, current, issued, lockVars>>
  BY DEF OpenValue, lockVars, keyVars, storeVars
<1>2. q \in Request /\ ReadSound(q)
  BY DEF IInv, TypeOK, RequestsSound
<1>3. q \in InFlight({"lock"}, {0})
  BY <1>1, <1>2, RequestFields DEF InFlight
<1>4. CASE held # 0 /\ ~q.ended
  <2>1. request' = [request EXCEPT ![r] = [q EXCEPT !.pc = "answered"]]
    BY <1>4 DEF OpenValue
  <2>2. [q EXCEPT !.pc = "answered"] = [q EXCEPT !.pc = "answered", !.version = q.version]
    BY <1>3 DEF InFlight
  <2>3. q.version \in 0..MaxVersions
    BY <1>3 DEF InFlight
  <2>4. q.version \notin q.gone /\ (q.asked = 0 => q.version >= q.floor)
    BY <1>1, <1>2 DEF ReadSound
  <2>5. QED
    BY <1>1, <2>1, <2>2, <2>3, <2>4, ReadGoesOn
<1>5. CASE ~(held # 0 /\ ~q.ended)
  <2>1. Finish(r)
    BY <1>5 DEF OpenValue, Finish
  <2>2. conn # r
    BY <1>1, NoConnection
  <2>3. QED
    BY <1>1, <2>1, <2>2, FinishKeeps
<1>6. QED
  BY <1>4, <1>5

LEMMA AnswerKeeps ==
    ASSUME IInv, NEW r \in Requests, Answer(r)
    PROVE  IInv'
<1>1. conn # r
  BY NoConnection DEF Answer
<1>2. Finish(r) /\ UNCHANGED <<conn, stored, held, row, current, issued, lockVars>>
  BY DEF Answer, keyVars, storeVars
<1>3. QED
  BY <1>1, <1>2, FinishKeeps

-----------------------------------------------------------------------------
(* The seal manager. *)

LEMMA StatusKeeps ==
    ASSUME IInv, NEW r \in Requests, Status(r)
    PROVE  IInv'
<1>1. conn # r
  BY NoConnection DEF Status
<1>2. /\ Finish(r) /\ UNCHANGED <<conn, stored, held, row, current, issued>>
      /\ r \in readers /\ RUnlock(r)
  BY DEF Status, keyVars, storeVars
<1>3. QED
  BY <1>1, <1>2, FinishKeeps

LEMMA ReadConfigKeeps ==
    ASSUME IInv, NEW r \in Requests, ReadConfig(r)
    PROVE  IInv'
<1> USE NoOneAssumption, SizesAssumption
<1> DEFINE q == request[r]
           next == [q EXCEPT !.pc = "update"]
<1>1. /\ q.pc = "config" /\ q.op = "rotate" /\ writer = r
      /\ UNCHANGED <<conn, stored, held, row, current, issued>>
  BY DEF ReadConfig, HasLock, keyVars, storeVars
<1>2. conn # r
  BY <1>1, NoConnection
<1>3. CASE held = 0 \/ stored = MaxKEK
  <2>1. Finish(r) /\ Unlock
    BY <1>3 DEF ReadConfig
  <2>2. QED
    BY <1>1, <1>2, <2>1, FinishKeeps
<1>4. CASE ~(held = 0 \/ stored = MaxKEK)
  <2>1. request' = [request EXCEPT ![r] = next] /\ UNCHANGED <<writer, readers>>
    BY <1>4 DEF ReadConfig, lockVars
  <2>2. /\ request \in [Requests -> Request] /\ q \in Request
        /\ readers \subseteq Requests /\ issued \in 0..MaxOps
        /\ stored \in 1..MaxKEK /\ ReadSound(q)
    BY DEF IInv, TypeOK, RequestsSound
  <2>3. q \in InFlight({"config"}, {0})
    BY <1>1, <2>2, RequestFields DEF InFlight
  <2>4. next \in InFlight({"update"}, {0})
    BY <2>3 DEF InFlight
  <2>5. next \in Request
    BY <2>4 DEF Request, InFlight
  <2>6. /\ request' \in [Requests -> Request] /\ request'[r] = next
        /\ \A s \in Requests \ {r} : request'[s] = request[s]
    BY <2>1, <2>2, <2>5
  <2>7. next.pc = "update" /\ next.op = "rotate"
    BY <1>1, <2>3 DEF InFlight
  <2>8. stored < MaxKEK
    BY <1>4, <2>2
  <2>9. LockSound(r, request[r])' /\ ReadSound(request[r])'
    BY <1>1, <2>1, <2>6, <2>7, <2>8 DEF LockSound, ReadSound
  <2>10. QED
    BY <1>1, <1>2, <2>1, <2>2, <2>6, <2>9, ChangeKeeps
<1>5. QED
  BY <1>3, <1>4

(* The steps that change the key: their request has the lock, so nobody    *)
(* else is about to. A seal only forgets it; an unseal and a rotation find *)
(* the connection free, so nothing sealed is waiting to be committed.      *)
LEMMA KeyKeeps ==
    ASSUME IInv, NEW r \in Requests, writer = r, Unlock, Finish(r),
           UNCHANGED <<conn, row, current, issued>>, conn # r,
           stored' \in 1..MaxKEK, held' \in 0..stored',
           (stored' = stored /\ held' = 0) \/ conn = NoOne
    PROVE  IInv'
<1> USE NoOneAssumption, SizesAssumption
<1>1. request \in [Requests -> Request] /\ readers \subseteq Requests
  BY DEF IInv, TypeOK
<1>2. /\ request' \in [Requests -> Request] /\ request'[r] = Idle
      /\ \A s \in Requests \ {r} : request'[s] = request[s]
  BY <1>1, IdleSound DEF Finish
<1>3. writer' = NoOne /\ readers' = readers
  BY DEF Unlock
<1>4. held' \in 0..MaxKEK
  OBVIOUS
<1>5. TypeOK'
  BY <1>2, <1>3, <1>4 DEF IInv, TypeOK
<1>6. HeldNotAhead' /\ WritesStand'
  BY DEF IInv, HeldNotAhead, WritesStand
<1>7. ASSUME NEW s \in Requests
      PROVE  /\ LockSound(s, request[s])' /\ ReadSound(request[s])'
             /\ conn' = s => WriteSound(request[s])'
  <2>1. CASE s = r
    BY <1>2, <2>1 DEF LockSound, ReadSound, Idle
  <2>2. CASE s # r
    <3>1. /\ request'[s] = request[s] /\ LockSound(s, request[s]) /\ ReadSound(request[s])
          /\ conn = s => WriteSound(request[s])
      BY <1>2, <2>2 DEF IInv, RequestsSound
    <3>2. LockSound(s, request[s])'
      BY <2>2, <3>1 DEF LockSound
    <3>3. ReadSound(request[s])'
      BY <3>1 DEF ReadSound
    <3>4. conn' = s => WriteSound(request[s])'
      BY <3>1 DEF WriteSound
    <3>5. QED
      BY <3>2, <3>3, <3>4
  <2>3. QED
    BY <2>1, <2>2
<1>8. RequestsSound'
  BY <1>7 DEF RequestsSound
<1>9. QED
  BY <1>5, <1>6, <1>8 DEF IInv

LEMMA KeyStepsKeep ==
    ASSUME IInv, NEW r \in Requests,
           Unseal(r) \/ UpdateVersion(r) \/ UpdateUnreported(r) \/ Seal(r)
    PROVE  IInv'
<1> USE SizesAssumption
<1>1. /\ writer = r /\ Unlock /\ Finish(r) /\ UNCHANGED <<conn, row, current, issued>>
      /\ request[r].pc \in {"config", "update"}
  BY DEF Unseal, UpdateVersion, UpdateUnreported, Seal, HasLock, storeVars
<1>2. conn # r /\ stored \in 1..MaxKEK /\ held \in 0..stored
  BY <1>1, NoConnection DEF IInv, TypeOK, HeldNotAhead
<1>3. CASE Unseal(r)
  BY <1>1, <1>2, <1>3, KeyKeeps DEF Unseal, Runs
<1>4. CASE Seal(r)
  BY <1>1, <1>2, <1>4, KeyKeeps DEF Seal
<1>5. CASE UpdateVersion(r) \/ UpdateUnreported(r)
  <2>1. stored < MaxKEK
    BY <1>5 DEF UpdateVersion, UpdateUnreported, IInv, RequestsSound, LockSound
  <2>2. conn = NoOne /\ stored' = stored + 1 /\ held' \in {held, stored + 1}
    BY <1>5 DEF UpdateVersion, UpdateUnreported, Runs
  <2>3. QED
    BY <1>1, <1>2, <2>1, <2>2, KeyKeeps
<1>6. QED
  BY <1>3, <1>4, <1>5

-----------------------------------------------------------------------------
(* Requests that are let in, and clients that give up. *)

LEMMA AdmitKeeps ==
    ASSUME IInv, NEW r \in Requests, NEW op \in Kinds, NEW p \in Paths,
           NEW asked \in Asks(op), Admit(r, op, p, asked)
    PROVE  IInv'
<1> USE NoOneAssumption, SizesAssumption, KindsAssumption
<1> DEFINE next == [pc |-> FirstStep(op), op |-> op, path |-> p, asked |-> asked,
                    version |-> 0, kek |-> 0, seen |-> 0,
                    floor |-> IF op = "get" THEN current[p] ELSE 0,
                    gone |-> IF op = "get" THEN Hidden(p) ELSE {}, ended |-> FALSE]
<1>1. /\ request \in [Requests -> Request] /\ readers \subseteq Requests
      /\ issued \in 0..MaxOps /\ current \in [Paths -> 0..MaxVersions]
  BY DEF IInv, TypeOK
<1>2. /\ request[r].pc = "idle" /\ issued < MaxOps /\ issued' = issued + 1
      /\ request' = [request EXCEPT ![r] = next]
      /\ UNCHANGED <<conn, writer, readers, stored, held, row, current>>
  BY DEF Admit, lockVars, keyVars, storeVars
<1>3. FirstStep(op) \in {"begin", "lock"} /\ (op = "get" => FirstStep(op) = "begin")
  BY DEF FirstStep
<1>4. asked \in 0..AnyVersion /\ (op = "get" => asked \in 0..MaxVersions)
  BY DEF Asks, AnyVersion
<1>5. Hidden(p) \subseteq Version
  BY DEF Hidden
<1>6. next \in InFlight({"begin", "lock"}, {0})
  BY <1>1, <1>3, <1>4, <1>5 DEF InFlight
<1>7. next \in Request
  BY <1>6 DEF Request, InFlight
<1>8. /\ request' \in [Requests -> Request] /\ request'[r] = next
      /\ \A s \in Requests \ {r} : request'[s] = request[s]
  BY <1>1, <1>2, <1>7
<1>9. issued' \in 0..MaxOps /\ conn # r
  BY <1>1, <1>2, NoConnection
<1>10. LockSound(r, request[r])'
  BY <1>3, <1>8 DEF LockSound
<1>11. ReadSound(request[r])'
  <2>1. next.pc \in {"begin", "lock"} /\ next.op = op /\ next.path = p /\ next.asked = asked
    BY <1>3
  <2>2. CASE op # "get"
    BY <1>8, <2>1, <2>2 DEF ReadSound
  <2>3. CASE op = "get"
    <3>1. next.pc = "begin" /\ next.floor = current[p] /\ next.gone = Hidden(p)
      BY <1>3, <2>3
    <3>2. \A v \in Hidden(p) : row[<<p, v>>].state \in {"deleted", "pruned", "destroyed"}
      BY DEF Hidden
    <3>3. asked <= MaxVersions /\ current[p] <= current[p]
      BY <1>1, <1>4, <2>3
    <3>4. QED
      BY <1>2, <1>8, <2>1, <2>3, <3>1, <3>2, <3>3 DEF ReadSound
  <2>4. QED
    BY <2>2, <2>3
<1>12. QED
  BY <1>1, <1>2, <1>8, <1>9, <1>10, <1>11, ChangeKeeps

LEMMA CancelKeeps ==
    ASSUME IInv, NEW r \in Requests, Cancel(r)
    PROVE  IInv'
<1> USE NoOneAssumption, SizesAssumption
<1> DEFINE q == request[r]
           next == [q EXCEPT !.ended = TRUE]
<1>1. /\ q.pc \notin {"idle", "answered"} /\ conn' = IF conn = r THEN NoOne ELSE conn
      /\ UNCHANGED <<stored, held, row, current, issued>>
  BY DEF Cancel, CanCancel, keyVars, storeVars
<1>2. CASE AtDatabase(r)
  <2>1. Return(r)
    BY <1>2 DEF Cancel
  <2>2. QED
    BY <1>1, <2>1, FinishKeeps DEF Return
<1>3. CASE ~AtDatabase(r)
  <2>1. request' = [request EXCEPT ![r] = next] /\ UNCHANGED <<writer, readers>>
    BY <1>3 DEF Cancel, lockVars
  <2>2. /\ request \in [Requests -> Request] /\ q \in Request
        /\ readers \subseteq Requests /\ issued \in 0..MaxOps
        /\ LockSound(r, q) /\ ReadSound(q)
    BY DEF IInv, TypeOK, RequestsSound
  <2>3. q.pc # "sealed"
    BY <1>3 DEF AtDatabase
  <2>4. q \in InFlight({"begin", "row", "lock", "config", "update"}, {0})
    BY <1>1, <2>2, <2>3, RequestFields DEF InFlight
  <2>5. next \in InFlight({"begin", "row", "lock", "config", "update"}, {0})
    BY <2>4 DEF InFlight
  <2>6. next \in Request
    BY <2>5 DEF Request, InFlight
  <2>7. /\ request' \in [Requests -> Request] /\ request'[r] = next
        /\ \A s \in Requests \ {r} : request'[s] = request[s]
    BY <2>1, <2>2, <2>6
  <2>8. /\ next.pc = q.pc /\ next.op = q.op /\ next.path = q.path /\ next.asked = q.asked
        /\ next.version = q.version /\ next.floor = q.floor /\ next.gone = q.gone
    BY <2>4 DEF InFlight
  <2>9. LockSound(r, request[r])'
    BY <1>1, <2>1, <2>2, <2>7, <2>8 DEF LockSound
  <2>10. ReadSound(request[r])'
    BY <1>1, <2>2, <2>7, <2>8 DEF ReadSound
  <2>11. conn' # r
    BY <1>1
  <2>12. QED
    BY <1>1, <2>1, <2>2, <2>7, <2>9, <2>10, <2>11, ChangeKeeps
<1>4. QED
  BY <1>2, <1>3

LEMMA FailsKeeps ==
    ASSUME IInv, NEW r \in Requests, Fails(r)
    PROVE  IInv'
<1>1. conn # r
  BY NoConnection DEF Fails
<1>2. Return(r) /\ UNCHANGED <<conn, stored, held, row, current, issued>>
  BY DEF Fails, keyVars, storeVars
<1>3. QED
  BY <1>1, <1>2, FinishKeeps DEF Return

-----------------------------------------------------------------------------
(* Delete, Undelete and Destroy. *)

(* A mark changes the state of one row; reads under way no longer count    *)
(* what it brings back.                                                    *)
LEMMA MarkKeeps ==
    ASSUME IInv, NEW p \in Paths, NEW v \in Version, NEW to \in {"live", "deleted", "destroyed"},
           Mark(p, v, {"live", "deleted"}, to),
           request' \in [Requests -> Request],
           \A s \in Requests :
             /\ request'[s].pc = request[s].pc /\ request'[s].op = request[s].op
             /\ request'[s].path = request[s].path /\ request'[s].asked = request[s].asked
             /\ request'[s].version = request[s].version /\ request'[s].kek = request[s].kek
             /\ request'[s].floor = request[s].floor /\ request'[s].ended = request[s].ended
             /\ request'[s].gone \subseteq request[s].gone
             /\ to = "live" /\ request[s].path = p => v \notin request'[s].gone
    PROVE  IInv'
<1> USE NoOneAssumption, SizesAssumption
<1>1. /\ row[<<p, v>>].state \in {"live", "deleted"}
      /\ row' = [row EXCEPT ![<<p, v>>] = Erased(<<p, v>>, to)]
      /\ issued < MaxOps /\ issued' = issued + 1 /\ conn = NoOne
      /\ UNCHANGED <<conn, writer, readers, stored, held, current>>
  BY DEF Mark, lockVars, keyVars
<1>2. row \in [Paths \X Version -> Row] /\ issued \in 0..MaxOps /\ current \in [Paths -> 0..MaxVersions]
  BY DEF IInv, TypeOK
<1>3. row[<<p, v>>] \in Row /\ row[<<p, v>>] # NoRow
  BY <1>1, <1>2 DEF NoRow
<1>4. row[<<p, v>>].after \in 0..AnyVersion /\ row[<<p, v>>].kek \in 1..MaxKEK
  BY <1>3 DEF Row
<1>5. Erased(<<p, v>>, to) \in Row
  BY <1>4 DEF Erased, Row
<1>6. Erased(<<p, v>>, to).state = to /\ Erased(<<p, v>>, to).after = row[<<p, v>>].after
  BY DEF Erased
<1>7. /\ row' \in [Paths \X Version -> Row]
      /\ row'[<<p, v>>].state = to /\ row'[<<p, v>>].after = row[<<p, v>>].after
      /\ \A o \in Paths, w \in Version : <<o, w>> # <<p, v>> => row'[<<o, w>>] = row[<<o, w>>]
  BY <1>1, <1>2, <1>5, <1>6
<1>8. TypeOK'
  BY <1>1, <1>2, <1>7 DEF IInv, TypeOK
<1>9. HeldNotAhead'
  BY <1>1 DEF IInv, HeldNotAhead
<1>10. WritesStand'
  <2>1. ASSUME NEW o \in Paths, NEW w \in Version
        PROVE  /\ row'[<<o, w>>].state # "absent" <=> w <= current[o]
               /\ row'[<<o, w>>].after # AnyVersion => w = row'[<<o, w>>].after + 1
               /\ row'[<<o, w>>].state = "pruned" => w + Keep <= current[o]
               /\ row'[<<o, w>>].state \in {"live", "deleted"} => current[o] < w + Keep
    <3>1. /\ row[<<o, w>>].state # "absent" <=> w <= current[o]
          /\ row[<<o, w>>].after # AnyVersion => w = row[<<o, w>>].after + 1
          /\ row[<<o, w>>].state = "pruned" => w + Keep <= current[o]
          /\ row[<<o, w>>].state \in {"live", "deleted"} => current[o] < w + Keep
      BY DEF IInv, WritesStand
    <3>2. CASE o = p /\ w = v
      BY <1>1, <1>7, <3>1, <3>2
    <3>3. CASE ~(o = p /\ w = v)
      BY <1>7, <3>1, <3>3
    <3>4. QED
      BY <3>2, <3>3
  <2>2. QED
    BY <1>1, <2>1 DEF WritesStand
<1>11. ASSUME NEW s \in Requests
       PROVE  LockSound(s, request[s])' /\ ReadSound(request[s])' /\ conn' # s
  <2>1. LockSound(s, request[s]) /\ ReadSound(request[s]) /\ request[s] \in Request
    BY DEF IInv, RequestsSound, TypeOK
  <2>2. LockSound(s, request[s])' /\ conn' # s
    BY <1>1, <2>1 DEF LockSound
  <2>3. CASE request[s].op # "get"
    BY <2>1, <2>2, <2>3 DEF ReadSound
  <2>4. CASE request[s].op = "get"
    <3>1. request[s].path \in Paths /\ request[s].gone \subseteq Version
      BY <2>1, <2>4, RequestFields DEF InFlight, Idle, Request
    <3>2. ASSUME NEW w \in request'[s].gone
          PROVE  row'[<<request[s].path, w>>].state \in {"deleted", "pruned", "destroyed"}
      <4>1. w \in Version /\ row[<<request[s].path, w>>].state \in {"deleted", "pruned", "destroyed"}
        BY <2>1, <2>4, <3>1 DEF ReadSound
      <4>2. CASE request[s].path = p /\ w = v
        <5>1. to # "live"
          BY <4>2
        <5>2. QED
          BY <1>7, <4>2, <5>1
      <4>3. CASE ~(request[s].path = p /\ w = v)
        BY <1>7, <3>1, <4>1, <4>3
      <4>4. QED
        BY <4>2, <4>3
    <3>3. QED
      BY <1>1, <2>1, <2>2, <2>4, <3>2 DEF ReadSound
  <2>5. QED
    BY <2>3, <2>4
<1>12. RequestsSound'
  BY <1>11 DEF RequestsSound
<1>13. QED
  BY <1>8, <1>9, <1>10, <1>12 DEF IInv

LEMMA MarkStepsKeep ==
    ASSUME IInv, NEW p \in Paths, NEW v \in Version, MarkStep(p, v)
    PROVE  IInv'
<1>1. request \in [Requests -> Request]
  BY DEF IInv, TypeOK
<1>2. CASE Delete(p, v)
  <2>1. Mark(p, v, {"live", "deleted"}, "deleted") /\ request' = request
    BY <1>2 DEF Delete, Mark
  <2>2. QED
    BY <1>1, <2>1, MarkKeeps
<1>3. CASE Destroy(p, v)
  <2>1. Mark(p, v, {"live", "deleted"}, "destroyed") /\ request' = request
    BY <1>3 DEF Destroy
  <2>2. QED
    BY <1>1, <2>1, MarkKeeps
<1>4. CASE Undelete(p, v)
  <2>1. Mark(p, v, {"live", "deleted"}, "live")
    BY <1>4 DEF Undelete, Mark
  <2>2. request' = [r \in Requests |->
          IF request[r].path = p
          THEN [request[r] EXCEPT !.gone = request[r].gone \ {v}] ELSE request[r]]
    BY <1>4 DEF Undelete
  <2>3. ASSUME NEW s \in Requests
        PROVE  /\ request'[s] \in Request
               /\ request'[s].pc = request[s].pc /\ request'[s].op = request[s].op
               /\ request'[s].path = request[s].path /\ request'[s].asked = request[s].asked
               /\ request'[s].version = request[s].version /\ request'[s].kek = request[s].kek
               /\ request'[s].floor = request[s].floor /\ request'[s].ended = request[s].ended
               /\ request'[s].gone \subseteq request[s].gone
               /\ request[s].path = p => v \notin request'[s].gone
    <3> DEFINE q == request[s]
               next == [q EXCEPT !.gone = q.gone \ {v}]
    <3>1. q \in Request
      BY <1>1
    <3>2. CASE q.path # p
      BY <2>2, <3>1, <3>2
    <3>3. CASE q.path = p
      <4>1. request'[s] = next
        BY <2>2, <3>3
      <4>2. CASE q.pc = "idle"
        <5>1. q = Idle
          BY <3>1, <4>2 DEF Request, InFlight
        <5>2. q.gone = {} /\ q.gone \ {v} = {}
          BY <5>1 DEF Idle
        <5>3. next = q
          <6>1. next = [q EXCEPT !.gone = {}]
            BY <5>2
          <6>2. q \in [pc : {"idle"}, op : {"none"}, path : {NoOne}, asked : {0}, version : {0},
                       kek : {0}, seen : {0}, floor : {0}, gone : {{}}, ended : {FALSE}]
            BY <5>1 DEF Idle
          <6>3. [q EXCEPT !.gone = {}] = q
            BY <5>2, <6>2
          <6>4. QED
            BY <6>1, <6>3
        <5>4. QED
          BY <3>1, <4>1, <5>2, <5>3
      <4>3. CASE q.pc # "idle"
        <5>1. \/ q \in InFlight({"begin", "row", "lock", "config", "update", "answered"}, {0})
              \/ q \in InFlight({"sealed"}, 1..MaxKEK)
          BY <3>1, <4>3 DEF Request, Idle
        <5>2. \/ next \in InFlight({"begin", "row", "lock", "config", "update", "answered"}, {0})
              \/ next \in InFlight({"sealed"}, 1..MaxKEK)
          BY <5>1 DEF InFlight
        <5>3. next \in Request
          BY <5>2 DEF Request
        <5>4. /\ next.pc = q.pc /\ next.op = q.op /\ next.path = q.path /\ next.asked = q.asked
              /\ next.version = q.version /\ next.kek = q.kek /\ next.floor = q.floor
              /\ next.ended = q.ended /\ next.gone = q.gone \ {v}
          BY <5>1 DEF InFlight
        <5>5. QED
          BY <4>1, <5>3, <5>4
      <4>4. QED
        BY <4>2, <4>3
    <3>4. QED
      BY <3>2, <3>3
  <2>4. request' \in [Requests -> Request]
    BY <2>2, <2>3
  <2>5. QED
    BY <2>1, <2>3, <2>4, MarkKeeps
<1>5. QED
  BY <1>2, <1>3, <1>4 DEF MarkStep

-----------------------------------------------------------------------------
LEMMA InitEstablishes == Init => IInv
<1> SUFFICES ASSUME Init PROVE IInv
  OBVIOUS
<1> USE NoOneAssumption, SizesAssumption
<1>1. current \in [Paths -> 0..1]
  BY DEF Init
<1>2. ASSUME NEW p \in Paths, NEW v \in Version
      PROVE  row[<<p, v>>] = IF v = current[p]
                             THEN [state |-> "live", after |-> AnyVersion, kek |-> 1] ELSE NoRow
  BY DEF Init
<1>3. [state |-> "live", after |-> AnyVersion, kek |-> 1] \in Row /\ NoRow \in Row
  BY DEF Row, AnyVersion
<1>4. row \in [Paths \X Version -> Row]
  BY <1>3 DEF Init
<1>5. TypeOK
  <2>1. current \in [Paths -> 0..MaxVersions]
    BY <1>1
  <2>2. request \in [Requests -> Request]
    BY IdleSound DEF Init
  <2>3. QED
    BY <1>4, <2>1, <2>2 DEF Init, TypeOK
<1>6. HeldNotAhead
  BY DEF Init, HeldNotAhead
<1>7. RequestsSound
  <2>1. conn = NoOne /\ \A r \in Requests : request[r] = Idle
    BY DEF Init
  <2>2. QED
    BY <2>1, IdleSound DEF RequestsSound
<1>8. ASSUME NEW p \in Paths, NEW v \in Version
      PROVE  /\ row[<<p, v>>].state # "absent" <=> v <= current[p]
             /\ row[<<p, v>>].after # AnyVersion => v = row[<<p, v>>].after + 1
             /\ row[<<p, v>>].state = "pruned" => v + Keep <= current[p]
             /\ row[<<p, v>>].state \in {"live", "deleted"} => current[p] < v + Keep
  <2>1. current[p] \in 0..1 /\ v \in Nat \ {0}
    BY <1>1 DEF Version
  <2>2. CASE v = current[p]
    BY <1>2, <2>1, <2>2
  <2>3. CASE v # current[p]
    BY <1>2, <2>1, <2>3 DEF NoRow
  <2>4. QED
    BY <2>2, <2>3
<1>9. WritesStand
  BY <1>8 DEF WritesStand
<1>10. QED
  BY <1>5, <1>6, <1>7, <1>9 DEF IInv

LEMMA StutterKeeps ==
    ASSUME IInv, UNCHANGED vars
    PROVE  IInv'
<1>1. TypeOK' /\ HeldNotAhead' /\ WritesStand'
  BY DEF IInv, vars, TypeOK, HeldNotAhead, WritesStand
<1>2. RequestsSound'
  BY DEF IInv, vars, RequestsSound, LockSound, ReadSound, WriteSound
<1>3. QED
  BY <1>1, <1>2 DEF IInv

LEMMA RequestStepsKeep ==
    ASSUME IInv, NEW r \in Requests, RequestStep(r) \/ Cancel(r)
    PROVE  IInv'
<1>1. CASE PutStep(r)
  BY <1>1, BeginKeeps, SealValueKeeps, WriteEndsKeep, CommitKeeps DEF PutStep
<1>2. CASE GetStep(r)
  BY <1>2, ResolveKeeps, ReadRowKeeps, OpenValueKeeps, AnswerKeeps DEF GetStep
<1>3. CASE ManagerStep(r)
  BY <1>3, StatusKeeps, ReadConfigKeeps, KeyStepsKeep DEF ManagerStep
<1>4. CASE RLock(r) \/ Lock(r)
  BY <1>4, RLockKeeps, LockKeeps
<1>5. CASE Fails(r) \/ Cancel(r)
  BY <1>5, FailsKeeps, CancelKeeps
<1>6. QED
  BY <1>1, <1>2, <1>3, <1>4, <1>5 DEF RequestStep

(* The invariant: the connection is what orders writes and rotations, the  *)
(* lock what orders the changes of the key.                                *)
THEOREM Invariant == Spec => []IInv
<1>1. IInv /\ [Next]_vars => IInv'
  <2> SUFFICES ASSUME IInv, [Next]_vars PROVE IInv'
    OBVIOUS
  <2>1. CASE \E r \in Requests : RequestStep(r) \/ Cancel(r)
    BY <2>1, RequestStepsKeep
  <2>2. CASE \E r \in Requests, op \in Kinds, p \in Paths :
               \E asked \in Asks(op) : Admit(r, op, p, asked)
    BY <2>2, AdmitKeeps
  <2>3. CASE \E p \in Paths, v \in Version : MarkStep(p, v)
    BY <2>3, MarkStepsKeep
  <2>4. CASE UNCHANGED vars
    BY <2>4, StutterKeeps
  <2>5. QED
    BY <2>1, <2>2, <2>3, <2>4 DEF Next
<1>2. QED
  BY InitEstablishes, <1>1, PTL DEF Spec

(* The state keeps its types. *)
THEOREM TypeCorrect == Spec => []TypeOK
<1>1. IInv => TypeOK
  BY DEF IInv
<1>2. QED
  BY Invariant, <1>1, PTL

(* From the sealing of a value to its commit the stored key version, the   *)
(* version held, unless a seal forgets it, and the path's version stand,   *)
(* although the write has let go of the seal manager's lock and an update  *)
(* that was reported as failed may have left the manager behind: whatever  *)
(* moves them needs the connection that the write's transaction has.       *)
THEOREM SealedWritesStand == Spec => []NothingMovesBeforeCommit
<1>1. IInv => NothingMovesBeforeCommit
  BY DEF IInv, RequestsSound, WriteSound, NothingMovesBeforeCommit
<1>2. QED
  BY Invariant, <1>1, PTL

(* A write that named a version made the next one, versions have no gaps,  *)
(* and pruning keeps the last ones.                                        *)
THEOREM WritesAlwaysStand == Spec => []WritesStand
<1>1. IInv => WritesStand
  BY DEF IInv
<1>2. QED
  BY Invariant, <1>1, PTL

(* A read, two statements and an opening apart, observes every write,      *)
(* deletion and destruction that preceded it.                              *)
THEOREM ReadsAreFresh == Spec => []ReadsObserveWrites
<1>1. IInv => ReadsObserveWrites
  BY DEF IInv, RequestsSound, ReadSound, ReadsObserveWrites
<1>2. QED
  BY Invariant, <1>1, PTL

-----------------------------------------------------------------------------
(* The abstract specification. *)

(* What the refinement shows of a row. *)
Kept == [k \in Paths \X Version |-> [state |-> row[k].state, after |-> row[k].after]]

(* The first state is one of the abstract specification. *)
LEMMA InitiallyVersioned == Init => Versions!Init
<1> SUFFICES ASSUME Init PROVE Versions!Init
  OBVIOUS
<1>1. current \in [Paths -> 0..1]
  BY DEF Init
<1>2. ASSUME NEW k \in Paths \X Version
      PROVE  /\ row[k].state = IF k[2] = current[k[1]] THEN "live" ELSE "absent"
             /\ row[k].after = AnyVersion
  BY DEF Init, NoRow
<1>3. Kept = [k \in Paths \X Version |->
                [state |-> IF k[2] = current[k[1]] THEN "live" ELSE "absent",
                 after |-> AnyVersion]]
  BY <1>2 DEF Kept
<1>4. QED
  BY <1>1, <1>3 DEF Kept, Versions!Init, Versions!Version, Versions!AnyVersion, Version, AnyVersion

(* The commit of Store.Put is the whole abstract write: since it has had   *)
(* the connection from the comparison on, what it compared is current.     *)
LEMMA CommitIsPut ==
    ASSUME IInv, NEW r \in Requests, Commit(r)
    PROVE  \E p \in Paths, asked \in 0..AnyVersion : Versions!Put(p, asked)
<1> USE SizesAssumption
<1> DEFINE q == request[r]
           p == q.path
           next == current[p] + 1
<1>1. /\ q \in Request /\ q.pc = "sealed" /\ conn = r
      /\ row \in [Paths \X Version -> Row] /\ current \in [Paths -> 0..MaxVersions]
  BY DEF IInv, TypeOK, Commit
<1>2. /\ q.version = next
      /\ q.asked # AnyVersion => q.version = q.asked + 1
  BY <1>1 DEF IInv, RequestsSound, WriteSound
<1>3. /\ p \in Paths /\ q.asked \in 0..AnyVersion /\ q.version \in 0..MaxVersions
  BY <1>1, RequestFields DEF InFlight
<1>4. current[p] \in Nat /\ next \in Version /\ AnyVersion \in Nat
  BY <1>1, <1>2, <1>3 DEF Version, AnyVersion
<1>5. q.asked \in {AnyVersion, current[p]}
  BY <1>2, <1>3, <1>4
<1>6. current' = [current EXCEPT ![p] = next]
  BY <1>2 DEF Commit
<1>7. Kept' = [k \in Paths \X Version |->
          IF k = <<p, next>> THEN [state |-> "live", after |-> q.asked]
          ELSE IF k[1] = p /\ Kept[k].state \in {"live", "deleted"} /\ k[2] + Keep <= next
          THEN [state |-> "pruned", after |-> Kept[k].after]
          ELSE Kept[k]]
  <2>1. ASSUME NEW k \in Paths \X Version
        PROVE  [state |-> row'[k].state, after |-> row'[k].after] =
                 IF k = <<p, next>> THEN [state |-> "live", after |-> q.asked]
                 ELSE IF k[1] = p /\ row[k].state \in {"live", "deleted"} /\ k[2] + Keep <= next
                 THEN [state |-> "pruned", after |-> row[k].after]
                 ELSE [state |-> row[k].state, after |-> row[k].after]
    <3>1. row'[k] = IF k = <<p, next>> THEN Written(r)
                    ELSE IF k[1] = p /\ row[k].state \in {"live", "deleted"} /\ k[2] + Keep <= next
                    THEN Erased(k, "pruned")
                    ELSE row[k]
      BY <1>2 DEF Commit, Pruned
    <3>2. QED
      BY <3>1 DEF Written, Erased
  <2>2. QED
    BY <2>1 DEF Kept
<1>8. PICK path \in Paths, named \in 0..AnyVersion : path = p /\ named = q.asked
  BY <1>3
<1>9. Versions!Put(path, named)
  BY <1>4, <1>5, <1>6, <1>7, <1>8
     DEF Kept, Versions!Put, Versions!Version, Versions!AnyVersion, Version, AnyVersion
<1>10. QED
  BY <1>9

(* A transaction of Store.mark changes one row and not what it was after. *)
LEMMA MarkIsMark ==
    ASSUME IInv, NEW p \in Paths, NEW v \in Version, NEW from, NEW to, Mark(p, v, from, to)
    PROVE  Versions!Mark(p, v, from, to)
<1>1. /\ row \in [Paths \X Version -> Row] /\ <<p, v>> \in Paths \X Version
      /\ row[<<p, v>>].state \in from /\ UNCHANGED current
      /\ row' = [row EXCEPT ![<<p, v>>] = Erased(<<p, v>>, to)]
  BY DEF IInv, TypeOK, Mark
<1>2. Kept' = [Kept EXCEPT ![<<p, v>>] = [state |-> to, after |-> Kept[<<p, v>>].after]]
  <2>1. ASSUME NEW k \in Paths \X Version
        PROVE  [state |-> row'[k].state, after |-> row'[k].after] =
                 IF k = <<p, v>> THEN [state |-> to, after |-> row[k].after]
                 ELSE [state |-> row[k].state, after |-> row[k].after]
    BY <1>1 DEF Erased
  <2>2. QED
    BY <1>1, <2>1 DEF Kept
<1>3. QED
  BY <1>1, <1>2 DEF Kept, Versions!Mark

(* Every step is one of the abstract specification, or none: only the      *)
(* commit of a write and the marks of versions change the tables.          *)
LEMMA StepsAreVersioned ==
    ASSUME IInv, [Next]_vars
    PROVE  [Versions!Next]_(Versions!vars)
<1>1. ASSUME UNCHANGED storeVars PROVE UNCHANGED Versions!vars
  BY <1>1 DEF storeVars, Versions!vars
<1>2. ASSUME NEW r \in Requests, Commit(r) PROVE Versions!Next
  <2>1. PICK p \in Paths, asked \in 0..AnyVersion : Versions!Put(p, asked)
    BY <1>2, CommitIsPut
  <2>2. QED
    BY <2>1 DEF Versions!Next, Versions!AnyVersion, AnyVersion
<1>3. ASSUME NEW p \in Paths, NEW v \in Version, MarkStep(p, v) PROVE Versions!Next
  <2>1. Versions!Delete(p, v) \/ Versions!Undelete(p, v) \/ Versions!Destroy(p, v)
    BY <1>3, MarkIsMark DEF MarkStep, Delete, Undelete, Destroy,
                            Versions!Delete, Versions!Undelete, Versions!Destroy
  <2>2. QED
    BY <2>1 DEF Versions!Next, Versions!Version, Version
<1>4. ASSUME NEW r \in Requests, RequestStep(r) \/ Cancel(r), ~Commit(r)
      PROVE  UNCHANGED storeVars
  BY <1>4 DEF RequestStep, RLock, Lock, PutStep, Begin, Conflict, SealValue, SealRefused,
              GetStep, Resolve, ReadRow, OpenValue, Answer, ManagerStep, Status, Unseal,
              ReadConfig, UpdateVersion, UpdateUnreported, Seal, Fails, Cancel
<1>5. ASSUME NEW r \in Requests, NEW op \in Kinds, NEW p \in Paths, NEW asked \in Asks(op),
             Admit(r, op, p, asked)
      PROVE  UNCHANGED storeVars
  BY <1>5 DEF Admit
<1>6. UNCHANGED vars => UNCHANGED storeVars
  BY DEF vars, storeVars
<1>7. QED
  BY <1>1, <1>2, <1>3, <1>4, <1>5, <1>6 DEF Next

(***************************************************************************)
(* The secret store implements the abstract versions: a write in three     *)
(* steps, with a wait for the seal manager between them, is one atomic     *)
(* compare-and-set to everyone else, and every other step of a request is  *)
(* none at all.                                                            *)
(***************************************************************************)
THEOREM ImplementsVersions == Spec => KeepsVersions
<1>1. QED
  BY InitiallyVersioned, StepsAreVersioned, Invariant, PTL
     DEF Spec, KeepsVersions, Versions!Spec

(* So a version number is never given out twice, and what was pruned or    *)
(* destroyed never returns, whatever is written, undeleted or given up     *)
(* meanwhile.                                                              *)
THEOREM ErasedNeverReturns == Spec => Versions!NothingReturns
<1> DEFINE Stays(p) ==
      /\ current'[p] \in {current[p], current[p] + 1}
      /\ \A v \in Version :
            /\ Kept[<<p, v>>].state # "absent" => Kept'[<<p, v>>].after = Kept[<<p, v>>].after
            /\ Kept[<<p, v>>].state \in {"pruned", "destroyed"} =>
                  Kept'[<<p, v>>].state = Kept[<<p, v>>].state
<1>1. ASSUME IInv, Versions!Next, NEW p \in Paths PROVE Stays(p)
  <2>1. /\ current \in [Paths -> 0..MaxVersions] /\ MaxVersions \in Nat
        /\ \A k \in Paths \X Version :
              Kept[k] = [state |-> row[k].state, after |-> row[k].after]
        /\ \A v \in Version : Kept[<<p, v>>].state # "absent" => v <= current[p]
    BY <1>1, SizesAssumption DEF IInv, TypeOK, WritesStand, Kept
  <2>2. ASSUME NEW o \in Paths, NEW asked, Versions!Put(o, asked) PROVE Stays(p)
    <3>1. /\ current' = [current EXCEPT ![o] = current[o] + 1]
          /\ \A v \in Version : Kept'[<<p, v>>] =
                IF <<p, v>> = <<o, current[o] + 1>> THEN [state |-> "live", after |-> asked]
                ELSE IF p = o /\ Kept[<<p, v>>].state \in {"live", "deleted"}
                        /\ v + Keep <= current[o] + 1
                THEN [state |-> "pruned", after |-> Kept[<<p, v>>].after]
                ELSE Kept[<<p, v>>]
      BY <2>2 DEF Kept, Versions!Put, Versions!Version, Version
    <3>2. \A v \in Version : Kept[<<p, v>>].state # "absent" => <<p, v>> # <<o, current[o] + 1>>
      BY <2>1 DEF Version
    <3>3. current'[p] \in {current[p], current[p] + 1}
      BY <2>1, <3>1
    <3>4. ASSUME NEW v \in Version, Kept[<<p, v>>].state # "absent"
          PROVE  /\ Kept'[<<p, v>>].after = Kept[<<p, v>>].after
                 /\ Kept[<<p, v>>].state \in {"pruned", "destroyed"} =>
                       Kept'[<<p, v>>].state = Kept[<<p, v>>].state
      <4>1. CASE p = o /\ Kept[<<p, v>>].state \in {"live", "deleted"} /\ v + Keep <= current[o] + 1
        <5>1. Kept'[<<p, v>>] = [state |-> "pruned", after |-> Kept[<<p, v>>].after]
          BY <3>1, <3>2, <3>4, <4>1
        <5>2. QED
          BY <4>1, <5>1
      <4>2. CASE ~(p = o /\ Kept[<<p, v>>].state \in {"live", "deleted"}
                   /\ v + Keep <= current[o] + 1)
        <5>1. Kept'[<<p, v>>] = Kept[<<p, v>>]
          BY <3>1, <3>2, <3>4, <4>2
        <5>2. QED
          BY <5>1
      <4>3. QED
        BY <4>1, <4>2
    <3>5. QED
      BY <3>3, <3>4
  <2>3. ASSUME NEW o \in Paths, NEW w \in Version, NEW from, NEW to,
               from \subseteq {"live", "deleted"}, Versions!Mark(o, w, from, to)
        PROVE  Stays(p)
    <3>1. /\ current' = current /\ Kept[<<o, w>>].state \in {"live", "deleted"}
          /\ \A v \in Version : Kept'[<<p, v>>] =
                IF <<p, v>> = <<o, w>> THEN [state |-> to, after |-> Kept[<<p, v>>].after]
                ELSE Kept[<<p, v>>]
      BY <2>3 DEF Kept, Versions!Mark
    <3>2. ASSUME NEW v \in Version
          PROVE  /\ Kept'[<<p, v>>].after = Kept[<<p, v>>].after
                 /\ Kept[<<p, v>>].state \in {"pruned", "destroyed"} =>
                       Kept'[<<p, v>>].state = Kept[<<p, v>>].state
      <4>1. CASE <<p, v>> = <<o, w>>
        <5>1. Kept'[<<p, v>>] = [state |-> to, after |-> Kept[<<p, v>>].after]
          BY <3>1, <4>1
        <5>2. QED
          BY <3>1, <4>1, <5>1
      <4>2. CASE <<p, v>> # <<o, w>>
        <5>1. Kept'[<<p, v>>] = Kept[<<p, v>>]
          BY <3>1, <4>2
        <5>2. QED
          BY <5>1
      <4>3. QED
        BY <4>1, <4>2
    <3>3. QED
      BY <3>1, <3>2
  <2>4. QED
    BY <1>1, <2>2, <2>3 DEF Versions!Next, Versions!Delete, Versions!Undelete, Versions!Destroy,
                            Versions!Version, Version
<1>2. IInv /\ [Versions!Next]_(Versions!vars) => [\A p \in Paths : Stays(p)]_(Versions!vars)
  BY <1>1
<1>3. QED
  BY <1>2, StepsAreVersioned, Invariant, PTL
     DEF Spec, Kept, Versions!NothingReturns, Versions!Version, Version

=============================================================================
