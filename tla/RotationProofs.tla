--------------------------- MODULE RotationProofs ---------------------------
(***************************************************************************)
(* Safety of rotation for every number of secrets, parameters, versions,   *)
(* writers and requests, and every page size.                              *)
(***************************************************************************)
EXTENDS Rotation, TLAPS

Active == walk.pc \in {"walking", "writing"}

(***************************************************************************)
(* The versions: memory is at most the database, and every value and every *)
(* write in flight is at most both.                                        *)
(***************************************************************************)
KeyInv ==
    /\ held <= stored
    /\ completed <= stored
    /\ held # 0 => completed <= held
    /\ \A k \in Key : row[k].kek <= stored /\ (held # 0 => row[k].kek <= held)
    /\ \A w \in Writers : put[w].kek <= stored /\ (held # 0 => put[w].kek <= held)

(***************************************************************************)
(* A write in flight carries a whole envelope, and one that no rotation    *)
(* overtook is on the version of the walk, and of the last complete one.   *)
(***************************************************************************)
PutInv ==
    \A w \in Writers :
        /\ put[w].pc # "idle" => put[w].path \in ParamPaths /\ put[w].dek \in DEK
        /\ put[w].pc = "sealed" =>
              put[w].kek >= completed /\ (Active => put[w].kek = stored)

(***************************************************************************)
(* Where a rotation stands: before the walk nothing is read; during it the *)
(* stored version is the one it moves to, the page lies after the cursor   *)
(* and what was examined does not.                                         *)
(***************************************************************************)
CursorInv ==
    /\ ~Active => walk.subject = Secret /\ walk.at = ZeroCursor 
                   /\ page = NoPage /\ examined = {}
    /\ Active =>
        /\ walk.to = stored /\ stored # 0 /\ held \in {0, stored}
        /\ \A k \in DOMAIN page : Subject(k) = walk.subject
        /\ \A k \in examined :
              \/ Subject(k) < walk.subject
              \/ Subject(k) = walk.subject /\ ~Before(walk.at, Place(k))
    /\ walk.pc = "walking" => \A k \in DOMAIN page : Before(walk.at, Place(k))
    /\ walk.pc = "writing" =>
        /\ walk.under = stored
        /\ \E k \in DOMAIN page : Place(k) = walk.at
        /\ \A k \in DOMAIN page :
              \/ Place(k) = walk.at /\ page[k].kek < stored
              \/ Before(walk.at, Place(k))

(***************************************************************************)
(* A row the page would still match holds the data key the page read.      *)
(***************************************************************************)
PageInv ==
    \A k \in DOMAIN page :
        IsLive(k) /\ ~Overtaken(k) /\ row[k].kek = page[k].kek /\ page[k].kek < stored
            => row[k].ct = page[k].dek

(***************************************************************************)
(* What the walk has not reached: a live row on an older version is in the *)
(* page as read, after the page, or of a later subject.                    *)
(***************************************************************************)
Ahead(k) ==
    \/ Subject(k) > walk.subject
    \/ /\ Subject(k) = walk.subject
       /\ \/ k \in DOMAIN page /\ row[k].kek = page[k].kek
          \/ /\ k \notin DOMAIN page
             /\ Before(walk.at, Place(k))
             /\ \A j \in DOMAIN page : Before(Place(j), Place(k))

WalkInv ==
    Active => \A k \in Key :
        IsLive(k) /\ ~Overtaken(k) => row[k].kek >= stored \/ Ahead(k)

IInv == /\ TypeOK /\ KeyInv /\ PutInv /\ CursorInv /\ PageInv /\ WalkInv
        /\ ValuesOpen /\ DestroyedStaysErased /\ NothingLeftBehind

-----------------------------------------------------------------------------
(* Keys and cursors *)

USE DEF Secret, Param

(***************************************************************************)
(* A key is its subject and its place, and a parameter has one row.        *)
(***************************************************************************)
LEMMA KeyFacts ==
    /\ \A k \in Key : /\ Subject(k) \in {1, 2}
                      /\ Path(k) \in Nat \ {0} /\ Version(k) \in Nat \ {0}
                      /\ k = <<Subject(k), Path(k), Version(k)>>
    /\ \A k \in Key : Subject(k) = 2 => Version(k) = 1
    /\ \A p \in ParamPaths : <<2, p, 1>> \in Key
    /\ \A p \in SecretPaths, v \in Versions : <<1, p, v>> \in Key
BY SizesAssumption
   DEF Key, Subject, Path, Version, SecretPaths, ParamPaths, Versions

LEMMA ComponentsOf ==
    ASSUME NEW s, NEW p, NEW v
    PROVE  Subject(<<s, p, v>>) = s /\ Path(<<s, p, v>>) = p /\ Version(<<s, p, v>>) = v
BY DEF Subject, Path, Version

LEMMA PlaceFacts ==
    /\ \A k \in Key : Place(k) \in Cursor /\ Before(ZeroCursor, Place(k))
    /\ \A j, k \in Key : Subject(j) = Subject(k) /\ Place(j) = Place(k) => j = k
    /\ ZeroCursor \in Cursor
BY KeyFacts DEF Place, Cursor, Before, ZeroCursor

(***************************************************************************)
(* Before is a strict order on cursors.                                    *)
(***************************************************************************)
LEMMA BeforeOrder ==
    /\ \A a \in Cursor : ~Before(a, a)
    /\ \A a, b, c \in Cursor : Before(a, b) /\ Before(b, c) => Before(a, c)
BY DEF Cursor, Before

-----------------------------------------------------------------------------
(* The initial states *)

LEMMA InitInv == Init => IInv
<1> SUFFICES ASSUME Init PROVE IInv
    OBVIOUS
<1> USE SizesAssumption DEF Init
<1>1. TypeOK
  <2>1. row \in [Key -> Row]
    BY DEF NoRow, Row, Erased
  <2>2. put \in [Writers -> Put]
    BY DEF IdlePut, Put, Erased
  <2>3. request \in [Requests -> Request]
    BY DEF IdleRequest, Request
  <2>4. walk \in Walk
    BY PlaceFacts DEF FreeWalk, Walk
  <2>5. DOMAIN page = {} /\ page \in [DOMAIN page -> Row]
    BY DEF NoPage
  <2>6. current \in [SecretPaths -> 0..MaxVersions]
    OBVIOUS
  <2> QED
    BY <2>1, <2>2, <2>3, <2>4, <2>5, <2>6 DEF TypeOK
<1>2. KeyInv
  BY DEF KeyInv, NoRow, IdlePut
<1>3. PutInv
  BY DEF PutInv, IdlePut
<1>4. CursorInv /\ PageInv /\ WalkInv
  BY DEF CursorInv, PageInv, WalkInv, Active, FreeWalk, NoPage
<1>5. ValuesOpen /\ DestroyedStaysErased /\ NothingLeftBehind
  BY DEF ValuesOpen, DestroyedStaysErased, NothingLeftBehind, IsLive, NoRow
<1> QED
  BY <1>1, <1>2, <1>3, <1>4, <1>5 DEF IInv

-----------------------------------------------------------------------------
(* Steps that change neither the rows nor the walk *)

(***************************************************************************)
(* What the invariant says of rows, pages and the walk survives a step     *)
(* that leaves all of them, and the stored version, alone.                 *)
(***************************************************************************)
LEMMA RowsAndWalkKept ==
    ASSUME IInv, UNCHANGED <<stored, row, late, walk, page, examined, completed>>,
           held' \in {0, held, stored}
    PROVE  /\ CursorInv' /\ PageInv' /\ WalkInv'
           /\ ValuesOpen' /\ DestroyedStaysErased' /\ NothingLeftBehind'
<1> USE DEF IInv
<1>1. CursorInv'
  BY DEF CursorInv, Active
<1>2. PageInv' /\ WalkInv'
  BY DEF PageInv, WalkInv, Active, IsLive, Overtaken, Ahead
<1>3. ValuesOpen' /\ DestroyedStaysErased' /\ NothingLeftBehind'
  BY DEF ValuesOpen, DestroyedStaysErased, NothingLeftBehind, IsLive, Opens, Overtaken
<1> QED
  BY <1>1, <1>2, <1>3

LEMMA ParamSealInv ==
    ASSUME IInv, NEW w \in Writers, NEW p \in ParamPaths, ParamSeal(w, p)
    PROVE  IInv'
<1> USE SizesAssumption DEF IInv
<1>1. PICK d \in DEK : put' = [put EXCEPT ![w] = [pc |-> "sealed", path |-> p,
                                                  kek |-> held, dek |-> d]]
  BY DEF ParamSeal, FreshFor
<1>2. held # 0 /\ UNCHANGED <<stored, held, row, current, late, request, walk,
                              page, examined, completed>>
  BY DEF ParamSeal, keyVars, storeVars, rotateVars, walkVars
<1>3. TypeOK'
  BY <1>1, <1>2 DEF TypeOK, Put, Erased, ParamPaths
<1>4. KeyInv'
  BY <1>1, <1>2 DEF KeyInv, TypeOK
<1>5. PutInv'
  BY <1>1, <1>2 DEF PutInv, KeyInv, CursorInv, Active, TypeOK
<1> QED
  BY <1>2, <1>3, <1>4, <1>5, RowsAndWalkKept

LEMMA ParamPutFailsInv ==
    ASSUME IInv, NEW w \in Writers, ParamPutFails(w)
    PROVE  IInv'
<1> USE SizesAssumption DEF IInv
<1>1. /\ put' = [put EXCEPT ![w] = IdlePut]
      /\ UNCHANGED <<stored, held, row, current, late, request, walk, page,
                     examined, completed>>
  BY DEF ParamPutFails, keyVars, storeVars, rotateVars, walkVars
<1>2. TypeOK'
  BY <1>1 DEF TypeOK, Put, Erased, IdlePut
<1>3. KeyInv'
  BY <1>1 DEF KeyInv, TypeOK, IdlePut
<1>4. PutInv'
  BY <1>1 DEF PutInv, Active, TypeOK, IdlePut
<1> QED
  BY <1>1, <1>2, <1>3, <1>4, RowsAndWalkKept

(***************************************************************************)
(* A new version in memory, when the store is opened or sealed.            *)
(***************************************************************************)
LEMMA HeldInv ==
    ASSUME IInv, held' \in {0, stored},
           UNCHANGED <<stored, row, current, late, put, request, walk, page,
                       examined, completed>>
    PROVE  IInv'
<1> USE SizesAssumption DEF IInv
<1>1. TypeOK'
  BY DEF TypeOK
<1>2. KeyInv'
  BY DEF KeyInv, TypeOK
<1>3. PutInv'
  BY DEF PutInv, Active
<1> QED
  BY <1>1, <1>2, <1>3, RowsAndWalkKept

LEMMA RequestInv ==
    ASSUME IInv, request' \in [Requests -> Request],
           UNCHANGED <<stored, held, row, current, late, put, walk, page,
                       examined, completed>>
    PROVE  IInv'
<1> USE DEF IInv
<1>1. TypeOK'
  BY DEF TypeOK
<1>2. KeyInv' /\ PutInv'
  BY DEF KeyInv, PutInv, Active
<1> QED
  BY <1>1, <1>2, RowsAndWalkKept

-----------------------------------------------------------------------------
(* Steps that write rows *)

LEMMA SecretPutInv ==
    ASSUME IInv, NEW p \in SecretPaths, SecretPut(p)
    PROVE  IInv'
<1> DEFINE next == current[p] + 1
           new == <<Secret, p, next>>
           Pruned(k) == /\ Subject(k) = Secret /\ Path(k) = p
                        /\ Version(k) + Keep <= next
                        /\ IsLive(k)
<1> USE SizesAssumption DEF IInv
<1>1. PICK d \in DEK :
        row' = [k \in Key |-> IF k = new THEN Sealed(held, d)
                              ELSE IF Pruned(k) THEN Destroyed(row[k])
                              ELSE row[k]]
  BY DEF SecretPut, FreshFor
<1>2. /\ held # 0 /\ next \in Versions
      /\ current' = [current EXCEPT ![p] = next]
      /\ UNCHANGED <<stored, held, put, request, walk, page, examined, completed, late>>
  BY DEF SecretPut, keyVars, rotateVars, walkVars
<1> HIDE DEF next
<1>3. new \in Key /\ ~Overtaken(new)
  BY <1>2, KeyFacts, ComponentsOf DEF Overtaken
<1>4. /\ \A k \in Key : row[k] \in Row /\ row[k].kek \in 0..MaxKEK
      /\ held \in 0..MaxKEK /\ stored \in 0..MaxKEK /\ completed \in 0..MaxKEK
  BY DEF TypeOK, Row
<1>5. row'[new].state = "live" /\ row'[new].kek = held /\ Opens(row'[new])
  BY <1>1, <1>3, NoDEKAssumption DEF Sealed, Opens
<1>6. ASSUME NEW k \in Key, k # new
      PROVE  \/ row'[k] = row[k]
             \/ /\ row'[k].state = "destroyed" /\ row'[k].kek = row[k].kek
                /\ row'[k].dek = NoDEK /\ row'[k].ct = NoDEK
  BY <1>1, <1>4, <1>6 DEF Destroyed, Row
<1> HIDE DEF new, Pruned
<1>7. TypeOK'
  <2>1. \A k \in Key : row'[k] \in Row
    BY <1>1, <1>4 DEF Sealed, Destroyed, Row, Erased
  <2>2. row' \in [Key -> Row]
    BY <1>1, <2>1
  <2>3. current' \in [SecretPaths -> 0..MaxVersions]
    BY <1>2 DEF TypeOK, Versions
  <2> QED
    BY <1>2, <2>2, <2>3 DEF TypeOK
<1>8. KeyInv'
  BY <1>2, <1>4, <1>5, <1>6 DEF KeyInv
<1>9. PutInv' /\ CursorInv'
  BY <1>2 DEF PutInv, CursorInv, Active
<1>10. Active => held = stored
  BY <1>2 DEF CursorInv
<1>11. PageInv'
  <2> SUFFICES ASSUME NEW k \in DOMAIN page, IsLive(k)', ~Overtaken(k),
                      row'[k].kek = page[k].kek, page[k].kek < stored
               PROVE  row'[k].ct = page[k].dek
    BY <1>2 DEF PageInv, Overtaken
  <2>1. k \in Key /\ Active
    BY DEF CursorInv, NoPage, TypeOK
  <2>2. k # new
    BY <1>4, <1>5, <1>10, <2>1
  <2>3. row'[k] = row[k]
    BY <1>6, <2>1, <2>2 DEF IsLive
  <2> QED
    BY <2>3 DEF PageInv, IsLive
<1>12. WalkInv'
  <2> SUFFICES ASSUME Active, NEW k \in Key, IsLive(k)', ~Overtaken(k)
               PROVE  row'[k].kek >= stored \/ Ahead(k)'
    BY <1>2 DEF WalkInv, Active, Overtaken
  <2>1. CASE k = new
    BY <1>4, <1>5, <1>10, <2>1
  <2>2. CASE k # new
    <3>1. row'[k] = row[k]
      BY <1>6, <2>2 DEF IsLive
    <3> QED
      BY <1>2, <3>1 DEF WalkInv, IsLive, Ahead
  <2> QED
    BY <2>1, <2>2
<1>13. ValuesOpen' /\ NothingLeftBehind'
  <2> SUFFICES ASSUME NEW k \in Key, IsLive(k)', ~Overtaken(k)
               PROVE  Opens(row'[k]) /\ row'[k].kek >= completed
    BY <1>2 DEF ValuesOpen, NothingLeftBehind, Overtaken
  <2>1. CASE k = new
    BY <1>2, <1>4, <1>5, <2>1 DEF KeyInv
  <2>2. CASE k # new
    <3>1. row'[k] = row[k]
      BY <1>6, <2>2 DEF IsLive
    <3> QED
      BY <3>1 DEF ValuesOpen, NothingLeftBehind, IsLive
  <2> QED
    BY <2>1, <2>2
<1>14. DestroyedStaysErased'
  BY <1>5, <1>6 DEF DestroyedStaysErased
<1> QED
  BY <1>7, <1>8, <1>9, <1>11, <1>12, <1>13, <1>14

LEMMA ParamUpsertInv ==
    ASSUME IInv, NEW w \in Writers, ParamUpsert(w)
    PROVE  IInv'
<1> USE SizesAssumption DEF IInv
<1>1. /\ put[w].pc # "idle" /\ put[w].path \in ParamPaths /\ put[w].dek \in DEK
      /\ put[w].kek \in 0..MaxKEK
  BY DEF ParamUpsert, PutInv, TypeOK, Put
<1>2. PICK k \in Key : k = <<Param, put[w].path, 1>>
  BY <1>1, KeyFacts
<1>3. /\ row' = [row EXCEPT ![k] = Sealed(put[w].kek, put[w].dek)]
      /\ late' = IF put[w].pc = "overtaken" THEN late \cup {put[w].path}
                                            ELSE late \ {put[w].path}
      /\ put' = [put EXCEPT ![w] = IdlePut]
      /\ UNCHANGED <<stored, held, current, request, walk, page, examined, completed>>
  BY <1>2 DEF ParamUpsert, keyVars, rotateVars, walkVars
<1>4. Subject(k) = Param /\ Path(k) = put[w].path
  BY <1>2, ComponentsOf
<1>5. /\ \A j \in Key : row[j] \in Row /\ row[j].kek \in 0..MaxKEK
      /\ held \in 0..MaxKEK /\ stored \in 0..MaxKEK /\ completed \in 0..MaxKEK
  BY DEF TypeOK, Row
<1>6. row'[k].state = "live" /\ row'[k].kek = put[w].kek /\ Opens(row'[k])
  BY <1>1, <1>3, <1>4, NoDEKAssumption DEF Sealed, Opens, TypeOK
<1>7. ASSUME NEW j \in Key, j # k
      PROVE  row'[j] = row[j] /\ (Overtaken(j)' <=> Overtaken(j))
  <2>1. row'[j] = row[j]
    BY <1>3, <1>7 DEF TypeOK
  <2>2. Subject(j) = Param => Path(j) # put[w].path
    BY <1>2, <1>7, KeyFacts
  <2> QED
    BY <1>3, <2>1, <2>2 DEF Overtaken
<1>8. ~Overtaken(k)' => put[w].pc = "sealed"
  BY <1>1, <1>3, <1>4 DEF Overtaken, TypeOK, Put
<1>9. TypeOK'
  <2>1. Sealed(put[w].kek, put[w].dek) \in Row
    BY <1>1 DEF Sealed, Row, Erased
  <2>2. row' \in [Key -> Row]
    BY <1>3, <2>1 DEF TypeOK
  <2>3. put' \in [Writers -> Put]
    BY <1>3 DEF TypeOK, Put, IdlePut, Erased
  <2>4. late' \subseteq ParamPaths
    BY <1>1, <1>3 DEF TypeOK
  <2> QED
    BY <1>3, <2>2, <2>3, <2>4 DEF TypeOK
<1>10. KeyInv'
  <2>1. \A j \in Key : row'[j].kek <= stored /\ (held # 0 => row'[j].kek <= held)
    BY <1>5, <1>6, <1>7 DEF KeyInv
  <2>2. \A v \in Writers : put'[v].kek <= stored /\ (held # 0 => put'[v].kek <= held)
    BY <1>3, <1>5 DEF KeyInv, TypeOK, IdlePut
  <2> QED
    BY <1>3, <2>1, <2>2 DEF KeyInv
<1>11. PutInv'
  BY <1>3 DEF PutInv, Active, IdlePut, TypeOK
<1>12. CursorInv'
  BY <1>3 DEF CursorInv, Active
<1>13. PageInv'
  <2> SUFFICES ASSUME NEW j \in DOMAIN page, IsLive(j)', ~Overtaken(j)',
                      row'[j].kek = page[j].kek, page[j].kek < stored
               PROVE  row'[j].ct = page[j].dek
    BY <1>3 DEF PageInv
  <2>1. j \in Key /\ Active
    BY DEF CursorInv, NoPage, TypeOK
  <2>2. j # k
    BY <1>5, <1>6, <1>8, <2>1 DEF PutInv
  <2> QED
    BY <1>7, <2>1, <2>2 DEF PageInv, IsLive
<1>14. WalkInv'
  <2> SUFFICES ASSUME Active, NEW j \in Key, IsLive(j)', ~Overtaken(j)'
               PROVE  row'[j].kek >= stored \/ Ahead(j)'
    BY <1>3 DEF WalkInv, Active
  <2>1. CASE j = k
    BY <1>5, <1>6, <1>8, <2>1 DEF PutInv
  <2>2. CASE j # k
    BY <1>3, <1>7, <2>2 DEF WalkInv, IsLive, Ahead
  <2> QED
    BY <2>1, <2>2
<1>15. ValuesOpen' /\ NothingLeftBehind'
  <2> SUFFICES ASSUME NEW j \in Key, IsLive(j)', ~Overtaken(j)'
               PROVE  Opens(row'[j]) /\ row'[j].kek >= completed
    BY <1>3 DEF ValuesOpen, NothingLeftBehind
  <2>1. CASE j = k
    BY <1>6, <1>8, <2>1 DEF PutInv
  <2>2. CASE j # k
    BY <1>7, <2>2 DEF ValuesOpen, NothingLeftBehind, IsLive
  <2> QED
    BY <2>1, <2>2
<1>16. DestroyedStaysErased'
  BY <1>6, <1>7 DEF DestroyedStaysErased
<1> QED
  BY <1>9, <1>10, <1>11, <1>12, <1>13, <1>14, <1>15, <1>16

LEMMA SecretDestroyInv ==
    ASSUME IInv, NEW p \in SecretPaths, NEW v \in Versions, SecretDestroy(p, v)
    PROVE  IInv'
<1> USE SizesAssumption DEF IInv
<1>1. PICK k \in Key : k = <<Secret, p, v>>
  BY KeyFacts
<1>2. /\ row' = [row EXCEPT ![k] = Destroyed(row[k])]
      /\ UNCHANGED <<stored, held, current, late, put, request, walk, page, examined,
                     completed>>
  BY <1>1 DEF SecretDestroy, keyVars, rotateVars, walkVars
<1>3. /\ row'[k].state = "destroyed" /\ row'[k].kek = row[k].kek
      /\ row'[k].dek = NoDEK /\ row'[k].ct = NoDEK
  BY <1>2 DEF Destroyed, TypeOK
<1>4. ASSUME NEW j \in Key, j # k
      PROVE  row'[j] = row[j] /\ (Overtaken(j)' <=> Overtaken(j))
  BY <1>2, <1>4 DEF TypeOK, Overtaken
<1>5. TypeOK'
  <2>1. Destroyed(row[k]) \in Row
    BY DEF Destroyed, Row, Erased, TypeOK
  <2>2. row' \in [Key -> Row]
    BY <1>2, <2>1 DEF TypeOK
  <2> QED
    BY <1>2, <2>2 DEF TypeOK
<1>6. KeyInv'
  <2>1. \A j \in Key : row'[j].kek <= stored /\ (held # 0 => row'[j].kek <= held)
    BY <1>3, <1>4 DEF KeyInv, TypeOK
  <2> QED
    BY <1>2, <2>1 DEF KeyInv
<1>7. PutInv' /\ CursorInv'
  BY <1>2 DEF PutInv, CursorInv, Active
<1>8. PageInv'
  BY <1>2, <1>3, <1>4 DEF PageInv, IsLive, TypeOK
<1>9. WalkInv'
  BY <1>2, <1>3, <1>4 DEF WalkInv, Active, IsLive, Ahead
<1>10. ValuesOpen' /\ NothingLeftBehind'
  BY <1>2, <1>3, <1>4 DEF ValuesOpen, NothingLeftBehind, IsLive
<1>11. DestroyedStaysErased'
  BY <1>3, <1>4 DEF DestroyedStaysErased
<1> QED
  BY <1>5, <1>6, <1>7, <1>8, <1>9, <1>10, <1>11

LEMMA ParamDeleteInv ==
    ASSUME IInv, NEW p \in ParamPaths, ParamDelete(p)
    PROVE  IInv'
<1> USE SizesAssumption DEF IInv
<1>1. PICK k \in Key : k = <<Param, p, 1>>
  BY KeyFacts
<1>2. /\ row' = [row EXCEPT ![k] = NoRow]
      /\ late' = late \ {p}
      /\ UNCHANGED <<stored, held, current, put, request, walk, page, examined,
                     completed>>
  BY <1>1 DEF ParamDelete, keyVars, rotateVars, walkVars
<1>3. row'[k].state = "absent" /\ row'[k].kek = 0
  BY <1>2 DEF NoRow, TypeOK
<1>4. ASSUME NEW j \in Key, j # k
      PROVE  row'[j] = row[j] /\ (Overtaken(j)' <=> Overtaken(j))
  <2>1. row'[j] = row[j]
    BY <1>2, <1>4 DEF TypeOK
  <2>2. Subject(j) = Param => Path(j) # p
    BY <1>1, <1>4, KeyFacts
  <2> QED
    BY <1>2, <2>1, <2>2 DEF Overtaken
<1>5. TypeOK'
  <2>1. NoRow \in Row
    BY DEF NoRow, Row, Erased
  <2>2. row' \in [Key -> Row]
    BY <1>2, <2>1 DEF TypeOK
  <2> QED
    BY <1>2, <2>2 DEF TypeOK
<1>6. KeyInv'
  <2>1. \A j \in Key : row'[j].kek <= stored /\ (held # 0 => row'[j].kek <= held)
    BY <1>3, <1>4 DEF KeyInv, TypeOK
  <2> QED
    BY <1>2, <2>1 DEF KeyInv
<1>7. PutInv' /\ CursorInv'
  BY <1>2 DEF PutInv, CursorInv, Active
<1>8. PageInv'
  BY <1>2, <1>3, <1>4 DEF PageInv, IsLive, TypeOK
<1>9. WalkInv'
  BY <1>2, <1>3, <1>4 DEF WalkInv, Active, IsLive, Ahead
<1>10. ValuesOpen' /\ NothingLeftBehind'
  BY <1>2, <1>3, <1>4 DEF ValuesOpen, NothingLeftBehind, IsLive
<1>11. DestroyedStaysErased'
  BY <1>3, <1>4 DEF DestroyedStaysErased
<1> QED
  BY <1>5, <1>6, <1>7, <1>8, <1>9, <1>10, <1>11

-----------------------------------------------------------------------------
(* Steps that begin or end a rotation *)

(***************************************************************************)
(* The rows keep their promises when the walk is given up.                 *)
(***************************************************************************)
LEMMA WalkGivenUp ==
    ASSUME IInv, walk' = FreeWalk, page' = NoPage, examined' = {},
           UNCHANGED <<row, current, late>>,
           stored' \in 0..MaxKEK, held' \in 0..MaxKEK, completed' \in 0..MaxKEK,
           put' \in [Writers -> Put], request' \in [Requests -> Request]
    PROVE  /\ TypeOK' /\ CursorInv' /\ PageInv' /\ WalkInv'
           /\ ValuesOpen' /\ DestroyedStaysErased'
<1> USE SizesAssumption DEF IInv
<1>1. ~Active' /\ walk'.subject = Secret /\ walk'.at = ZeroCursor
  BY DEF Active, FreeWalk
<1>2. DOMAIN page' = {} /\ page' \in [DOMAIN page' -> Row]
  BY DEF NoPage
<1>3. walk' \in Walk
  BY PlaceFacts DEF FreeWalk, Walk
<1>4. TypeOK'
  BY <1>2, <1>3 DEF TypeOK
<1>5. CursorInv'
  BY <1>1 DEF CursorInv, Active
<1>6. PageInv' /\ WalkInv'
  BY <1>1, <1>2 DEF PageInv, WalkInv
<1>7. ValuesOpen' /\ DestroyedStaysErased'
  BY DEF ValuesOpen, DestroyedStaysErased, IsLive, Opens, Overtaken
<1> QED
  BY <1>4, <1>5, <1>6, <1>7

(***************************************************************************)
(* A request answered is idle again.                                       *)
(***************************************************************************)
LEMMA RequestTypes ==
    ASSUME TypeOK, NEW r \in Requests
    PROVE  /\ [request EXCEPT ![r] = IdleRequest] \in [Requests -> Request]
           /\ [request EXCEPT ![r].pc = "rotating"] \in [Requests -> Request]
           /\ [request EXCEPT ![r] = [pc |-> "checked", named |-> stored]]
                  \in [Requests -> Request]
<1> USE SizesAssumption
<1>1. IdleRequest \in Request
  BY DEF IdleRequest, Request
<1>2. [request[r] EXCEPT !.pc = "rotating"] \in Request
  BY DEF TypeOK, Request
<1>3. [pc |-> "checked", named |-> stored] \in Request
  BY DEF TypeOK, Request
<1> QED
  BY <1>1, <1>2, <1>3 DEF TypeOK

LEMMA AbandonInv ==
    ASSUME IInv, NEW r \in Requests, Release(r),
           UNCHANGED <<stored, held, row, current, late, put, completed>>
    PROVE  IInv'
<1> USE DEF IInv
<1>1. request' \in [Requests -> Request]
  BY RequestTypes DEF Release
<1>2. stored' \in 0..MaxKEK /\ held' \in 0..MaxKEK /\ completed' \in 0..MaxKEK
      /\ put' \in [Writers -> Put]
  BY DEF TypeOK
<1>3. ~Active'
  BY DEF Release, Active, FreeWalk
<1>4. KeyInv' /\ PutInv' /\ NothingLeftBehind'
  BY <1>3 DEF KeyInv, PutInv, NothingLeftBehind, IsLive, Overtaken
<1> QED
  BY <1>1, <1>2, <1>4, WalkGivenUp DEF Release

LEMMA RestartInv ==
    ASSUME IInv, Restart
    PROVE  IInv'
<1> USE SizesAssumption DEF IInv
<1>1. /\ held' = 0 /\ walk' = FreeWalk /\ page' = NoPage /\ examined' = {}
      /\ put' = [w \in Writers |-> IdlePut]
      /\ request' = [r \in Requests |-> IdleRequest]
      /\ UNCHANGED <<stored, row, current, late, completed>>
  BY DEF Restart, storeVars
<1>2. request' \in [Requests -> Request]
  BY <1>1 DEF IdleRequest, Request
<1>3. put' \in [Writers -> Put]
  BY <1>1 DEF IdlePut, Put, Erased
<1>4. stored' \in 0..MaxKEK /\ held' \in 0..MaxKEK /\ completed' \in 0..MaxKEK
  BY <1>1 DEF TypeOK
<1>5. KeyInv'
  BY <1>1 DEF KeyInv, IdlePut, TypeOK
<1>6. PutInv'
  BY <1>1 DEF PutInv, IdlePut
<1>7. NothingLeftBehind'
  BY <1>1 DEF NothingLeftBehind, IsLive, Overtaken
<1> QED
  BY <1>1, <1>2, <1>3, <1>4, <1>5, <1>6, <1>7, WalkGivenUp

(***************************************************************************)
(* Before the store is initialized there is nothing in it.                 *)
(***************************************************************************)
LEMMA InitializeInv ==
    ASSUME IInv, Initialize
    PROVE  IInv'
<1> USE SizesAssumption DEF IInv
<1>1. /\ stored = 0 /\ stored' = 1 /\ held' \in {0, 1}
      /\ UNCHANGED <<row, current, late, put, request, walk, page, examined, completed>>
  BY DEF Initialize, storeVars, rotateVars, walkVars
<1>2. ~Active /\ ~Active'
  BY <1>1 DEF CursorInv, Active
<1>3. TypeOK'
  BY <1>1 DEF TypeOK
<1>4. KeyInv'
  <2>1. completed = 0
    BY <1>1 DEF KeyInv, TypeOK
  <2>2. \A k \in Key : row[k].kek \in 0..MaxKEK /\ row[k].kek <= 0
    BY <1>1 DEF KeyInv, TypeOK, Row
  <2>3. \A w \in Writers : put[w].kek \in 0..MaxKEK /\ put[w].kek <= 0
    BY <1>1 DEF KeyInv, TypeOK, Put
  <2> QED
    BY <1>1, <2>1, <2>2, <2>3 DEF KeyInv
<1>5. PutInv'
  BY <1>1, <1>2 DEF PutInv
<1>6. CursorInv'
  BY <1>1, <1>2 DEF CursorInv, Active
<1>7. PageInv' /\ WalkInv'
  BY <1>1, <1>2 DEF PageInv, WalkInv, CursorInv, NoPage
<1>8. ValuesOpen' /\ DestroyedStaysErased' /\ NothingLeftBehind'
  BY <1>1 DEF ValuesOpen, DestroyedStaysErased, NothingLeftBehind, IsLive, Opens, Overtaken
<1> QED
  BY <1>3, <1>4, <1>5, <1>6, <1>7, <1>8

LEMMA ClaimInv ==
    ASSUME IInv, NEW r \in Requests, Claim(r)
    PROVE  IInv'
<1> USE SizesAssumption DEF IInv
<1>1. /\ walk.pc = "free" /\ walk' = [FreeWalk EXCEPT !.pc = "claimed"]
      /\ request' = [request EXCEPT ![r].pc = "rotating"]
      /\ UNCHANGED <<stored, held, row, current, late, put, page, examined, completed>>
  BY DEF Claim, keyVars, storeVars
<1>2. /\ walk' \in Walk /\ walk'.pc = "claimed"
      /\ walk'.subject = Secret /\ walk'.at = ZeroCursor
  BY <1>1, PlaceFacts DEF FreeWalk, Walk
<1>3. ~Active /\ ~Active'
  BY <1>1, <1>2 DEF Active
<1>4. TypeOK'
  BY <1>1, <1>2, RequestTypes DEF TypeOK
<1>5. KeyInv' /\ PutInv'
  BY <1>1, <1>3 DEF KeyInv, PutInv
<1>6. CursorInv'
  BY <1>1, <1>2, <1>3 DEF CursorInv
<1>7. PageInv' /\ WalkInv'
  BY <1>1, <1>3 DEF PageInv, WalkInv, CursorInv, NoPage
<1>8. ValuesOpen' /\ DestroyedStaysErased' /\ NothingLeftBehind'
  BY <1>1 DEF ValuesOpen, DestroyedStaysErased, NothingLeftBehind, IsLive, Opens, Overtaken
<1> QED
  BY <1>4, <1>5, <1>6, <1>7, <1>8

(***************************************************************************)
(* Raising the version overtakes every write in flight.                    *)
(***************************************************************************)
LEMMA RaiseStoredFacts ==
    ASSUME IInv, RaiseStored
    PROVE  /\ walk.pc = "claimed" /\ held # 0 /\ stored' = stored + 1
           /\ stored' \in 0..MaxKEK
           /\ put' \in [Writers -> Put]
           /\ \A w \in Writers : /\ put'[w].pc # "sealed" /\ put'[w].kek = put[w].kek
                                 /\ put'[w].pc # "idle" =>
                                       put'[w].path \in ParamPaths /\ put'[w].dek \in DEK
<1> USE SizesAssumption DEF IInv
<1>1. /\ walk.pc = "claimed" /\ held # 0 /\ stored < MaxKEK /\ stored' = stored + 1
      /\ put' = [w \in Writers |->
                   IF put[w].pc = "sealed" THEN [put[w] EXCEPT !.pc = "overtaken"]
                   ELSE put[w]]
  BY DEF RaiseStored
<1>2. stored' \in 0..MaxKEK
  BY <1>1 DEF TypeOK
<1>3. \A w \in Writers : put'[w] \in Put /\ put'[w].kek = put[w].kek
  BY <1>1 DEF TypeOK, Put
<1>4. \A w \in Writers : put'[w].pc # "sealed"
  BY <1>1 DEF TypeOK, Put
<1>5. \A w \in Writers : put'[w].pc # "idle" =>
                              put'[w].path \in ParamPaths /\ put'[w].dek \in DEK
  BY <1>1 DEF TypeOK, Put, PutInv
<1> QED
  BY <1>1, <1>2, <1>3, <1>4, <1>5

LEMMA RotateUnreportedInv ==
    ASSUME IInv, NEW r \in Requests, RotateUnreported(r)
    PROVE  IInv'
<1> USE SizesAssumption DEF IInv
<1>1. RaiseStored /\ Release(r) /\ UNCHANGED <<held, row, current, late, completed>>
  BY DEF RotateUnreported, storeVars
<1>2. request' \in [Requests -> Request]
  BY <1>1, RequestTypes DEF Release
<1>3. held' \in 0..MaxKEK /\ completed' \in 0..MaxKEK
  BY <1>1 DEF TypeOK
<1>4. KeyInv'
  <2>1. \A k \in Key : row[k].kek \in 0..MaxKEK
    BY DEF TypeOK, Row
  <2>2. \A w \in Writers : put[w].kek \in 0..MaxKEK
    BY DEF TypeOK, Put
  <2> QED
    BY <1>1, <2>1, <2>2, RaiseStoredFacts DEF KeyInv, TypeOK
<1>5. PutInv'
  BY <1>1, RaiseStoredFacts DEF PutInv
<1>6. NothingLeftBehind'
  BY <1>1 DEF NothingLeftBehind, IsLive, Overtaken
<1>7. walk' = FreeWalk /\ page' = NoPage /\ examined' = {}
  BY <1>1 DEF Release
<1> QED
  BY <1>1, <1>2, <1>3, <1>4, <1>5, <1>6, <1>7, RaiseStoredFacts, WalkGivenUp

(***************************************************************************)
(* A walk begins before every row of its first subject.                    *)
(***************************************************************************)
LEMMA RotateInv ==
    ASSUME IInv, NEW r \in Requests, Rotate(r)
    PROVE  IInv'
<1> USE SizesAssumption DEF IInv
<1>1. /\ RaiseStored /\ held' = stored + 1
      /\ walk' = [walk EXCEPT !.pc = "walking", !.to = stored + 1]
      /\ UNCHANGED <<row, current, late, request, page, examined, completed>>
  BY DEF Rotate, storeVars
<1>2. /\ walk.subject = Secret /\ walk.at = ZeroCursor
      /\ page = NoPage /\ DOMAIN page = {} /\ examined = {}
  BY <1>1, RaiseStoredFacts DEF CursorInv, Active, NoPage
<1>3. stored' = stored + 1 /\ stored' \in 0..MaxKEK /\ stored \in 0..MaxKEK /\ stored' # 0
  BY <1>1, RaiseStoredFacts DEF TypeOK
<1>4. /\ walk'.pc = "walking" /\ walk'.to = stored' /\ walk'.subject = Secret
      /\ walk'.at = ZeroCursor
  BY <1>1, <1>2, <1>3 DEF TypeOK, Walk
<1>5. walk' \in Walk
  BY <1>1, <1>3 DEF TypeOK, Walk
<1>6. TypeOK'
  BY <1>1, <1>3, <1>5, RaiseStoredFacts DEF TypeOK
<1>7. KeyInv'
  <2>1. \A k \in Key : row[k].kek \in 0..MaxKEK
    BY DEF TypeOK, Row
  <2>2. \A w \in Writers : put[w].kek \in 0..MaxKEK
    BY DEF TypeOK, Put
  <2> QED
    BY <1>1, <1>3, <2>1, <2>2, RaiseStoredFacts DEF KeyInv, TypeOK
<1>8. PutInv'
  BY <1>1, RaiseStoredFacts DEF PutInv
<1>9. CursorInv'
  BY <1>1, <1>2, <1>3, <1>4 DEF CursorInv, Active
<1>10. PageInv'
  BY <1>1, <1>2 DEF PageInv
<1>11. WalkInv'
  BY <1>1, <1>2, <1>4, KeyFacts, PlaceFacts DEF WalkInv, Ahead
<1>12. ValuesOpen' /\ DestroyedStaysErased' /\ NothingLeftBehind'
  BY <1>1 DEF ValuesOpen, DestroyedStaysErased, NothingLeftBehind, IsLive, Opens, Overtaken
<1> QED
  BY <1>6, <1>7, <1>8, <1>9, <1>10, <1>11, <1>12

(***************************************************************************)
(* When nothing remains after the cursor of the last subject, every row is *)
(* on the version the walk moved to.                                       *)
(***************************************************************************)
LEMMA FinishInv ==
    ASSUME IInv, NEW r \in Requests, Finish(r)
    PROVE  IInv'
<1> USE SizesAssumption DEF IInv
<1>1. /\ walk.pc = "walking" /\ DOMAIN page = {} /\ Remaining = {}
      /\ walk.subject = Param /\ completed' = walk.to /\ Release(r)
      /\ UNCHANGED <<stored, held, row, current, late, put>>
  BY DEF Finish, keyVars, storeVars
<1>2. /\ Active /\ completed' = stored /\ held \in {0, stored}
      /\ stored \in 0..MaxKEK /\ held \in 0..MaxKEK
  BY <1>1 DEF CursorInv, Active, TypeOK
<1>3. request' \in [Requests -> Request]
  BY <1>1, RequestTypes DEF Release
<1>4. KeyInv'
  BY <1>1, <1>2 DEF KeyInv
<1>5. PutInv'
  <2>1. ~Active'
    BY <1>1 DEF Release, Active, FreeWalk
  <2> QED
    BY <1>1, <1>2, <2>1 DEF PutInv
<1>6. NothingLeftBehind'
  <2> SUFFICES ASSUME NEW k \in Key, IsLive(k), ~Overtaken(k)
               PROVE  row[k].kek >= stored
    BY <1>1, <1>2 DEF NothingLeftBehind, IsLive, Overtaken
  <2>1. row[k].kek >= stored \/ Ahead(k)
    BY <1>2 DEF WalkInv
  <2>2. ~Ahead(k)
    BY <1>1, KeyFacts DEF Ahead, Remaining
  <2> QED
    BY <2>1, <2>2
<1>7. walk' = FreeWalk /\ page' = NoPage /\ examined' = {}
  BY <1>1 DEF Release
<1>8. stored' \in 0..MaxKEK /\ held' \in 0..MaxKEK /\ completed' \in 0..MaxKEK
      /\ put' \in [Writers -> Put]
  BY <1>1, <1>2 DEF TypeOK
<1> QED
  BY <1>1, <1>3, <1>4, <1>5, <1>6, <1>7, <1>8, WalkGivenUp

-----------------------------------------------------------------------------
(* Steps of the walk *)

(***************************************************************************)
(* A step of the walk keeps what is said of versions, writes and rows.     *)
(***************************************************************************)
LEMMA OnlyWalkMoves ==
    ASSUME IInv, Active, Active',
           UNCHANGED <<stored, held, row, current, late, put, request, completed>>
    PROVE  /\ KeyInv' /\ PutInv'
           /\ ValuesOpen' /\ DestroyedStaysErased' /\ NothingLeftBehind'
<1>1. KeyInv' /\ PutInv'
  BY DEF IInv, KeyInv, PutInv
<1>2. ValuesOpen' /\ DestroyedStaysErased' /\ NothingLeftBehind'
  BY DEF IInv, ValuesOpen, DestroyedStaysErased, NothingLeftBehind, IsLive, Opens,
         Overtaken
<1> QED
  BY <1>1, <1>2

LEMMA ReadPageInv ==
    ASSUME IInv, NEW r \in Requests, ReadPage(r)
    PROVE  IInv'
<1> USE DEF IInv
<1>1. PICK S \in SUBSET Remaining : IsPage(S) /\ page' = [k \in S |-> row[k]]
  BY DEF ReadPage
<1>2. /\ walk.pc = "walking" /\ DOMAIN page = {}
      /\ UNCHANGED <<stored, held, row, current, late, put, request, walk, examined,
                     completed>>
  BY DEF ReadPage, keyVars, storeVars
<1>3. Active /\ Active'
  BY <1>2 DEF Active
<1>4. /\ DOMAIN page' = S /\ S \subseteq Key
      /\ \A k \in S : /\ page'[k] = row[k] /\ Subject(k) = walk.subject
                      /\ Before(walk.at, Place(k))
  BY <1>1 DEF Remaining
<1>5. TypeOK'
  <2>1. page' \in [S -> Row]
    BY <1>1, <1>4 DEF TypeOK
  <2> QED
    BY <1>2, <1>4, <2>1 DEF TypeOK
<1>6. CursorInv'
  BY <1>2, <1>3, <1>4 DEF CursorInv, Active
<1>7. PageInv'
  <2> SUFFICES ASSUME NEW k \in S, IsLive(k), ~Overtaken(k), row[k].kek < stored
               PROVE  row[k].ct = row[k].dek
    BY <1>2, <1>4 DEF PageInv, IsLive, Overtaken
  <2> QED
    BY <1>4 DEF ValuesOpen, Opens
<1>8. WalkInv'
  <2> SUFFICES ASSUME NEW k \in Key, IsLive(k), ~Overtaken(k), Ahead(k)
               PROVE  Ahead(k)'
    BY <1>2, <1>3 DEF WalkInv, IsLive, Overtaken
  <2>1. CASE Subject(k) > walk.subject
    BY <1>2, <2>1 DEF Ahead
  <2>2. CASE Subject(k) = walk.subject /\ k \in S
    BY <1>2, <1>4, <2>2 DEF Ahead
  <2>3. CASE Subject(k) = walk.subject /\ k \notin S
    <3>1. Before(walk.at, Place(k))
      BY <1>2, <2>3, KeyFacts DEF Ahead
    <3>2. k \in Remaining \ S
      BY <2>3, <3>1 DEF Remaining
    <3>3. \A j \in S : Before(Place(j), Place(k))
      BY <1>1, <3>2 DEF IsPage
    <3> QED
      BY <1>2, <1>4, <2>3, <3>1, <3>3 DEF Ahead
  <2> QED
    BY <2>1, <2>2, <2>3 DEF Ahead
<1> QED
  BY <1>2, <1>3, <1>5, <1>6, <1>7, <1>8, OnlyWalkMoves

LEMMA NextSubjectInv ==
    ASSUME IInv, NEW r \in Requests, NextSubject(r)
    PROVE  IInv'
<1> USE DEF IInv
<1>1. /\ walk.pc = "walking" /\ DOMAIN page = {} /\ Remaining = {}
      /\ walk.subject = Secret
      /\ walk' = [walk EXCEPT !.subject = Param, !.at = ZeroCursor]
      /\ UNCHANGED <<stored, held, row, current, late, put, request, page, examined,
                     completed>>
  BY DEF NextSubject, keyVars, storeVars
<1>2. /\ walk'.pc = "walking" /\ walk'.to = walk.to /\ walk'.subject = Param
      /\ walk'.at = ZeroCursor
  BY <1>1 DEF TypeOK, Walk
<1>3. walk' \in Walk
  BY <1>1, PlaceFacts DEF TypeOK, Walk
<1>4. Active /\ Active'
  BY <1>1, <1>2 DEF Active
<1>5. TypeOK'
  BY <1>1, <1>3 DEF TypeOK
<1>6. CursorInv'
  <2>1. \A k \in examined : k \in Key /\ Subject(k) < Param
    BY <1>1, <1>4, KeyFacts DEF CursorInv, TypeOK
  <2> QED
    BY <1>1, <1>2, <1>4, <2>1 DEF CursorInv
<1>7. PageInv'
  BY <1>1 DEF PageInv
<1>8. WalkInv'
  <2> SUFFICES ASSUME NEW k \in Key, IsLive(k), ~Overtaken(k), Ahead(k)
               PROVE  Ahead(k)'
    BY <1>1, <1>4 DEF WalkInv, IsLive, Overtaken
  <2>1. Subject(k) = Param
    BY <1>1, KeyFacts DEF Ahead, Remaining
  <2> QED
    BY <1>1, <1>2, <2>1, PlaceFacts DEF Ahead
<1> QED
  BY <1>1, <1>4, <1>5, <1>6, <1>7, <1>8, OnlyWalkMoves

(***************************************************************************)
(* The first row of a page, once examined, is where the cursor stands:     *)
(* everything examined lies at or before it and everything else after.     *)
(***************************************************************************)
LEMMA CursorAdvances ==
    ASSUME IInv, walk.pc = "walking", NEW k \in DOMAIN page, IsFirst(k)
    PROVE  /\ k \in Key /\ Subject(k) = walk.subject /\ Place(k) \in Cursor
           /\ ~Before(Place(k), Place(k))
           /\ \A j \in DOMAIN page \ {k} : Before(Place(k), Place(j))
           /\ \A j \in examined : \/ Subject(j) < walk.subject
                                  \/ /\ Subject(j) = walk.subject
                                     /\ ~Before(Place(k), Place(j))
<1> USE DEF IInv
<1>1. k \in Key /\ Subject(k) = walk.subject /\ Before(walk.at, Place(k)) /\ Active
  BY DEF CursorInv, Active, TypeOK
<1>2. Place(k) \in Cursor /\ walk.at \in Cursor
  BY <1>1, PlaceFacts DEF TypeOK, Walk
<1>3. \A j \in DOMAIN page \ {k} : Before(Place(k), Place(j))
  BY DEF IsFirst
<1>4. ASSUME NEW j \in examined
      PROVE  \/ Subject(j) < walk.subject
             \/ Subject(j) = walk.subject /\ ~Before(Place(k), Place(j))
  <2>1. Place(j) \in Cursor
    BY PlaceFacts DEF TypeOK
  <2> QED
    BY <1>1, <1>2, <2>1, BeforeOrder DEF CursorInv
<1> QED
  BY <1>1, <1>2, <1>3, <1>4, BeforeOrder

LEMMA AlreadyCurrentInv ==
    ASSUME IInv, NEW r \in Requests, AlreadyCurrent(r)
    PROVE  IInv'
<1> USE DEF IInv
<1>1. PICK k \in DOMAIN page :
        /\ IsFirst(k) /\ held # 0 /\ page[k].kek = held
        /\ walk' = [walk EXCEPT !.at = Place(k)]
        /\ page' = Without(k) /\ examined' = examined \cup {k}
  BY DEF AlreadyCurrent
<1>2. /\ walk.pc = "walking"
      /\ UNCHANGED <<stored, held, row, current, late, put, request, completed>>
  BY DEF AlreadyCurrent, keyVars, storeVars
<1>3. /\ k \in Key /\ Subject(k) = walk.subject /\ Place(k) \in Cursor
      /\ \A j \in DOMAIN page \ {k} : Before(Place(k), Place(j))
  BY <1>1, <1>2, CursorAdvances
<1>4. /\ walk'.pc = "walking" /\ walk'.to = walk.to
      /\ walk'.subject = walk.subject /\ walk'.at = Place(k)
  BY <1>1, <1>2 DEF TypeOK, Walk
<1>5. walk' \in Walk
  BY <1>1, <1>3 DEF TypeOK, Walk
<1>6. Active /\ Active'
  BY <1>2, <1>4 DEF Active
<1>7. held = stored /\ page[k].kek = stored /\ stored \in 0..MaxKEK
  BY <1>1, <1>6 DEF CursorInv, TypeOK
<1>8. /\ DOMAIN page' = DOMAIN page \ {k}
      /\ \A j \in DOMAIN page \ {k} : page'[j] = page[j]
  BY <1>1 DEF Without
<1>9. TypeOK'
  <2>1. DOMAIN page' \subseteq Key /\ page' \in [DOMAIN page' -> Row]
    BY <1>1, <1>8 DEF TypeOK, Without
  <2>2. examined' \subseteq Key
    BY <1>1, <1>3 DEF TypeOK
  <2> QED
    BY <1>2, <1>5, <2>1, <2>2 DEF TypeOK
<1>10. CursorInv'
  <2>1. \A j \in examined' : \/ Subject(j) < walk'.subject
                             \/ Subject(j) = walk'.subject /\ ~Before(walk'.at, Place(j))
    BY <1>1, <1>2, <1>4, CursorAdvances
  <2> QED
    BY <1>2, <1>3, <1>4, <1>6, <1>8, <2>1 DEF CursorInv
<1>11. PageInv'
  BY <1>2, <1>8 DEF PageInv, IsLive, Overtaken
<1>12. WalkInv'
  <2> SUFFICES ASSUME NEW j \in Key, IsLive(j), ~Overtaken(j)
               PROVE  row[j].kek >= stored \/ Ahead(j)'
    BY <1>2, <1>6 DEF WalkInv, IsLive, Overtaken
  <2>1. row[j].kek >= stored \/ Ahead(j)
    BY <1>6 DEF WalkInv
  <2>2. CASE j = k
    BY <1>3, <1>7, <2>1, <2>2, KeyFacts DEF Ahead
  <2>3. CASE j # k
    BY <1>2, <1>4, <1>8, <2>1, <2>3 DEF Ahead
  <2> QED
    BY <2>2, <2>3
<1> QED
  BY <1>2, <1>6, <1>9, <1>10, <1>11, <1>12, OnlyWalkMoves

LEMMA RewrapInv ==
    ASSUME IInv, NEW r \in Requests, Rewrap(r)
    PROVE  IInv'
<1> USE SizesAssumption DEF IInv
<1>1. PICK k \in DOMAIN page :
        /\ IsFirst(k) /\ page[k].kek < held
        /\ walk' = [walk EXCEPT !.pc = "writing", !.at = Place(k), !.under = held]
        /\ examined' = examined \cup {k}
  BY DEF Rewrap
<1>2. /\ walk.pc = "walking"
      /\ UNCHANGED <<stored, held, row, current, late, put, request, page, completed>>
  BY DEF Rewrap, keyVars, storeVars
<1>3. /\ k \in Key /\ Subject(k) = walk.subject /\ Place(k) \in Cursor
      /\ \A j \in DOMAIN page \ {k} : Before(Place(k), Place(j))
  BY <1>1, <1>2, CursorAdvances
<1>4. held \in 0..MaxKEK /\ page[k].kek \in 0..MaxKEK
  BY DEF TypeOK, Row
<1>5. /\ walk'.pc = "writing" /\ walk'.to = walk.to /\ walk'.under = held
      /\ walk'.subject = walk.subject /\ walk'.at = Place(k)
  BY <1>1, <1>2 DEF TypeOK, Walk
<1>6. walk' \in Walk
  BY <1>1, <1>3, <1>4 DEF TypeOK, Walk
<1>7. Active /\ Active'
  BY <1>2, <1>5 DEF Active
<1>8. held # 0
  BY <1>1, <1>4
<1>9. held = stored
  BY <1>7, <1>8 DEF CursorInv
<1>10. TypeOK'
  <2>1. examined' \subseteq Key
    BY <1>1, <1>3 DEF TypeOK
  <2> QED
    BY <1>2, <1>6, <2>1 DEF TypeOK
<1>11. CursorInv'
  <2>1. \A j \in examined' : \/ Subject(j) < walk'.subject
                             \/ Subject(j) = walk'.subject /\ ~Before(walk'.at, Place(j))
    BY <1>1, <1>2, <1>5, CursorAdvances
  <2>2. /\ \E j \in DOMAIN page : Place(j) = walk'.at
        /\ \A j \in DOMAIN page : \/ Place(j) = walk'.at /\ page[j].kek < stored
                                  \/ Before(walk'.at, Place(j))
    BY <1>1, <1>3, <1>5, <1>9
  <2> QED
    BY <1>2, <1>5, <1>7, <1>9, <2>1, <2>2 DEF CursorInv
<1>12. PageInv'
  BY <1>2 DEF PageInv, IsLive, Overtaken
<1>13. WalkInv'
  <2> SUFFICES ASSUME NEW j \in Key, Ahead(j)
               PROVE  Ahead(j)'
    BY <1>2, <1>7 DEF WalkInv, IsLive, Overtaken
  <2> QED
    BY <1>2, <1>5 DEF Ahead
<1> QED
  BY <1>2, <1>7, <1>10, <1>11, <1>12, <1>13, OnlyWalkMoves

(***************************************************************************)
(* The row written back is the one the cursor stands at. If it is still on *)
(* the version read, its ciphertext was made with the data key read.       *)
(***************************************************************************)
LEMMA ReplaceWrappingInv ==
    ASSUME IInv, NEW r \in Requests, ReplaceWrapping(r)
    PROVE  IInv'
<1> USE SizesAssumption DEF IInv
<1>1. PICK k \in DOMAIN page :
        /\ IsFirst(k)
        /\ row' = IF StillWrapped(k) THEN [row EXCEPT ![k] = Rewrapped(k)] ELSE row
        /\ walk' = [walk EXCEPT !.pc = "walking", !.under = 0]
        /\ page' = Without(k)
  BY DEF ReplaceWrapping
<1>2. /\ walk.pc = "writing"
      /\ UNCHANGED <<stored, held, current, late, put, request, examined, completed>>
  BY DEF ReplaceWrapping, keyVars
<1>3. Active /\ walk.under = stored /\ held \in {0, stored}
  BY <1>2 DEF CursorInv, Active
<1>4. k \in Key /\ Subject(k) = walk.subject
  BY <1>3 DEF CursorInv, TypeOK
<1>5. Place(k) = walk.at /\ page[k].kek < stored
  <2>1. PICK i \in DOMAIN page : Place(i) = walk.at
    BY <1>2 DEF CursorInv
  <2>2. i \in Key /\ Place(i) \in Cursor /\ Place(k) \in Cursor
    BY <1>4, PlaceFacts DEF TypeOK
  <2>3. ~Before(walk.at, Place(k))
    <3>1. i # k => Before(Place(k), walk.at)
      BY <1>1, <2>1 DEF IsFirst
    <3> QED
      BY <2>1, <2>2, <3>1, BeforeOrder
  <2> QED
    BY <1>2, <2>3 DEF CursorInv
<1>6. /\ walk'.pc = "walking" /\ walk'.to = walk.to
      /\ walk'.subject = walk.subject /\ walk'.at = walk.at
  BY <1>1, <1>2 DEF TypeOK, Walk
<1>7. walk' \in Walk
  <2>1. 0 \in 0..MaxKEK
    OBVIOUS
  <2> QED
    BY <1>1, <2>1 DEF TypeOK, Walk
<1>8. Active'
  BY <1>6 DEF Active
<1>9. /\ DOMAIN page' = DOMAIN page \ {k}
      /\ \A j \in DOMAIN page \ {k} : page'[j] = page[j]
  BY <1>1 DEF Without
<1>10. /\ \A j \in Key : row[j] \in Row /\ row[j].kek \in 0..MaxKEK
       /\ stored \in 0..MaxKEK /\ held \in 0..MaxKEK /\ completed \in 0..MaxKEK
       /\ page[k] \in Row
  BY DEF TypeOK, Row
<1>11. \A j \in Key : j # k => row'[j] = row[j]
  BY <1>1, <1>4 DEF TypeOK
<1>12. CASE ~StillWrapped(k)
  <2>1. row' = row
    BY <1>1, <1>12
  <2>2. TypeOK'
    <3>1. DOMAIN page' \subseteq Key /\ page' \in [DOMAIN page' -> Row]
      BY <1>1, <1>9 DEF TypeOK, Without
    <3> QED
      BY <1>2, <1>7, <2>1, <3>1 DEF TypeOK
  <2>3. CursorInv'
    BY <1>1, <1>2, <1>3, <1>5, <1>6, <1>8, <1>9 DEF CursorInv, IsFirst
  <2>4. PageInv'
    BY <1>2, <1>9, <2>1 DEF PageInv, IsLive, Overtaken
  <2>5. WalkInv'
    <3> SUFFICES ASSUME NEW j \in Key, IsLive(j), ~Overtaken(j)
                 PROVE  row[j].kek >= stored \/ Ahead(j)'
      BY <1>2, <1>8, <2>1 DEF WalkInv, IsLive, Overtaken
    <3>1. row[j].kek >= stored \/ Ahead(j)
      BY <1>3 DEF WalkInv
    <3>2. CASE j = k
      BY <1>4, <1>12, <3>1, <3>2, KeyFacts DEF Ahead, StillWrapped
    <3>3. CASE j # k
      BY <1>6, <1>9, <2>1, <3>1, <3>3 DEF Ahead
    <3> QED
      BY <3>2, <3>3
  <2> QED
    BY <1>2, <1>3, <1>8, <2>1, <2>2, <2>3, <2>4, <2>5, OnlyWalkMoves
<1>13. CASE StillWrapped(k)
  <2>1. row'[k] = Rewrapped(k) /\ IsLive(k) /\ row[k].kek = page[k].kek
    BY <1>1, <1>4, <1>13 DEF StillWrapped, TypeOK
  <2>2. /\ row'[k].state = "live" /\ row'[k].kek = stored /\ row'[k].under = stored
        /\ row'[k].dek = page[k].dek /\ row'[k].ct = row[k].ct
    BY <1>3, <2>1 DEF Rewrapped, IsLive
  <2>3. ~Overtaken(k) => Opens(row'[k])
    <3>1. ~Overtaken(k) => row[k].ct = page[k].dek
      BY <1>5, <2>1 DEF PageInv
    <3>2. ~Overtaken(k) => row[k].dek = row[k].ct /\ row[k].dek # NoDEK
      BY <1>4, <2>1 DEF ValuesOpen, Opens
    <3> QED
      BY <2>2, <3>1, <3>2 DEF Opens
  <2>4. TypeOK'
    <3>1. DOMAIN page' \subseteq Key /\ page' \in [DOMAIN page' -> Row]
      BY <1>1, <1>9 DEF TypeOK, Without
    <3>2. Rewrapped(k) \in Row
      BY <1>3, <1>4, <1>10 DEF Rewrapped, Row
    <3>3. row' \in [Key -> Row]
      BY <1>1, <1>13, <3>2 DEF TypeOK
    <3> QED
      BY <1>2, <1>7, <3>1, <3>3 DEF TypeOK
  <2>5. KeyInv'
    <3>1. \A j \in Key : row'[j].kek <= stored /\ (held # 0 => row'[j].kek <= held)
      BY <1>3, <1>10, <1>11, <2>2 DEF KeyInv
    <3> QED
      BY <1>2, <3>1 DEF KeyInv
  <2>6. PutInv'
    BY <1>2, <1>3 DEF PutInv
  <2>7. CursorInv'
    BY <1>1, <1>2, <1>3, <1>5, <1>6, <1>8, <1>9 DEF CursorInv, IsFirst
  <2>8. PageInv'
    <3> SUFFICES ASSUME NEW j \in DOMAIN page \ {k}, IsLive(j)', ~Overtaken(j),
                        row'[j].kek = page[j].kek, page[j].kek < stored
                 PROVE  row'[j].ct = page[j].dek
      BY <1>2, <1>9 DEF PageInv, Overtaken
    <3>1. row'[j] = row[j]
      BY <1>11 DEF TypeOK
    <3> QED
      BY <3>1 DEF PageInv, IsLive
  <2>9. WalkInv'
    <3> SUFFICES ASSUME NEW j \in Key, IsLive(j)', ~Overtaken(j)
                 PROVE  row'[j].kek >= stored \/ Ahead(j)'
      BY <1>2, <1>8 DEF WalkInv, Overtaken
    <3>1. CASE j = k
      BY <1>10, <2>2, <3>1
    <3>2. CASE j # k
      <4>1. row'[j] = row[j]
        BY <1>11, <3>2
      <4>2. row[j].kek >= stored \/ Ahead(j)
        BY <1>3, <4>1 DEF WalkInv, IsLive
      <4> QED
        BY <1>6, <1>9, <3>2, <4>1, <4>2 DEF Ahead
    <3> QED
      BY <3>1, <3>2
  <2>10. ValuesOpen' /\ NothingLeftBehind'
    <3> SUFFICES ASSUME NEW j \in Key, IsLive(j)', ~Overtaken(j)
                 PROVE  Opens(row'[j]) /\ row'[j].kek >= completed
      BY <1>2 DEF ValuesOpen, NothingLeftBehind, Overtaken
    <3>1. CASE j = k
      BY <1>10, <2>2, <2>3, <3>1 DEF KeyInv
    <3>2. CASE j # k
      <4>1. row'[j] = row[j]
        BY <1>11, <3>2
      <4> QED
        BY <4>1 DEF ValuesOpen, NothingLeftBehind, IsLive
    <3> QED
      BY <3>1, <3>2
  <2>11. DestroyedStaysErased'
    BY <1>11, <2>2 DEF DestroyedStaysErased
  <2> QED
    BY <2>4, <2>5, <2>6, <2>7, <2>8, <2>9, <2>10, <2>11
<1> QED
  BY <1>12, <1>13

-----------------------------------------------------------------------------
(* The invariant is inductive *)

LEMMA StoreStepInv == IInv /\ StoreStep => IInv'
<1> SUFFICES ASSUME IInv, StoreStep PROVE IInv'
    OBVIOUS
<1>1. CASE \E p \in SecretPaths : SecretPut(p)
  BY <1>1, SecretPutInv
<1>2. CASE \E w \in Writers, p \in ParamPaths : ParamSeal(w, p)
  BY <1>2, ParamSealInv
<1>3. CASE \E w \in Writers : ParamUpsert(w) \/ ParamPutFails(w)
  BY <1>3, ParamUpsertInv, ParamPutFailsInv
<1>4. CASE \E p \in ParamPaths : ParamDelete(p)
  BY <1>4, ParamDeleteInv
<1>5. CASE \E p \in SecretPaths, v \in Versions : SecretDestroy(p, v)
  BY <1>5, SecretDestroyInv
<1> QED
  BY <1>1, <1>2, <1>3, <1>4, <1>5 DEF StoreStep

LEMMA KeyStepInv == IInv /\ KeyStep => IInv'
<1> SUFFICES ASSUME IInv, KeyStep PROVE IInv'
    OBVIOUS
<1>1. CASE Initialize
  BY <1>1, InitializeInv
<1>2. CASE Unseal \/ SealStore
  <2>1. held' \in {0, stored} /\ UNCHANGED <<stored, row, current, late, put, request,
                                           walk, page, examined, completed>>
    BY <1>2 DEF Unseal, SealStore, storeVars, rotateVars, walkVars
  <2> QED
    BY <2>1, HeldInv
<1>3. CASE Restart
  BY <1>3, RestartInv
<1> QED
  BY <1>1, <1>2, <1>3 DEF KeyStep

LEMMA RotateStepInv ==
    ASSUME IInv, NEW r \in Requests, RotateStep(r)
    PROVE  IInv'
<1>1. CASE CheckVersion(r, stored) \/ InProgress(r)
  <2>1. /\ \/ request' = [request EXCEPT ![r] = [pc |-> "checked", named |-> stored]]
           \/ request' = [request EXCEPT ![r] = IdleRequest]
        /\ UNCHANGED <<stored, held, row, current, late, put, walk, page, examined,
                       completed>>
    BY <1>1 DEF CheckVersion, InProgress, keyVars, storeVars, walkVars
  <2>2. request' \in [Requests -> Request]
    BY <2>1, RequestTypes DEF IInv
  <2> QED
    BY <2>1, <2>2, RequestInv
<1>2. CASE Abandon(r) \/ RewrapRefused(r)
  <2>1. Release(r) /\ UNCHANGED <<stored, held, row, current, late, put, completed>>
    BY <1>2 DEF Abandon, RewrapRefused, keyVars, storeVars
  <2> QED
    BY <2>1, AbandonInv
<1>3. CASE Claim(r)
  BY <1>3, ClaimInv
<1>4. CASE Rotate(r)
  BY <1>4, RotateInv
<1>5. CASE RotateUnreported(r)
  BY <1>5, RotateUnreportedInv
<1>6. CASE ReadPage(r)
  BY <1>6, ReadPageInv
<1>7. CASE NextSubject(r)
  BY <1>7, NextSubjectInv
<1>8. CASE Finish(r)
  BY <1>8, FinishInv
<1>9. CASE AlreadyCurrent(r)
  BY <1>9, AlreadyCurrentInv
<1>10. CASE Rewrap(r)
  BY <1>10, RewrapInv
<1>11. CASE ReplaceWrapping(r)
  BY <1>11, ReplaceWrappingInv
<1> QED
  BY <1>1, <1>2, <1>3, <1>4, <1>5, <1>6, <1>7, <1>8, <1>9, <1>10, <1>11 DEF RotateStep

LEMMA StutterInv == IInv /\ UNCHANGED vars => IInv'
<1> SUFFICES ASSUME IInv, UNCHANGED vars PROVE IInv'
    OBVIOUS
<1>1. UNCHANGED <<stored, held, row, current, late, put, request, walk, page, examined,
                  completed>>
  BY DEF vars
<1>2. request' \in [Requests -> Request]
  BY <1>1 DEF IInv, TypeOK
<1> QED
  BY <1>1, <1>2, RequestInv

(***************************************************************************)
(* The inductive invariant holds in every reachable state, whatever the    *)
(* number of values, writers, requests and rotations and the page size.    *)
(***************************************************************************)
THEOREM Invariance == Spec => []IInv
<1>1. IInv /\ [Next]_vars => IInv'
  BY StoreStepInv, KeyStepInv, RotateStepInv, StutterInv DEF Next
<1> QED
  BY <1>1, InitInv, PTL DEF Spec

-----------------------------------------------------------------------------
(* What follows from it *)

(***************************************************************************)
(* Every variable of the rotation keeps its type.                          *)
(***************************************************************************)
THEOREM TypeCorrect == Spec => []TypeOK
BY Invariance, PTL DEF IInv

(***************************************************************************)
(* No value and no write in flight is ahead of the version an open store   *)
(* holds, so rewrapping never meets a version it does not have.            *)
(***************************************************************************)
THEOREM NothingAheadOfKey == Spec => []NoValueAheadOfKey
<1>1. IInv => NoValueAheadOfKey
  BY DEF IInv, KeyInv, NoValueAheadOfKey
<1> QED
  BY <1>1, Invariance, PTL

(***************************************************************************)
(* Every live value opens at every moment of a rotation, unless its write  *)
(* is a parameter's that the rotation overtook.                            *)
(***************************************************************************)
THEOREM ValuesStayReadable == Spec => []ValuesOpen
BY Invariance, PTL DEF IInv

(***************************************************************************)
(* A destroyed version never gets key material back from a rotation.       *)
(***************************************************************************)
THEOREM DestructionIsFinal == Spec => []DestroyedStaysErased
BY Invariance, PTL DEF IInv

(***************************************************************************)
(* A rotation that reports success left no value on an older version,      *)
(* unless a parameter write it overtook was stored behind the cursor.      *)
(***************************************************************************)
THEOREM RotationIsComplete == Spec => []NothingLeftBehind
BY Invariance, PTL DEF IInv

(***************************************************************************)
(* No rotation examines a row twice.                                       *)
(***************************************************************************)
THEOREM CursorNeverReturns == Spec => []ExaminedOnce
<1>1. IInv => ExaminedOnce
  <2> SUFFICES ASSUME IInv, walk.pc = "walking", NEW k \in DOMAIN page, k \in examined
               PROVE  FALSE
    BY DEF ExaminedOnce
  <2>1. Subject(k) = walk.subject /\ Before(walk.at, Place(k)) /\ Subject(k) \in {1, 2}
    BY KeyFacts DEF IInv, CursorInv, Active, TypeOK
  <2> QED
    BY <2>1 DEF IInv, CursorInv, Active
<1> QED
  BY <1>1, Invariance, PTL

(***************************************************************************)
(* Rotation moves the two copies of the key version only as KeyVersion     *)
(* allows: it implements the same specification as the seal manager.       *)
(***************************************************************************)
THEOREM ImplementsKeyVersion == Spec => KeyLifecycle
<1>1. Init => KeySpec!Init
  BY DEF Init, KeySpec!Init
<1>2. [Next]_vars => [KeySpec!Next]_(KeySpec!vars)
  <2> SUFFICES ASSUME [Next]_vars PROVE [KeySpec!Next]_(KeySpec!vars)
    OBVIOUS
  <2> USE DEF KeySpec!vars, KeySpec!Next
  <2>1. CASE StoreStep
    BY <2>1 DEF StoreStep, SecretPut, SecretDestroy, ParamSeal, ParamUpsert, ParamPutFails, ParamDelete,
                keyVars
  <2>2. CASE KeyStep
    BY <2>2 DEF KeyStep, Initialize, Unseal, SealStore, Restart, KeySpec!Establish,
                KeySpec!Load, KeySpec!Forget, KeySpec!InitialKEKVersion
  <2>3. ASSUME NEW r \in Requests, RotateStep(r)
        PROVE  [KeySpec!Next]_(KeySpec!vars)
    <3>1. CASE Rotate(r) \/ RotateUnreported(r)
      BY <3>1 DEF Rotate, RotateUnreported, RaiseStored, KeySpec!Raise
    <3>2. CASE ~(Rotate(r) \/ RotateUnreported(r))
      BY <2>3, <3>2 DEF RotateStep, CheckVersion, Claim, InProgress, Abandon, ReadPage,
                        NextSubject, Finish, RewrapRefused, AlreadyCurrent, Rewrap,
                        ReplaceWrapping, keyVars
    <3> QED
      BY <3>1, <3>2
  <2>4. CASE UNCHANGED vars
    BY <2>4 DEF vars
  <2> QED
    BY <2>1, <2>2, <2>3, <2>4 DEF Next
<1> QED
  BY <1>1, <1>2, PTL DEF Spec, KeyLifecycle, KeySpec!Spec

(* What the cipher relies on follows: memory never runs ahead of the       *)
(* database, so the version a writer seals new values under is             *)
(* always one a restart reaches.                                           *)
THEOREM HeldNeverAhead == Spec => []KeySpec!HeldIsStored
<1>1. KeySpec!Init => KeySpec!HeldIsStored
  BY DEF KeySpec!Init, KeySpec!HeldIsStored
<1>2. KeySpec!HeldIsStored /\ [KeySpec!Next]_(KeySpec!vars) => KeySpec!HeldIsStored'
  BY DEF KeySpec!HeldIsStored, KeySpec!Next, KeySpec!vars, KeySpec!Establish,
         KeySpec!Load, KeySpec!Raise, KeySpec!Forget, KeySpec!InitialKEKVersion
<1>3. QED BY <1>1, <1>2, ImplementsKeyVersion, PTL DEF KeyLifecycle, KeySpec!Spec

(* And no step lowers the stored version: a rotation that is cut short     *)
(* leaves the rows it did not come to behind, never the version.           *)
THEOREM StoredMonotone == Spec => KeySpec!StoredNeverFalls
<1>1. KeySpec!HeldIsStored /\ [KeySpec!Next]_(KeySpec!vars) => [stored' >= stored]_(KeySpec!vars)
  BY DEF KeySpec!HeldIsStored, KeySpec!Next, KeySpec!vars, KeySpec!Establish,
         KeySpec!Load, KeySpec!Raise, KeySpec!Forget, KeySpec!InitialKEKVersion
<1>2. QED BY <1>1, HeldNeverAhead, ImplementsKeyVersion, PTL
          DEF KeyLifecycle, KeySpec!Spec, KeySpec!StoredNeverFalls

=============================================================================
