------------------------------ MODULE Rotation ------------------------------
(***************************************************************************)
(* Rotation of the key encryption key (internal/modules/rotate) together   *)
(* with everything it races: the secret store, the parameter store, the    *)
(* seal manager's copy of the version, seals, and the end of the process.  *)
(*                                                                         *)
(* The database has one connection, so a transaction and a single          *)
(* statement are each one step. A secret is sealed inside the transaction  *)
(* that stores it and is one step; a parameter is sealed first and stored  *)
(* by a later statement, and is two. The walk of a rotation is a step per  *)
(* page read, per data key rewrapped and per row written back.             *)
(***************************************************************************)
EXTENDS Naturals, FiniteSets

CONSTANTS
    NumSecrets,    \* paths of secrets, numbered in primary-key order
    NumParams,     \* paths of parameters, likewise
    MaxVersions,   \* bound: versions written to one secret
    Keep,          \* Store.maxVersions: versions of a secret that are not pruned
    MaxKEK,        \* bound: key encryption key versions
    PageSize,      \* rewrapBatch
    DEK,           \* data keys
    NoDEK,         \* an erased wrapped_dek or ciphertext
    Requests,      \* rotation requests
    Writers        \* parameter writes in flight

ASSUME SizesAssumption ==
    /\ NumSecrets \in Nat /\ NumParams \in Nat /\ MaxVersions \in Nat
    /\ Keep \in Nat \ {0} /\ MaxKEK \in Nat \ {0} /\ PageSize \in Nat \ {0}
ASSUME NoDEKAssumption == NoDEK \notin DEK

VARIABLES
    stored,     \* seal_config.kek_version, 0 before the store is initialized
    held,       \* seal.Manager.kekVersion, 0 while sealed
    row,        \* secret_versions and param_values
    current,    \* secret_metadata.current_version, 0 when there is none
    put,        \* parameter writes between sealing and storing
    request,    \* rotation requests
    walk,       \* rotate.Module.busy and the rotation that claimed it
    page,       \* the rows of its batch it has yet to examine, as read
    examined,   \* history: the rows this rotation has examined
    completed,  \* history: the version the last complete rotation moved to
    late        \* history: parameters whose write a rotation overtook

storeVars == <<row, current, late>>
keyVars == <<stored, held>>
walkVars == <<walk, page, examined>>
rotateVars == <<request, walkVars, completed>>
vars == <<stored, held, row, current, put, request, walk, page, examined,
          completed, late>>

-----------------------------------------------------------------------------
(* Rows. The subjects are numbered in the order a rotation visits them.    *)

Secret == 1
Param == 2
SecretPaths == 1..NumSecrets
ParamPaths == 1..NumParams
Versions == 1..MaxVersions

Key == ({Secret} \X SecretPaths \X Versions) \cup ({Param} \X ParamPaths \X {1})

Subject(k) == k[1]
Path(k) == k[2]
Version(k) == k[3]

(***************************************************************************)
(* An envelope keeps the version column beside the wrapped data key: the   *)
(* key it is wrapped under, the data key inside, and the data key the      *)
(* ciphertext was made with.                                               *)
(***************************************************************************)
Erased == DEK \cup {NoDEK}
Row == [state : {"absent", "live", "destroyed"}, kek : 0..MaxKEK,
        under : 0..MaxKEK, dek : Erased, ct : Erased]

NoRow == [state |-> "absent", kek |-> 0, under |-> 0, dek |-> NoDEK, ct |-> NoDEK]

(* Slip: the envelope records the version after the one it is wrapped under. *)
SealedAhead(version, d) ==
    [state |-> "live", kek |-> version + 1, under |-> version, dek |-> d, ct |-> d]

Sealed(version, d) ==
    [state |-> "live", kek |-> version, under |-> version, dek |-> d, ct |-> d]

Destroyed(r) ==
    [state |-> "destroyed", kek |-> r.kek, under |-> 0, dek |-> NoDEK, ct |-> NoDEK]

IsLive(k) == row[k].state = "live"

(***************************************************************************)
(* Open derives the key its version column names, unwraps the data key and *)
(* opens the ciphertext with it.                                           *)
(***************************************************************************)
Opens(r) == r.kek = r.under /\ r.dek = r.ct /\ r.dek # NoDEK

-----------------------------------------------------------------------------
(* State *)

IdlePut == [pc |-> "idle", path |-> 1, kek |-> 0, dek |-> NoDEK]
IdleRequest == [pc |-> "idle", named |-> 0]
NoPage == [k \in {} |-> NoRow]
ZeroCursor == <<0, 0>>
FreeWalk == [pc |-> "free", to |-> 0, subject |-> Secret, at |-> ZeroCursor,
             under |-> 0]

(* An "overtaken" write was sealed before the last change of version. *)
Put == [pc : {"idle", "sealed", "overtaken"}, path : Nat, kek : 0..MaxKEK,
        dek : Erased]
Request == [pc : {"idle", "checked", "rotating"}, named : 0..MaxKEK]
Cursor == Nat \X Nat
Walk == [pc : {"free", "claimed", "walking", "writing"}, to : 0..MaxKEK,
         subject : {Secret, Param}, at : Cursor, under : 0..MaxKEK]

TypeOK ==
    /\ stored \in 0..MaxKEK
    /\ held \in 0..MaxKEK
    /\ row \in [Key -> Row]
    /\ current \in [SecretPaths -> 0..MaxVersions]
    /\ put \in [Writers -> Put]
    /\ request \in [Requests -> Request]
    /\ walk \in Walk
    /\ DOMAIN page \subseteq Key /\ page \in [DOMAIN page -> Row]
    /\ examined \subseteq Key
    /\ completed \in 0..MaxKEK
    /\ late \subseteq ParamPaths

Init ==
    /\ stored = 0
    /\ held = 0
    /\ row = [k \in Key |-> NoRow]
    /\ current = [p \in SecretPaths |-> 0]
    /\ put = [w \in Writers |-> IdlePut]
    /\ request = [r \in Requests |-> IdleRequest]
    /\ walk = FreeWalk
    /\ page = NoPage
    /\ examined = {}
    /\ completed = 0
    /\ late = {}

(***************************************************************************)
(* Seal draws a data key nobody else has. A wrapped data key and a         *)
(* ciphertext are bound to their row by their associated data, so keys of  *)
(* different rows are never compared; those of one row are only compared   *)
(* for equality, so it does not matter which unused one is drawn.          *)
(***************************************************************************)
InUse(k) ==
    {row[k].dek, row[k].ct}
        \cup {put[w].dek : w \in {v \in Writers : <<Param, put[v].path, 1>> = k}}
        \cup {page[j].dek : j \in {k} \cap DOMAIN page}

FreshFor(k) == {d \in DEK \ InUse(k) : d = CHOOSE e \in DEK \ InUse(k) : TRUE}

-----------------------------------------------------------------------------
(* The secret store *)

(***************************************************************************)
(* Put: the next version of the path, sealed under the version held, and   *)
(* the erasure of the versions that fall out of the last Keep.             *)
(***************************************************************************)
SecretPut(p) ==
    LET next == current[p] + 1
        new == <<Secret, p, next>>
        Pruned(k) == /\ Subject(k) = Secret /\ Path(k) = p
                     /\ Version(k) + Keep <= next
                     /\ IsLive(k)
    IN
    /\ held # 0
    /\ next \in Versions
    /\ current' = [current EXCEPT ![p] = next]
    /\ \E d \in FreshFor(new) :
         row' = [k \in Key |->
                   IF k = new THEN Sealed(held, d)
                   ELSE IF Pruned(k) THEN Destroyed(row[k])
                   ELSE row[k]]
    /\ UNCHANGED <<keyVars, put, rotateVars, late>>

(***************************************************************************)
(* Destroy takes any version, the current one too; a version that is       *)
(* destroyed already is left as it is.                                     *)
(***************************************************************************)
SecretDestroy(p, v) ==
    LET k == <<Secret, p, v>> IN
    /\ IsLive(k)
    /\ row' = [row EXCEPT ![k] = Destroyed(row[k])]
    /\ UNCHANGED <<keyVars, current, put, rotateVars, late>>

-----------------------------------------------------------------------------
(* The parameter store *)

ParamSeal(w, p) ==
    /\ held # 0
    /\ put[w].pc = "idle"
    /\ \E d \in FreshFor(<<Param, p, 1>>) :
         put' = [put EXCEPT ![w] = [pc |-> "sealed", path |-> p, kek |-> held,
                                    dek |-> d]]
    /\ UNCHANGED <<keyVars, storeVars, rotateVars>>

(***************************************************************************)
(* The upsert replaces the whole envelope, whatever the row holds by now.  *)
(***************************************************************************)
ParamUpsert(w) ==
    LET k == <<Param, put[w].path, 1>> IN
    /\ put[w].pc # "idle"
    /\ row' = [row EXCEPT ![k] = Sealed(put[w].kek, put[w].dek)]
    /\ late' = IF put[w].pc = "overtaken" THEN late \cup {put[w].path}
                                          ELSE late \ {put[w].path}
    /\ put' = [put EXCEPT ![w] = IdlePut]
    /\ UNCHANGED <<keyVars, current, rotateVars>>

ParamPutFails(w) ==
    /\ put[w].pc # "idle"
    /\ put' = [put EXCEPT ![w] = IdlePut]
    /\ UNCHANGED <<keyVars, storeVars, rotateVars>>

ParamDelete(p) ==
    LET k == <<Param, p, 1>> IN
    /\ IsLive(k)
    /\ row' = [row EXCEPT ![k] = NoRow]
    /\ late' = late \ {p}
    /\ UNCHANGED <<keyVars, current, put, rotateVars>>

-----------------------------------------------------------------------------
(* The seal manager, and the end of the process *)

Initialize ==
    /\ stored = 0
    /\ stored' = 1
    /\ held' \in {0, 1}
    /\ UNCHANGED <<storeVars, put, rotateVars>>

(* Slip: an opened store resumes at the first version, not the stored one. *)
UnsealAtFirst ==
    /\ stored # 0 /\ held = 0
    /\ held' = 1
    /\ UNCHANGED <<stored, storeVars, put, rotateVars>>

Unseal ==
    /\ stored # 0 /\ held = 0
    /\ held' = stored
    /\ UNCHANGED <<stored, storeVars, put, rotateVars>>

SealStore ==
    /\ held # 0
    /\ held' = 0
    /\ UNCHANGED <<stored, storeVars, put, rotateVars>>

Restart ==
    /\ held' = 0
    /\ put' = [w \in Writers |-> IdlePut]
    /\ request' = [r \in Requests |-> IdleRequest]
    /\ walk' = FreeWalk
    /\ page' = NoPage
    /\ examined' = {}
    /\ UNCHANGED <<stored, storeVars, completed>>

-----------------------------------------------------------------------------
(* A rotation request *)

(***************************************************************************)
(* handleRotate compares the version the request names with the stored one *)
(* and goes on without holding anything.                                   *)
(***************************************************************************)
CheckVersion(r, version) ==
    /\ held # 0
    /\ request[r].pc = "idle"
    /\ version = stored
    /\ request' = [request EXCEPT ![r] = [pc |-> "checked", named |-> version]]
    /\ UNCHANGED <<keyVars, storeVars, put, walkVars, completed>>

Claim(r) ==
    /\ request[r].pc = "checked"
    /\ walk.pc = "free"
    /\ walk' = [FreeWalk EXCEPT !.pc = "claimed"]
    /\ request' = [request EXCEPT ![r].pc = "rotating"]
    /\ UNCHANGED <<keyVars, storeVars, put, page, examined, completed>>

InProgress(r) ==
    /\ request[r].pc = "checked"
    /\ walk.pc # "free"
    /\ request' = [request EXCEPT ![r] = IdleRequest]
    /\ UNCHANGED <<keyVars, storeVars, put, walkVars, completed>>

(* Slip: the next version is counted from memory, not from the database. *)
RaiseHeld ==
    /\ walk.pc = "claimed"
    /\ held # 0
    /\ stored < MaxKEK
    /\ stored' = held + 1
    /\ put' = [w \in Writers |->
                 IF put[w].pc = "sealed" THEN [put[w] EXCEPT !.pc = "overtaken"]
                 ELSE put[w]]

(***************************************************************************)
(* Every write sealed and not yet stored is overtaken by the new version.  *)
(***************************************************************************)
RaiseStored ==
    /\ walk.pc = "claimed"
    /\ held # 0
    /\ stored < MaxKEK
    /\ stored' = stored + 1
    /\ put' = [w \in Writers |->
                 IF put[w].pc = "sealed" THEN [put[w] EXCEPT !.pc = "overtaken"]
                 ELSE put[w]]

(* Slip: the version in memory is left where it was. *)
RotateStoredOnly(r) ==
    /\ request[r].pc = "rotating"
    /\ RaiseStored
    /\ held' = held
    /\ walk' = [walk EXCEPT !.pc = "walking", !.to = stored + 1]
    /\ UNCHANGED <<storeVars, request, page, examined, completed>>

Rotate(r) ==
    /\ request[r].pc = "rotating"
    /\ RaiseStored
    /\ held' = stored + 1
    /\ walk' = [walk EXCEPT !.pc = "walking", !.to = stored + 1]
    /\ UNCHANGED <<storeVars, request, page, examined, completed>>

(***************************************************************************)
(* release, with the request answered.                                     *)
(***************************************************************************)
Release(r) ==
    /\ walk' = FreeWalk
    /\ page' = NoPage
    /\ examined' = {}
    /\ request' = [request EXCEPT ![r] = IdleRequest]

(***************************************************************************)
(* The update took effect and was reported as an error: the manager keeps  *)
(* sealing under the version it held, and nothing is walked.               *)
(***************************************************************************)
RotateUnreported(r) ==
    /\ request[r].pc = "rotating"
    /\ RaiseStored
    /\ Release(r)
    /\ UNCHANGED <<held, storeVars, completed>>

(***************************************************************************)
(* The request's context ends, the store is sealed, or a statement fails:  *)
(* the walk stops where it is.                                             *)
(***************************************************************************)
Abandon(r) ==
    /\ request[r].pc = "rotating"
    /\ Release(r)
    /\ UNCHANGED <<keyVars, storeVars, put, completed>>

-----------------------------------------------------------------------------
(* The walk of one subject's rows *)

Before(a, b) == a[1] < b[1] \/ (a[1] = b[1] /\ a[2] < b[2])
Place(k) == <<Path(k), Version(k)>>

Remaining ==
    {k \in Key : Subject(k) = walk.subject /\ IsLive(k)
                 /\ Before(walk.at, Place(k))}

IsPage(S) ==
    /\ S # {}
    /\ \A a \in S, b \in Remaining \ S : Before(Place(a), Place(b))
    /\ Cardinality(S) <= PageSize
    /\ Cardinality(S) < PageSize => S = Remaining

ReadPage(r) ==
    /\ request[r].pc = "rotating"
    /\ walk.pc = "walking" /\ DOMAIN page = {}
    /\ \E S \in SUBSET Remaining :
         /\ IsPage(S)
         /\ page' = [k \in S |-> row[k]]
    /\ UNCHANGED <<keyVars, storeVars, put, request, walk, examined, completed>>

NextSubject(r) ==
    /\ request[r].pc = "rotating"
    /\ walk.pc = "walking" /\ DOMAIN page = {} /\ Remaining = {}
    /\ walk.subject = Secret
    /\ walk' = [walk EXCEPT !.subject = Param, !.at = ZeroCursor]
    /\ UNCHANGED <<keyVars, storeVars, put, request, page, examined, completed>>

Finish(r) ==
    /\ request[r].pc = "rotating"
    /\ walk.pc = "walking" /\ DOMAIN page = {} /\ Remaining = {}
    /\ walk.subject = Param
    /\ completed' = walk.to
    /\ Release(r)
    /\ UNCHANGED <<keyVars, storeVars, put>>

IsFirst(k) ==
    /\ k \in DOMAIN page
    /\ \A j \in DOMAIN page \ {k} : Before(Place(k), Place(j))

Without(k) == [j \in DOMAIN page \ {k} |-> page[j]]

(***************************************************************************)
(* The cipher refuses while sealed, and a version it does not hold yet; it *)
(* leaves an envelope that is already on the version held.                 *)
(***************************************************************************)
RewrapRefused(r) ==
    /\ request[r].pc = "rotating"
    /\ walk.pc = "walking"
    /\ \E k \in DOMAIN page :
         /\ IsFirst(k)
         /\ \/ held = 0
            \/ page[k].kek > held
            \/ page[k].kek < held /\ page[k].kek # page[k].under
    /\ Release(r)
    /\ UNCHANGED <<keyVars, storeVars, put, completed>>

(* Slip: the cursor moves only past rows that were written back. *)
CurrentWithoutCursor(r) ==
    /\ request[r].pc = "rotating"
    /\ walk.pc = "walking"
    /\ \E k \in DOMAIN page :
         /\ IsFirst(k)
         /\ held # 0 /\ page[k].kek = held
         /\ page' = Without(k)
         /\ examined' = examined \cup {k}
    /\ UNCHANGED <<keyVars, storeVars, put, request, walk, completed>>

AlreadyCurrent(r) ==
    /\ request[r].pc = "rotating"
    /\ walk.pc = "walking"
    /\ \E k \in DOMAIN page :
         /\ IsFirst(k)
         /\ held # 0 /\ page[k].kek = held
         /\ walk' = [walk EXCEPT !.at = Place(k)]
         /\ page' = Without(k)
         /\ examined' = examined \cup {k}
    /\ UNCHANGED <<keyVars, storeVars, put, request, completed>>

Rewrap(r) ==
    /\ request[r].pc = "rotating"
    /\ walk.pc = "walking"
    /\ \E k \in DOMAIN page :
         /\ IsFirst(k)
         /\ page[k].kek < held
         /\ page[k].kek = page[k].under
         /\ walk' = [walk EXCEPT !.pc = "writing", !.at = Place(k),
                                 !.under = held]
         /\ examined' = examined \cup {k}
    /\ UNCHANGED <<keyVars, storeVars, put, request, page, completed>>

(* Slip: the update forgets that a version may be destroyed meanwhile. *)
SameVersion(k) == row[k].kek = page[k].kek

(***************************************************************************)
(* The update writes the new wrapping beside whatever ciphertext the row   *)
(* holds, if the row is still on the version the page was read at.         *)
(***************************************************************************)
StillWrapped(k) ==
    /\ IsLive(k)
    /\ row[k].kek = page[k].kek

(* Slip: the version column moves and the wrapped key does not. *)
VersionOnly(k) == [row[k] EXCEPT !.kek = walk.under]

Rewrapped(k) ==
    [state |-> row[k].state, kek |-> walk.under, under |-> walk.under,
     dek |-> page[k].dek, ct |-> row[k].ct]

ReplaceWrapping(r) ==
    /\ request[r].pc = "rotating"
    /\ walk.pc = "writing"
    /\ \E k \in DOMAIN page :
         /\ IsFirst(k)
         /\ row' = IF StillWrapped(k) THEN [row EXCEPT ![k] = Rewrapped(k)]
                                      ELSE row
         /\ walk' = [walk EXCEPT !.pc = "walking", !.under = 0]
         /\ page' = Without(k)
    /\ UNCHANGED <<keyVars, current, late, put, request, examined, completed>>

-----------------------------------------------------------------------------

StoreStep ==
    \/ \E p \in SecretPaths : SecretPut(p)
    \/ \E p \in SecretPaths, v \in Versions : SecretDestroy(p, v)
    \/ \E w \in Writers, p \in ParamPaths : ParamSeal(w, p)
    \/ \E w \in Writers : ParamUpsert(w) \/ ParamPutFails(w)
    \/ \E p \in ParamPaths : ParamDelete(p)

KeyStep == Initialize \/ Unseal \/ SealStore \/ Restart

RotateStep(r) ==
    \/ CheckVersion(r, stored) \/ Claim(r) \/ InProgress(r)
    \/ Rotate(r) \/ RotateUnreported(r) \/ Abandon(r)
    \/ ReadPage(r) \/ NextSubject(r) \/ Finish(r)
    \/ RewrapRefused(r) \/ AlreadyCurrent(r) \/ Rewrap(r) \/ ReplaceWrapping(r)

Next == StoreStep \/ KeyStep \/ \E r \in Requests : RotateStep(r)

Spec == Init /\ [][Next]_vars

-----------------------------------------------------------------------------
(* Properties *)

(* A parameter whose last write a rotation overtook before it was stored. *)
Overtaken(k) == Subject(k) = Param /\ Path(k) \in late

(***************************************************************************)
(* No stored value, and no write in flight, is wrapped under a version the *)
(* open store does not hold: seal.Manager.rewrap never meets ErrKEKVersion *)
(* and a rotation is never blocked by its own data, across seals, restarts *)
(* and updates that were applied but reported as failed.                   *)
(***************************************************************************)
NoValueAheadOfKey ==
    /\ \A k \in Key : row[k].kek <= stored /\ (held # 0 => row[k].kek <= held)
    /\ \A w \in Writers : held # 0 => put[w].kek <= held

(***************************************************************************)
(* Every live value opens at every moment of every rotation, whole or cut  *)
(* short, except a parameter whose write a rotation overtook between the   *)
(* sealing and the statement that stores it (param/store.go, Put).         *)
(***************************************************************************)
ValuesOpen ==
    \A k \in Key : IsLive(k) => Opens(row[k]) \/ Overtaken(k)

(***************************************************************************)
(* A destroyed version keeps no key material: a page read before the       *)
(* destruction never writes its data key back (secret/rewrap.go,           *)
(* replaceWrapping), so what was destroyed cannot be decrypted again.      *)
(***************************************************************************)
DestroyedStaysErased ==
    \A k \in Key : row[k].state = "destroyed" =>
        row[k].dek = NoDEK /\ row[k].ct = NoDEK

(***************************************************************************)
(* A rotation that reports success left nothing behind: no live value is   *)
(* on an older version than the one it moved to, whatever was written or   *)
(* pruned while the cursor passed, except an overtaken parameter write     *)
(* (secret/rewrap.go and param/rewrap.go, Rewrap).                         *)
(***************************************************************************)
NothingLeftBehind ==
    \A k \in Key : IsLive(k) =>
        row[k].kek >= completed \/ Overtaken(k)

(***************************************************************************)
(* The keyset cursor only moves forward: no rotation examines a row twice, *)
(* so every walk ends and the examined count it reports is a count of rows *)
(* (secret/rewrap.go and param/rewrap.go, the cursor of Rewrap).           *)
(***************************************************************************)
ExaminedOnce == walk.pc = "walking" => DOMAIN page \cap examined = {}

(***************************************************************************)
(* The two copies of the key version move as the other modules rely on.    *)
(***************************************************************************)
KeySpec == INSTANCE KeyVersion
KeyLifecycle == KeySpec!Spec

(***************************************************************************)
(* What the runbook promises of a rotation: nothing is lost and values on  *)
(* older versions stay readable. A parameter write does not keep it.       *)
(***************************************************************************)
EveryValueOpens == \A k \in Key : IsLive(k) => Opens(row[k])

(***************************************************************************)
(* What the runbook promises of a request: it moves the key only from the  *)
(* version it names. The comparison is made before the claim.              *)
(***************************************************************************)
RotatesOnlyTheNamedVersion ==
    \A r \in Requests :
        request[r].pc = "rotating" /\ walk.pc \in {"walking", "writing"}
            => walk.to = request[r].named + 1

=============================================================================
