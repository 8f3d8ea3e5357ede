----------------------------- MODULE KeyVersion -----------------------------
(***************************************************************************)
(* What the rest of the program relies on about the key encryption key.    *)
(*                                                                         *)
(* The version lives in two places: "stored" is seal_config.kek_version in *)
(* the database (0 before the store is initialized) and "held" is the      *)
(* version the running process seals new values under (0 while sealed).    *)
(* The seal manager, and the rotation of every stored value, are each      *)
(* shown to implement this specification.                                  *)
(***************************************************************************)
EXTENDS Naturals

VARIABLES stored, held

vars == <<stored, held>>

InitialKEKVersion == 1

Init == stored = 0 /\ held = 0

(***************************************************************************)
(* Initialization stores the first version. The process may fail to learn  *)
(* that its insert took effect, and then holds nothing.                    *)
(***************************************************************************)
Establish ==
    /\ stored = 0
    /\ stored' = InitialKEKVersion
    /\ held' \in {0, InitialKEKVersion}

(***************************************************************************)
(* A sealed process that recovers the root resumes at the stored version.  *)
(***************************************************************************)
Load ==
    /\ stored # 0 /\ held = 0
    /\ held' = stored
    /\ UNCHANGED stored

(***************************************************************************)
(* A rotation moves the stored version by exactly one, from an open store. *)
(* The process may fail to learn that its update took effect, and goes on  *)
(* sealing under the version it held.                                      *)
(***************************************************************************)
Raise ==
    /\ held # 0
    /\ stored' = stored + 1
    /\ held' \in {held, stored + 1}

(***************************************************************************)
(* Sealing, and the end of the process, forget the version.                *)
(***************************************************************************)
Forget == held' = 0 /\ UNCHANGED stored

Next == Establish \/ Load \/ Raise \/ Forget

Spec == Init /\ [][Next]_vars

-----------------------------------------------------------------------------

(***************************************************************************)
(* The process never seals under a version the database does not hold yet, *)
(* so a value is never wrapped under a key a restart would not reach.      *)
(***************************************************************************)
HeldIsStored == stored \in Nat /\ held \in 0..stored

(***************************************************************************)
(* The stored version never falls: seal.Manager.Rotate only moves it up.   *)
(***************************************************************************)
StoredNeverFalls == [][stored' >= stored]_vars

=============================================================================
