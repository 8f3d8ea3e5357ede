-------------------------- MODULE VersionedSecrets --------------------------
(***************************************************************************)
(* What the secret store promises its callers, without connections, locks, *)
(* keys or requests: every path has numbered versions; a write is one step *)
(* that compares, numbers, stores and prunes; what was erased stays so.    *)
(* SecretStore, where a write is three steps with waits between them that  *)
(* may end it, implements this specification.                              *)
(***************************************************************************)
EXTENDS Naturals

CONSTANTS
    Paths,
    MaxVersions,   \* bound: versions written to one path
    Keep           \* versions a path keeps

VARIABLES
    current,   \* the last version of a path, 0 when there is none
    kept       \* the state of a version, and the version its write named

vars == <<current, kept>>

Version == 1..MaxVersions
AnyVersion == MaxVersions + 1

Init ==
    /\ current \in [Paths -> 0..1]
    /\ kept = [k \in Paths \X Version |->
          [state |-> IF k[2] = current[k[1]] THEN "live" ELSE "absent",
           after |-> AnyVersion]]

(* A write names the current version, or none. *)
Put(p, asked) ==
    LET next == current[p] + 1 IN
    /\ next \in Version
    /\ asked \in {AnyVersion, current[p]}
    /\ current' = [current EXCEPT ![p] = next]
    /\ kept' = [k \in Paths \X Version |->
          IF k = <<p, next>> THEN [state |-> "live", after |-> asked]
          ELSE IF k[1] = p /\ kept[k].state \in {"live", "deleted"} /\ k[2] + Keep <= next
          THEN [state |-> "pruned", after |-> kept[k].after]
          ELSE kept[k]]

Mark(p, v, from, to) ==
    /\ kept[<<p, v>>].state \in from
    /\ kept' = [kept EXCEPT ![<<p, v>>] = [state |-> to, after |-> kept[<<p, v>>].after]]
    /\ UNCHANGED current

Delete(p, v) == Mark(p, v, {"live"}, "deleted")
Undelete(p, v) == Mark(p, v, {"deleted"}, "live")
Destroy(p, v) == Mark(p, v, {"live", "deleted"}, "destroyed")

Next ==
    \/ \E p \in Paths, asked \in 0..AnyVersion : Put(p, asked)
    \/ \E p \in Paths, v \in Version : Delete(p, v) \/ Undelete(p, v) \/ Destroy(p, v)

Spec == Init /\ [][Next]_vars

-----------------------------------------------------------------------------

(***************************************************************************)
(* What follows for a client: a version number is never given out twice,   *)
(* and the value of a version that was pruned or destroyed never returns.  *)
(***************************************************************************)
NothingReturns ==
    [][\A p \in Paths :
          /\ current'[p] \in {current[p], current[p] + 1}
          /\ \A v \in Version :
                /\ kept[<<p, v>>].state # "absent" => kept'[<<p, v>>].after = kept[<<p, v>>].after
                /\ kept[<<p, v>>].state \in {"pruned", "destroyed"} =>
                      kept'[<<p, v>>].state = kept[<<p, v>>].state]_vars

=============================================================================
