-------------------------------- MODULE Seal --------------------------------
(***************************************************************************)
(* The seal manager (internal/modules/seal/manager.go): the root key that  *)
(* exists only in memory, its Shamir shares, and the version of the key    *)
(* encryption key derived from it.                                         *)
(*                                                                         *)
(* Every method holds m.mu for its whole body and only these methods write *)
(* seal_config, so each is one action. What an action cannot assume is     *)
(* that the caller, or the manager itself, learns that its statement took  *)
(* effect: a request context that ends while the database applies a        *)
(* statement makes the driver report an error for a change that is made.   *)
(***************************************************************************)
EXTENDS Naturals, Sequences, FiniteSets

CONSTANTS
    MaxShares,       \* largest share count an operator asks for
    MaxKEK,          \* bound: key encryption key versions
    MaxWrong,        \* bound: wrong shares ever submitted
    MaxDisruptions   \* bound: seals and restarts

ASSUME MaxSharesAssumption == MaxShares \in Nat
ASSUME BoundsAssumption ==
    MaxKEK \in Nat \ {0} /\ MaxWrong \in Nat /\ MaxDisruptions \in Nat

VARIABLES
    stored,       \* the row of seal_config, or Uninitialized
    root,         \* m.root
    kekVersion,   \* m.kekVersion
    collected,    \* m.collected
    delivered,    \* the operator received the shares of the initialization
    round,        \* history: genuine shares accepted since the last fresh start
    established,  \* history: this root was generated here, not recombined
    wrong,        \* wrong shares submitted so far
    disruptions   \* seals and restarts so far

vars == <<stored, root, kekVersion, collected, delivered, round, established,
          wrong, disruptions>>

(***************************************************************************)
(* Key material is abstracted to what Combine and the key check value tell *)
(* apart: a share is one Split returned for this root, or it is not; a key *)
(* is the root, or it is not. The last byte of a share is its index.       *)
(***************************************************************************)
NoKey == "none"
Genuine == "genuine"
Other == "other"
InitialKEKVersion == 1
MinShares == 2

Share == [index : 0..MaxShares, value : {Genuine, Other}]
GenuineShare(i) == [index |-> i, value |-> Genuine]
WrongShare(i) == [index |-> i, value |-> Other]

Config == [initialized : BOOLEAN, shares : 0..MaxShares,
           threshold : 0..MaxShares, kekVersion : 0..MaxKEK]

Uninitialized == [initialized |-> FALSE, shares |-> 0, threshold |-> 0,
                  kekVersion |-> 0]

TypeOK ==
    /\ stored \in Config
    /\ root \in {NoKey, Genuine, Other}
    /\ kekVersion \in 0..MaxKEK
    /\ collected \in Seq(Share)
    /\ delivered \in BOOLEAN
    /\ round \in SUBSET (1..MaxShares)
    /\ established \in BOOLEAN
    /\ wrong \in 0..MaxWrong
    /\ disruptions \in 0..MaxDisruptions

Init ==
    /\ stored = Uninitialized
    /\ root = NoKey
    /\ kekVersion = 0
    /\ collected = <<>>
    /\ delivered = FALSE
    /\ round = {}
    /\ established = FALSE
    /\ wrong = 0
    /\ disruptions = 0

-----------------------------------------------------------------------------
(* Shamir recombination and the key check value, as the manager uses them. *)

(***************************************************************************)
(* Combine refuses index 0 and repeated indices, and reaches the root only *)
(* from threshold shares that Split returned.                              *)
(***************************************************************************)
Combine(shares, threshold) ==
    IF /\ Len(shares) >= threshold
       /\ \A i \in 1..Len(shares) :
             shares[i].value = Genuine /\ shares[i].index # 0
       /\ \A i, j \in 1..Len(shares) :
             i # j => shares[i].index # shares[j].index
    THEN Genuine
    ELSE Other

(* Slip: the recombined key is taken up without checking it. *)
UncheckedKey(key) == key \in {Genuine, Other}

VerifyKeyCheckValue(key) == key = Genuine

AlreadyCollected(share) ==
    \E i \in 1..Len(collected) : collected[i].index = share.index

ValidSplit(shares, threshold) ==
    shares >= MinShares /\ threshold >= MinShares /\ threshold <= shares

-----------------------------------------------------------------------------
(* Initialize *)

Configure(shares, threshold) ==
    /\ ~stored.initialized
    /\ ValidSplit(shares, threshold)
    /\ stored' = [initialized |-> TRUE, shares |-> shares,
                  threshold |-> threshold, kekVersion |-> InitialKEKVersion]

(***************************************************************************)
(* The shares exist only in the reply, which may not arrive.               *)
(***************************************************************************)
Initialize(shares, threshold) ==
    /\ Configure(shares, threshold)
    /\ root' = Genuine
    /\ kekVersion' = InitialKEKVersion
    /\ delivered' \in BOOLEAN
    /\ established' = TRUE
    /\ UNCHANGED <<collected, round, wrong, disruptions>>

(***************************************************************************)
(* The insert took effect and was reported as an error: the root is zeroed *)
(* and the shares are never returned.                                      *)
(***************************************************************************)
InitializeUnreported(shares, threshold) ==
    /\ Configure(shares, threshold)
    /\ UNCHANGED <<root, kekVersion, collected, delivered, round, established,
                   wrong, disruptions>>

-----------------------------------------------------------------------------
(* Unseal *)

(***************************************************************************)
(* An open store, and a share whose index was already collected, change    *)
(* nothing.                                                                *)
(***************************************************************************)
Accepts(share) ==
    /\ stored.initialized
    /\ root = NoKey
    /\ ~AlreadyCollected(share)

CollectShare(share) ==
    LET gathered == Append(collected, share) IN
    /\ Accepts(share)
    /\ Len(gathered) < stored.threshold
    /\ collected' = gathered
    /\ round' = IF share.value = Genuine THEN round \cup {share.index} ELSE round
    /\ UNCHANGED <<stored, root, kekVersion, delivered, established, disruptions>>

(* Slip: the quorum is counted without the share just submitted. *)
CompletesQuorumLate(share) ==
    /\ Accepts(share)
    /\ Len(collected) >= stored.threshold

(***************************************************************************)
(* The share that completes a quorum ends the round, whatever it yields.   *)
(***************************************************************************)
CompletesQuorum(share) ==
    /\ Accepts(share)
    /\ Len(collected) + 1 >= stored.threshold

(* Slip: the shares of a finished round are kept. *)
KeepCollected == UNCHANGED collected

DiscardCollected == collected' = <<>>

(* Slip: an opened store resumes at the first version, not the stored one. *)
OpenAtInitialVersion(share) ==
    LET combined == Combine(Append(collected, share), stored.threshold) IN
    /\ CompletesQuorum(share)
    /\ VerifyKeyCheckValue(combined)
    /\ DiscardCollected
    /\ root' = combined
    /\ kekVersion' = InitialKEKVersion
    /\ round' = IF share.value = Genuine THEN round \cup {share.index} ELSE round
    /\ UNCHANGED <<stored, delivered, established, disruptions>>

OpenOnQuorum(share) ==
    LET combined == Combine(Append(collected, share), stored.threshold) IN
    /\ CompletesQuorum(share)
    /\ VerifyKeyCheckValue(combined)
    /\ DiscardCollected
    /\ root' = combined
    /\ kekVersion' = stored.kekVersion
    /\ round' = IF share.value = Genuine THEN round \cup {share.index} ELSE round
    /\ UNCHANGED <<stored, delivered, established, disruptions>>

RejectQuorum(share) ==
    /\ CompletesQuorum(share)
    /\ ~VerifyKeyCheckValue(Combine(Append(collected, share), stored.threshold))
    /\ DiscardCollected
    /\ round' = {}
    /\ UNCHANGED <<stored, root, kekVersion, delivered, established, disruptions>>

Unseal(share) ==
    CollectShare(share) \/ OpenOnQuorum(share) \/ RejectQuorum(share)

(***************************************************************************)
(* A custodian holds a genuine share only if the initialization reached    *)
(* the operator. Anyone may submit a wrong one.                            *)
(***************************************************************************)
SubmitGenuine(i) ==
    /\ delivered
    /\ i \in 1..stored.shares
    /\ Unseal(GenuineShare(i))
    /\ UNCHANGED wrong

SubmitWrong(i) ==
    /\ wrong < MaxWrong
    /\ wrong' = wrong + 1
    /\ Unseal(WrongShare(i))

-----------------------------------------------------------------------------
(* Seal, restart and Rotate *)

ForgetKeys ==
    /\ root' = NoKey
    /\ kekVersion' = 0
    /\ DiscardCollected
    /\ round' = {}
    /\ established' = FALSE
    /\ disruptions < MaxDisruptions
    /\ disruptions' = disruptions + 1
    /\ UNCHANGED <<stored, delivered, wrong>>

(***************************************************************************)
(* sealingSink seals when an audit append fails. It asks IsUnsealed first  *)
(* and lets go of the lock in between, so two failing appends seal twice,  *)
(* and the second may find shares collected since the first. A process     *)
(* that ends loses the same state.                                         *)
(***************************************************************************)
SealStore == ForgetKeys

(* Slip: the version taken up is one past the version stored. *)
RotatePastStored ==
    /\ stored.initialized
    /\ root # NoKey
    /\ stored.kekVersion < MaxKEK
    /\ stored' = [stored EXCEPT !.kekVersion = @ + 1]
    /\ kekVersion' = stored'.kekVersion + 1
    /\ UNCHANGED <<root, collected, delivered, round, established, wrong,
                   disruptions>>

Rotate ==
    /\ stored.initialized
    /\ root # NoKey
    /\ stored.kekVersion < MaxKEK
    /\ stored' = [stored EXCEPT !.kekVersion = @ + 1]
    /\ kekVersion' = stored.kekVersion + 1
    /\ UNCHANGED <<root, collected, delivered, round, established, wrong,
                   disruptions>>

(***************************************************************************)
(* The update took effect and was reported as an error, so the manager     *)
(* returns before it takes up the new version.                             *)
(***************************************************************************)
RotateUnreported ==
    /\ stored.initialized
    /\ root # NoKey
    /\ stored.kekVersion < MaxKEK
    /\ stored' = [stored EXCEPT !.kekVersion = @ + 1]
    /\ UNCHANGED <<root, kekVersion, collected, delivered, round, established,
                   wrong, disruptions>>

-----------------------------------------------------------------------------

Next ==
    \/ \E n, t \in 0..MaxShares : Initialize(n, t) \/ InitializeUnreported(n, t)
    \/ \E i \in 1..MaxShares : SubmitGenuine(i)
    \/ \E i \in 0..MaxShares : SubmitWrong(i)
    \/ SealStore
    \/ Rotate
    \/ RotateUnreported

Spec == Init /\ [][Next]_vars

(***************************************************************************)
(* Every custodian who holds a share keeps submitting it while the store   *)
(* is sealed. Nothing else is assumed to happen.                           *)
(***************************************************************************)
FairSpec == Spec /\ \A i \in 1..MaxShares : WF_vars(SubmitGenuine(i))

-----------------------------------------------------------------------------
(* Properties *)

(***************************************************************************)
(* The store is open only under the root it was initialized with, and      *)
(* after a seal or a restart only once a threshold of different genuine    *)
(* shares was presented in one round: shares of a round that failed, the   *)
(* same share twice, or wrong shares never add up (manager.go, Unseal).    *)
(***************************************************************************)
QuorumOpens ==
    root # NoKey =>
        /\ root = Genuine
        /\ established \/ Cardinality(round) >= stored.threshold

(***************************************************************************)
(* Shares do not outlive their round in memory: an open store holds none,  *)
(* and a sealed one always holds fewer than would open it, so the next new *)
(* share is never stuck behind old ones (manager.go, discardCollected).    *)
(***************************************************************************)
NoShareLingers ==
    /\ root # NoKey => collected = <<>>
    /\ stored.initialized /\ root = NoKey => Len(collected) < stored.threshold

(***************************************************************************)
(* An initialization that is stored but whose shares never reached the     *)
(* operator is final: once its root leaves memory no sequence of calls     *)
(* brings it back (manager.go, Initialize).                                *)
(***************************************************************************)
LostSharesAreFinal ==
    [][stored.initialized /\ ~delivered /\ root = NoKey => root' = NoKey]_vars

(***************************************************************************)
(* The two copies of the key version move as the rest of the program       *)
(* relies on (KeyVersion): memory never runs ahead of the database, and a  *)
(* reopened store resumes at the stored version whatever happened before.  *)
(***************************************************************************)
Key == INSTANCE KeyVersion WITH stored <- stored.kekVersion, held <- kekVersion
KeyLifecycle == Key!Spec

(***************************************************************************)
(* A sealed store whose shares were delivered reopens: wrong shares that   *)
(* occupy an index, failed rounds, seals and restarts delay the custodians *)
(* but never lock them out (manager.go, Unseal).                           *)
(***************************************************************************)
Reopens == delivered /\ root = NoKey ~> root # NoKey

=============================================================================
