----------------------------- MODULE SealProofs -----------------------------
(***************************************************************************)
(* Safety of the seal manager for every number of shares, every threshold  *)
(* and every bound: what opens a store, what stays in memory, and that the *)
(* key version moves as KeyVersion says.                                   *)
(***************************************************************************)
EXTENDS Seal, FiniteSetTheorems, TLAPS

(***************************************************************************)
(* The inductive invariant. The configuration is either blank or that of a *)
(* valid split; memory holds the root or collects shares, never both; and  *)
(* every genuine share collected is remembered in the round.               *)
(***************************************************************************)
ConfigValid ==
    IF stored.initialized
    THEN /\ MinShares <= stored.threshold
         /\ stored.threshold <= stored.shares
         /\ InitialKEKVersion <= stored.kekVersion
    ELSE /\ stored.kekVersion = 0
         /\ root = NoKey
         /\ collected = <<>>

OpenOrCollecting ==
    /\ root # NoKey => collected = <<>> /\ kekVersion # 0
    /\ root = NoKey => kekVersion = 0
    /\ kekVersion <= stored.kekVersion
    /\ stored.initialized /\ root = NoKey => Len(collected) < stored.threshold

CollectedInRound ==
    \A i \in 1..Len(collected) :
        collected[i].value = Genuine /\ collected[i].index # 0
            => collected[i].index \in round

IInv == TypeOK /\ ConfigValid /\ OpenOrCollecting /\ CollectedInRound /\ QuorumOpens

-----------------------------------------------------------------------------

(***************************************************************************)
(* A sequence of shares with different indices shows at least as many      *)
(* indices as it is long (what alreadyCollected is for).                   *)
(***************************************************************************)
LEMMA DistinctIndices ==
    ASSUME NEW shares \in Seq(Share), NEW R \in SUBSET (1..MaxShares),
           \A i \in 1..Len(shares) : shares[i].index \in R,
           \A i, j \in 1..Len(shares) : i # j => shares[i].index # shares[j].index
    PROVE  Cardinality(R) \in Nat /\ Len(shares) <= Cardinality(R)
<1> DEFINE f == [i \in 1..Len(shares) |-> shares[i].index]
<1>1. IsFiniteSet(R)
  <2>1. 1 \in Int /\ MaxShares \in Int
    BY MaxSharesAssumption
  <2>2. IsFiniteSet(1..MaxShares)
    BY <2>1, FS_Interval
  <2>3. QED BY <2>2, FS_Subset
<1>2. f \in Injection(1..Len(shares), R)
  BY DEF Injection, IsInjective
<1>3. Cardinality(1..Len(shares)) = Len(shares)
  BY FS_Interval
<1>4. Cardinality(1..Len(shares)) <= Cardinality(R)
  <2> HIDE DEF f
  <2> QED BY <1>1, <1>2, FS_Injection
<1>5. QED BY <1>1, <1>3, <1>4, FS_CardinalityType

(***************************************************************************)
(* The shares anyone submits, and what tells them apart.                   *)
(***************************************************************************)
LEMMA ShareSets ==
    /\ \A i \in 1..MaxShares : GenuineShare(i) \in Share /\ GenuineShare(i).index = i
                              /\ GenuineShare(i).value = Genuine
    /\ \A i \in 0..MaxShares : WrongShare(i) \in Share /\ WrongShare(i).index = i
                              /\ WrongShare(i).value = Other
  BY MaxSharesAssumption DEF GenuineShare, WrongShare, Share, Genuine, Other

(***************************************************************************)
(* One submission, whoever makes it, preserves the invariant. "GoodShare"  *)
(* is what both kinds of submission establish of their share.              *)
(***************************************************************************)
GoodShare(share) ==
    share \in Share /\ (share.value = Genuine => share.index \in 1..MaxShares)

LEMMA CollectPreserves ==
    ASSUME IInv, NEW share, GoodShare(share), CollectShare(share),
           wrong' \in 0..MaxWrong
    PROVE  IInv'
<1> USE DEF IInv, TypeOK, GoodShare
<1>1. /\ collected' \in Seq(Share)
      /\ Len(collected') = Len(collected) + 1
      /\ collected'[Len(collected')] = share
      /\ \A i \in 1..Len(collected) : collected'[i] = collected[i]
  BY DEF CollectShare
<1>2. TypeOK'
  BY <1>1 DEF CollectShare
<1>3. ConfigValid'
  BY DEF CollectShare, Accepts, ConfigValid
<1>4. OpenOrCollecting'
  BY DEF CollectShare, Accepts, OpenOrCollecting
<1>5. CollectedInRound'
  BY <1>1 DEF CollectShare, CollectedInRound
<1>6. QuorumOpens'
  BY DEF CollectShare, Accepts, QuorumOpens
<1>7. QED BY <1>2, <1>3, <1>4, <1>5, <1>6

LEMMA OpenPreserves ==
    ASSUME IInv, NEW share, GoodShare(share), OpenOnQuorum(share),
           wrong' \in 0..MaxWrong
    PROVE  IInv'
<1> USE DEF IInv, TypeOK, GoodShare
<1> DEFINE gathered == Append(collected, share)
<1>1. /\ gathered \in Seq(Share)
      /\ Len(gathered) = Len(collected) + 1
      /\ gathered[Len(gathered)] = share
      /\ \A i \in 1..Len(collected) : gathered[i] = collected[i]
  OBVIOUS
<1> HIDE DEF gathered
<1>2. Combine(gathered, stored.threshold) = Genuine
  BY DEF OpenOnQuorum, VerifyKeyCheckValue, gathered
<1>3. /\ Len(gathered) >= stored.threshold
      /\ \A i \in 1..Len(gathered) : gathered[i].value = Genuine /\ gathered[i].index # 0
      /\ \A i, j \in 1..Len(gathered) : i # j => gathered[i].index # gathered[j].index
  BY <1>2 DEF Combine, Genuine, Other
<1>4. \A i \in 1..Len(gathered) : gathered[i].index \in round'
  BY <1>1, <1>3 DEF OpenOnQuorum, CollectedInRound
<1>5. round' \in SUBSET (1..MaxShares)
  BY DEF OpenOnQuorum
<1>6. Cardinality(round') \in Nat /\ Len(gathered) <= Cardinality(round')
  BY <1>1, <1>3, <1>4, <1>5, DistinctIndices
<1>7. root' = Genuine /\ collected' = <<>> /\ stored' = stored
  BY <1>2 DEF OpenOnQuorum, DiscardCollected, gathered
<1>8. TypeOK'
  BY <1>5, <1>7 DEF OpenOnQuorum, Config
<1>9. ConfigValid'
  BY <1>7 DEF OpenOnQuorum, CompletesQuorum, Accepts, ConfigValid
<1>10. OpenOrCollecting'
  BY <1>7 DEF OpenOnQuorum, CompletesQuorum, Accepts, OpenOrCollecting,
     ConfigValid, NoKey, Genuine, InitialKEKVersion, Config
<1>11. CollectedInRound'
  BY <1>7 DEF CollectedInRound
<1>12. QuorumOpens'
  BY <1>1, <1>3, <1>6, <1>7 DEF QuorumOpens, Config
<1>13. QED BY <1>8, <1>9, <1>10, <1>11, <1>12

LEMMA RejectPreserves ==
    ASSUME IInv, NEW share, GoodShare(share), RejectQuorum(share),
           wrong' \in 0..MaxWrong
    PROVE  IInv'
<1> USE DEF IInv, TypeOK
<1>1. collected' = <<>> /\ round' = {} /\ root' = root /\ root = NoKey /\ stored' = stored
  BY DEF RejectQuorum, DiscardCollected, CompletesQuorum, Accepts
<1>2. TypeOK'
  BY <1>1 DEF RejectQuorum
<1>3. ConfigValid'
  BY <1>1 DEF RejectQuorum, ConfigValid
<1>4. OpenOrCollecting'
  BY <1>1 DEF RejectQuorum, OpenOrCollecting, ConfigValid, MinShares, Config
<1>5. CollectedInRound'
  BY <1>1 DEF CollectedInRound
<1>6. QuorumOpens'
  BY <1>1 DEF QuorumOpens
<1>7. QED BY <1>2, <1>3, <1>4, <1>5, <1>6

-----------------------------------------------------------------------------

(***************************************************************************)
(* Raising the version of a configuration leaves the rest of it alone.     *)
(***************************************************************************)
LEMMA RotatedConfig ==
    ASSUME NEW c \in Config, c.kekVersion < MaxKEK,
           NEW d, d = [c EXCEPT !.kekVersion = @ + 1]
    PROVE  /\ d \in Config
           /\ d.initialized = c.initialized /\ d.threshold = c.threshold
           /\ d.shares = c.shares /\ d.kekVersion = c.kekVersion + 1
  BY BoundsAssumption DEF Config

LEMMA Inductive == IInv /\ [Next]_vars => IInv'
<1> SUFFICES ASSUME IInv, [Next]_vars PROVE IInv'
  OBVIOUS
<1>1. ASSUME NEW n \in 0..MaxShares, NEW t \in 0..MaxShares,
             Initialize(n, t) \/ InitializeUnreported(n, t)
      PROVE  IInv'
  <2>1. TypeOK'
    <3>1. stored' \in Config
      <4>1. InitialKEKVersion \in 0..MaxKEK
        BY BoundsAssumption DEF InitialKEKVersion
      <4>2. stored' = [initialized |-> TRUE, shares |-> n, threshold |-> t,
                       kekVersion |-> InitialKEKVersion]
        BY <1>1 DEF Initialize, InitializeUnreported, Configure
      <4>3. QED BY <4>1, <4>2 DEF Config
    <3>2. kekVersion' \in 0..MaxKEK
      BY <1>1, BoundsAssumption
         DEF IInv, TypeOK, Initialize, InitializeUnreported, InitialKEKVersion
    <3>3. QED BY <1>1, <3>1, <3>2
                 DEF IInv, TypeOK, Initialize, InitializeUnreported
  <2>2. ConfigValid' /\ OpenOrCollecting'
    BY <1>1, BoundsAssumption, MaxSharesAssumption
       DEF IInv, TypeOK, Initialize, InitializeUnreported, Configure, Config,
           ConfigValid, OpenOrCollecting, ValidSplit, InitialKEKVersion, MinShares,
           NoKey, Genuine
  <2>3. CollectedInRound' /\ QuorumOpens'
    BY <1>1 DEF IInv, Initialize, InitializeUnreported, Configure, ConfigValid,
                CollectedInRound, QuorumOpens, NoKey, Genuine
  <2>4. QED BY <2>1, <2>2, <2>3 DEF IInv
<1>2. ASSUME NEW i \in 1..MaxShares, SubmitGenuine(i)
      PROVE  IInv'
  <2>1. GoodShare(GenuineShare(i)) /\ wrong' \in 0..MaxWrong
    BY <1>2, ShareSets DEF IInv, TypeOK, SubmitGenuine, GoodShare
  <2>2. QED BY <1>2, <2>1, CollectPreserves, OpenPreserves, RejectPreserves
               DEF SubmitGenuine, Unseal
<1>3. ASSUME NEW i \in 0..MaxShares, SubmitWrong(i)
      PROVE  IInv'
  <2>1. GoodShare(WrongShare(i)) /\ wrong' \in 0..MaxWrong
    BY <1>3, ShareSets, BoundsAssumption
       DEF IInv, TypeOK, SubmitWrong, GoodShare, Genuine, Other
  <2>2. QED BY <1>3, <2>1, CollectPreserves, OpenPreserves, RejectPreserves
               DEF SubmitWrong, Unseal
<1>4. CASE SealStore
  <2>1. /\ root' = NoKey /\ kekVersion' = 0 /\ collected' = <<>> /\ round' = {}
        /\ stored' = stored
    BY <1>4 DEF SealStore, ForgetKeys, DiscardCollected
  <2>2. TypeOK'
    <3>1. disruptions' \in 0..MaxDisruptions /\ kekVersion' \in 0..MaxKEK
      BY <1>4, <2>1, BoundsAssumption DEF IInv, TypeOK, SealStore, ForgetKeys
    <3>2. collected' \in Seq(Share)
      BY <2>1
    <3>3. QED BY <1>4, <2>1, <3>1, <3>2 DEF IInv, TypeOK, SealStore, ForgetKeys
  <2>3. ConfigValid' /\ OpenOrCollecting'
    BY <2>1 DEF IInv, TypeOK, Config, ConfigValid, OpenOrCollecting, MinShares
  <2>4. CollectedInRound' /\ QuorumOpens'
    BY <2>1 DEF CollectedInRound, QuorumOpens
  <2>5. QED BY <2>2, <2>3, <2>4 DEF IInv
<1>5. CASE Rotate \/ RotateUnreported
  <2>1. /\ stored' \in Config
        /\ stored'.initialized = stored.initialized
        /\ stored'.threshold = stored.threshold
        /\ stored'.shares = stored.shares
        /\ stored'.kekVersion = stored.kekVersion + 1
        /\ kekVersion' \in {kekVersion, stored.kekVersion + 1}
    BY <1>5, RotatedConfig DEF IInv, TypeOK, Rotate, RotateUnreported
  <2>2. TypeOK'
    BY <1>5, <2>1, BoundsAssumption DEF IInv, TypeOK, Rotate, RotateUnreported, Config
  <2>3. ConfigValid' /\ OpenOrCollecting'
    BY <1>5, <2>1, BoundsAssumption
       DEF IInv, TypeOK, Rotate, RotateUnreported, Config, ConfigValid,
           OpenOrCollecting, InitialKEKVersion
  <2>4. CollectedInRound' /\ QuorumOpens'
    BY <1>5, <2>1 DEF IInv, Rotate, RotateUnreported, CollectedInRound, QuorumOpens
  <2>5. QED BY <2>2, <2>3, <2>4 DEF IInv
<1>6. CASE UNCHANGED vars
  BY <1>6 DEF vars, IInv, TypeOK, ConfigValid, OpenOrCollecting, CollectedInRound,
              QuorumOpens
<1>7. QED BY <1>1, <1>2, <1>3, <1>4, <1>5, <1>6 DEF Next

LEMMA Initial == Init => IInv
<1> SUFFICES ASSUME Init PROVE IInv
  OBVIOUS
<1>1. stored.initialized = FALSE /\ stored.kekVersion = 0 /\ stored \in Config
  BY BoundsAssumption, MaxSharesAssumption DEF Init, Uninitialized, Config
<1>2. TypeOK
  <2>1. /\ kekVersion \in 0..MaxKEK /\ wrong \in 0..MaxWrong
        /\ disruptions \in 0..MaxDisruptions /\ collected \in Seq(Share)
    BY BoundsAssumption DEF Init
  <2>2. QED BY <1>1, <2>1 DEF Init, TypeOK
<1>3. ConfigValid /\ OpenOrCollecting /\ CollectedInRound /\ QuorumOpens
  BY <1>1 DEF Init, ConfigValid, OpenOrCollecting, CollectedInRound, QuorumOpens
<1>4. QED BY <1>2, <1>3 DEF IInv

LEMMA Invariance == Spec => []IInv
  BY Initial, Inductive, PTL DEF Spec

-----------------------------------------------------------------------------

(***************************************************************************)
(* Every reachable state is well typed.                                    *)
(***************************************************************************)
THEOREM TypeCorrect == Spec => []TypeOK
  BY Invariance, PTL DEF IInv

(***************************************************************************)
(* Only a quorum of different genuine shares of one round reopens a store, *)
(* for every share count and threshold (manager.go, Unseal).               *)
(***************************************************************************)
THEOREM OnlyAQuorumOpens == Spec => []QuorumOpens
  BY Invariance, PTL DEF IInv

(***************************************************************************)
(* No share outlives its round in memory (manager.go, discardCollected).   *)
(***************************************************************************)
THEOREM SharesAreDiscarded == Spec => []NoShareLingers
<1>1. IInv => NoShareLingers
  BY DEF IInv, OpenOrCollecting, NoShareLingers
<1>2. QED BY <1>1, Invariance, PTL

(***************************************************************************)
(* The seal manager implements KeyVersion: every method maps to one of its *)
(* steps or changes neither copy of the version.                           *)
(***************************************************************************)
THEOREM ImplementsKeyVersion == Spec => KeyLifecycle
<1>1. Init => Key!Init
  BY DEF Init, Key!Init, Uninitialized
<1>2. IInv /\ [Next]_vars => [Key!Next]_Key!vars
  <2> SUFFICES ASSUME IInv, [Next]_vars PROVE [Key!Next]_Key!vars
    OBVIOUS
  <2> USE DEF Key!Next, Key!vars
  <2>idle. UNCHANGED vars => UNCHANGED Key!vars
    BY DEF vars
  <2>establish. ASSUME NEW n \in 0..MaxShares, NEW t \in 0..MaxShares,
               Initialize(n, t) \/ InitializeUnreported(n, t)
        PROVE  Key!Establish
    BY <2>establish DEF IInv, ConfigValid, OpenOrCollecting, Initialize,
                InitializeUnreported, Configure, Key!Establish, InitialKEKVersion,
                Key!InitialKEKVersion
  <2>load. ASSUME NEW share, Unseal(share)
        PROVE  Key!Load \/ UNCHANGED Key!vars
    BY <2>load DEF IInv, ConfigValid, OpenOrCollecting, Unseal, CollectShare,
                OpenOnQuorum, RejectQuorum, CompletesQuorum, Accepts, Key!Load,
                InitialKEKVersion
  <2>forget. CASE SealStore
    BY <2>forget DEF SealStore, ForgetKeys, Key!Forget
  <2>raise. CASE Rotate \/ RotateUnreported
    <3>1. stored'.kekVersion = stored.kekVersion + 1
      BY <2>raise, RotatedConfig DEF IInv, TypeOK, Rotate, RotateUnreported
    <3>2. QED BY <2>raise, <3>1 DEF IInv, OpenOrCollecting, Rotate, RotateUnreported,
                                Key!Raise
  <2> QED BY <2>idle, <2>establish, <2>load, <2>forget, <2>raise
             DEF Next, SubmitGenuine, SubmitWrong
<1>3. QED BY <1>1, <1>2, Invariance, PTL DEF Spec, KeyLifecycle, Key!Spec

(* What the cipher relies on follows: memory never runs ahead of the       *)
(* database, so the version seal.Manager seals new values under is         *)
(* always one a restart reaches.                                           *)
THEOREM HeldNeverAhead == Spec => []Key!HeldIsStored
<1>1. Key!Init => Key!HeldIsStored
  BY DEF Key!Init, Key!HeldIsStored
<1>2. Key!HeldIsStored /\ [Key!Next]_(Key!vars) => Key!HeldIsStored'
  BY DEF Key!HeldIsStored, Key!Next, Key!vars, Key!Establish, Key!Load, Key!Raise,
         Key!Forget, Key!InitialKEKVersion
<1>3. QED BY <1>1, <1>2, ImplementsKeyVersion, PTL DEF KeyLifecycle, Key!Spec

(* And no step lowers the stored version: Initialize starts it at one and  *)
(* Rotate only moves it up.                                                *)
THEOREM StoredMonotone == Spec => Key!StoredNeverFalls
<1>1. Key!HeldIsStored /\ [Key!Next]_(Key!vars) => [(stored.kekVersion)' >= stored.kekVersion]_(Key!vars)
  BY DEF Key!HeldIsStored, Key!Next, Key!vars, Key!Establish, Key!Load, Key!Raise,
         Key!Forget, Key!InitialKEKVersion
<1>2. QED BY <1>1, HeldNeverAhead, ImplementsKeyVersion, PTL
          DEF KeyLifecycle, Key!Spec, Key!StoredNeverFalls

(***************************************************************************)
(* A store whose shares were never delivered does not reopen once its root *)
(* has left memory, whatever shares are submitted (manager.go, Initialize).*)
(***************************************************************************)
THEOREM LostSharesStayLost == Spec => LostSharesAreFinal
<1> DEFINE Lost == stored.initialized /\ ~delivered /\ root = NoKey
<1>1. IInv /\ [Next]_vars => [Lost => root' = NoKey]_vars
  <2> SUFFICES ASSUME IInv, Next, Lost PROVE root' = NoKey
    OBVIOUS
  <2>1. ASSUME NEW i \in 0..MaxShares, SubmitWrong(i) PROVE root' = NoKey
    <3>1. ~OpenOnQuorum(WrongShare(i))
      <4> SUFFICES ASSUME OpenOnQuorum(WrongShare(i)) PROVE FALSE
        OBVIOUS
      <4> DEFINE gathered == Append(collected, WrongShare(i))
      <4>1. /\ Len(gathered) \in Nat \ {0}
            /\ gathered[Len(gathered)] = WrongShare(i)
        BY ShareSets DEF IInv, TypeOK
      <4>2. Combine(gathered, stored.threshold) = Other
        <5> HIDE DEF gathered
        <5> QED BY <4>1, ShareSets DEF Combine, Genuine, Other
      <4>3. QED BY <4>2 DEF OpenOnQuorum, VerifyKeyCheckValue, Genuine, Other
    <3>2. QED BY <2>1, <3>1 DEF SubmitWrong, Unseal, CollectShare, RejectQuorum
  <2>2. QED BY <2>1 DEF Next, Initialize, InitializeUnreported, Configure,
                        SubmitGenuine, SealStore, ForgetKeys, Rotate,
                        RotateUnreported
<1>2. QED BY <1>1, Invariance, PTL DEF Spec, LostSharesAreFinal

=============================================================================
