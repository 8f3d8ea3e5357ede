---------------------------- MODULE LeasesProofs ----------------------------
(***************************************************************************)
(* Leases for any number of identities, items, tokens, leases and requests *)
(* in flight, and any times: one holding per identity and item, holdings   *)
(* that stay on record, and revocations by prefix that mean what they say. *)
(***************************************************************************)
EXTENDS Leases, TLAPS

(***************************************************************************)
(* Numbers are handed out in order, and what lies past the counters does   *)
(* not exist yet.                                                          *)
(***************************************************************************)
CounterInv ==
    /\ \A t \in TokenIds : t > tokens => token[t] = NoToken
    /\ \A l \in LeaseIds : l > leases => lease[l] = NoLease
    /\ \A i \in Identities : barred[i] <= tokens
    /\ \A v \in Revocations : revocation[v].mark <= tokens

(***************************************************************************)
(* A renewal in flight carries an expiry after the moment it was checked,  *)
(* and that moment is at most MaxDelay ago.                                *)
(***************************************************************************)
RenewalInv ==
    \A n \in Renewals : renewal[n].pc = "checked" =>
        /\ renewal[n].expires >= renewal[n].at + 1
        /\ now <= renewal[n].at + MaxDelay

(***************************************************************************)
(* What was leased at a time is on record, with an expiry that no renewal  *)
(* moved further back than MaxDelay, or the retention has passed.          *)
(***************************************************************************)
OnRecord(i, x, at) ==
    \/ now + MaxDelay >= at + 1 + Retention
    \/ \E l \in LeaseIds : /\ lease[l].state # "none"
                           /\ lease[l].holder = i /\ lease[l].item = x
                           /\ lease[l].expires + MaxDelay >= at + 1

RecordInv ==
    /\ \A i \in Identities, x \in Items :
          served[<<i, x>>] # Never =>
              served[<<i, x>>] <= now /\ OnRecord(i, x, served[<<i, x>>])
    /\ \A r \in Reads :
          read[r].pc = "leased" =>
              read[r].at <= now /\ OnRecord(read[r].holder, read[r].item, read[r].at)

(***************************************************************************)
(* The holders a revocation has dealt with have lost the tokens they had   *)
(* when they were listed.                                                  *)
(***************************************************************************)
RevocationInv ==
    \A v \in Revocations : \A i \in revocation[v].named \ revocation[v].left :
        \A t \in TokenIds :
            t <= revocation[v].mark /\ token[t].holder = i
                => token[t].state # "usable"

IInv ==
    /\ TypeOK
    /\ CounterInv
    /\ RenewalInv
    /\ RecordInv
    /\ RevocationInv
    /\ OneHolding
    /\ NamedHoldersAreBarred

-----------------------------------------------------------------------------
(* The lemmas: what a step preserves, one lemma per part of the invariant. *)

(* Initially nothing has been issued. *)
LEMMA InitIInv == Init => IInv
  <1> SUFFICES ASSUME Init PROVE IInv
    OBVIOUS
  <1> USE TimesAssumption, BoundsAssumption
  <1>1. TypeOK
    <2>1. NoToken \in Token /\ NoLease \in Lease /\ IdleRead \in Read
          /\ IdleRenewal \in Renewal
      BY DEF Token, Lease, Read, Renewal
    <2>2. IdleRevocation \in Revocation
      BY DEF Revocation, IdleRevocation
    <2> QED
      BY <2>1, <2>2 DEF Init, TypeOK, Never
  <1>2. CounterInv /\ RenewalInv /\ RecordInv /\ RevocationInv
    BY DEF Init, CounterInv, RenewalInv, RecordInv, RevocationInv, IdleRead,
           IdleRenewal, IdleRevocation, Never
  <1>3. OneHolding /\ NamedHoldersAreBarred
    BY DEF Init, OneHolding, NamedHoldersAreBarred, NoLease, NoToken
  <1> QED
    BY <1>1, <1>2, <1>3 DEF IInv

(* What the types say of rows and requests that are there. *)
LEMMA Fields ==
    ASSUME TypeOK
    PROVE  /\ \A t \in TokenIds : token[t].state # "none" => token[t].holder \in Identities
           /\ \A l \in LeaseIds : lease[l].state # "none" =>
                 lease[l].holder \in Identities /\ lease[l].item \in Items
           /\ \A l \in LeaseIds : lease[l].expires \in Nat
           /\ \A r \in Reads : read[r].pc # "idle" =>
                 read[r].holder \in Identities /\ read[r].item \in Items
           /\ \A r \in Reads : read[r].at \in Nat
           /\ \A n \in Renewals : renewal[n].pc = "checked" =>
                 renewal[n].lease \in LeaseIds
           /\ \A n \in Renewals : renewal[n].at \in Nat /\ renewal[n].expires \in Nat
           /\ \A v \in Revocations : revocation[v].mark \in 0..MaxTokens
  BY DEF TypeOK, Token, NoToken, Lease, NoLease, Read, IdleRead, Renewal,
         IdleRenewal, Revocation

(* Time passes: the record may only lose to the retention. *)
LEMMA TickStep == IInv /\ Tick => IInv'
  <1> SUFFICES ASSUME IInv, Tick PROVE IInv'
    OBVIOUS
  <1> USE TimesAssumption, BoundsAssumption
  <1> USE DEF IInv
  <1>u. UNCHANGED <<token, tokens, lease, leases, read, renewal, revocation,
                    served, barred>>
    BY DEF Tick, tokenVars, leaseVars, flightVars, historyVars
  <1>t. now \in Nat /\ now' = now + 1
    BY DEF Tick, TypeOK
  <1>1. TypeOK'
    BY <1>u, <1>t DEF TypeOK
  <1>2. CounterInv' /\ RevocationInv' /\ OneHolding' /\ NamedHoldersAreBarred'
    BY <1>u DEF CounterInv, RevocationInv, OneHolding, NamedHoldersAreBarred
  <1>3. RenewalInv'
    <2> SUFFICES ASSUME NEW n \in Renewals, renewal[n].pc = "checked"
                 PROVE  /\ renewal[n].expires >= renewal[n].at + 1
                        /\ now + 1 <= renewal[n].at + MaxDelay
      BY <1>u, <1>t DEF RenewalInv
    <2>1. renewal[n].at \in Nat
      BY Fields
    <2> QED
      BY <2>1, <1>t DEF RenewalInv, Tick
  <1>4. ASSUME NEW i, NEW x, NEW at \in Nat, OnRecord(i, x, at)
        PROVE  OnRecord(i, x, at)'
    BY <1>4, <1>u, <1>t DEF OnRecord
  <1>5. RecordInv'
    <2>1. \A i \in Identities, x \in Items : served[<<i, x>>] \in Nat
      BY DEF TypeOK
    <2>2. \A r \in Reads : read[r].at \in Nat
      BY Fields
    <2>3. ASSUME NEW i \in Identities, NEW x \in Items, served[<<i, x>>] # Never
          PROVE  served[<<i, x>>] <= now + 1 /\ OnRecord(i, x, served[<<i, x>>])'
      BY <2>1, <2>3, <1>4, <1>t, <1>u DEF RecordInv
    <2>4. ASSUME NEW r \in Reads, read[r].pc = "leased"
          PROVE  read[r].at <= now + 1
                 /\ OnRecord(read[r].holder, read[r].item, read[r].at)'
      BY <2>2, <2>4, <1>4, <1>t, <1>u DEF RecordInv
    <2> QED
      BY <2>3, <2>4, <1>u, <1>t DEF RecordInv
  <1> QED
    BY <1>1, <1>2, <1>3, <1>5

(* A new token comes after every token that was barred. *)
LEMMA LoginStep == ASSUME NEW i \in Identities PROVE IInv /\ Login(i) => IInv'
  <1> SUFFICES ASSUME IInv, Login(i) PROVE IInv'
    OBVIOUS
  <1> USE TimesAssumption, BoundsAssumption
  <1> USE DEF IInv
  <1>u. UNCHANGED <<now, lease, leases, read, renewal, revocation, served, barred>>
    BY DEF Login, leaseVars, flightVars, historyVars
  <1>t. /\ tokens \in Nat /\ tokens + 1 \in TokenIds /\ tokens' = tokens + 1
        /\ token' = [token EXCEPT ![tokens + 1] = [state |-> "usable", holder |-> i]]
    BY DEF Login, TypeOK, TokenIds
  <1>n. \A t \in TokenIds : t # tokens + 1 => token'[t] = token[t]
    BY <1>t DEF TypeOK
  <1>m. token'[tokens + 1] = [state |-> "usable", holder |-> i]
    BY <1>t DEF TypeOK
  <1>1. TypeOK'
    <2>1. [state |-> "usable", holder |-> i] \in Token
      BY DEF Token
    <2>2. token' \in [TokenIds -> Token]
      BY <2>1, <1>t DEF TypeOK
    <2>3. tokens' \in 0..MaxTokens
      BY <1>t DEF TokenIds
    <2> QED
      BY <1>u, <2>2, <2>3 DEF TypeOK
  <1>2. CounterInv'
    <2>1. \A t \in TokenIds : t > tokens + 1 => t > tokens /\ t # tokens + 1
      BY <1>t DEF TokenIds
    <2>2. \A t \in TokenIds : t > tokens' => token'[t] = NoToken
      BY <2>1, <1>t, <1>n DEF CounterInv
    <2>3. \A j \in Identities : barred[j] <= tokens + 1
      BY <1>t DEF CounterInv, TypeOK
    <2>4. \A v \in Revocations : revocation[v].mark <= tokens + 1
      BY <1>t, Fields DEF CounterInv
    <2> QED
      BY <2>2, <2>3, <2>4, <1>u, <1>t DEF CounterInv
  <1>3. RenewalInv' /\ RecordInv' /\ OneHolding'
    BY <1>u DEF RenewalInv, RecordInv, OnRecord, OneHolding
  <1>4. RevocationInv'
    <2> SUFFICES ASSUME NEW v \in Revocations,
                        NEW j \in revocation[v].named \ revocation[v].left,
                        NEW t \in TokenIds, t <= revocation[v].mark,
                        token'[t].holder = j
                 PROVE  token'[t].state # "usable"
      BY <1>u DEF RevocationInv
    <2>1. t # tokens + 1
      BY <1>t, Fields DEF CounterInv, TokenIds
    <2> QED
      BY <2>1, <1>n DEF RevocationInv
  <1>5. NamedHoldersAreBarred'
    <2> SUFFICES ASSUME NEW t \in TokenIds, token'[t].state = "usable"
                 PROVE  t > barred[token'[t].holder]
      BY <1>u DEF NamedHoldersAreBarred
    <2>1. CASE t = tokens + 1
      <3>1. barred[i] \in Nat /\ barred[i] <= tokens
        BY DEF CounterInv, TypeOK
      <3> QED
        BY <2>1, <3>1, <1>m, <1>t
    <2>2. CASE t # tokens + 1
      BY <2>2, <1>n DEF NamedHoldersAreBarred
    <2> QED
      BY <2>1, <2>2
  <1> QED
    BY <1>1, <1>2, <1>3, <1>4, <1>5

(***************************************************************************)
(* The steps of a read that leave every lease alone: what matters of them  *)
(* is the read itself.                                                     *)
(***************************************************************************)
LEMMA AuthenticateStep ==
    ASSUME NEW r \in Reads, NEW t \in TokenIds, NEW x \in Items
    PROVE  IInv /\ Authenticate(r, t, x) => IInv'
  <1> SUFFICES ASSUME IInv, Authenticate(r, t, x) PROVE IInv'
    OBVIOUS
  <1> USE DEF IInv
  <1>u. UNCHANGED <<now, token, tokens, lease, leases, renewal, revocation,
                    served, barred>>
    BY DEF Authenticate, tokenVars, leaseVars, historyVars
  <1> DEFINE admitted == [pc |-> "admitted", holder |-> token[t].holder,
                          item |-> x, at |-> 0]
  <1>r. read' = [read EXCEPT ![r] = admitted]
    BY DEF Authenticate
  <1>1. TypeOK'
    <2>1. token[t].holder \in Identities
      BY Fields DEF Authenticate
    <2>2. admitted \in Read
      BY <2>1 DEF Read
    <2>3. read' \in [Reads -> Read]
      BY <2>2, <1>r DEF TypeOK
    <2> QED
      BY <2>3, <1>u DEF TypeOK
  <1>2. CounterInv' /\ RenewalInv' /\ RevocationInv' /\ OneHolding'
        /\ NamedHoldersAreBarred'
    BY <1>u DEF CounterInv, RenewalInv, RevocationInv, OneHolding,
                NamedHoldersAreBarred
  <1>3. RecordInv'
    <2>1. \A q \in Reads : read'[q].pc = "leased" => read'[q] = read[q]
      BY <1>r DEF TypeOK
    <2> QED
      BY <2>1, <1>u DEF RecordInv, OnRecord
  <1> QED
    BY <1>1, <1>2, <1>3

(* A read that ends without an answer. *)
LEMMA ReadFailsStep ==
    ASSUME NEW r \in Reads PROVE IInv /\ ReadFails(r) => IInv'
  <1> SUFFICES ASSUME IInv, ReadFails(r) PROVE IInv'
    OBVIOUS
  <1> USE DEF IInv
  <1>u. UNCHANGED <<now, token, tokens, lease, leases, renewal, revocation,
                    served, barred>>
    BY DEF ReadFails, tokenVars, leaseVars, historyVars
  <1>r. read' = [read EXCEPT ![r] = IdleRead]
    BY DEF ReadFails
  <1>1. TypeOK'
    <2>1. read' \in [Reads -> Read]
      BY <1>r DEF TypeOK, Read
    <2> QED
      BY <2>1, <1>u DEF TypeOK
  <1>2. CounterInv' /\ RenewalInv' /\ RevocationInv' /\ OneHolding'
        /\ NamedHoldersAreBarred'
    BY <1>u DEF CounterInv, RenewalInv, RevocationInv, OneHolding,
                NamedHoldersAreBarred
  <1>3. RecordInv'
    <2>1. \A q \in Reads : read'[q].pc = "leased" => read'[q] = read[q]
      BY <1>r DEF TypeOK, IdleRead
    <2> QED
      BY <2>1, <1>u DEF RecordInv, OnRecord
  <1> QED
    BY <1>1, <1>2, <1>3

(* The answer of a read: its lease is the record of what it served. *)
LEMMA AnswerStep ==
    ASSUME NEW r \in Reads PROVE IInv /\ Answer(r) => IInv'
  <1> SUFFICES ASSUME IInv, Answer(r) PROVE IInv'
    OBVIOUS
  <1> USE DEF IInv
  <1>u. UNCHANGED <<now, token, tokens, lease, leases, renewal, revocation, barred>>
    BY DEF Answer, tokenVars, leaseVars
  <1>r. read' = [read EXCEPT ![r] = IdleRead]
    BY DEF Answer
  <1> DEFINE h == <<read[r].holder, read[r].item>>
  <1>h. read[r].holder \in Identities /\ read[r].item \in Items /\ read[r].at \in Nat
    BY Fields DEF Answer
  <1>k. h \in Identities \X Items
    BY <1>h
  <1>s. served' = [served EXCEPT ![h] = Later(served[h], read[r].at)]
    BY DEF Answer
  <1>l. Later(served[h], read[r].at) \in {served[h], read[r].at}
    BY DEF Later
  <1>1. TypeOK'
    <2>1. read' \in [Reads -> Read]
      BY <1>r DEF TypeOK, Read
    <2>2. Later(served[h], read[r].at) \in Nat
      BY <1>l, <1>k, <1>h DEF TypeOK
    <2>3. served' \in [Identities \X Items -> Nat]
      BY <2>2, <1>s DEF TypeOK
    <2> QED
      BY <2>1, <2>3, <1>u DEF TypeOK
  <1>2. CounterInv' /\ RenewalInv' /\ RevocationInv' /\ OneHolding'
        /\ NamedHoldersAreBarred'
    BY <1>u DEF CounterInv, RenewalInv, RevocationInv, OneHolding,
                NamedHoldersAreBarred
  <1>3. RecordInv'
    <2>1. \A q \in Reads : read'[q].pc = "leased" => read'[q] = read[q]
      BY <1>r DEF TypeOK, IdleRead
    <2>2. \A q \in Reads : read'[q].pc = "leased" =>
             read'[q].at <= now' /\ OnRecord(read[q].holder, read[q].item, read[q].at)'
      BY <2>1, <1>u DEF RecordInv, OnRecord
    <2>3. ASSUME NEW i \in Identities, NEW x \in Items, served'[<<i, x>>] # Never
          PROVE  served'[<<i, x>>] <= now /\ OnRecord(i, x, served'[<<i, x>>])
      <3>1. CASE <<i, x>> # h
        <4>1. served'[<<i, x>>] = served[<<i, x>>]
          BY <3>1, <1>s DEF TypeOK
        <4> QED
          BY <4>1, <2>3 DEF RecordInv
      <3>2. CASE <<i, x>> = h
        <4>1. served'[<<i, x>>] = Later(served[h], read[r].at)
          BY <3>2, <1>s, <1>k DEF TypeOK
        <4>2. i = read[r].holder /\ x = read[r].item
          BY <3>2
        <4>3. CASE served'[<<i, x>>] = served[h]
          BY <4>3, <3>2, <2>3 DEF RecordInv
        <4>4. CASE served'[<<i, x>>] = read[r].at
          BY <4>4, <4>2 DEF RecordInv, Answer
        <4> QED
          BY <4>1, <4>3, <4>4, <1>l
      <3> QED
        BY <3>1, <3>2
    <2>4. \A i \in Identities, x \in Items : served'[<<i, x>>] # Never =>
             served'[<<i, x>>] <= now' /\ OnRecord(i, x, served[<<i, x>>])'
      BY <2>3, <1>u DEF OnRecord
    <2> QED
      BY <2>2, <2>4 DEF RecordInv
  <1> QED
    BY <1>1, <1>2, <1>3

(***************************************************************************)
(* A step that keeps every record, none with an earlier expiry, keeps what *)
(* is on record.                                                           *)
(***************************************************************************)
LEMMA KeptRecords ==
    ASSUME TypeOK, NEW i, NEW x, NEW at \in Nat, OnRecord(i, x, at), now' = now,
           \A l \in LeaseIds : lease[l].state # "none" =>
               /\ lease'[l].state # "none"
               /\ lease'[l].holder = lease[l].holder
               /\ lease'[l].item = lease[l].item
               /\ lease'[l].expires \in Nat
               /\ lease'[l].expires >= lease[l].expires
    PROVE  OnRecord(i, x, at)'
  <1>1. \A l \in LeaseIds : lease[l].expires \in Nat
    BY Fields
  <1>2. CASE now + MaxDelay >= at + 1 + Retention
    BY <1>2 DEF OnRecord
  <1>3. ASSUME NEW l \in LeaseIds, lease[l].state # "none", lease[l].holder = i,
               lease[l].item = x, lease[l].expires + MaxDelay >= at + 1
        PROVE  OnRecord(i, x, at)'
    <2>1. lease'[l].expires + MaxDelay >= at + 1
      BY <1>1, <1>3, TimesAssumption
    <2> QED
      BY <2>1, <1>3 DEF OnRecord
  <1> QED
    BY <1>2, <1>3 DEF OnRecord

(***************************************************************************)
(* The lease of a read: the one in force is extended, or a new one follows *)
(* the ones that have expired.                                             *)
(***************************************************************************)
LEMMA IssueStep ==
    ASSUME NEW r \in Reads PROVE IInv /\ IssueLease(r) => IInv'
  <1> SUFFICES ASSUME IInv, IssueLease(r) PROVE IInv'
    OBVIOUS
  <1> USE TimesAssumption, BoundsAssumption
  <1> USE DEF IInv
  <1>u. UNCHANGED <<now, token, tokens, renewal, revocation, served, barred>>
    BY DEF IssueLease, tokenVars, historyVars
  <1>p. PICK i \in Identities, x \in Items : i = read[r].holder /\ x = read[r].item
    BY Fields DEF IssueLease
  <1>n. now \in Nat /\ now + TTL \in Nat /\ now + TTL >= now + 1
    BY DEF TypeOK
  <1>e. \A l \in LeaseIds : lease[l].expires \in Nat
    BY Fields
  <1> DEFINE leased == [pc |-> "leased", holder |-> i, item |-> x, at |-> now]
  <1>r. read' = [read EXCEPT ![r] = leased]
    BY <1>p DEF IssueLease
  <1>q. read' \in [Reads -> Read]
    <2>1. leased \in Read
      BY <1>n DEF Read
    <2> QED
      BY <2>1, <1>r DEF TypeOK
  <1>f. \A e \in Nat : Held(i, x, e) \in Lease
    BY DEF Held, Lease
  <1> DEFINE Issued ==
        /\ lease' \in [LeaseIds -> Lease] /\ leases' \in 0..MaxLeases
        /\ CounterInv' /\ OneHolding'
        /\ \A m \in LeaseIds : lease[m].state # "none" =>
             /\ lease'[m].state # "none"
             /\ lease'[m].holder = lease[m].holder
             /\ lease'[m].item = lease[m].item
             /\ lease'[m].expires \in Nat
             /\ lease'[m].expires >= lease[m].expires
        /\ \E l \in LeaseIds : lease'[l].state # "none" /\ lease'[l].holder = i
             /\ lease'[l].item = x
             /\ lease'[l].expires \in Nat /\ lease'[l].expires >= now + 1
  <1>1. ASSUME Extend(i, x) PROVE Issued
    <2>1. PICK l \in LeaseIds :
             /\ Holding(l, i, x)
             /\ lease' = [lease EXCEPT
                   ![l] = Held(i, x, Later(lease[l].expires, now + TTL))]
      BY <1>1 DEF Extend
    <2>2. PICK e \in Nat : /\ e = Later(lease[l].expires, now + TTL)
                           /\ e >= lease[l].expires /\ e >= now + 1
      BY <1>e, <1>n DEF Later
    <2>3. /\ lease' = [lease EXCEPT ![l] = Held(i, x, e)]
          /\ leases' = leases
      BY <2>1, <2>2, <1>1 DEF Extend
    <2>4. /\ \A m \in LeaseIds : m # l => lease'[m] = lease[m]
          /\ lease'[l] = Held(i, x, e)
      BY <2>3 DEF TypeOK
    <2>5. lease' \in [LeaseIds -> Lease]
      BY <2>3, <1>f DEF TypeOK
    <2>6. \A m \in LeaseIds : lease[m].state # "none" =>
             /\ lease'[m].state # "none"
             /\ lease'[m].holder = lease[m].holder
             /\ lease'[m].item = lease[m].item
             /\ lease'[m].expires \in Nat
             /\ lease'[m].expires >= lease[m].expires
      BY <2>4, <2>1, <2>2, <1>e DEF Holding, Held
    <2>7. CounterInv'
      <3>1. l <= leases
        BY <2>1 DEF CounterInv, Holding, NoLease, TypeOK, LeaseIds
      <3>2. \A m \in LeaseIds : m > leases => lease'[m] = NoLease
        BY <3>1, <2>4 DEF CounterInv, TypeOK, LeaseIds
      <3> QED
        BY <3>2, <2>3, <1>u DEF CounterInv
    <2>8. OneHolding'
      <3>1. \A m \in LeaseIds : /\ lease'[m].state = lease[m].state
                                /\ lease'[m].holder = lease[m].holder
                                /\ lease'[m].item = lease[m].item
        BY <2>4, <2>1 DEF Holding, Held
      <3> QED
        BY <3>1 DEF OneHolding
    <2>9. lease'[l].state # "none" /\ lease'[l].holder = i /\ lease'[l].item = x
          /\ lease'[l].expires \in Nat /\ lease'[l].expires >= now + 1
      BY <2>4, <2>2 DEF Held
    <2>10. leases' \in 0..MaxLeases
      BY <2>3 DEF TypeOK
    <2> QED
      BY <2>5, <2>6, <2>7, <2>8, <2>9, <2>10
  <1>2. ASSUME Replace(i, x) PROVE Issued
    <2> DEFINE new == leases + 1
    <2>1. /\ new \in LeaseIds /\ leases' = new /\ leases \in Nat
      BY <1>2 DEF Replace, TypeOK, LeaseIds
    <2>2. lease' = [l \in LeaseIds |->
                      IF l = new THEN Held(i, x, now + TTL)
                      ELSE IF Holding(l, i, x) THEN Revoked(l)
                      ELSE lease[l]]
      BY <1>2 DEF Replace
    <2>3. /\ lease'[new] = Held(i, x, now + TTL)
          /\ \A l \in LeaseIds : l # new /\ Holding(l, i, x) => lease'[l] = Revoked(l)
          /\ \A l \in LeaseIds : l # new /\ ~Holding(l, i, x) => lease'[l] = lease[l]
      BY <2>1, <2>2
    <2>4. lease[new] = NoLease
      BY <2>1 DEF CounterInv
    <2>5. lease' \in [LeaseIds -> Lease]
      <3>1. \A l \in LeaseIds : Holding(l, i, x) => Revoked(l) \in Lease
        BY <1>e DEF Holding, Revoked, Lease
      <3>2. \A l \in LeaseIds : lease'[l] \in Lease
        BY <3>1, <2>3, <1>f, <1>n DEF TypeOK
      <3> QED
        BY <3>2, <2>2
    <2>6. \A m \in LeaseIds : lease[m].state # "none" =>
             /\ lease'[m].state # "none"
             /\ lease'[m].holder = lease[m].holder
             /\ lease'[m].item = lease[m].item
             /\ lease'[m].expires \in Nat
             /\ lease'[m].expires >= lease[m].expires
      <3> SUFFICES ASSUME NEW m \in LeaseIds, lease[m].state # "none"
                   PROVE  /\ lease'[m].state # "none"
                          /\ lease'[m].holder = lease[m].holder
                          /\ lease'[m].item = lease[m].item
                          /\ lease'[m].expires = lease[m].expires
        BY <1>e
      <3>1. m # new
        BY <2>4 DEF NoLease
      <3>2. CASE Holding(m, i, x)
        <4>1. lease'[m] = [state |-> "revoked", holder |-> lease[m].holder,
                           item |-> lease[m].item, expires |-> lease[m].expires]
          BY <3>1, <3>2, <2>3 DEF Revoked
        <4> QED
          BY <4>1
      <3>3. CASE ~Holding(m, i, x)
        BY <3>1, <3>3, <2>3
      <3> QED
        BY <3>2, <3>3
    <2>7. CounterInv'
      <3>1. \A m \in LeaseIds : m > new => m > leases /\ m # new
        BY <2>1 DEF LeaseIds
      <3>2. \A m \in LeaseIds : m > new => lease'[m] = NoLease
        BY <3>1, <2>3 DEF CounterInv, Holding, NoLease
      <3> QED
        BY <3>2, <2>1, <1>u DEF CounterInv
    <2>8. OneHolding'
      <3> SUFFICES ASSUME NEW l \in LeaseIds, NEW m \in LeaseIds,
                          lease'[l].state = "held", lease'[m].state = "held",
                          lease'[l].holder = lease'[m].holder,
                          lease'[l].item = lease'[m].item
                   PROVE  l = m
        BY DEF OneHolding
      <3>1. \A k \in LeaseIds : k # new /\ lease'[k].state = "held" =>
               lease'[k] = lease[k] /\ ~Holding(k, i, x)
        <4>1. \A k \in LeaseIds : Revoked(k).state = "revoked"
          BY DEF Revoked
        <4> QED
          BY <4>1, <2>3
      <3>2. CASE l = new \/ m = new
        BY <3>1, <3>2, <2>3 DEF Holding, Held
      <3>3. CASE l # new /\ m # new
        BY <3>1, <3>3 DEF OneHolding
      <3> QED
        BY <3>2, <3>3
    <2>9. lease'[new].state # "none" /\ lease'[new].holder = i
          /\ lease'[new].item = x
          /\ lease'[new].expires \in Nat /\ lease'[new].expires >= now + 1
      BY <2>3, <1>n DEF Held
    <2>10. leases' \in 0..MaxLeases
      BY <2>1 DEF LeaseIds
    <2> QED
      BY <2>1, <2>5, <2>6, <2>7, <2>8, <2>9, <2>10
  <1>3. Issued
    <2>1. Extend(i, x) \/ Replace(i, x)
      BY <1>p DEF IssueLease
    <2> QED
      BY <2>1, <1>1, <1>2
  <1>4. TypeOK'
    BY <1>3, <1>q, <1>u DEF TypeOK
  <1>5. RenewalInv' /\ RevocationInv' /\ NamedHoldersAreBarred'
    BY <1>u DEF RenewalInv, RevocationInv, NamedHoldersAreBarred
  <1>6. RecordInv'
    <2>1. ASSUME NEW j, NEW y, NEW at \in Nat, OnRecord(j, y, at)
          PROVE  OnRecord(j, y, at)'
      BY <2>1, <1>3, <1>u, KeptRecords
    <2>2. ASSUME NEW j \in Identities, NEW y \in Items, served[<<j, y>>] # Never
          PROVE  served[<<j, y>>] <= now /\ OnRecord(j, y, served[<<j, y>>])'
      <3>1. served[<<j, y>>] \in Nat /\ served'[<<j, y>>] = served[<<j, y>>]
        BY <1>u DEF TypeOK
      <3>2. PICK at \in Nat : at = served[<<j, y>>]
        BY <3>1
      <3>3. at <= now /\ OnRecord(j, y, at)
        BY <3>2, <2>2 DEF RecordInv
      <3>4. OnRecord(j, y, at)'
        BY <3>3, <2>1
      <3> QED
        BY <3>1, <3>2, <3>3, <3>4 DEF OnRecord
    <2>3. ASSUME NEW s \in Reads, read'[s].pc = "leased"
          PROVE  read'[s].at <= now /\ OnRecord(read[s].holder, read[s].item, read[s].at)'
      <3>1. CASE s = r
        <4>1. read'[s] = leased
          BY <3>1, <1>r DEF TypeOK
        <4>2. PICK l \in LeaseIds :
                 lease'[l].state # "none" /\ lease'[l].holder = i
                 /\ lease'[l].item = x
                 /\ lease'[l].expires \in Nat /\ lease'[l].expires >= now + 1
          BY <1>3
        <4>3. lease'[l].expires + MaxDelay >= now + 1
          BY <4>2, <1>n
        <4> QED
          BY <4>1, <4>2, <4>3, <1>n DEF OnRecord
      <3>2. CASE s # r
        <4>1. read'[s] = read[s]
          BY <3>2, <1>r DEF TypeOK
        <4>2. PICK at \in Nat : at = read[s].at
          BY Fields
        <4>3. PICK j \in Identities, y \in Items : j = read[s].holder /\ y = read[s].item
          BY <4>1, <2>3, Fields
        <4>4. at <= now /\ OnRecord(j, y, at)
          BY <4>1, <4>2, <4>3, <2>3 DEF RecordInv
        <4>5. OnRecord(j, y, at)'
          BY <4>4, <2>1
        <4> QED
          BY <4>1, <4>2, <4>3, <4>4, <4>5 DEF OnRecord
      <3> QED
        BY <3>1, <3>2
    <2> QED
      BY <2>2, <2>3, <1>u DEF RecordInv
  <1> QED
    BY <1>3, <1>4, <1>5, <1>6

(***************************************************************************)
(* What is on record stays on record as long as leases are only kept,      *)
(* extended or revoked, and reads and what was served are left alone.      *)
(***************************************************************************)
LEMMA RecordsKept ==
    ASSUME TypeOK, RecordInv, UNCHANGED <<now, read, served>>,
           \A l \in LeaseIds : lease[l].state # "none" =>
               /\ lease'[l].state # "none"
               /\ lease'[l].holder = lease[l].holder
               /\ lease'[l].item = lease[l].item
               /\ lease'[l].expires \in Nat
               /\ lease'[l].expires >= lease[l].expires
    PROVE  RecordInv'
  <1>1. ASSUME NEW j, NEW y, NEW at \in Nat, OnRecord(j, y, at)
        PROVE  OnRecord(j, y, at)'
    BY <1>1, KeptRecords
  <1>2. ASSUME NEW j \in Identities, NEW y \in Items, served[<<j, y>>] # Never
        PROVE  served[<<j, y>>] <= now /\ OnRecord(j, y, served[<<j, y>>])'
    <2>1. PICK at \in Nat : at = served[<<j, y>>]
      BY DEF TypeOK
    <2>2. at <= now /\ OnRecord(j, y, at)
      BY <2>1, <1>2 DEF RecordInv
    <2>3. OnRecord(j, y, at)'
      BY <2>2, <1>1
    <2> QED
      BY <2>1, <2>2, <2>3 DEF OnRecord
  <1>3. ASSUME NEW s \in Reads, read[s].pc = "leased"
        PROVE  read[s].at <= now /\ OnRecord(read[s].holder, read[s].item, read[s].at)'
    <2>1. PICK at \in Nat : at = read[s].at
      BY Fields
    <2>2. PICK j \in Identities, y \in Items : j = read[s].holder /\ y = read[s].item
      BY <1>3, Fields
    <2>3. at <= now /\ OnRecord(j, y, at)
      BY <2>1, <2>2, <1>3 DEF RecordInv
    <2>4. OnRecord(j, y, at)'
      BY <2>3, <1>1
    <2> QED
      BY <2>1, <2>2, <2>3, <2>4 DEF OnRecord
  <1> QED
    BY <1>2, <1>3 DEF RecordInv

(***************************************************************************)
(* Revoking some of the leases in force disturbs nothing about leases.     *)
(***************************************************************************)
LEMMA RevokedRows ==
    ASSUME TypeOK, CounterInv, RecordInv, OneHolding,
           UNCHANGED <<now, read, served, leases>>,
           lease' \in [LeaseIds -> {lease'[l] : l \in LeaseIds}],
           \A l \in LeaseIds : \/ lease'[l] = lease[l]
                               \/ lease[l].state = "held" /\ lease'[l] = Revoked(l)
    PROVE  /\ lease' \in [LeaseIds -> Lease]
           /\ \A l \in LeaseIds : l > leases => lease'[l] = NoLease
           /\ RecordInv'
           /\ OneHolding'
  <1>e. \A l \in LeaseIds : lease[l].expires \in Nat
    BY Fields
  <1>1. ASSUME NEW l \in LeaseIds, lease[l].state = "held", lease'[l] = Revoked(l)
        PROVE  /\ lease'[l] \in Lease /\ lease'[l].state = "revoked"
               /\ lease'[l].holder = lease[l].holder /\ lease'[l].item = lease[l].item
               /\ lease'[l].expires = lease[l].expires
    <2>1. lease'[l] = [state |-> "revoked", holder |-> lease[l].holder,
                       item |-> lease[l].item, expires |-> lease[l].expires]
      BY <1>1 DEF Revoked
    <2>2. lease[l].holder \in Identities /\ lease[l].item \in Items
      BY <1>1, Fields
    <2>3. lease'[l] \in Lease
      BY <2>1, <2>2, <1>e DEF Lease
    <2> QED
      BY <2>1, <2>3
  <1>2. lease' \in [LeaseIds -> Lease]
    <2>1. \A l \in LeaseIds : lease'[l] \in Lease
      BY <1>1 DEF TypeOK
    <2> QED
      BY <2>1
  <1>3. \A l \in LeaseIds : l > leases => lease'[l] = NoLease
    BY DEF CounterInv, NoLease
  <1>4. RecordInv'
    <2>1. \A l \in LeaseIds : lease[l].state # "none" =>
             /\ lease'[l].state # "none"
             /\ lease'[l].holder = lease[l].holder
             /\ lease'[l].item = lease[l].item
             /\ lease'[l].expires \in Nat
             /\ lease'[l].expires >= lease[l].expires
      <3> SUFFICES ASSUME NEW l \in LeaseIds, lease[l].state # "none"
                   PROVE  /\ lease'[l].state # "none"
                          /\ lease'[l].holder = lease[l].holder
                          /\ lease'[l].item = lease[l].item
                          /\ lease'[l].expires = lease[l].expires
        BY <1>e
      <3> QED
        BY <1>1
    <2> QED
      BY <2>1, RecordsKept
  <1>5. OneHolding'
    <2>1. \A l \in LeaseIds : lease'[l].state = "held" => lease'[l] = lease[l]
      BY <1>1
    <2> QED
      BY <2>1 DEF OneHolding
  <1> QED
    BY <1>2, <1>3, <1>4, <1>5

(* A holder gives one lease up. *)
LEMMA RevokeOneStep ==
    ASSUME NEW l \in LeaseIds PROVE IInv /\ RevokeOne(l) => IInv'
  <1> SUFFICES ASSUME IInv, RevokeOne(l) PROVE IInv'
    OBVIOUS
  <1> USE DEF IInv
  <1>u. UNCHANGED <<now, token, tokens, leases, read, renewal, revocation, served,
                    barred>>
    BY DEF RevokeOne, tokenVars, flightVars, historyVars
  <1>1. /\ lease' \in [LeaseIds -> {lease'[m] : m \in LeaseIds}]
        /\ \A m \in LeaseIds : \/ lease'[m] = lease[m]
                               \/ lease[m].state = "held" /\ lease'[m] = Revoked(m)
    BY DEF RevokeOne, TypeOK
  <1>2. /\ lease' \in [LeaseIds -> Lease]
        /\ \A m \in LeaseIds : m > leases => lease'[m] = NoLease
        /\ RecordInv' /\ OneHolding'
    BY <1>1, <1>u, RevokedRows
  <1>3. TypeOK' /\ CounterInv'
    BY <1>2, <1>u DEF TypeOK, CounterInv
  <1>4. RenewalInv' /\ RevocationInv' /\ NamedHoldersAreBarred'
    BY <1>u DEF RenewalInv, RevocationInv, NamedHoldersAreBarred
  <1> QED
    BY <1>2, <1>3, <1>4

(* A renewal reads its lease, or ends without writing it. *)
LEMMA RenewalStartStep ==
    ASSUME NEW n \in Renewals
    PROVE  IInv /\ ((\E l \in LeaseIds, ttl \in RenewTTLs : CheckRenewal(n, l, ttl))
                    \/ RenewalFails(n)) => IInv'
  <1> SUFFICES ASSUME IInv,
                      (\E l \in LeaseIds, ttl \in RenewTTLs : CheckRenewal(n, l, ttl))
                          \/ RenewalFails(n)
               PROVE  IInv'
    OBVIOUS
  <1> USE TimesAssumption, BoundsAssumption
  <1> USE DEF IInv
  <1>u. UNCHANGED <<now, token, tokens, lease, leases, read, revocation, served,
                    barred>>
    BY DEF CheckRenewal, RenewalFails, tokenVars, leaseVars, historyVars
  <1>n. now \in Nat
    BY DEF TypeOK
  <1>1. PICK w \in Renewal : /\ renewal' = [renewal EXCEPT ![n] = w]
                             /\ w.pc = "checked" => w.expires >= w.at + 1
                                                    /\ now <= w.at + MaxDelay
    <2>1. CASE RenewalFails(n)
      <3>1. IdleRenewal \in Renewal /\ IdleRenewal.pc # "checked"
        BY DEF Renewal, IdleRenewal
      <3> QED
        BY <3>1, <2>1 DEF RenewalFails
    <2>2. ASSUME NEW l \in LeaseIds, NEW ttl \in RenewTTLs, CheckRenewal(n, l, ttl)
          PROVE  \E w \in Renewal : /\ renewal' = [renewal EXCEPT ![n] = w]
                                    /\ w.pc = "checked" => w.expires >= w.at + 1
                                                           /\ now <= w.at + MaxDelay
      <3> DEFINE w == [pc |-> "checked", lease |-> l, at |-> now,
                       expires |-> now + ttl]
      <3>1. ttl \in Nat /\ ttl >= 1
        OBVIOUS
      <3>2. w \in Renewal
        BY <3>1, <1>n DEF Renewal
      <3>3. w.expires >= w.at + 1 /\ now <= w.at + MaxDelay
        BY <3>1, <1>n
      <3>4. renewal' = [renewal EXCEPT ![n] = w]
        BY <2>2 DEF CheckRenewal
      <3> QED
        BY <3>2, <3>3, <3>4
    <2> QED
      BY <2>1, <2>2
  <1>2. TypeOK'
    BY <1>1, <1>u DEF TypeOK
  <1>3. RenewalInv'
    <2>1. \A m \in Renewals : m # n => renewal'[m] = renewal[m]
      BY <1>1 DEF TypeOK
    <2>2. renewal'[n] = w
      BY <1>1 DEF TypeOK
    <2> QED
      BY <2>1, <2>2, <1>1, <1>u DEF RenewalInv
  <1>4. CounterInv' /\ RecordInv' /\ RevocationInv' /\ OneHolding'
        /\ NamedHoldersAreBarred'
    BY <1>u DEF CounterInv, RecordInv, OnRecord, RevocationInv, OneHolding,
                NamedHoldersAreBarred
  <1> QED
    BY <1>2, <1>3, <1>4

(***************************************************************************)
(* A renewal writes: it may shorten the lease, by no more than its delay.  *)
(***************************************************************************)
LEMMA WriteRenewalStep ==
    ASSUME NEW n \in Renewals PROVE IInv /\ WriteRenewal(n) => IInv'
  <1> SUFFICES ASSUME IInv, WriteRenewal(n) PROVE IInv'
    OBVIOUS
  <1> USE TimesAssumption, BoundsAssumption
  <1> USE DEF IInv
  <1>u. UNCHANGED <<now, token, tokens, leases, read, revocation, served, barred>>
    BY DEF WriteRenewal, tokenVars, historyVars
  <1>n. now \in Nat
    BY DEF TypeOK
  <1>p. PICK l \in LeaseIds, e \in Nat, at \in Nat :
           /\ l = renewal[n].lease /\ e = renewal[n].expires /\ at = renewal[n].at
    BY Fields DEF WriteRenewal
  <1>b. e + MaxDelay >= now + 1
    <2>1. e >= at + 1 /\ now <= at + MaxDelay
      BY <1>p DEF RenewalInv, WriteRenewal
    <2> QED
      BY <2>1, <1>n
  <1>r. renewal' = [renewal EXCEPT ![n] = IdleRenewal]
    BY DEF WriteRenewal
  <1>c. /\ lease[l].state # "held" => lease' = lease
        /\ lease[l].state = "held" =>
              lease' = [lease EXCEPT ![l] = Held(lease[l].holder, lease[l].item, e)]
    BY <1>p DEF WriteRenewal
  <1>1. \A m \in LeaseIds :
           /\ lease'[m].state = lease[m].state
           /\ lease'[m].holder = lease[m].holder
           /\ lease'[m].item = lease[m].item
           /\ lease'[m].expires = lease[m].expires \/ lease'[m].expires = e
    <2>1. CASE lease[l].state # "held"
      BY <2>1, <1>c
    <2>2. CASE lease[l].state = "held"
      <3>1. lease'[l] = [state |-> "held", holder |-> lease[l].holder,
                         item |-> lease[l].item, expires |-> e]
        BY <2>2, <1>c DEF Held, TypeOK
      <3>2. \A m \in LeaseIds : m # l => lease'[m] = lease[m]
        BY <2>2, <1>c DEF TypeOK
      <3> QED
        BY <3>1, <3>2, <2>2
    <2> QED
      BY <2>1, <2>2
  <1>2. TypeOK'
    <2>1. renewal' \in [Renewals -> Renewal]
      BY <1>r DEF TypeOK, Renewal
    <2>2. lease' \in [LeaseIds -> Lease]
      <3>1. CASE lease[l].state # "held"
        BY <3>1, <1>c DEF TypeOK
      <3>2. CASE lease[l].state = "held"
        <4>1. lease[l].holder \in Identities /\ lease[l].item \in Items
          BY <3>2, Fields
        <4>2. Held(lease[l].holder, lease[l].item, e) \in Lease
          BY <4>1 DEF Held, Lease
        <4> QED
          BY <4>2, <3>2, <1>c DEF TypeOK
      <3> QED
        BY <3>1, <3>2
    <2> QED
      BY <2>1, <2>2, <1>u DEF TypeOK
  <1>3. CounterInv'
    <2>1. \A m \in LeaseIds : m > leases => lease'[m] = NoLease
      <3>1. CASE lease[l].state # "held"
        BY <3>1, <1>c DEF CounterInv
      <3>2. CASE lease[l].state = "held"
        <4>1. ~(l > leases)
          BY <3>2 DEF CounterInv, NoLease
        <4> QED
          BY <4>1, <3>2, <1>c DEF CounterInv, TypeOK
      <3> QED
        BY <3>1, <3>2
    <2> QED
      BY <2>1, <1>u DEF CounterInv
  <1>4. RenewalInv'
    BY <1>r, <1>u DEF RenewalInv, TypeOK, IdleRenewal
  <1>5. OneHolding'
    BY <1>1 DEF OneHolding
  <1>6. RevocationInv' /\ NamedHoldersAreBarred'
    BY <1>u DEF RevocationInv, NamedHoldersAreBarred
  <1>7. RecordInv'
    <2>1. ASSUME NEW j, NEW y, NEW t \in Nat, t <= now, OnRecord(j, y, t)
          PROVE  OnRecord(j, y, t)'
      <3>1. CASE now + MaxDelay >= t + 1 + Retention
        BY <3>1, <1>u DEF OnRecord
      <3>2. ASSUME NEW m \in LeaseIds, lease[m].state # "none",
                   lease[m].holder = j, lease[m].item = y,
                   lease[m].expires + MaxDelay >= t + 1
            PROVE  OnRecord(j, y, t)'
        <4>1. e + MaxDelay >= t + 1
          BY <1>b, <1>n, <2>1
        <4>2. lease'[m].expires + MaxDelay >= t + 1
          BY <4>1, <3>2, <1>1
        <4> QED
          BY <4>2, <3>2, <1>1 DEF OnRecord
      <3> QED
        BY <3>1, <3>2, <2>1 DEF OnRecord
    <2>2. ASSUME NEW j \in Identities, NEW y \in Items, served[<<j, y>>] # Never
          PROVE  served[<<j, y>>] <= now /\ OnRecord(j, y, served[<<j, y>>])'
      <3>1. PICK t \in Nat : t = served[<<j, y>>]
        BY DEF TypeOK
      <3>2. t <= now /\ OnRecord(j, y, t)
        BY <3>1, <2>2 DEF RecordInv
      <3>3. OnRecord(j, y, t)'
        BY <3>2, <2>1
      <3> QED
        BY <3>1, <3>2, <3>3, <1>u DEF OnRecord
    <2>3. ASSUME NEW s \in Reads, read[s].pc = "leased"
          PROVE  read[s].at <= now /\ OnRecord(read[s].holder, read[s].item, read[s].at)'
      <3>1. PICK t \in Nat : t = read[s].at
        BY Fields
      <3>2. PICK j \in Identities, y \in Items : j = read[s].holder /\ y = read[s].item
        BY <2>3, Fields
      <3>3. t <= now /\ OnRecord(j, y, t)
        BY <3>1, <3>2, <2>3 DEF RecordInv
      <3>4. OnRecord(j, y, t)'
        BY <3>3, <2>1
      <3> QED
        BY <3>1, <3>2, <3>3, <3>4, <1>u DEF OnRecord
    <2> QED
      BY <2>2, <2>3, <1>u DEF RecordInv
  <1> QED
    BY <1>2, <1>3, <1>4, <1>5, <1>6, <1>7

(* The sweeper forgets only what is past its retention. *)
LEMMA SweepStep == IInv /\ Sweep => IInv'
  <1> SUFFICES ASSUME IInv, Sweep PROVE IInv'
    OBVIOUS
  <1> USE TimesAssumption, BoundsAssumption
  <1> USE DEF IInv
  <1>p. PICK S \in SUBSET {l \in LeaseIds : Due(l)} :
           /\ lease' = [l \in LeaseIds |-> IF l \in S THEN NoLease ELSE lease[l]]
           /\ UNCHANGED <<now, tokenVars, leases, flightVars, historyVars>>
    BY DEF Sweep
  <1>u. UNCHANGED <<now, token, tokens, leases, read, renewal, revocation, served,
                    barred>>
    BY <1>p DEF tokenVars, flightVars, historyVars
  <1>n. now \in Nat
    BY DEF TypeOK
  <1>e. \A l \in LeaseIds : lease[l].expires \in Nat
    BY Fields
  <1>c. /\ \A l \in S : lease'[l] = NoLease /\ lease[l].expires + Retention <= now
        /\ \A l \in LeaseIds \ S : lease'[l] = lease[l]
    BY <1>p DEF Due
  <1>1. TypeOK'
    <2>1. lease' \in [LeaseIds -> Lease]
      BY <1>p DEF TypeOK, Lease
    <2> QED
      BY <2>1, <1>u DEF TypeOK
  <1>2. CounterInv'
    BY <1>c, <1>u DEF CounterInv
  <1>3. RenewalInv' /\ RevocationInv' /\ NamedHoldersAreBarred'
    BY <1>u DEF RenewalInv, RevocationInv, NamedHoldersAreBarred
  <1>4. OneHolding'
    <2>1. \A l \in LeaseIds : lease'[l].state = "held" => lease'[l] = lease[l]
      BY <1>c DEF NoLease
    <2> QED
      BY <2>1 DEF OneHolding
  <1>5. RecordInv'
    <2>1. ASSUME NEW j, NEW y, NEW t \in Nat, OnRecord(j, y, t)
          PROVE  OnRecord(j, y, t)'
      <3>1. CASE now + MaxDelay >= t + 1 + Retention
        BY <3>1, <1>u DEF OnRecord
      <3>2. ASSUME NEW m \in LeaseIds, lease[m].state # "none",
                   lease[m].holder = j, lease[m].item = y,
                   lease[m].expires + MaxDelay >= t + 1
            PROVE  OnRecord(j, y, t)'
        <4>1. CASE m \in S
          <5>1. lease[m].expires + Retention <= now /\ lease[m].expires \in Nat
            BY <4>1, <1>c, <1>e
          <5>2. now + MaxDelay >= t + 1 + Retention
            BY <5>1, <3>2, <1>n
          <5> QED
            BY <5>2, <1>u DEF OnRecord
        <4>2. CASE m \notin S
          BY <4>2, <3>2, <1>c DEF OnRecord
        <4> QED
          BY <4>1, <4>2
      <3> QED
        BY <3>1, <3>2, <2>1 DEF OnRecord
    <2>2. ASSUME NEW j \in Identities, NEW y \in Items, served[<<j, y>>] # Never
          PROVE  served[<<j, y>>] <= now /\ OnRecord(j, y, served[<<j, y>>])'
      <3>1. PICK t \in Nat : t = served[<<j, y>>]
        BY DEF TypeOK
      <3>2. t <= now /\ OnRecord(j, y, t)
        BY <3>1, <2>2 DEF RecordInv
      <3>3. OnRecord(j, y, t)'
        BY <3>2, <2>1
      <3> QED
        BY <3>1, <3>2, <3>3, <1>u DEF OnRecord
    <2>3. ASSUME NEW s \in Reads, read[s].pc = "leased"
          PROVE  read[s].at <= now /\ OnRecord(read[s].holder, read[s].item, read[s].at)'
      <3>1. PICK t \in Nat : t = read[s].at
        BY Fields
      <3>2. PICK j \in Identities, y \in Items : j = read[s].holder /\ y = read[s].item
        BY <2>3, Fields
      <3>3. t <= now /\ OnRecord(j, y, t)
        BY <3>1, <3>2, <2>3 DEF RecordInv
      <3>4. OnRecord(j, y, t)'
        BY <3>3, <2>1
      <3> QED
        BY <3>1, <3>2, <3>3, <3>4, <1>u DEF OnRecord
    <2> QED
      BY <2>2, <2>3, <1>u DEF RecordInv
  <1> QED
    BY <1>1, <1>2, <1>3, <1>4, <1>5

(* A revocation lists its holders, or ends without an answer. *)
LEMMA ListStep ==
    ASSUME NEW v \in Revocations
    PROVE  IInv /\ (ListHolders(v) \/ RevocationFails(v)) => IInv'
  <1> SUFFICES ASSUME IInv, ListHolders(v) \/ RevocationFails(v) PROVE IInv'
    OBVIOUS
  <1> USE DEF IInv
  <1>u. UNCHANGED <<now, token, tokens, lease, leases, read, renewal, served, barred>>
    BY DEF ListHolders, RevocationFails, tokenVars, leaseVars, historyVars
  <1>1. PICK w \in Revocation : /\ revocation' = [revocation EXCEPT ![v] = w]
                                /\ w.named = w.left /\ w.mark <= tokens
    <2>1. CASE ListHolders(v)
      <3>1. HoldersUnder \in SUBSET Identities /\ tokens \in 0..MaxTokens
        BY DEF HoldersUnder, TypeOK
      <3> DEFINE w == [pc |-> "listed", named |-> HoldersUnder,
                       left |-> HoldersUnder, mark |-> tokens, took |-> {}]
      <3>2. w \in Revocation /\ w.named = w.left /\ w.mark = tokens
        BY <3>1 DEF Revocation
      <3>3. tokens <= tokens
        BY <3>1
      <3> QED
        BY <3>2, <3>3, <2>1 DEF ListHolders
    <2>2. CASE RevocationFails(v)
      <3>1. 0 \in 0..MaxTokens /\ 0 <= tokens
        BY BoundsAssumption DEF TypeOK
      <3>2. IdleRevocation \in Revocation
            /\ IdleRevocation.named = IdleRevocation.left /\ IdleRevocation.mark = 0
        BY <3>1 DEF Revocation, IdleRevocation
      <3> QED
        BY <3>1, <3>2, <2>2 DEF RevocationFails
    <2> QED
      BY <2>1, <2>2
  <1>2. /\ \A u \in Revocations : u # v => revocation'[u] = revocation[u]
        /\ revocation'[v] = w
    BY <1>1 DEF TypeOK
  <1>3. TypeOK'
    BY <1>1, <1>u DEF TypeOK
  <1>4. CounterInv' /\ RevocationInv'
    BY <1>1, <1>2, <1>u DEF CounterInv, RevocationInv
  <1>5. RenewalInv' /\ RecordInv' /\ OneHolding' /\ NamedHoldersAreBarred'
    BY <1>u DEF RenewalInv, RecordInv, OnRecord, OneHolding, NamedHoldersAreBarred
  <1> QED
    BY <1>3, <1>4, <1>5

(* A revocation takes the leases that are under the prefix by now. *)
LEMMA RevokeLeasesStep ==
    ASSUME NEW v \in Revocations PROVE IInv /\ RevokeLeases(v) => IInv'
  <1> SUFFICES ASSUME IInv, RevokeLeases(v) PROVE IInv'
    OBVIOUS
  <1> USE DEF IInv
  <1>u. UNCHANGED <<now, token, tokens, leases, read, renewal, served, barred>>
    BY DEF RevokeLeases, tokenVars, historyVars
  <1>1. /\ lease' \in [LeaseIds -> {lease'[l] : l \in LeaseIds}]
        /\ \A l \in LeaseIds : \/ lease'[l] = lease[l]
                               \/ lease[l].state = "held" /\ lease'[l] = Revoked(l)
    BY DEF RevokeLeases, HeldUnder
  <1>2. /\ lease' \in [LeaseIds -> Lease]
        /\ \A l \in LeaseIds : l > leases => lease'[l] = NoLease
        /\ RecordInv' /\ OneHolding'
    BY <1>1, <1>u, RevokedRows
  <1> DEFINE w == [pc |-> "revoking", named |-> revocation[v].named,
                   left |-> revocation[v].left, mark |-> revocation[v].mark,
                   took |-> HoldersUnder]
  <1>3. revocation' = [revocation EXCEPT ![v] = w]
    BY DEF RevokeLeases
  <1>4. w \in Revocation
    BY DEF TypeOK, Revocation, HoldersUnder
  <1>5. TypeOK'
    BY <1>2, <1>3, <1>4, <1>u DEF TypeOK
  <1>6. \A u \in Revocations : /\ revocation'[u].named = revocation[u].named
                               /\ revocation'[u].left = revocation[u].left
                               /\ revocation'[u].mark = revocation[u].mark
    BY <1>3 DEF TypeOK
  <1>7. CounterInv' /\ RevocationInv'
    BY <1>2, <1>6, <1>u DEF CounterInv, RevocationInv
  <1>8. RenewalInv' /\ NamedHoldersAreBarred'
    BY <1>u DEF RenewalInv, NamedHoldersAreBarred
  <1> QED
    BY <1>2, <1>5, <1>7, <1>8

(* A revocation takes the tokens of its next holder. *)
LEMMA RevokeHolderStep ==
    ASSUME NEW v \in Revocations, NEW i \in Identities
    PROVE  IInv /\ RevokeHolder(v, i) => IInv'
  <1> SUFFICES ASSUME IInv, RevokeHolder(v, i) PROVE IInv'
    OBVIOUS
  <1> USE DEF IInv
  <1>u. UNCHANGED <<now, tokens, lease, leases, read, renewal, served, barred>>
    BY DEF RevokeHolder, leaseVars, historyVars
  <1>t. /\ token' = TokensRevoked(i)
        /\ \A t \in TokenIds :
              /\ token'[t].holder = token[t].holder
              /\ token'[t].state = "usable" =>
                    token[t].state = "usable" /\ token[t].holder # i
    BY DEF RevokeHolder, TokensRevoked
  <1> DEFINE w == [pc |-> "revoking", named |-> revocation[v].named,
                   left |-> revocation[v].left \ {i}, mark |-> revocation[v].mark,
                   took |-> revocation[v].took]
  <1>3. revocation' = [revocation EXCEPT ![v] = w]
    BY DEF RevokeHolder
  <1>4. w \in Revocation
    BY DEF TypeOK, Revocation
  <1>5. TypeOK'
    <2>1. token' \in [TokenIds -> Token]
      BY <1>t DEF TokensRevoked, TypeOK, Token
    <2> QED
      BY <2>1, <1>3, <1>4, <1>u DEF TypeOK
  <1>6. \A u \in Revocations :
           /\ revocation'[u].named = revocation[u].named
           /\ revocation'[u].mark = revocation[u].mark
           /\ revocation[u].left \subseteq revocation'[u].left \cup {i}
    BY <1>3 DEF TypeOK
  <1>7. CounterInv'
    <2>1. \A t \in TokenIds : t > tokens => token'[t] = NoToken
      BY <1>t DEF TokensRevoked, CounterInv, NoToken
    <2> QED
      BY <2>1, <1>6, <1>u DEF CounterInv
  <1>8. RevocationInv'
    BY <1>6, <1>t DEF RevocationInv
  <1>9. NamedHoldersAreBarred'
    BY <1>t, <1>u DEF NamedHoldersAreBarred
  <1>10. RenewalInv' /\ RecordInv' /\ OneHolding'
    BY <1>u DEF RenewalInv, RecordInv, OnRecord, OneHolding
  <1> QED
    BY <1>5, <1>7, <1>8, <1>9, <1>10

(* A revocation answers: everyone it names has been dealt with. *)
LEMMA FinishStep ==
    ASSUME NEW v \in Revocations PROVE IInv /\ FinishRevocation(v) => IInv'
  <1> SUFFICES ASSUME IInv, FinishRevocation(v) PROVE IInv'
    OBVIOUS
  <1> USE BoundsAssumption
  <1> USE DEF IInv
  <1>u. UNCHANGED <<now, token, tokens, lease, leases, read, renewal, served>>
    BY DEF FinishRevocation, tokenVars, leaseVars
  <1>r. revocation' = [revocation EXCEPT ![v] = IdleRevocation]
    BY DEF FinishRevocation
  <1>i. /\ IdleRevocation \in Revocation
        /\ IdleRevocation.named = {} /\ IdleRevocation.mark = 0
    <2>1. 0 \in 0..MaxTokens
      OBVIOUS
    <2> QED
      BY <2>1 DEF IdleRevocation, Revocation
  <1>m. revocation[v].mark \in 0..MaxTokens /\ revocation[v].mark <= tokens
    BY Fields DEF CounterInv
  <1>b. barred' = [i \in Identities |->
                    IF i \in revocation[v].named
                    THEN Later(barred[i], revocation[v].mark) ELSE barred[i]]
    BY DEF FinishRevocation
  <1>l. \A i \in Identities : Later(barred[i], revocation[v].mark)
                                 \in {barred[i], revocation[v].mark}
    BY DEF Later
  <1>1. TypeOK'
    <2>1. barred' \in [Identities -> 0..MaxTokens]
      BY <1>b, <1>l, <1>m DEF TypeOK
    <2>2. revocation' \in [Revocations -> Revocation]
      BY <1>r, <1>i DEF TypeOK
    <2> QED
      BY <2>1, <2>2, <1>u DEF TypeOK
  <1>2. /\ \A u \in Revocations : u # v => revocation'[u] = revocation[u]
        /\ revocation'[v] = IdleRevocation
    BY <1>r DEF TypeOK
  <1>3. CounterInv'
    <2>1. \A i \in Identities : barred'[i] <= tokens
      BY <1>b, <1>l, <1>m DEF CounterInv
    <2>2. 0 <= tokens
      BY DEF TypeOK
    <2>3. \A u \in Revocations : revocation'[u].mark <= tokens
      BY <1>2, <1>i, <2>2 DEF CounterInv
    <2> QED
      BY <2>1, <2>3, <1>u DEF CounterInv
  <1>4. RevocationInv'
    BY <1>2, <1>i, <1>u DEF RevocationInv
  <1>5. NamedHoldersAreBarred'
    <2> SUFFICES ASSUME NEW t \in TokenIds, token[t].state = "usable"
                 PROVE  t > barred'[token[t].holder]
      BY <1>u DEF NamedHoldersAreBarred
    <2>1. PICK i \in Identities : i = token[t].holder
      BY Fields
    <2>2. t > barred[i]
      BY <2>1 DEF NamedHoldersAreBarred
    <2>3. CASE i \in revocation[v].named
      <3>1. ~(t <= revocation[v].mark)
        BY <2>1, <2>3 DEF RevocationInv, FinishRevocation
      <3>2. t > revocation[v].mark
        BY <3>1, <1>m DEF TokenIds
      <3> QED
        BY <3>2, <2>1, <2>2, <2>3, <1>b, <1>l
    <2>4. CASE i \notin revocation[v].named
      BY <2>1, <2>2, <2>4, <1>b
    <2> QED
      BY <2>3, <2>4
  <1>6. RenewalInv' /\ RecordInv' /\ OneHolding'
    BY <1>u DEF RenewalInv, RecordInv, OnRecord, OneHolding
  <1> QED
    BY <1>1, <1>3, <1>4, <1>5, <1>6

-----------------------------------------------------------------------------

(* A step that changes nothing changes no part of the invariant. *)
LEMMA StutterStep == IInv /\ UNCHANGED vars => IInv'
  BY DEF IInv, vars, TypeOK, CounterInv, RenewalInv, RecordInv, OnRecord,
         RevocationInv, OneHolding, NamedHoldersAreBarred

(***************************************************************************)
(* Every reachable state of the leases satisfies the inductive invariant.  *)
(***************************************************************************)
THEOREM Invariance == Spec => []IInv
  <1>1. IInv /\ [Next]_vars => IInv'
    <2> SUFFICES ASSUME IInv, [Next]_vars PROVE IInv'
      OBVIOUS
    <2>1. CASE UNCHANGED vars
      BY <2>1, StutterStep
    <2>2. CASE Tick \/ Sweep
      BY <2>2, TickStep, SweepStep
    <2>3. ASSUME NEW i \in Identities, Login(i) PROVE IInv'
      BY <2>3, LoginStep
    <2>4. ASSUME NEW l \in LeaseIds, RevokeOne(l) PROVE IInv'
      BY <2>4, RevokeOneStep
    <2>5. ASSUME NEW r \in Reads, ReadStep(r) PROVE IInv'
      BY <2>5, AuthenticateStep, IssueStep, AnswerStep, ReadFailsStep DEF ReadStep
    <2>6. ASSUME NEW n \in Renewals, RenewalStep(n) PROVE IInv'
      BY <2>6, RenewalStartStep, WriteRenewalStep DEF RenewalStep
    <2>7. ASSUME NEW v \in Revocations, RevocationStep(v) PROVE IInv'
      BY <2>7, ListStep, RevokeLeasesStep, RevokeHolderStep, FinishStep
         DEF RevocationStep
    <2> QED
      BY <2>1, <2>2, <2>3, <2>4, <2>5, <2>6, <2>7 DEF Next
  <1> QED
    BY <1>1, InitIInv, PTL DEF Spec

(* The types of lease/manager.go and auth/manager.go are kept. *)
THEOREM TypeCorrect == Spec => []TypeOK
  <1>1. IInv => TypeOK
    BY DEF IInv
  <1> QED
    BY <1>1, Invariance, PTL

(***************************************************************************)
(* The unique index of lease_records is never in the way of a read: at     *)
(* most one lease of an identity on a version of a path is in force        *)
(* (lease/manager.go, Issue).                                              *)
(***************************************************************************)
THEOREM OneLeaseInForce == Spec => []OneHolding
  <1>1. IInv => OneHolding
    BY DEF IInv
  <1> QED
    BY <1>1, Invariance, PTL

(***************************************************************************)
(* Who was served a secret stays on record for the retention time, less    *)
(* the delay of a renewal (lease/manager.go, Issue, Renew and Sweep).      *)
(***************************************************************************)
THEOREM ServedStaysOnRecord == Spec => []HoldingsStayOnRecord
  <1>1. IInv => HoldingsStayOnRecord
    <2> SUFFICES ASSUME IInv, NEW i \in Identities, NEW x \in Items,
                        served[<<i, x>>] # Never,
                        now + MaxDelay <= served[<<i, x>>] + Retention
                 PROVE  Recorded(i, x)
      BY DEF HoldingsStayOnRecord
    <2>1. OnRecord(i, x, served[<<i, x>>])
      BY DEF IInv, RecordInv
    <2>2. served[<<i, x>>] \in Nat /\ now \in Nat
      BY DEF IInv, TypeOK
    <2>3. ~(now + MaxDelay >= served[<<i, x>>] + 1 + Retention)
      BY <2>2, TimesAssumption
    <2> QED
      BY <2>1, <2>3 DEF OnRecord, Recorded
  <1> QED
    BY <1>1, Invariance, PTL

(***************************************************************************)
(* A revocation by prefix that answered has revoked every token its named  *)
(* holders had when it listed them (lease/manager.go, revokeHolders).      *)
(***************************************************************************)
THEOREM AnsweredRevocationHolds == Spec => []NamedHoldersAreBarred
  <1>1. IInv => NamedHoldersAreBarred
    BY DEF IInv
  <1> QED
    BY <1>1, Invariance, PTL

=============================================================================
