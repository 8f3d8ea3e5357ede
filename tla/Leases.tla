------------------------------- MODULE Leases -------------------------------
(***************************************************************************)
(* Leases (internal/modules/lease) and the session tokens they lead to     *)
(* (internal/modules/auth): a read of a secret records who holds which     *)
(* version until when, and a revocation by prefix follows those records to *)
(* the holders' tokens.                                                    *)
(*                                                                         *)
(* A transaction and a single statement are each one step. A read is       *)
(* authenticated, leased and answered in three steps; a renewal reads in   *)
(* one and writes in another; a revocation by prefix lists the holders,    *)
(* revokes the leases and then the tokens of one holder after the other.   *)
(* Any of them may end between two of its steps, with an error, a context  *)
(* that is cancelled or a process that stops.                              *)
(***************************************************************************)
EXTENDS Naturals, FiniteSets

CONSTANTS
    NumIdentities,  \* identities, numbered in the order of their names
    Items,          \* versions of paths that can be read
    Under,          \* the items under the prefix that is revoked
    NoItem,         \* no item
    TTL,            \* ModuleOptions.LeaseTTL
    RenewTTLs,      \* the times to live a renewal asks for
    Retention,      \* lease.Retention
    Batch,          \* config.SweepBatch
    MaxDelay,       \* bound: how long a renewal waits between its statements
    MaxTime,        \* bound: the clock
    MaxTokens,      \* bound: tokens issued
    MaxLeases,      \* bound: lease records written
    Reads,          \* reads in flight
    Renewals,       \* renewals in flight
    Revocations     \* revocations by prefix in flight

ASSUME ItemsAssumption == Under \subseteq Items /\ NoItem \notin Items
ASSUME TimesAssumption ==
    /\ TTL \in Nat \ {0} /\ RenewTTLs \subseteq Nat \ {0}
    /\ Retention \in Nat /\ MaxDelay \in Nat /\ Batch \in Nat \ {0}
ASSUME BoundsAssumption ==
    /\ NumIdentities \in Nat /\ MaxTime \in Nat /\ MaxTokens \in Nat
    /\ MaxLeases \in Nat

VARIABLES
    now,         \* the clock
    token,       \* auth_tokens
    tokens,      \* tokens issued so far
    lease,       \* lease_records
    leases,      \* lease records written so far
    read,        \* reads of secrets in flight
    renewal,     \* renewals in flight
    revocation,  \* revocations by prefix in flight
    served,      \* history: when what an identity was last served was leased
    barred       \* history: tokens issued when a revocation that named the
                 \* identity, and answered, listed its holders

leaseVars == <<lease, leases>>
tokenVars == <<token, tokens>>
flightVars == <<read, renewal, revocation>>
historyVars == <<served, barred>>
vars == <<now, token, tokens, lease, leases, read, renewal, revocation, served,
          barred>>

-----------------------------------------------------------------------------
(* State *)

Identities == 1..NumIdentities
Nobody == 0
TokenIds == 1..MaxTokens
LeaseIds == 1..MaxLeases

(***************************************************************************)
(* A token that expires or is logged out is only gone earlier; both are    *)
(* left out.                                                               *)
(***************************************************************************)
NoToken == [state |-> "none", holder |-> Nobody]
Token == {NoToken} \cup [state : {"usable", "revoked"}, holder : Identities]

NoLease == [state |-> "none", holder |-> Nobody, item |-> NoItem, expires |-> 0]
Lease == {NoLease} \cup
    [state : {"held", "revoked"}, holder : Identities, item : Items, expires : Nat]

IdleRead == [pc |-> "idle", holder |-> Nobody, item |-> NoItem, at |-> 0]
Read == {IdleRead} \cup
    [pc : {"admitted", "leased"}, holder : Identities, item : Items, at : Nat]

IdleRenewal == [pc |-> "idle", lease |-> 0, at |-> 0, expires |-> 0]
Renewal == {IdleRenewal} \cup
    [pc : {"checked"}, lease : LeaseIds, at : Nat, expires : Nat]

(***************************************************************************)
(* "mark" and "took" are history: how many tokens were issued when the     *)
(* holders were listed, and whose leases the update took.                  *)
(***************************************************************************)
Revocation == [pc : {"idle", "listed", "revoking"}, named : SUBSET Identities,
               left : SUBSET Identities, mark : 0..MaxTokens,
               took : SUBSET Identities]
IdleRevocation == [pc |-> "idle", named |-> {}, left |-> {}, mark |-> 0,
                   took |-> {}]

(* The clock starts at 1, so that 0 stands for never. *)
Never == 0

TypeOK ==
    /\ now \in Nat \ {0}
    /\ token \in [TokenIds -> Token]
    /\ tokens \in 0..MaxTokens
    /\ lease \in [LeaseIds -> Lease]
    /\ leases \in 0..MaxLeases
    /\ read \in [Reads -> Read]
    /\ renewal \in [Renewals -> Renewal]
    /\ revocation \in [Revocations -> Revocation]
    /\ served \in [Identities \X Items -> Nat]
    /\ barred \in [Identities -> 0..MaxTokens]

Init ==
    /\ now = 1
    /\ token = [t \in TokenIds |-> NoToken]
    /\ tokens = 0
    /\ lease = [l \in LeaseIds |-> NoLease]
    /\ leases = 0
    /\ read = [r \in Reads |-> IdleRead]
    /\ renewal = [n \in Renewals |-> IdleRenewal]
    /\ revocation = [v \in Revocations |-> IdleRevocation]
    /\ served = [h \in Identities \X Items |-> Never]
    /\ barred = [i \in Identities |-> 0]

(***************************************************************************)
(* Time passes for everyone. A renewal does not wait for the database      *)
(* longer than MaxDelay.                                                   *)
(***************************************************************************)
Tick ==
    /\ now < MaxTime
    /\ \A n \in Renewals : renewal[n].pc = "checked" => now < renewal[n].at + MaxDelay
    /\ now' = now + 1
    /\ UNCHANGED <<tokenVars, leaseVars, flightVars, historyVars>>

-----------------------------------------------------------------------------
(* Tokens *)

Login(i) ==
    /\ tokens < MaxTokens
    /\ tokens' = tokens + 1
    /\ token' = [token EXCEPT ![tokens + 1] = [state |-> "usable", holder |-> i]]
    /\ UNCHANGED <<now, leaseVars, flightVars, historyVars>>

TokensRevoked(i) ==
    [t \in TokenIds |->
        IF token[t].holder = i /\ token[t].state = "usable"
        THEN [state |-> "revoked", holder |-> i]
        ELSE token[t]]

-----------------------------------------------------------------------------
(* A read of a secret *)

(* Slip: a token the database does not know is taken for a usable one. *)
AuthenticateUnknown(r, t, x) ==
    /\ read[r].pc = "idle"
    /\ token[t].state # "revoked"
    /\ read' = [read EXCEPT ![r] = [pc |-> "admitted", holder |-> token[t].holder,
                                    item |-> x, at |-> 0]]
    /\ UNCHANGED <<now, tokenVars, leaseVars, renewal, revocation, historyVars>>

(***************************************************************************)
(* Require authenticates the token; nobody looks at it again.              *)
(***************************************************************************)
Authenticate(r, t, x) ==
    /\ read[r].pc = "idle"
    /\ token[t].state = "usable"
    /\ read' = [read EXCEPT ![r] = [pc |-> "admitted", holder |-> token[t].holder,
                                    item |-> x, at |-> 0]]
    /\ UNCHANGED <<now, tokenVars, leaseVars, renewal, revocation, historyVars>>

Holding(l, i, x) ==
    lease[l].state = "held" /\ lease[l].holder = i /\ lease[l].item = x

Held(i, x, expires) ==
    [state |-> "held", holder |-> i, item |-> x, expires |-> expires]

Later(a, b) == IF a > b THEN a ELSE b

(***************************************************************************)
(* activeHolding found a lease that has not expired: it is extended, never *)
(* shortened.                                                              *)
(***************************************************************************)
Extend(i, x) ==
    /\ \E l \in LeaseIds :
         /\ Holding(l, i, x)
         /\ lease[l].expires > now
         /\ lease' = [lease EXCEPT
               ![l] = Held(i, x, Later(lease[l].expires, now + TTL))]
    /\ UNCHANGED leases

Revoked(l) ==
    [state |-> "revoked", holder |-> lease[l].holder, item |-> lease[l].item,
     expires |-> lease[l].expires]

(***************************************************************************)
(* There is none: an expired one is revoked and a new one is inserted.     *)
(***************************************************************************)
Replace(i, x) ==
    /\ \A l \in LeaseIds : Holding(l, i, x) => lease[l].expires <= now
    /\ leases < MaxLeases
    /\ leases' = leases + 1
    /\ lease' = [l \in LeaseIds |->
                   IF l = leases + 1 THEN Held(i, x, now + TTL)
                   ELSE IF Holding(l, i, x) THEN Revoked(l)
                   ELSE lease[l]]

IssueLease(r) ==
    /\ read[r].pc = "admitted"
    /\ Extend(read[r].holder, read[r].item) \/ Replace(read[r].holder, read[r].item)
    /\ read' = [read EXCEPT ![r] = [pc |-> "leased", holder |-> read[r].holder,
                                    item |-> read[r].item, at |-> now]]
    /\ UNCHANGED <<now, tokenVars, renewal, revocation, historyVars>>

Answer(r) ==
    LET h == <<read[r].holder, read[r].item>> IN
    /\ read[r].pc = "leased"
    /\ served' = [served EXCEPT ![h] = Later(served[h], read[r].at)]
    /\ read' = [read EXCEPT ![r] = IdleRead]
    /\ UNCHANGED <<now, tokenVars, leaseVars, renewal, revocation, barred>>

(***************************************************************************)
(* The policy refuses, there is no such version, the lease cannot be       *)
(* written, or the audit record cannot.                                    *)
(***************************************************************************)
ReadFails(r) ==
    /\ read[r].pc # "idle"
    /\ read' = [read EXCEPT ![r] = IdleRead]
    /\ UNCHANGED <<now, tokenVars, leaseVars, renewal, revocation, historyVars>>

-----------------------------------------------------------------------------
(* Renew and Revoke, which a holder asks for *)

CheckRenewal(n, l, ttl) ==
    /\ renewal[n].pc = "idle"
    /\ lease[l].state = "held"
    /\ now < lease[l].expires
    /\ renewal' = [renewal EXCEPT ![n] = [pc |-> "checked", lease |-> l, at |-> now,
                                          expires |-> now + ttl]]
    /\ UNCHANGED <<now, tokenVars, leaseVars, read, revocation, historyVars>>

(* Slip: the new expiry is written whatever became of the lease. *)
WriteAnyRenewal(n) ==
    LET l == renewal[n].lease IN
    /\ renewal[n].pc = "checked"
    /\ lease' = [lease EXCEPT
          ![l] = Held(lease[l].holder, lease[l].item, renewal[n].expires)]
    /\ renewal' = [renewal EXCEPT ![n] = IdleRenewal]
    /\ UNCHANGED <<now, tokenVars, leases, read, revocation, historyVars>>

(***************************************************************************)
(* The update leaves a lease alone that was revoked or swept since it was  *)
(* read. The renewal is answered with the new expiry all the same.         *)
(***************************************************************************)
WriteRenewal(n) ==
    LET l == renewal[n].lease IN
    /\ renewal[n].pc = "checked"
    /\ lease' = IF lease[l].state = "held"
                THEN [lease EXCEPT ![l] = Held(lease[l].holder, lease[l].item,
                                               renewal[n].expires)]
                ELSE lease
    /\ renewal' = [renewal EXCEPT ![n] = IdleRenewal]
    /\ UNCHANGED <<now, tokenVars, leases, read, revocation, historyVars>>

RenewalFails(n) ==
    /\ renewal[n].pc = "checked"
    /\ renewal' = [renewal EXCEPT ![n] = IdleRenewal]
    /\ UNCHANGED <<now, tokenVars, leaseVars, read, revocation, historyVars>>

RevokeOne(l) ==
    /\ lease[l].state = "held"
    /\ lease' = [lease EXCEPT ![l] = Revoked(l)]
    /\ UNCHANGED <<now, tokenVars, leases, flightVars, historyVars>>

-----------------------------------------------------------------------------
(* RevokePrefix *)

HeldUnder(l) == lease[l].state = "held" /\ lease[l].item \in Under

HoldersUnder == {i \in Identities :
                   \E l \in LeaseIds : HeldUnder(l) /\ lease[l].holder = i}

ListHolders(v) ==
    /\ revocation[v].pc = "idle"
    /\ revocation' = [revocation EXCEPT
          ![v] = [pc |-> "listed", named |-> HoldersUnder, left |-> HoldersUnder,
                  mark |-> tokens, took |-> {}]]
    /\ UNCHANGED <<now, tokenVars, leaseVars, read, renewal, historyVars>>

(***************************************************************************)
(* The leases that are under the prefix by now are revoked, whether or not *)
(* their holders were there to be listed.                                  *)
(***************************************************************************)
RevokeLeases(v) ==
    /\ revocation[v].pc = "listed"
    /\ lease' = [l \in LeaseIds |-> IF HeldUnder(l) THEN Revoked(l) ELSE lease[l]]
    /\ revocation' = [revocation EXCEPT
          ![v] = [pc |-> "revoking", named |-> revocation[v].named,
                  left |-> revocation[v].left, mark |-> revocation[v].mark,
                  took |-> HoldersUnder]]
    /\ UNCHANGED <<now, tokenVars, leases, read, renewal, historyVars>>

RevokeHolder(v, i) ==
    /\ revocation[v].pc = "revoking"
    /\ i \in revocation[v].left
    /\ \A j \in revocation[v].left : i <= j
    /\ token' = TokensRevoked(i)
    /\ revocation' = [revocation EXCEPT
          ![v] = [pc |-> "revoking", named |-> revocation[v].named,
                  left |-> revocation[v].left \ {i}, mark |-> revocation[v].mark,
                  took |-> revocation[v].took]]
    /\ UNCHANGED <<now, tokens, leaseVars, read, renewal, historyVars>>

(* Slip: the last holder of the list is forgotten. *)
FinishOneShort(v) ==
    /\ revocation[v].pc = "revoking"
    /\ Cardinality(revocation[v].left) <= 1
    /\ barred' = [i \in Identities |->
                    IF i \in revocation[v].named
                    THEN Later(barred[i], revocation[v].mark) ELSE barred[i]]
    /\ revocation' = [revocation EXCEPT ![v] = IdleRevocation]
    /\ UNCHANGED <<now, tokenVars, leaseVars, read, renewal, served>>

(***************************************************************************)
(* The answer names the holders.                                           *)
(***************************************************************************)
FinishRevocation(v) ==
    /\ revocation[v].pc = "revoking"
    /\ revocation[v].left = {}
    /\ barred' = [i \in Identities |->
                    IF i \in revocation[v].named
                    THEN Later(barred[i], revocation[v].mark) ELSE barred[i]]
    /\ revocation' = [revocation EXCEPT ![v] = IdleRevocation]
    /\ UNCHANGED <<now, tokenVars, leaseVars, read, renewal, served>>

RevocationFails(v) ==
    /\ revocation[v].pc # "idle"
    /\ revocation' = [revocation EXCEPT ![v] = IdleRevocation]
    /\ UNCHANGED <<now, tokenVars, leaseVars, read, renewal, historyVars>>

-----------------------------------------------------------------------------
(* The sweeper *)

(* Slip: a lease is forgotten as soon as it has expired. *)
DueAtExpiry(l) == lease[l].state # "none" /\ lease[l].expires <= now

(* Slip: only leases that were revoked are forgotten. *)
DueIfRevoked(l) == lease[l].state = "revoked" /\ lease[l].expires + Retention <= now

Due(l) == lease[l].state # "none" /\ lease[l].expires + Retention <= now

Sweep ==
    \E S \in SUBSET {l \in LeaseIds : Due(l)} :
        /\ S # {}
        /\ Cardinality(S) <= Batch
        /\ Cardinality(S) < Batch => S = {l \in LeaseIds : Due(l)}
        /\ lease' = [l \in LeaseIds |-> IF l \in S THEN NoLease ELSE lease[l]]
        /\ UNCHANGED <<now, tokenVars, leases, flightVars, historyVars>>

-----------------------------------------------------------------------------

ReadStep(r) ==
    \/ \E t \in TokenIds, x \in Items : Authenticate(r, t, x)
    \/ IssueLease(r) \/ Answer(r) \/ ReadFails(r)

RenewalStep(n) ==
    \/ \E l \in LeaseIds, ttl \in RenewTTLs : CheckRenewal(n, l, ttl)
    \/ WriteRenewal(n) \/ RenewalFails(n)

RevocationStep(v) ==
    \/ ListHolders(v) \/ RevokeLeases(v)
    \/ \E i \in Identities : RevokeHolder(v, i)
    \/ FinishRevocation(v) \/ RevocationFails(v)

Next ==
    \/ Tick \/ Sweep
    \/ \E i \in Identities : Login(i)
    \/ \E l \in LeaseIds : RevokeOne(l)
    \/ \E r \in Reads : ReadStep(r)
    \/ \E n \in Renewals : RenewalStep(n)
    \/ \E v \in Revocations : RevocationStep(v)

Spec == Init /\ [][Next]_vars

(***************************************************************************)
(* App.Run starts the sweeper, which never stops sweeping.                 *)
(***************************************************************************)
FairSpec == Spec /\ WF_vars(Sweep)

-----------------------------------------------------------------------------
(* Properties *)

(***************************************************************************)
(* An identity has one lease in force on one version of one path, so the   *)
(* unique index on lease_records never turns a read into an error: however *)
(* reads, renewals, revocations and the sweeper interleave                 *)
(* (lease/manager.go, Issue).                                              *)
(***************************************************************************)
OneHolding ==
    \A l, m \in LeaseIds :
        /\ lease[l].state = "held" /\ lease[m].state = "held"
        /\ lease[l].holder = lease[m].holder /\ lease[l].item = lease[m].item
        => l = m

Recorded(i, x) ==
    \E l \in LeaseIds : lease[l].state # "none" /\ lease[l].holder = i
                        /\ lease[l].item = x

(***************************************************************************)
(* Who was served a secret stays on record for the retention time, less    *)
(* what a renewal may be late: no renewal that shortens a lease, no        *)
(* replacement, no revocation and no sweep loses the record any earlier    *)
(* (secret/http.go, handleRead; lease/manager.go, Issue, Renew, Sweep).    *)
(***************************************************************************)
HoldingsStayOnRecord ==
    \A i \in Identities, x \in Items :
        served[<<i, x>>] # Never /\ now + MaxDelay <= served[<<i, x>>] + Retention
            => Recorded(i, x)

(***************************************************************************)
(* A revocation by prefix that answers means it: every token that a holder *)
(* it names had when the holders were listed is revoked, and stays so,     *)
(* whatever logs in or fails meanwhile (lease/manager.go, revokeHolders).  *)
(***************************************************************************)
NamedHoldersAreBarred ==
    \A t \in TokenIds :
        token[t].state = "usable" => t > barred[token[t].holder]

(***************************************************************************)
(* The table stays bounded: what is past retention is swept, and nothing   *)
(* brings it back into force first (app.go, sweep; lease/manager.go).      *)
(***************************************************************************)
Swept == \A l \in LeaseIds :
    lease[l].state # "none" /\ lease[l].expires + Retention <= now
        ~> lease[l].state = "none"

(***************************************************************************)
(* What the README promises of a revocation by prefix: it revokes every    *)
(* holding under the prefix, and the holders' tokens. When it is about to  *)
(* answer, a holder whose lease it took may have kept its tokens.          *)
(***************************************************************************)
HoldersLoseTokens ==
    \A v \in Revocations :
        revocation[v].pc = "revoking" /\ revocation[v].left = {} =>
            \A t \in 1..revocation[v].mark :
                token[t].holder \in revocation[v].took => token[t].state # "usable"

=============================================================================
