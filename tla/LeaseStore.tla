----------------------------- MODULE LeaseStore -----------------------------
(***************************************************************************)
(* The in-memory authority for semantic leases of the coordination         *)
(* service (services/coordination, adapter/memory/lease.go and             *)
(* domain/lease.go), as the routes of adapter/httpapi/lease.go drive it.   *)
(* Every operation of the store runs under one mutex, so each is one       *)
(* action.  Time is counted in ticks; the coordinator epoch is the wall    *)
(* clock in whole seconds, read once when the process starts (main.go).    *)
(*                                                                         *)
(* grants is the outside world: the leases handed to clients, in the order *)
(* they were granted, with the expiry each client was last told.  Clients  *)
(* keep presenting a credential after it expired and after a restart.      *)
(***************************************************************************)
EXTENDS Naturals

CONSTANTS Keys,            \* LeaseKey: repositoryId and canonical target
          Owners,          \* identities that ask for leases
          MinTTL, MaxTTL,  \* bounds of a requested TTL, in ticks
          TicksPerSecond,  \* resolution of the clock against epoch seconds
          RestartTicks,    \* the least time a restart of the service takes
          NoLease,         \* the value of a key without an entry
          MaxClock,        \* bound: the model stops the clock here
          MaxGrants        \* bound: leases granted in one behaviour

ASSUME TTLAssumption ==
    MinTTL \in Nat \ {0} /\ MaxTTL \in Nat /\ MinTTL <= MaxTTL

ASSUME ClockAssumption ==
    /\ TicksPerSecond \in Nat \ {0}
    /\ RestartTicks \in Nat
    /\ MaxClock \in Nat
    /\ MaxGrants \in Nat

VARIABLES now,        \* the clock
          epoch,      \* Store.epoch
          nextLease,  \* Store.nextLeaseID
          nextFence,  \* Store.nextFence
          leases,     \* Store.leases
          grants,     \* every lease handed out, by grant number
          granted,    \* how many leases were handed out
          released    \* the grants whose client was told they are released

store == <<epoch, nextLease, nextFence, leases>>
clients == <<grants, granted, released>>
vars == <<now, store, clients>>

TTLs == MinTTL..MaxTTL

\* LeaseID is "<epoch>:<n>".
LeaseIds == (0..MaxClock) \X (1..MaxGrants)

Lease == [key : Keys, id : LeaseIds, owner : Owners, fence : 1..MaxGrants,
          epoch : 0..MaxClock, expiresAt : Nat]

ASSUME NoLeaseAssumption == NoLease \notin Lease

Credential(l) ==
    [id |-> l.id, owner |-> l.owner, fence |-> l.fence, epoch |-> l.epoch]

\* The credential of a grant as the client o presents it.
Presented(g, o) ==
    [id |-> grants[g].id, owner |-> o, fence |-> grants[g].fence,
     epoch |-> grants[g].epoch]

\* The same lease with another expiry.
WithExpiry(l, t) ==
    [key |-> l.key, id |-> l.id, owner |-> l.owner, fence |-> l.fence,
     epoch |-> l.epoch, expiresAt |-> t]

EpochFixed(t) == 1
EpochAt(t) == t \div TicksPerSecond

\* !now.Before(lease.ExpiresAt)
ExpiredLate(l) == now > l.expiresAt
ExpiredEarly(l) == now + 1 >= l.expiresAt
Expired(l) == now >= l.expiresAt

\* removeExpired, which Acquire, Get and List run first.
RemoveExpired ==
    [k \in Keys |-> IF leases[k] # NoLease /\ Expired(leases[k])
                      THEN NoLease ELSE leases[k]]

\* findByID: the entry that carries a lease id, whatever its key.
FindByID(id) == {k \in Keys : leases[k] # NoLease /\ leases[k].id = id}

-----------------------------------------------------------------------------

Init ==
    /\ now \in TicksPerSecond..(2 * TicksPerSecond - 1)
    /\ now <= MaxClock
    /\ epoch = EpochAt(now)
    /\ nextLease = 0
    /\ nextFence = 0
    /\ leases = [k \in Keys |-> NoLease]
    /\ grants = [g \in 1..0 |-> NoLease]
    /\ granted = 0
    /\ released = {}

NewLeasePostIncrement(k, o, ttl) ==
    [key |-> k, id |-> <<epoch, nextLease>>, owner |-> o,
     fence |-> nextFence, epoch |-> epoch, expiresAt |-> now + ttl]
NewLease(k, o, ttl) ==
    [key |-> k, id |-> <<epoch, nextLease + 1>>, owner |-> o,
     fence |-> nextFence + 1, epoch |-> epoch, expiresAt |-> now + ttl]

\* Acquire of a key that nobody holds once expired entries are gone.
AcquireGranted(k, o, ttl) ==
    /\ granted < MaxGrants
    /\ RemoveExpired[k] = NoLease
    /\ nextLease' = nextLease + 1
    /\ nextFence' = nextFence + 1
    /\ leases' = [RemoveExpired EXCEPT ![k] = NewLease(k, o, ttl)]
    /\ granted' = granted + 1
    /\ grants' = [g \in 1..(granted + 1) |->
                    IF g = granted + 1
                      THEN NewLease(k, o, ttl) ELSE grants[g]]
    /\ UNCHANGED <<now, epoch, released>>

\* Acquire refused with ErrLeaseHeld, Get and List: expired entries go.
Sweep ==
    /\ leases' = RemoveExpired
    /\ UNCHANGED <<now, epoch, nextLease, nextFence, clients>>

\* Renew of an expired lease deletes its entry before any credential check.
RenewExpired(g) ==
    \E k \in FindByID(grants[g].id) :
        /\ Expired(leases[k])
        /\ leases' = [leases EXCEPT ![k] = NoLease]
        /\ UNCHANGED <<now, epoch, nextLease, nextFence, clients>>

Renewed(g, ttl) ==
    \E k \in FindByID(grants[g].id) :
        /\ ~Expired(leases[k])
        /\ Credential(leases[k]) = Credential(grants[g])
        /\ leases' = [leases EXCEPT ![k] = WithExpiry(leases[k], now + ttl)]
        /\ grants' = [grants EXCEPT ![g] = WithExpiry(grants[g], now + ttl)]
        /\ UNCHANGED <<now, epoch, nextLease, nextFence, granted, released>>

\* Renew refused with ErrLeaseExpired (no such entry) or ErrLeaseStale.
RenewRefused(g, o) ==
    /\ \A k \in FindByID(grants[g].id) :
         ~Expired(leases[k]) /\ Credential(leases[k]) # Presented(g, o)
    /\ UNCHANGED vars

\* The entries Release deletes: the one with the presented credential.
ReleaseByID(g, o) == FindByID(grants[g].id)
Released(g, o) ==
    {k \in FindByID(grants[g].id) : Credential(leases[k]) = Presented(g, o)}

\* Release.  An unknown lease is answered like a released one, a lease under
\* another credential with ErrLeaseStale; expiry is not looked at.
Release(g, o) ==
    /\ leases' = [k \in Keys |-> IF k \in Released(g, o) THEN NoLease ELSE leases[k]]
    /\ released' = IF /\ o = grants[g].owner
                      /\ FindByID(grants[g].id) = Released(g, o)
                     THEN released \cup {g} ELSE released
    /\ UNCHANGED <<now, epoch, nextLease, nextFence, grants, granted>>

Tick ==
    /\ now < MaxClock
    /\ now' = now + 1
    /\ UNCHANGED <<store, clients>>

\* The process ends and main.go builds a new store from the clock it reads.
Restart ==
    /\ now' \in (now + RestartTicks)..MaxClock
    /\ epoch' = EpochAt(now')
    /\ nextLease' = 0
    /\ nextFence' = 0
    /\ leases' = [k \in Keys |-> NoLease]
    /\ UNCHANGED clients

Next ==
    \/ \E k \in Keys, o \in Owners, ttl \in TTLs : AcquireGranted(k, o, ttl)
    \/ Sweep
    \/ \E g \in 1..granted : RenewExpired(g)
    \/ \E g \in 1..granted, ttl \in TTLs : Renewed(g, ttl)
    \/ \E g \in 1..granted, o \in Owners : RenewRefused(g, o)
    \/ \E g \in 1..granted, o \in Owners : Release(g, o)
    \/ Tick
    \/ Restart

Spec == Init /\ [][Next]_vars

-----------------------------------------------------------------------------

TypeOK ==
    /\ now \in 0..MaxClock
    /\ epoch \in 0..MaxClock
    /\ nextLease \in 0..granted
    /\ nextFence \in 0..granted
    /\ granted \in 0..MaxGrants
    /\ leases \in [Keys -> Lease \cup {NoLease}]
    /\ grants \in [1..granted -> Lease]
    /\ released \in SUBSET (1..granted)

\* A client goes on working under a lease until it releases it or until the
\* expiry it was last told (ExpiresAt in the reply of Acquire and Renew).
Held(g) == g \notin released /\ now < grants[g].expiresAt

\* Mutual exclusion of Acquire: when two clients hold the same key at the same
\* time, a restart lies between the two grants and shows in their epochs.
HolderExclusive ==
    \A g, h \in 1..granted :
        /\ g < h
        /\ grants[g].key = grants[h].key
        /\ Held(g) /\ Held(h)
        => grants[g].epoch < grants[h].epoch

\* (epoch, fence) of a later grant, of any key and after any number of
\* restarts, is greater: a resource that remembers the greatest pair it has
\* seen can turn every superseded holder away.
FenceOrder ==
    \A g, h \in 1..granted :
        g < h =>
        LET a == grants[g]  b == grants[h]
        IN  a.epoch < b.epoch \/ (a.epoch = b.epoch /\ a.fence < b.fence)

\* A client that holds a lease of this incarnation of the service and was not
\* told otherwise is in the store under its credential: nothing but expiry,
\* its own release and a restart takes the lease away.
HeldIsStored ==
    \A g \in 1..granted :
        Held(g) /\ grants[g].epoch = epoch
        => leases[grants[g].key] = grants[g]

\* A credential opens one lease, the one it was issued for: one issued before
\* a restart is refused ever after.
CredentialsUnique ==
    \A g, h \in 1..granted :
        Credential(grants[g]) = Credential(grants[h]) => g = h

\* Once a lease expired no renewal brings it back.
NoResurrection ==
    [][\A g \in 1..granted :
         ~(now < grants[g].expiresAt)
         => grants'[g].expiresAt = grants[g].expiresAt]_vars

-----------------------------------------------------------------------------

\* The abstract holder of a key: whoever has an unexpired entry.
holderMap ==
    [k \in Keys |->
       IF leases[k] # NoLease /\ now < leases[k].expiresAt
         THEN [owner |-> leases[k].owner, id |-> leases[k].id]
         ELSE NoLease]

Abs == INSTANCE LeaseAbs
         WITH Free <- NoLease,
              holder <- holderMap,
              spent <- {grants[g].id : g \in 1..granted}

\* The store keeps the promise of LeaseAbs: every step grants a free key under
\* a fresh id, frees keys, or changes nothing a client can rely on.
ImplementsAbs == Abs!AbsSpec
=============================================================================
