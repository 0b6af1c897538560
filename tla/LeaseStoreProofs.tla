-------------------------- MODULE LeaseStoreProofs --------------------------
(***************************************************************************)
(* Theorems about LeaseStore for every number of keys, owners, ticks and   *)
(* grants.  TypeOK holds without assumptions on a restart; the order of    *)
(* the fencing pairs and everything that rests on it needs a restart to    *)
(* last at least one epoch second (SlowRestart).                           *)
(***************************************************************************)
EXTENDS LeaseStore, TLAPS

\* A new process reads a later second than the one before it.
SlowRestart == RestartTicks >= TicksPerSecond

\* Every entry of the store was granted to a client by this incarnation.
StoredIsGranted ==
    \A k \in Keys :
        leases[k] # NoLease =>
            /\ leases[k].key = k
            /\ leases[k].epoch = epoch
            /\ \E g \in 1..granted : grants[g] = leases[k]

\* A grant's id is its fencing pair, and the counters are ahead of it.
GrantShape ==
    \A g \in 1..granted :
        /\ grants[g].id = <<grants[g].epoch, grants[g].fence>>
        /\ grants[g].epoch <= epoch
        /\ grants[g].epoch = epoch => grants[g].fence <= nextFence

Counters == nextLease = nextFence /\ epoch <= EpochAt(now)

IInv ==
    /\ TypeOK
    /\ Counters
    /\ StoredIsGranted
    /\ GrantShape
    /\ FenceOrder
    /\ HeldIsStored
    /\ HolderExclusive

-----------------------------------------------------------------------------

\* Division by the length of a second is bounded by the dividend.
LEMMA DivBound ==
    ASSUME NEW a \in Nat, NEW d \in Nat \ {0}
    PROVE  a \div d \in Nat /\ a \div d <= a
  OBVIOUS

\* Division is monotone and grows when a whole divisor is added.
LEMMA DivGrows ==
    ASSUME NEW a \in Nat, NEW b \in Nat, NEW d \in Nat \ {0}
    PROVE  /\ a <= b => a \div d <= b \div d
           /\ a + d <= b => a \div d < b \div d
  OBVIOUS

USE TTLAssumption, ClockAssumption, NoLeaseAssumption

\* An entry that is there is a lease.
LEMMA StoredLease ==
    ASSUME TypeOK, NEW k \in Keys, leases[k] # NoLease
    PROVE  leases[k] \in Lease
  BY DEF TypeOK

\* What Acquire puts into the store and hands out is a lease.
LEMMA NewLeaseType ==
    ASSUME TypeOK, granted < MaxGrants,
           NEW k \in Keys, NEW o \in Owners, NEW ttl \in TTLs
    PROVE  NewLease(k, o, ttl) \in Lease
  <1>1. nextLease + 1 \in 1..MaxGrants /\ nextFence + 1 \in 1..MaxGrants
    BY DEF TypeOK
  <1>2. <<epoch, nextLease + 1>> \in LeaseIds
    BY <1>1 DEF TypeOK, LeaseIds
  <1>3. now + ttl \in Nat
    BY DEF TypeOK, TTLs
  <1> QED
    BY <1>1, <1>2, <1>3 DEF NewLease, Lease, TypeOK

\* Renewing a lease changes nothing but its expiry.
LEMMA WithExpiryType ==
    ASSUME NEW l \in Lease, NEW t \in Nat
    PROVE  WithExpiry(l, t) \in Lease
  BY DEF WithExpiry, Lease

\* Sweeping keeps the store a partial map from keys to leases.
LEMMA RemoveExpiredType ==
    ASSUME TypeOK
    PROVE  RemoveExpired \in [Keys -> Lease \cup {NoLease}]
  BY DEF TypeOK, RemoveExpired

\* Every operation keeps the store, its counters and the clients' view of
\* their leases well-formed.
LEMMA TypeStep == TypeOK /\ [Next]_vars => TypeOK'
  <1> SUFFICES ASSUME TypeOK, [Next]_vars PROVE TypeOK'
    OBVIOUS
  <1>1. ASSUME NEW k \in Keys, NEW o \in Owners, NEW ttl \in TTLs,
               AcquireGranted(k, o, ttl)
        PROVE  TypeOK'
    <2> DEFINE l == NewLease(k, o, ttl)
    <2>1. l \in Lease
      BY <1>1, NewLeaseType DEF AcquireGranted
    <2>2. leases' \in [Keys -> Lease \cup {NoLease}]
      BY <1>1, <2>1, RemoveExpiredType DEF AcquireGranted
    <2>3. grants' \in [1..granted' -> Lease]
      <3> HIDE DEF l
      <3>1. grants' = [g \in 1..(granted + 1) |->
                         IF g = granted + 1 THEN l ELSE grants[g]]
        BY <1>1 DEF AcquireGranted, l
      <3>2. granted' = granted + 1
        BY <1>1 DEF AcquireGranted
      <3>3. \A g \in 1..(granted + 1) : g # granted + 1 => g \in 1..granted
        BY DEF TypeOK
      <3> QED
        BY <2>1, <3>1, <3>2, <3>3 DEF TypeOK
    <2> QED
      BY <1>1, <2>2, <2>3 DEF AcquireGranted, TypeOK
  <1>2. CASE Sweep
    BY <1>2, RemoveExpiredType DEF Sweep, clients, TypeOK
  <1>3. ASSUME NEW g \in 1..granted, RenewExpired(g) PROVE TypeOK'
    BY <1>3 DEF RenewExpired, FindByID, clients, TypeOK
  <1>4. ASSUME NEW g \in 1..granted, NEW ttl \in TTLs, Renewed(g, ttl)
        PROVE  TypeOK'
    <2>1. now + ttl \in Nat
      BY DEF TypeOK, TTLs
    <2>2. PICK k \in FindByID(grants[g].id) :
            /\ leases' = [leases EXCEPT ![k] = WithExpiry(leases[k], now + ttl)]
            /\ grants' = [grants EXCEPT ![g] = WithExpiry(grants[g], now + ttl)]
      BY <1>4 DEF Renewed
    <2>3. k \in Keys /\ leases[k] \in Lease
      BY StoredLease DEF FindByID
    <2>4. leases' \in [Keys -> Lease \cup {NoLease}]
      BY <2>1, <2>2, <2>3, WithExpiryType DEF TypeOK
    <2>5. grants' \in [1..granted -> Lease]
      BY <2>1, <2>2, WithExpiryType DEF TypeOK
    <2> QED
      BY <1>4, <2>4, <2>5 DEF Renewed, TypeOK
  <1>5. ASSUME NEW g \in 1..granted, NEW o \in Owners, RenewRefused(g, o)
        PROVE  TypeOK'
    BY <1>5 DEF RenewRefused, vars, store, clients, TypeOK
  <1>6. ASSUME NEW g \in 1..granted, NEW o \in Owners, Release(g, o)
        PROVE  TypeOK'
    <2>1. leases' \in [Keys -> Lease \cup {NoLease}]
      BY <1>6 DEF Release, TypeOK
    <2> QED
      BY <1>6, <2>1 DEF Release, TypeOK
  <1>7. CASE Tick
    BY <1>7 DEF Tick, store, clients, TypeOK
  <1>8. CASE Restart
    <2>1. now' \in 0..MaxClock
      BY <1>8 DEF Restart, TypeOK
    <2>2. epoch' = now' \div TicksPerSecond
      BY <1>8 DEF Restart, EpochAt
    <2>3. epoch' \in 0..MaxClock
      <3> DEFINE t == now'
                 q == t \div TicksPerSecond
      <3>1. t \in Nat /\ t <= MaxClock
        BY <2>1
      <3>2. q \in Nat /\ q <= t
        BY <3>1, DivBound
      <3>3. epoch' = q
        BY <2>2
      <3> HIDE DEF q, t
      <3> QED
        BY <3>1, <3>2, <3>3
    <2> QED
      BY <1>8, <2>1, <2>3 DEF Restart, clients, TypeOK
  <1>9. CASE UNCHANGED vars
    BY <1>9 DEF vars, store, clients, TypeOK
  <1> QED
    BY <1>1, <1>2, <1>3, <1>4, <1>5, <1>6, <1>7, <1>8, <1>9 DEF Next

\* The initial states are well-formed.
LEMMA TypeInit == Init => TypeOK
  <1> SUFFICES ASSUME Init PROVE TypeOK
    OBVIOUS
  <1>1. now \in 0..MaxClock
    BY DEF Init
  <1>2. epoch = now \div TicksPerSecond
    BY DEF Init, EpochAt
  <1>3. epoch \in 0..MaxClock
    BY <1>1, <1>2, DivBound
  <1> QED
    BY <1>1, <1>3 DEF Init, TypeOK

\* The store and the leases its clients know of are well-formed at all times:
\* in particular no counter passes the number of leases handed out.
THEOREM TypeCorrect == Spec => []TypeOK
  BY TypeInit, TypeStep, PTL DEF Spec

-----------------------------------------------------------------------------

\* A lease handed out is in the range the invariants compare.
LEMMA GrantType ==
    ASSUME TypeOK, NEW g \in 1..granted
    PROVE  /\ grants[g] \in Lease
           /\ grants[g].epoch \in Nat /\ grants[g].fence \in Nat
           /\ grants[g].expiresAt \in Nat
           /\ now \in Nat /\ epoch \in Nat /\ nextFence \in Nat /\ granted \in Nat
  BY DEF TypeOK, Lease

\* The stored lease that a known credential opens is the client's own.
LEMMA CredentialOpensOwnLease ==
    ASSUME IInv, NEW g \in 1..granted, NEW k \in FindByID(grants[g].id)
    PROVE  /\ k \in Keys
           /\ leases[k] = grants[g]
           /\ grants[g].key = k
           /\ grants[g].epoch = epoch
  <1>1. k \in Keys /\ leases[k] # NoLease /\ leases[k].id = grants[g].id
    BY DEF FindByID
  <1>2. PICK h \in 1..granted : grants[h] = leases[k]
    BY <1>1 DEF IInv, StoredIsGranted
  <1>3. /\ grants[h].epoch = grants[g].epoch
        /\ grants[h].fence = grants[g].fence
    BY <1>1, <1>2 DEF IInv, GrantShape
  <1>4. /\ grants[g].epoch \in Nat /\ grants[h].epoch \in Nat
        /\ grants[g].fence \in Nat /\ grants[h].fence \in Nat
    BY GrantType DEF IInv
  <1>5. ~(g < h) /\ ~(h < g)
    BY <1>3, <1>4 DEF IInv, FenceOrder
  <1>6. g = h
    BY <1>5 DEF IInv, TypeOK
  <1> QED
    BY <1>1, <1>2, <1>6 DEF IInv, StoredIsGranted

\* Granting a free key keeps the invariant: the new pair tops every earlier
\* one, and whoever held the key before no longer does.
LEMMA AcquireStep ==
    ASSUME IInv, TypeOK',
           NEW k \in Keys, NEW o \in Owners, NEW ttl \in TTLs,
           AcquireGranted(k, o, ttl)
    PROVE  IInv'
  <1> DEFINE l == NewLease(k, o, ttl)
             n == granted + 1
  <1>1. /\ granted' = n /\ grants'[n] = l /\ n \in 1..granted'
        /\ \A g \in 1..granted' : g # n => g \in 1..granted /\ grants'[g] = grants[g]
        /\ \A g \in 1..granted : g # n /\ g \in 1..granted' /\ grants'[g] = grants[g]
    BY DEF AcquireGranted, IInv, TypeOK
  <1>2. /\ l.key = k /\ l.id = <<l.epoch, l.fence>>
        /\ l.epoch = epoch /\ l.fence = nextFence + 1
    BY DEF NewLease, IInv, Counters
  <1>3. /\ epoch' = epoch /\ now' = now /\ released' = released
        /\ nextFence' = nextFence + 1 /\ nextLease' = nextLease + 1
    BY DEF AcquireGranted
  <1>4. leases'[k] = l /\ \A j \in Keys : j # k => leases'[j] = RemoveExpired[j]
    BY RemoveExpiredType DEF AcquireGranted, IInv
  <1>5. n \notin released
    BY DEF IInv, TypeOK
  <1> HIDE DEF l, n
  <1>6. Counters'
    BY <1>3 DEF IInv, Counters, EpochAt
  <1>7. StoredIsGranted'
    <2> SUFFICES ASSUME NEW j \in Keys, leases'[j] # NoLease
                 PROVE  /\ leases'[j].key = j /\ leases'[j].epoch = epoch'
                        /\ \E g \in 1..granted' : grants'[g] = leases'[j]
      BY DEF StoredIsGranted
    <2>1. CASE j = k
      BY <2>1, <1>1, <1>2, <1>3, <1>4
    <2>2. CASE j # k
      <3>1. leases'[j] = leases[j]
        BY <2>2, <1>4 DEF RemoveExpired
      <3> QED
        BY <3>1, <1>1, <1>3 DEF IInv, StoredIsGranted
    <2> QED
      BY <2>1, <2>2
  <1>8. GrantShape'
    <2> SUFFICES ASSUME NEW g \in 1..granted'
                 PROVE  /\ grants'[g].id = <<grants'[g].epoch, grants'[g].fence>>
                        /\ grants'[g].epoch <= epoch'
                        /\ grants'[g].epoch = epoch' => grants'[g].fence <= nextFence'
      BY DEF GrantShape
    <2>1. CASE g = n
      BY <2>1, <1>1, <1>2, <1>3 DEF IInv, TypeOK
    <2>2. CASE g # n
      BY <2>2, <1>1, <1>3, GrantType DEF IInv, GrantShape
    <2> QED
      BY <2>1, <2>2
  <1>9. FenceOrder'
    <2> SUFFICES ASSUME NEW g \in 1..granted', NEW h \in 1..granted', g < h
                 PROVE  \/ grants'[g].epoch < grants'[h].epoch
                        \/ /\ grants'[g].epoch = grants'[h].epoch
                           /\ grants'[g].fence < grants'[h].fence
      BY DEF FenceOrder
    <2>1. g # n /\ g \in 1..granted
      BY <1>1 DEF n, IInv, TypeOK
    <2>2. CASE h = n
      BY <2>1, <2>2, <1>1, <1>2, GrantType DEF IInv, GrantShape
    <2>3. CASE h # n
      BY <2>1, <2>3, <1>1 DEF IInv, FenceOrder
    <2> QED
      BY <2>2, <2>3
  <1>10. \A g \in 1..granted : Held(g)' <=> Held(g)
    BY <1>1, <1>3 DEF Held
  <1>11. HeldIsStored'
    <2> SUFFICES ASSUME NEW g \in 1..granted', Held(g)', grants'[g].epoch = epoch'
                 PROVE  leases'[grants'[g].key] = grants'[g]
      BY DEF HeldIsStored
    <2>1. CASE g = n
      BY <2>1, <1>1, <1>2, <1>4
    <2>2. CASE g # n
      <3>1. g \in 1..granted /\ grants'[g] = grants[g] /\ Held(g)
        BY <2>2, <1>1, <1>10
      <3>2. leases[grants[g].key] = grants[g] /\ grants[g].key \in Keys
        BY <3>1, <1>3, GrantType DEF IInv, HeldIsStored, Lease
      <3>3. ~Expired(grants[g])
        BY <3>1, GrantType DEF IInv, Held, Expired
      <3>4. RemoveExpired[grants[g].key] = grants[g]
        BY <3>2, <3>3 DEF RemoveExpired
      <3>5. grants[g] # NoLease
        BY <3>1, GrantType DEF IInv
      <3>6. grants[g].key # k
        BY <3>4, <3>5 DEF AcquireGranted
      <3> QED
        BY <3>1, <3>2, <3>4, <3>6, <1>4
    <2> QED
      BY <2>1, <2>2
  <1>12. HolderExclusive'
    <2> SUFFICES ASSUME NEW g \in 1..granted', NEW h \in 1..granted', g < h,
                        grants'[g].key = grants'[h].key, Held(g)', Held(h)'
                 PROVE  grants'[g].epoch < grants'[h].epoch
      BY DEF HolderExclusive
    <2>1. g # n /\ g \in 1..granted
      BY <1>1 DEF n, IInv, TypeOK
    <2>2. CASE h = n
      <3>1. CASE grants'[g].epoch = epoch
        <4>1. grants'[g] = grants'[h]
          BY <1>3, <1>11, <3>1, <2>2, <1>1, <1>2 DEF HeldIsStored
        <4> QED
          BY <4>1, <1>9, GrantType, <2>1, <1>1 DEF FenceOrder, IInv
      <3>2. CASE grants'[g].epoch # epoch
        BY <3>2, <2>1, <2>2, <1>1, <1>2, GrantType DEF IInv, GrantShape
      <3> QED
        BY <3>1, <3>2
    <2>3. CASE h # n
      BY <2>1, <2>3, <1>1, <1>10 DEF IInv, HolderExclusive
    <2> QED
      BY <2>2, <2>3
  <1> QED
    BY <1>6, <1>7, <1>8, <1>9, <1>11, <1>12 DEF IInv

\* A step that leaves counters, grants and clock alone and only takes entries
\* nobody holds out of the store keeps the invariant.
LEMMA EntriesGoStep ==
    ASSUME IInv, TypeOK',
           UNCHANGED <<now, epoch, nextLease, nextFence, grants, granted>>,
           released \subseteq released',
           \A k \in Keys : leases'[k] \in {leases[k], NoLease},
           \A g \in 1..granted :
               /\ Held(g) /\ g \notin released'
               /\ leases[grants[g].key] = grants[g]
               => leases'[grants[g].key] = grants[g]
    PROVE  IInv'
  <1>1. \A g \in 1..granted : Held(g)' => Held(g) /\ g \notin released'
    BY DEF Held
  <1>2. Counters'
    BY DEF IInv, Counters, EpochAt
  <1>3. StoredIsGranted'
    BY DEF IInv, StoredIsGranted
  <1>4. GrantShape'
    BY DEF IInv, GrantShape
  <1>5. FenceOrder'
    BY DEF IInv, FenceOrder
  <1>6. HeldIsStored'
    BY <1>1 DEF IInv, HeldIsStored
  <1>7. HolderExclusive'
    BY <1>1 DEF IInv, HolderExclusive
  <1> QED
    BY <1>2, <1>3, <1>4, <1>5, <1>6, <1>7 DEF IInv

\* Sweeping takes away expired entries, which nobody holds any more.
LEMMA SweepStep == ASSUME IInv, TypeOK', Sweep PROVE IInv'
  <1>1. \A k \in Keys : leases'[k] \in {leases[k], NoLease}
    BY DEF Sweep, RemoveExpired
  <1>2. ASSUME NEW g \in 1..granted, Held(g), leases[grants[g].key] = grants[g]
        PROVE  leases'[grants[g].key] = grants[g]
    <2>1. grants[g].key \in Keys /\ ~Expired(grants[g])
      BY <1>2, GrantType DEF IInv, Lease, Held, Expired
    <2> QED
      BY <1>2, <2>1 DEF Sweep, RemoveExpired
  <1> QED
    BY <1>1, <1>2, EntriesGoStep DEF Sweep, clients

\* So does the renewal of an expired lease.
LEMMA RenewExpiredStep ==
    ASSUME IInv, TypeOK', NEW g \in 1..granted, RenewExpired(g)
    PROVE  IInv'
  <1>1. PICK k \in FindByID(grants[g].id) :
          Expired(leases[k]) /\ leases' = [leases EXCEPT ![k] = NoLease]
    BY DEF RenewExpired
  <1>2. \A j \in Keys : leases'[j] \in {leases[j], NoLease}
    BY <1>1 DEF IInv, TypeOK
  <1>3. ASSUME NEW h \in 1..granted, Held(h), leases[grants[h].key] = grants[h]
        PROVE  leases'[grants[h].key] = grants[h]
    <2>1. grants[h].key \in Keys /\ ~Expired(grants[h])
      BY <1>3, GrantType DEF IInv, Lease, Held, Expired
    <2>2. grants[h].key # k
      BY <1>1, <1>3, <2>1
    <2> QED
      BY <1>1, <1>3, <2>1, <2>2 DEF IInv, TypeOK
  <1> QED
    BY <1>2, <1>3, EntriesGoStep DEF RenewExpired, clients

\* A release takes away the caller's own lease and nobody else's.
LEMMA ReleaseStep ==
    ASSUME IInv, TypeOK', NEW g \in 1..granted, NEW o \in Owners, Release(g, o)
    PROVE  IInv'
  <1>1. \A k \in Keys : leases'[k] \in {leases[k], NoLease}
    BY DEF Release
  <1>2. released \subseteq released'
    BY DEF Release
  <1>3. ASSUME NEW h \in 1..granted, Held(h), h \notin released',
               leases[grants[h].key] = grants[h]
        PROVE  leases'[grants[h].key] = grants[h]
    <2> DEFINE k == grants[h].key
    <2>1. k \in Keys
      BY GrantType DEF IInv, Lease
    <2>2. ASSUME k \in Released(g, o) PROVE FALSE
      <3>1. k \in FindByID(grants[g].id) /\ Credential(leases[k]) = Presented(g, o)
        BY <2>2 DEF Released
      <3>2. grants[h] = grants[g]
        BY <3>1, <1>3, CredentialOpensOwnLease
      <3>3. k \in FindByID(grants[h].id)
        BY <3>1, <3>2
      <3>4. ~(g < h) /\ ~(h < g)
        BY <3>2, GrantType DEF IInv, FenceOrder
      <3>5. g = h
        BY <3>4 DEF IInv, TypeOK
      <3>6. o = grants[g].owner
        BY <3>1, <3>2, <1>3 DEF Credential, Presented
      <3>7. \A j \in FindByID(grants[g].id) : Credential(leases[j]) = Presented(g, o)
        BY <3>6, CredentialOpensOwnLease DEF Credential, Presented
      <3>8. FindByID(grants[g].id) = Released(g, o)
        BY <3>7 DEF Released
      <3> QED
        BY <1>3, <3>5, <3>6, <3>8 DEF Release
    <2> QED
      BY <1>3, <2>1, <2>2 DEF Release
  <1> QED
    BY <1>1, <1>2, <1>3, EntriesGoStep DEF Release

\* A renewal moves the expiry of the caller's lease and of nothing else.
LEMMA RenewedStep ==
    ASSUME IInv, TypeOK', NEW g \in 1..granted, NEW ttl \in TTLs, Renewed(g, ttl)
    PROVE  IInv'
  <1> DEFINE l == WithExpiry(grants[g], now + ttl)
  <1>1. PICK k \in FindByID(grants[g].id) :
          /\ ~Expired(leases[k])
          /\ leases' = [leases EXCEPT ![k] = WithExpiry(leases[k], now + ttl)]
          /\ grants' = [grants EXCEPT ![g] = l]
    BY DEF Renewed
  <1>2. /\ k \in Keys /\ leases[k] = grants[g] /\ grants[g].key = k
        /\ grants[g].epoch = epoch
    BY CredentialOpensOwnLease
  <1>3. leases'[k] = l /\ \A j \in Keys : j # k => leases'[j] = leases[j]
    BY <1>1, <1>2 DEF IInv, TypeOK
  <1>4. grants'[g] = l /\ \A h \in 1..granted : h # g => grants'[h] = grants[h]
    BY <1>1 DEF IInv, TypeOK
  <1>5. UNCHANGED <<now, epoch, nextLease, nextFence, granted, released>>
    BY DEF Renewed
  <1>6. /\ l.key = k /\ l.id = grants[g].id /\ l.epoch = epoch
        /\ l.fence = grants[g].fence
    BY <1>2 DEF WithExpiry
  <1> HIDE DEF l
  <1>7. \A h \in 1..granted : /\ grants'[h].key = grants[h].key
                              /\ grants'[h].id = grants[h].id
                              /\ grants'[h].epoch = grants[h].epoch
                              /\ grants'[h].fence = grants[h].fence
    BY <1>2, <1>4, <1>6
  <1>8. \A h \in 1..granted : Held(h)' => Held(h)
    <2> SUFFICES ASSUME NEW h \in 1..granted, Held(h)' PROVE Held(h)
      OBVIOUS
    <2>1. CASE h = g
      <3>1. now < grants[g].expiresAt
        BY <1>1, <1>2, GrantType DEF Expired, IInv
      <3> QED
        BY <2>1, <3>1, <1>5 DEF Held
    <2>2. CASE h # g
      BY <2>2, <1>4, <1>5 DEF Held
    <2> QED
      BY <2>1, <2>2
  <1>9. Counters'
    BY <1>5 DEF IInv, Counters, EpochAt
  <1>10. StoredIsGranted'
    <2> SUFFICES ASSUME NEW j \in Keys, leases'[j] # NoLease
                 PROVE  /\ leases'[j].key = j /\ leases'[j].epoch = epoch'
                        /\ \E h \in 1..granted' : grants'[h] = leases'[j]
      BY DEF StoredIsGranted
    <2>1. CASE j = k
      BY <2>1, <1>3, <1>4, <1>5, <1>6
    <2>2. CASE j # k
      <3>1. leases'[j] = leases[j]
        BY <2>2, <1>3
      <3>2. /\ leases[j].key = j /\ leases[j].epoch = epoch
            /\ \E h \in 1..granted : grants[h] = leases[j]
        BY <3>1 DEF IInv, StoredIsGranted
      <3>3. PICK h \in 1..granted : grants[h] = leases[j]
        BY <3>2
      <3>4. h # g
        BY <3>2, <3>3, <2>2, <1>2
      <3> QED
        BY <3>1, <3>2, <3>3, <3>4, <1>4, <1>5
    <2> QED
      BY <2>1, <2>2
  <1>11. GrantShape'
    BY <1>5, <1>7 DEF IInv, GrantShape
  <1>12. FenceOrder'
    BY <1>5, <1>7 DEF IInv, FenceOrder
  <1>13. HeldIsStored'
    <2> SUFFICES ASSUME NEW h \in 1..granted, Held(h)', grants'[h].epoch = epoch
                 PROVE  leases'[grants'[h].key] = grants'[h]
      BY <1>5 DEF HeldIsStored
    <2>1. CASE h = g
      BY <2>1, <1>3, <1>4, <1>6
    <2>2. CASE h # g
      <3>1. leases[grants[h].key] = grants[h] /\ grants[h].key \in Keys
        BY <1>7, <1>8, GrantType DEF IInv, HeldIsStored, Lease
      <3>2. grants[h].key # k
        <4> SUFFICES ASSUME grants[h].key = k PROVE FALSE
          OBVIOUS
        <4>1. grants[h] = grants[g]
          BY <3>1, <1>2
        <4>2. ~(g < h) /\ ~(h < g)
          BY <4>1, GrantType DEF IInv, FenceOrder
        <4> QED
          BY <4>2, <2>2 DEF IInv, TypeOK
      <3> QED
        BY <2>2, <3>1, <3>2, <1>3, <1>4
    <2> QED
      BY <2>1, <2>2
  <1>14. HolderExclusive'
    BY <1>5, <1>7, <1>8 DEF IInv, HolderExclusive
  <1> QED
    BY <1>9, <1>10, <1>11, <1>12, <1>13, <1>14 DEF IInv

\* Time passing only ends leases.
LEMMA TickStep == ASSUME IInv, TypeOK', Tick PROVE IInv'
  <1>1. /\ now' = now + 1
        /\ UNCHANGED <<epoch, nextLease, nextFence, leases, grants, granted, released>>
    BY DEF Tick, store, clients
  <1>2. \A g \in 1..granted : Held(g)' => Held(g)
    BY <1>1, GrantType DEF IInv, Held
  <1>3. Counters'
    <2> DEFINE p == now \div TicksPerSecond
               q == (now + 1) \div TicksPerSecond
    <2>1. now \in Nat /\ epoch \in Nat
      BY DEF IInv, TypeOK
    <2>2. p \in Nat /\ q \in Nat /\ p <= q
      BY <2>1, DivGrows, DivBound
    <2>3. epoch <= p /\ nextLease = nextFence
      BY DEF IInv, Counters, EpochAt
    <2>4. EpochAt(now)' = q
      BY <1>1 DEF EpochAt
    <2> HIDE DEF p, q
    <2> QED
      BY <1>1, <2>1, <2>2, <2>3, <2>4 DEF Counters
  <1>4. StoredIsGranted'
    BY <1>1 DEF IInv, StoredIsGranted
  <1>5. GrantShape'
    BY <1>1 DEF IInv, GrantShape
  <1>6. FenceOrder'
    BY <1>1 DEF IInv, FenceOrder
  <1>7. HeldIsStored'
    BY <1>1, <1>2 DEF IInv, HeldIsStored
  <1>8. HolderExclusive'
    BY <1>1, <1>2 DEF IInv, HolderExclusive
  <1> QED
    BY <1>3, <1>4, <1>5, <1>6, <1>7, <1>8 DEF IInv

\* A restart that takes a second opens an epoch above every grant.
LEMMA RestartStep == ASSUME SlowRestart, IInv, TypeOK', Restart PROVE IInv'
  <1>1. /\ now' \in Nat /\ now + RestartTicks <= now' /\ now \in Nat
        /\ leases' = [k \in Keys |-> NoLease] /\ nextLease' = 0 /\ nextFence' = 0
        /\ UNCHANGED <<grants, granted, released>>
    BY DEF Restart, clients, IInv, TypeOK
  <1>2. epoch < epoch'
    <2> DEFINE t == now'
               p == now \div TicksPerSecond
               q == t \div TicksPerSecond
    <2>1. now \in Nat /\ t \in Nat /\ now + TicksPerSecond <= t /\ epoch \in Nat
      BY <1>1 DEF SlowRestart, IInv, TypeOK
    <2>2. p \in Nat /\ q \in Nat /\ p < q
      BY <2>1, DivGrows, DivBound
    <2>3. epoch <= p
      BY DEF IInv, Counters, EpochAt
    <2>4. epoch' = q
      BY DEF Restart, EpochAt
    <2> HIDE DEF p, q, t
    <2> QED
      BY <2>1, <2>2, <2>3, <2>4
  <1>3. \A g \in 1..granted : grants[g].epoch < epoch'
    BY <1>2, GrantType DEF IInv, GrantShape, TypeOK
  <1>4. \A g \in 1..granted : Held(g)' => Held(g)
    BY <1>1, GrantType DEF IInv, Held
  <1>5. Counters'
    BY <1>1 DEF Restart, Counters, TypeOK
  <1>6. StoredIsGranted'
    BY <1>1 DEF StoredIsGranted
  <1>7. GrantShape'
    BY <1>1, <1>3, GrantType DEF IInv, GrantShape, TypeOK
  <1>8. FenceOrder'
    BY <1>1 DEF IInv, FenceOrder
  <1>9. HeldIsStored'
    BY <1>1, <1>3, GrantType DEF HeldIsStored, IInv, TypeOK
  <1>10. HolderExclusive'
    BY <1>1, <1>4 DEF IInv, HolderExclusive
  <1> QED
    BY <1>5, <1>6, <1>7, <1>8, <1>9, <1>10 DEF IInv

\* The invariant holds initially.
LEMMA InvInit == Init => IInv
  <1> SUFFICES ASSUME Init PROVE IInv
    OBVIOUS
  <1>1. TypeOK
    BY TypeInit
  <1>2. Counters
    <2> DEFINE p == EpochAt(now)
    <2>1. epoch = p /\ p \in Nat /\ nextLease = nextFence
      BY <1>1 DEF Init, TypeOK
    <2> HIDE DEF p
    <2> QED
      BY <2>1 DEF Counters, p
  <1>3. granted = 0 /\ \A k \in Keys : leases[k] = NoLease
    BY DEF Init
  <1>4. StoredIsGranted
    BY <1>3 DEF StoredIsGranted
  <1>5. GrantShape /\ FenceOrder /\ HeldIsStored /\ HolderExclusive
    BY <1>3 DEF GrantShape, FenceOrder, HeldIsStored, HolderExclusive
  <1> QED
    BY <1>1, <1>2, <1>4, <1>5 DEF IInv

\* Every operation keeps the invariant.
LEMMA InvStep == SlowRestart /\ IInv /\ [Next]_vars => IInv'
  <1> SUFFICES ASSUME SlowRestart, IInv, [Next]_vars PROVE IInv'
    OBVIOUS
  <1>1. TypeOK'
    BY TypeStep DEF IInv
  <1>2. CASE UNCHANGED vars
    BY <1>1, <1>2 DEF vars, store, clients, IInv, Counters, EpochAt,
       StoredIsGranted, GrantShape, FenceOrder, HeldIsStored, HolderExclusive, Held
  <1>3. CASE Next
    BY <1>1, <1>2, <1>3, AcquireStep, SweepStep, RenewExpiredStep, RenewedStep,
       ReleaseStep, TickStep, RestartStep DEF Next, RenewRefused
  <1> QED
    BY <1>2, <1>3

\* Whatever the number of clients, keys, renewals, releases and restarts of the
\* lease authority, the invariant holds once restarts are slow enough.
LEMMA InvAlways == SlowRestart => (Spec => []IInv)
  <1> SUFFICES ASSUME SlowRestart PROVE Spec => []IInv
    OBVIOUS
  <1>1. Init => IInv
    BY InvInit
  <1>2. IInv /\ [Next]_vars => IInv'
    BY InvStep
  <1> QED
    BY <1>1, <1>2, PTL DEF Spec

\* When a restart takes at least one epoch second: two clients that hold the
\* same key at once have leases of different epochs, although the authority
\* loses its table at every restart.
THEOREM LeaseSafety == SlowRestart => (Spec => []HolderExclusive)
  <1>1. IInv => HolderExclusive
    BY DEF IInv
  <1> QED
    BY <1>1, InvAlways, PTL

\* When a restart takes at least one epoch second: of any two grants of any keys
\* the later one carries the greater fencing pair, although the fence counter
\* starts again at every restart.
THEOREM FencesIncrease == SlowRestart => (Spec => []FenceOrder)
  <1>1. IInv => FenceOrder
    BY DEF IInv
  <1> QED
    BY <1>1, InvAlways, PTL

\* When a restart takes at least one epoch second: a client that still believes
\* in a lease of the running authority is the one its table names.
THEOREM HoldersStored == SlowRestart => (Spec => []HeldIsStored)
  <1>1. IInv => HeldIsStored
    BY DEF IInv
  <1> QED
    BY <1>1, InvAlways, PTL

-----------------------------------------------------------------------------

\* No step moves the expiry of a grant that has run out: a renewal finds the
\* entry of its own grant and refuses it when that is expired.
LEMMA ExpiryStep ==
    ASSUME IInv, [Next]_vars, NEW g \in 1..granted, ~(now < grants[g].expiresAt)
    PROVE  grants'[g].expiresAt = grants[g].expiresAt
  <1>1. ASSUME NEW k \in Keys, NEW o \in Owners, NEW ttl \in TTLs,
               AcquireGranted(k, o, ttl)
        PROVE  grants'[g] = grants[g]
    BY <1>1 DEF AcquireGranted, IInv, TypeOK
  <1>2. ASSUME NEW h \in 1..granted, NEW ttl \in TTLs, Renewed(h, ttl)
        PROVE  grants'[g] = grants[g]
    <2>1. PICK k \in FindByID(grants[h].id) :
            /\ ~Expired(leases[k])
            /\ grants' = [grants EXCEPT ![h] = WithExpiry(grants[h], now + ttl)]
      BY <1>2 DEF Renewed
    <2>2. ~(now >= grants[h].expiresAt)
      BY <2>1, CredentialOpensOwnLease DEF Expired
    <2>3. now \in Nat /\ grants[h].expiresAt \in Nat
      BY GrantType DEF IInv, TypeOK
    <2>4. h # g
      BY <2>2, <2>3
    <2> QED
      BY <2>1, <2>4 DEF IInv, TypeOK
  <1>3. ASSUME UNCHANGED clients
        PROVE  grants'[g] = grants[g]
    BY <1>3 DEF clients
  <1>4. ASSUME NEW h \in 1..granted, NEW o \in Owners, Release(h, o)
        PROVE  grants'[g] = grants[g]
    BY <1>4 DEF Release
  <1> QED
    BY <1>1, <1>2, <1>3, <1>4 DEF Next, vars, Sweep, RenewExpired, RenewRefused,
       Tick, Restart

\* When a restart takes at least one epoch second, expiry is final: whatever
\* renewals, sweeps and restarts race with it, the time a client was last told
\* is never moved once it has passed.
THEOREM ExpiryFinal == SlowRestart => (Spec => NoResurrection)
  <1> SUFFICES ASSUME SlowRestart
               PROVE  Spec => NoResurrection
    OBVIOUS
  <1>1. Init => IInv
    BY InvInit
  <1>2. IInv /\ [Next]_vars => IInv'
    BY InvStep
  <1>3. IInv /\ [Next]_vars
        => [\A g \in 1..granted :
              ~(now < grants[g].expiresAt)
              => grants'[g].expiresAt = grants[g].expiresAt]_vars
    BY ExpiryStep
  <1> QED
    BY <1>1, <1>2, <1>3, PTL DEF Spec, NoResurrection

-----------------------------------------------------------------------------
(* LeaseStore implements LeaseAbs.                                          *)

spentIds == {grants[g].id : g \in 1..granted}

\* A step that changes no abstract holder except to free it, and no granted
\* id, is a Lapse of the keys that are free afterwards.
LEMMA LapseStep ==
    ASSUME \A k \in Keys : holderMap'[k] \in {NoLease, holderMap[k]},
           spentIds' = spentIds
    PROVE  Abs!AbsNext
  <1> DEFINE K == {k \in Keys : holderMap'[k] = NoLease}
  <1>1. holderMap' = [k \in Keys |-> IF k \in K THEN NoLease ELSE holderMap[k]]
    BY DEF holderMap
  <1>2. Abs!Lapse(K)
    BY <1>1 DEF Abs!Lapse, spentIds
  <1> QED
    BY <1>2 DEF Abs!AbsNext

\* The abstract holder of a key depends on its entry and the clock only.
LEMMA HolderOf ==
    ASSUME NEW k \in Keys
    PROVE  /\ leases[k] # NoLease /\ now < leases[k].expiresAt =>
                holderMap[k] = [owner |-> leases[k].owner, id |-> leases[k].id]
           /\ ~(leases[k] # NoLease /\ now < leases[k].expiresAt) =>
                holderMap[k] = NoLease
           /\ leases'[k] # NoLease /\ now' < leases'[k].expiresAt =>
                holderMap'[k] = [owner |-> leases'[k].owner, id |-> leases'[k].id]
           /\ ~(leases'[k] # NoLease /\ now' < leases'[k].expiresAt) =>
                holderMap'[k] = NoLease
  BY DEF holderMap

\* Acquire grants a key that nobody holds, under an id nobody had.
LEMMA GrantStep ==
    ASSUME IInv, NEW k \in Keys, NEW o \in Owners, NEW ttl \in TTLs,
           AcquireGranted(k, o, ttl)
    PROVE  Abs!AbsNext
  <1> DEFINE l == NewLease(k, o, ttl)
             id == <<epoch, nextLease + 1>>
  <1>1. /\ l \in Lease /\ l.owner = o /\ l.id = id /\ l.expiresAt = now + ttl
        /\ id \in LeaseIds
    <2>1. granted < MaxGrants
      BY DEF AcquireGranted
    <2>2. l \in Lease
      BY <2>1, NewLeaseType DEF IInv
    <2> QED
      BY <2>2 DEF NewLease, Lease
  <1>2. /\ leases'[k] = l
        /\ \A j \in Keys : j # k => leases'[j] = RemoveExpired[j]
        /\ now' = now
    BY RemoveExpiredType DEF AcquireGranted, IInv
  <1>3. spentIds' = spentIds \cup {id}
    <2>1. /\ granted' = granted + 1 /\ grants'[granted + 1] = l
          /\ \A g \in 1..granted : grants'[g] = grants[g]
          /\ 1..(granted + 1) = (1..granted) \cup {granted + 1}
      BY DEF AcquireGranted, IInv, TypeOK
    <2> QED
      BY <2>1, <1>1 DEF spentIds
  <1>4. id \notin spentIds
    <2> SUFFICES ASSUME NEW g \in 1..granted, grants[g].id = id
                 PROVE  FALSE
      BY DEF spentIds
    <2>1. grants[g].epoch = epoch /\ grants[g].fence = nextFence + 1
      BY DEF IInv, GrantShape, Counters
    <2> QED
      BY <2>1 DEF IInv, GrantShape, TypeOK
  <1> HIDE DEF l, id
  <1>5. holderMap[k] = NoLease
    <2>1. leases[k] = NoLease \/ (leases[k] # NoLease /\ Expired(leases[k]))
      BY DEF AcquireGranted, RemoveExpired
    <2>2. now \in Nat /\ (leases[k] # NoLease => leases[k].expiresAt \in Nat)
      BY StoredLease DEF IInv, TypeOK, Lease
    <2>3. ~(leases[k] # NoLease /\ now < leases[k].expiresAt)
      BY <2>1, <2>2 DEF Expired
    <2> QED
      BY <2>3, HolderOf
  <1>6. holderMap'[k] = [owner |-> o, id |-> id]
    <2>1. now' < l.expiresAt /\ l # NoLease
      BY <1>1, <1>2 DEF IInv, TypeOK, TTLs
    <2> QED
      BY <2>1, <1>1, <1>2, HolderOf
  <1>7. ASSUME NEW j \in Keys, j # k
        PROVE  holderMap'[j] = holderMap[j]
    <2>1. now \in Nat /\ (leases[j] # NoLease => leases[j].expiresAt \in Nat)
      BY StoredLease DEF IInv, TypeOK, Lease
    <2>2. leases'[j] = IF leases[j] # NoLease /\ Expired(leases[j])
                         THEN NoLease ELSE leases[j]
      BY <1>2, <1>7 DEF RemoveExpired
    <2>3. CASE leases[j] # NoLease /\ Expired(leases[j])
      <3>1. ~(now < leases[j].expiresAt) /\ leases'[j] = NoLease
        BY <2>1, <2>2, <2>3 DEF Expired
      <3> QED
        BY <3>1, HolderOf
    <2>4. CASE ~(leases[j] # NoLease /\ Expired(leases[j]))
      <3>1. leases'[j] = leases[j] /\ now' = now
        BY <2>2, <2>4, <1>2
      <3> QED
        BY <3>1 DEF holderMap
    <2> QED
      BY <2>3, <2>4
  <1>8. holderMap' = [holderMap EXCEPT ![k] = [owner |-> o, id |-> id]]
    BY <1>6, <1>7 DEF holderMap
  <1>9. PICK i \in LeaseIds : i = id
    BY <1>1
  <1>10. Abs!Grant(k, o, i)
    BY <1>3, <1>4, <1>5, <1>8, <1>9 DEF Abs!Grant, spentIds
  <1> QED
    BY <1>10 DEF Abs!AbsNext

\* Every other operation only frees keys, if it changes anything at all.
LEMMA OtherStep ==
    ASSUME IInv, IInv',
           \/ Sweep \/ Tick \/ Restart
           \/ \E g \in 1..granted : RenewExpired(g)
           \/ \E g \in 1..granted, ttl \in TTLs : Renewed(g, ttl)
           \/ \E g \in 1..granted, o \in Owners : Release(g, o)
    PROVE  Abs!AbsNext
  <1>1. /\ now \in Nat /\ now' \in Nat
        /\ \A k \in Keys : leases[k] # NoLease => leases[k].expiresAt \in Nat
    BY StoredLease DEF IInv, TypeOK, Lease
  <1>2. ASSUME \A k \in Keys : leases'[k] \in {NoLease, leases[k]},
               now' >= now, grants' = grants, granted' = granted
        PROVE  Abs!AbsNext
    <2>1. ASSUME NEW k \in Keys
          PROVE  holderMap'[k] \in {NoLease, holderMap[k]}
      <3>1. CASE leases'[k] # NoLease /\ now' < leases'[k].expiresAt
        <4>1. leases'[k] = leases[k] /\ leases[k] # NoLease
          BY <1>2, <3>1
        <4>2. now < leases[k].expiresAt
          BY <1>1, <1>2, <3>1, <4>1
        <4> QED
          BY <3>1, <4>1, <4>2, HolderOf
      <3>2. CASE ~(leases'[k] # NoLease /\ now' < leases'[k].expiresAt)
        BY <3>2, HolderOf
      <3> QED
        BY <3>1, <3>2
    <2>2. spentIds' = spentIds
      BY <1>2 DEF spentIds
    <2> QED
      BY <2>1, <2>2, LapseStep
  <1>3. CASE Sweep
    <2>1. \A k \in Keys : leases'[k] \in {NoLease, leases[k]}
      BY <1>3 DEF Sweep, RemoveExpired
    <2>2. now' = now /\ grants' = grants /\ granted' = granted
      BY <1>3 DEF Sweep, clients
    <2> QED
      BY <1>1, <1>2, <2>1, <2>2
  <1>4. CASE Tick
    <2>1. leases' = leases /\ now' = now + 1 /\ grants' = grants /\ granted' = granted
      BY <1>4 DEF Tick, store, clients
    <2> QED
      BY <1>1, <1>2, <2>1
  <1>5. CASE Restart
    <2>1. /\ \A k \in Keys : leases'[k] = NoLease
          /\ now' >= now /\ grants' = grants /\ granted' = granted
      BY <1>1, <1>5 DEF Restart, clients
    <2> QED
      BY <1>2, <2>1
  <1>6. ASSUME NEW g \in 1..granted, RenewExpired(g)
        PROVE  Abs!AbsNext
    <2>1. \A k \in Keys : leases'[k] \in {NoLease, leases[k]}
      BY <1>6 DEF RenewExpired, FindByID, IInv, TypeOK
    <2>2. now' = now /\ grants' = grants /\ granted' = granted
      BY <1>6 DEF RenewExpired, clients
    <2> QED
      BY <1>1, <1>2, <2>1, <2>2
  <1>7. ASSUME NEW g \in 1..granted, NEW o \in Owners, Release(g, o)
        PROVE  Abs!AbsNext
    <2>1. \A k \in Keys : leases'[k] \in {NoLease, leases[k]}
      BY <1>7 DEF Release
    <2>2. now' = now /\ grants' = grants /\ granted' = granted
      BY <1>7 DEF Release
    <2> QED
      BY <1>1, <1>2, <2>1, <2>2
  <1>8. ASSUME NEW g \in 1..granted, NEW ttl \in TTLs, Renewed(g, ttl)
        PROVE  Abs!AbsNext
    <2>1. PICK k \in FindByID(grants[g].id) :
            /\ ~Expired(leases[k])
            /\ leases' = [leases EXCEPT ![k] = WithExpiry(leases[k], now + ttl)]
            /\ grants' = [grants EXCEPT ![g] = WithExpiry(grants[g], now + ttl)]
      BY <1>8 DEF Renewed
    <2>2. k \in Keys /\ leases[k] = grants[g] /\ leases[k] # NoLease
      BY CredentialOpensOwnLease DEF FindByID
    <2>3. now' = now /\ granted' = granted
      BY <1>8 DEF Renewed
    <2>4. /\ leases'[k] = WithExpiry(leases[k], now + ttl)
          /\ leases'[k] # NoLease
          /\ \A j \in Keys : j # k => leases'[j] = leases[j]
      <3>1. leases'[k] = WithExpiry(leases[k], now + ttl)
        BY <2>1, <2>2 DEF IInv, TypeOK
      <3>2. WithExpiry(leases[k], now + ttl) \in Lease
        <4>1. leases[k] \in Lease /\ now + ttl \in Nat
          BY <1>1, <2>2, StoredLease DEF IInv, TTLs
        <4> QED
          BY <4>1, WithExpiryType
      <3> QED
        BY <2>1, <3>1, <3>2 DEF IInv, TypeOK
    <2>5. \A j \in Keys : holderMap'[j] = holderMap[j]
      <3>1. ASSUME NEW j \in Keys, j # k PROVE holderMap'[j] = holderMap[j]
        BY <2>3, <2>4, <3>1 DEF holderMap
      <3>2. now < leases[k].expiresAt
        BY <1>1, <2>1, <2>2 DEF Expired
      <3>3. /\ leases'[k].owner = leases[k].owner /\ leases'[k].id = leases[k].id
            /\ leases'[k].expiresAt = now + ttl
        BY <2>4 DEF WithExpiry
      <3>4. now' < leases'[k].expiresAt
        BY <1>1, <2>3, <3>3 DEF TTLs
      <3>5. holderMap'[k] = holderMap[k]
        BY <2>2, <2>4, <3>2, <3>3, <3>4, HolderOf
      <3> QED
        BY <3>1, <3>5
    <2>6. spentIds' = spentIds
      <3>1. \A h \in 1..granted : grants'[h].id = grants[h].id
        BY <2>1 DEF WithExpiry, IInv, TypeOK
      <3> QED
        BY <2>3, <3>1 DEF spentIds
    <2> QED
      BY <2>5, <2>6, LapseStep
  <1> QED
    BY <1>3, <1>4, <1>5, <1>6, <1>7, <1>8

\* When a restart takes at least one epoch second, every behaviour of the store
\* is one LeaseAbs allows: a key is granted only when nobody's lease on it runs,
\* under an id that was never granted, and otherwise keys only become free.
\* TaskService relies on no more than that.
THEOREM Refinement == SlowRestart => (Spec => ImplementsAbs)
  <1> SUFFICES ASSUME SlowRestart
               PROVE  Spec => ImplementsAbs
    OBVIOUS
  <1>1. Init => IInv
    BY InvInit
  <1>2. IInv /\ [Next]_vars => IInv'
    BY InvStep
  <1>3. Init => Abs!AbsInit
    BY DEF Init, Abs!AbsInit, holderMap
  <1>4. IInv /\ IInv' /\ [Next]_vars => [Abs!AbsNext]_(Abs!absVars)
    <2> SUFFICES ASSUME IInv, IInv', [Next]_vars
                 PROVE  [Abs!AbsNext]_(Abs!absVars)
      OBVIOUS
    <2>1. CASE UNCHANGED vars
      BY <2>1 DEF vars, store, clients, Abs!absVars, holderMap
    <2>2. CASE Next
      BY <2>1, <2>2, GrantStep, OtherStep DEF Next, RenewRefused
    <2> QED
      BY <2>1, <2>2
  <1> QED
    BY <1>1, <1>2, <1>3, <1>4, PTL DEF Spec, ImplementsAbs, Abs!AbsSpec
=============================================================================
