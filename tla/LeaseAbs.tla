------------------------------ MODULE LeaseAbs ------------------------------
(***************************************************************************)
(* What a lease authority promises its clients, whatever keeps it: a key   *)
(* is held by at most one lease at a time, a lease id is granted once and  *)
(* never comes back, and a held key can become free at any moment (the     *)
(* holder releases it, its time runs out, or the authority restarts).      *)
(* LeaseStore implements this specification; TaskService is composed with  *)
(* it instead of with the clock-driven store.                              *)
(***************************************************************************)

CONSTANTS Keys,      \* repository-scoped semantic targets
          Owners,    \* identities that may hold a lease
          LeaseIds,  \* the ids a lease can be given
          Free       \* the value of a key nobody holds

VARIABLES holder,    \* who holds each key
          spent      \* every lease id granted so far

absVars == <<holder, spent>>

Holding == [owner : Owners, id : LeaseIds]

AbsInit ==
    /\ holder = [k \in Keys |-> Free]
    /\ spent = {}

Grant(k, o, id) ==
    /\ holder[k] = Free
    /\ id \notin spent
    /\ holder' = [holder EXCEPT ![k] = [owner |-> o, id |-> id]]
    /\ spent' = spent \cup {id}

\* Keys become free together: one tick of the clock can end several leases.
Lapse(K) ==
    /\ holder' = [k \in Keys |-> IF k \in K THEN Free ELSE holder[k]]
    /\ UNCHANGED spent

AbsNext ==
    \/ \E k \in Keys, o \in Owners, id \in LeaseIds : Grant(k, o, id)
    \/ \E K \in SUBSET Keys : Lapse(K)

AbsSpec == AbsInit /\ [][AbsNext]_absVars
=============================================================================
