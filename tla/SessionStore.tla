---------------------------- MODULE SessionStore ----------------------------
(***************************************************************************)
(* The in-memory authority for live sessions of the coordination service   *)
(* (adapter/memory/session.go, domain/session.go), as the routes of        *)
(* adapter/httpapi/session.go drive it.  One mutex, so one action per      *)
(* operation.  A session is stored under its repository and its id, but    *)
(* heartbeat and close present a credential that names the id alone and    *)
(* findRef takes the first entry that the map's random iteration yields.   *)
(*                                                                         *)
(* opened is the outside world: the sessions clients were given, in order, *)
(* with the expiry each was last told; closed are the ones told so.        *)
(***************************************************************************)
EXTENDS Naturals, Sequences

CONSTANTS Repositories,    \* RepositoryID
          SessionIds,      \* SessionRef.SessionID
          Owners,
          MinTTL, MaxTTL,  \* bounds of the heartbeat window, in ticks
          NoSession,       \* the value of a ref without an entry
          MaxClock,        \* bound: the model stops the clock here
          MaxOpened        \* bound: sessions opened in one behaviour

SessionAssumption ==
    /\ MinTTL \in Nat \ {0} /\ MaxTTL \in Nat /\ MinTTL <= MaxTTL
    /\ MaxClock \in Nat \ {0} /\ MaxOpened \in Nat

VARIABLES now,        \* the clock
          epoch,      \* SessionStore.epoch; every tick is another second
          nextFence,  \* SessionStore.nextFence
          sessions,   \* SessionStore.sessions
          opened,     \* every session handed out
          closed      \* those whose client was told they are closed

vars == <<now, epoch, nextFence, sessions, opened, closed>>

Refs == Repositories \X SessionIds
TTLs == MinTTL..MaxTTL
Given == DOMAIN opened

Session == [ref : Refs, owner : Owners, fence : 1..MaxOpened,
            epoch : 1..MaxClock, expiresAt : Nat]

NoSessionAssumption == NoSession \notin Session

\* Session.Credential: the repository is not part of it.
Credential(s) ==
    [id |-> s.ref[2], owner |-> s.owner, fence |-> s.fence, epoch |-> s.epoch]

\* !now.Before(session.ExpiresAt)
ExpiredLate(s) == now > s.expiresAt
Expired(s) == now >= s.expiresAt

\* removeExpired, which Register, Get and List run first.
RemoveExpired ==
    [ref \in Refs |-> IF sessions[ref] # NoSession /\ Expired(sessions[ref])
                        THEN NoSession ELSE sessions[ref]]

\* findRef: the entries it may return for a session id.
FindRef(id) == {ref \in Refs : ref[2] = id /\ sessions[ref] # NoSession}

-----------------------------------------------------------------------------

Init ==
    /\ now = 1 /\ epoch = 1 /\ nextFence = 0
    /\ sessions = [ref \in Refs |-> NoSession]
    /\ opened = <<>>
    /\ closed = {}

\* The ref is free once expired entries are gone; ErrSessionExists otherwise.
RefFree(ref) == RemoveExpired[ref] = NoSession

NewSession(ref, o, ttl) ==
    [ref |-> ref, owner |-> o, fence |-> nextFence + 1, epoch |-> epoch,
     expiresAt |-> now + ttl]

Register(ref, o, ttl) ==
    /\ Len(opened) < MaxOpened
    /\ RefFree(ref)
    /\ nextFence' = nextFence + 1
    /\ sessions' = [RemoveExpired EXCEPT ![ref] = NewSession(ref, o, ttl)]
    /\ opened' = Append(opened, NewSession(ref, o, ttl))
    /\ UNCHANGED <<now, epoch, closed>>

\* A refused Register, Get and List: expired entries go.
Sweep ==
    /\ sessions' = RemoveExpired
    /\ UNCHANGED <<now, epoch, nextFence, opened, closed>>

\* Heartbeat with the credential of g, for an entry findRef returns.  An
\* expired entry is deleted, whoever it belongs to, before the credential is
\* compared; a heartbeat that finds no entry or a stale one changes nothing.
HeartbeatExpired(g) ==
    \E ref \in FindRef(opened[g].ref[2]) :
        /\ Expired(sessions[ref])
        /\ sessions' = [sessions EXCEPT ![ref] = NoSession]
        /\ UNCHANGED <<now, epoch, nextFence, opened, closed>>

HeartbeatTaken(g, ttl) ==
    \E ref \in FindRef(opened[g].ref[2]) :
        /\ ~Expired(sessions[ref])
        /\ Credential(sessions[ref]) = Credential(opened[g])
        /\ sessions' = [sessions EXCEPT ![ref].expiresAt = now + ttl]
        /\ opened' = [opened EXCEPT ![g].expiresAt = now + ttl]
        /\ UNCHANGED <<now, epoch, nextFence, closed>>

HeartbeatRefused(g) ==
    /\ \/ FindRef(opened[g].ref[2]) = {}
       \/ \E ref \in FindRef(opened[g].ref[2]) :
            /\ ~Expired(sessions[ref])
            /\ Credential(sessions[ref]) # Credential(opened[g])
    /\ UNCHANGED vars

\* What Close deletes: the entry found, under the presented credential only.
CloseById(g) == FindRef(opened[g].ref[2])
Closes(g) ==
    {ref \in FindRef(opened[g].ref[2]) :
        Credential(sessions[ref]) = Credential(opened[g])}

\* Close: an unknown id is already closed, another credential is stale.
Close(g) ==
    /\ \/ /\ FindRef(opened[g].ref[2]) = {}
          /\ UNCHANGED sessions
       \/ \E ref \in Closes(g) : sessions' = [sessions EXCEPT ![ref] = NoSession]
    /\ closed' = closed \cup {g}
    /\ UNCHANGED <<now, epoch, nextFence, opened>>

Tick ==
    /\ now < MaxClock
    /\ now' = now + 1
    /\ UNCHANGED <<epoch, nextFence, sessions, opened, closed>>

\* The process ends; main.go builds a new store a second later or more.
Restart ==
    /\ now' \in (now + 1)..MaxClock
    /\ epoch' = now'
    /\ nextFence' = 0
    /\ sessions' = [ref \in Refs |-> NoSession]
    /\ UNCHANGED <<opened, closed>>

Next ==
    \/ \E ref \in Refs, o \in Owners, ttl \in TTLs : Register(ref, o, ttl)
    \/ Sweep
    \/ \E g \in Given : HeartbeatExpired(g)
    \/ \E g \in Given, ttl \in TTLs : HeartbeatTaken(g, ttl)
    \/ \E g \in Given : HeartbeatRefused(g)
    \/ \E g \in Given : Close(g)
    \/ Tick
    \/ Restart

Spec == Init /\ [][Next]_vars

-----------------------------------------------------------------------------

TypeOK ==
    /\ now \in 1..MaxClock /\ epoch \in 1..MaxClock
    /\ nextFence \in 0..Len(opened)
    /\ sessions \in [Refs -> Session \cup {NoSession}]
    /\ \A g \in Given : opened[g] \in Session
    /\ closed \subseteq Given

\* A client believes in its session until it closes it or until the expiry it
\* was last told.
Live(g) == g \notin closed /\ now < opened[g].expiresAt

\* A live session of this incarnation is in the store as its client knows it:
\* no registration, close or heartbeat of another credential, stale ones from
\* before a restart included, takes it away.
LiveIsStored ==
    \A g \in Given :
        Live(g) /\ opened[g].epoch = epoch => sessions[opened[g].ref] = opened[g]

\* A close that was acknowledged has left no entry that the credential opens,
\* not even when findRef answered that the id is unknown.
ClosedAreGone ==
    \A g \in closed : \A ref \in Refs :
        sessions[ref] # NoSession => Credential(sessions[ref]) # Credential(opened[g])

\* findRef can find a live session of this incarnation, and what else it can
\* return is a session under the same id that a client of another repository
\* was given in this incarnation and has not closed: nothing that was closed,
\* replaced or lost with a restart comes between an owner and its session.
LookupHonest ==
    \A g \in Given :
        Live(g) /\ opened[g].epoch = epoch =>
          /\ opened[g].ref \in FindRef(opened[g].ref[2])
          /\ \A ref \in FindRef(opened[g].ref[2]) \ {opened[g].ref} :
               \E h \in Given \ closed :
                 /\ sessions[ref] = opened[h] /\ opened[h].epoch = epoch
                 /\ opened[h].ref[1] # opened[g].ref[1]

\* What the clients of the authority rely on.
SessionsExact == TypeOK /\ LiveIsStored /\ ClosedAreGone /\ LookupHonest

\* What fails when two repositories have a session under one id: findRef has no
\* other entry to return, so the owner of a live session is never told
\* ErrSessionStale or ErrSessionExpired.
LookupExact ==
    \A g \in Given :
        Live(g) /\ opened[g].epoch = epoch
        => FindRef(opened[g].ref[2]) = {opened[g].ref}

\* A session whose window has passed is not brought back by a heartbeat.
NoResurrection ==
    [][\A g \in Given :
         now >= opened[g].expiresAt => opened'[g].expiresAt = opened[g].expiresAt]_vars
=============================================================================
