--------------------------- MODULE GovernanceCache ---------------------------
(***************************************************************************)
(* What the editor plugin shows of a project's governance facts: the cache *)
(* of openarch-state.mjs, once behind the tools and the dashboard's RPC,   *)
(* once behind the prompt section; the tools that run the command line and *)
(* invalidate the first of them; and a dashboard store that polls.         *)
(*                                                                         *)
(* The facts are a version.  One workspace root: the caches of different   *)
(* roots share nothing.                                                    *)
(***************************************************************************)
EXTENDS Naturals, FiniteSets

CONSTANTS None,
          MaxVersion,  \* bound: changes of the facts
          Slots        \* bound: requests of one dashboard under way

VARIABLES disk,   \* the version of the facts in .openarch
          cache,  \* state and inflight of the two caches
          tool,   \* the command that a tool runs: None, or its kind and whether it has written
          reqs,   \* the dashboard's requests: None, "waiting", or the answer on its way
          shown   \* what the dashboard shows

bvars == <<disk, cache, tool, reqs, shown>>

Caches == {"tools", "signals"}
Empty == [state |-> None, inflight |-> None]
BoardInit == /\ disk = 1 /\ tool = None /\ shown = 0
             /\ cache = [c \in Caches |-> Empty]
             /\ reqs = [s \in Slots |-> None]

Answer(v) == [v |-> v]
Wait == [v |-> None]
Waits(s) == reqs[s] = Wait

\* get: is the snapshot used, whose age counts from the start of its collection?
FreshAlways(c) == cache[c].state # None
Fresh(c) == cache[c].state # None /\ ~cache[c].state.old

\* refresh: one collection at a time, for all who ask.
Started(c) == IF cache[c].inflight = None THEN [cache EXCEPT ![c].inflight = [v |-> None, old |-> FALSE]]
              ELSE cache

\* collectGovernanceState reads its facts somewhere between start and end.
CollectRead(c) ==
    /\ cache[c].inflight # None /\ cache[c].inflight.v = None
    /\ cache' = [cache EXCEPT ![c].inflight.v = disk]
    /\ UNCHANGED <<disk, tool, reqs, shown>>

Answered(c, a) == [s \in Slots |-> IF c = "tools" /\ Waits(s) THEN a ELSE reqs[s]]

CollectDone(c) ==
    /\ cache[c].inflight # None /\ cache[c].inflight.v # None
    /\ cache' = [cache EXCEPT ![c] = [state |-> cache[c].inflight, inflight |-> None]]
    /\ reqs' = Answered(c, Answer(cache[c].inflight.v))
    /\ UNCHANGED <<disk, tool, shown>>

\* A collection that rejects: finally forgets it, the snapshot stays, and who
\* waited is told.
AfterFailure(k) == [k EXCEPT !.inflight = None]
CollectFails(c) ==
    /\ cache[c].inflight # None
    /\ cache' = [cache EXCEPT ![c] = AfterFailure(@)]
    /\ reqs' = Answered(c, Answer(0))
    /\ UNCHANGED <<disk, tool, shown>>

\* stateTtlMs has passed since the collection began.
Age(c) ==
    /\ \/ /\ cache[c].state # None /\ ~cache[c].state.old
          /\ cache' = [cache EXCEPT ![c].state.old = TRUE]
       \/ /\ cache[c].inflight # None /\ ~cache[c].inflight.old
          /\ cache' = [cache EXCEPT ![c].inflight.old = TRUE]
    /\ UNCHANGED <<disk, tool, reqs, shown>>

-----------------------------------------------------------------------------
(* The tools *)

Invalidated == [cache EXCEPT !["tools"].state = None]

\* openarch_scan invalidates before it starts, in the background or not.
StartTool(kind) ==
    /\ tool = None /\ disk < MaxVersion
    /\ tool' = [kind |-> kind, wrote |-> FALSE]
    /\ cache' = IF kind \in {"job", "scan"} THEN Invalidated ELSE cache
    /\ UNCHANGED <<disk, reqs, shown>>

\* The command line writes .openarch, or a developer's commit hook does.
Write ==
    /\ disk < MaxVersion /\ (tool # None => ~tool.wrote)
    /\ disk' = disk + 1
    /\ tool' = IF tool = None THEN None ELSE [tool EXCEPT !.wrote = TRUE]
    /\ UNCHANGED <<cache, reqs, shown>>

\* openarch_check, openarch_review and openarch_test invalidate when the
\* command is over, and so does the end of a background scan.
EndTool ==
    /\ tool # None /\ tool' = None
    /\ cache' = IF tool.kind \in {"job", "gate"} THEN Invalidated ELSE cache
    /\ UNCHANGED <<disk, reqs, shown>>

-----------------------------------------------------------------------------
(* The readers *)

\* serveGovernanceState for a request of the dashboard.
Serve(s, force) ==
    LET k == IF force THEN Invalidated ELSE cache
    IN  IF ~force /\ Fresh("tools")
          THEN reqs' = [reqs EXCEPT ![s] = Answer(cache["tools"].state.v)] /\ cache' = cache
          ELSE /\ reqs' = [reqs EXCEPT ![s] = Wait]
               /\ cache' = [Started("tools") EXCEPT !["tools"].state = k["tools"].state]

\* The interval of the store, and the button that forces a new collection.
Poll(s, force) ==
    /\ reqs[s] = None /\ Serve(s, force)
    /\ UNCHANGED <<disk, tool, shown>>

\* The answers of overlapping requests arrive in any order; a failed one leaves
\* what is shown.
Deliver(s) ==
    /\ reqs[s] # None /\ ~Waits(s)
    /\ shown' = IF reqs[s].v = 0 THEN shown ELSE reqs[s].v
    /\ reqs' = [reqs EXCEPT ![s] = None]
    /\ UNCHANGED <<disk, cache, tool>>

\* The timer of openarch-signals refreshes its own cache.
SignalsTimer ==
    /\ cache' = Started("signals") /\ cache' # cache
    /\ UNCHANGED <<disk, tool, reqs, shown>>

BoardNext ==
    \/ \E c \in Caches : CollectRead(c) \/ CollectDone(c) \/ CollectFails(c) \/ Age(c)
    \/ \E kind \in {"job", "scan", "gate"} : StartTool(kind)
    \/ Write \/ EndTool \/ SignalsTimer
    \/ \E s \in Slots : Deliver(s) \/ \E force \in BOOLEAN : Poll(s, force)

-----------------------------------------------------------------------------
(* Properties *)

Snapshot == [v : {None} \cup 1..MaxVersion, old : BOOLEAN]

\* The type invariant: a request that waits has a collection to wait for.
BoardTypeOK ==
    /\ disk \in 1..MaxVersion /\ shown \in 0..MaxVersion
    /\ \A c \in Caches : /\ cache[c].state # None => cache[c].state \in Snapshot
                         /\ cache[c].inflight # None => cache[c].inflight \in Snapshot
    /\ \A s \in Slots : Waits(s) => cache["tools"].inflight # None

\* Once the facts stop changing, the dashboard and the prompt section come to
\* show them and never leave them again, although a synchronous scan does not
\* invalidate the dashboard's cache, no tool invalidates the prompt section's,
\* overlapping answers arrive out of order and collections fail.
BoardConverges ==
    <>[](shown = disk /\ cache["signals"].state # None /\ cache["signals"].state.v = disk)

\* "force" collects anew (openarch-tools.mjs: it bypasses the TTL and forces a
\* new collection).  It does not while a collection is under way: the request
\* joins it and is answered with what was read before.
ForceCollects ==
    [][\A s \in Slots : reqs[s] = None /\ reqs'[s] = Wait => cache'["tools"].inflight.v = None]_bvars

\* The dashboard never goes back to older facts.  It may: answers overtake.
NeverBackwards == [][shown' >= shown]_bvars
=============================================================================
