------------------------------ MODULE JobOutput ------------------------------
(***************************************************************************)
(* A background scan of the editor plugin (openarch-tools-run.mjs): the    *)
(* child's output goes into a bounded tail that is read piece by piece,    *)
(* and the job settles once, whatever order close, error and cancel come   *)
(* in.  The characters of the output are numbered.                         *)
(***************************************************************************)
EXTENDS Naturals

CONSTANTS MaxChars,  \* createTail's bound
          Output     \* bound: characters the child prints

VARIABLES lo, hi,    \* the tail holds the characters lo+1..hi
          cursor,    \* how far delta has read into the tail
          given,     \* the last character that a reader was given
          child,     \* "running", "closed", "failed"
          cancelled, settled

ovars == <<lo, hi, cursor, given, child, cancelled, settled>>

OutputInit == /\ lo = 0 /\ hi = 0 /\ cursor = 0 /\ given = 0
              /\ child = "running" /\ cancelled = FALSE /\ settled = "no"

\* push: characters that no longer fit move out of the tail, and the cursor
\* with them.
CursorKept(dropped) == cursor
CursorAfter(dropped) == IF cursor > dropped THEN cursor - dropped ELSE 0
PrintChars(k) ==
    /\ child = "running" /\ hi + k <= Output
    /\ LET dropped == IF hi + k - lo > MaxChars THEN hi + k - lo - MaxChars ELSE 0
       IN  /\ hi' = hi + k /\ lo' = lo + dropped
           /\ cursor' = IF dropped = 0 THEN cursor ELSE CursorAfter(dropped)
    /\ UNCHANGED <<given, child, cancelled, settled>>

\* delta
ReadOutput ==
    /\ cursor' = hi - lo
    /\ given' = IF lo + cursor < hi THEN hi ELSE given
    /\ UNCHANGED <<lo, hi, child, cancelled, settled>>

Cancel == /\ cancelled' = TRUE /\ UNCHANGED <<lo, hi, cursor, given, child, settled>>

\* settle: the first event counts.
Settled(status) == IF settled = "no" THEN status ELSE settled
Close(code) ==
    /\ child \in {"running", "failed"} /\ child' = "closed"
    /\ settled' = Settled(IF cancelled THEN "killed" ELSE IF code = 0 THEN "completed" ELSE "failed")
    /\ UNCHANGED <<lo, hi, cursor, given, cancelled>>
SpawnError ==
    /\ child = "running" /\ child' = "failed" /\ settled' = Settled("failed")
    /\ UNCHANGED <<lo, hi, cursor, given, cancelled>>

OutputNext == \/ \E k \in 1..Output : PrintChars(k)
              \/ ReadOutput \/ Cancel \/ SpawnError \/ \E code \in 0..1 : Close(code)

-----------------------------------------------------------------------------

\* A reader is given every character at most once and in order, and misses one
\* only when it left the tail unread: the next read begins after the last
\* character given, or at the start of the tail when that is later.
OutputOnce == lo + cursor = IF given > lo THEN given ELSE lo

\* A job that has settled does not change its outcome: a child that fails to
\* start and then closes stays failed, a late cancel does not turn a completed
\* job into a killed one.
SettledFinal == [][settled # "no" => settled' = settled]_ovars
=============================================================================
