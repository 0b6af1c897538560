---------------------------- MODULE AdvisoryLock ----------------------------
(***************************************************************************)
(* The advisory file lock that serialises the durable governance writes of *)
(* separate openarch processes (packages/core, adapter/lock/AdvisoryLock,  *)
(* LockFileStore; application/governance/writeLock takes it around every   *)
(* write).  A process runs acquire and release without yielding, but       *)
(* nothing orders the file operations of two processes: each operation on  *)
(* a path is one action.                                                   *)
(*                                                                         *)
(* A file is absent or has the lock_id its content names (the process and  *)
(* the number of its acquisition, for a random UUID), whether its content  *)
(* is complete (between open and write it cannot be parsed) and whether    *)
(* its heartbeat is more than 30 s old.                                    *)
(***************************************************************************)
EXTENDS Naturals, FiniteSets

CONSTANTS Processes,
          Signalable,   \* processes whose peers may signal them (kill 0)
          CrashSets,    \* sets of program points at which processes may die
          NoFile,
          MaxAttempts,  \* the three attempts of claimGuard
          MaxAcquires   \* bound: acquisitions of one process

ASSUME LockAssumption ==
    /\ Signalable \subseteq Processes
    /\ MaxAttempts \in Nat \ {0}
    /\ MaxAcquires \in Nat

VARIABLES crashAt,  \* where processes may die in this behaviour
          lock,     \* .<name>.lock
          guard,    \* .<name>.acquire.lock
          pc,       \* where each process is
          count,    \* acquisitions each process has begun
          attempt,  \* attempts of claimGuard
          seen,     \* the lock_id of the zombie a process means to delete
          got,      \* the caller gets, or has, a handle for this acquisition
          timer     \* the heartbeat timer of this acquisition runs

files == <<lock, guard>>
vars == <<crashAt, lock, guard, pc, count, attempt, seen, got, timer>>

\* acquire: claiming the guard, and what runs under the guard.
Claiming == {"guard", "guardWrite", "guardRead", "guardCheck", "guardUnlink"}
Guarded == {"lockRead", "lockExists", "lockCheck", "lockUnlink", "lockCreate",
            "lockWrite", "guardDrop", "guardDropUnlink"}
\* After acquire: the caller works, or its timer refreshes the file.
Holding == {"held", "beatOpen", "beatWrite"}
Releasing == {"relCheck", "relUnlink"}
Points == Claiming \cup Guarded \cup Holding \cup Releasing \cup {"idle", "leaked", "dead"}

Id(p) == <<p, count[p]>>
Created(p) == [id |-> Id(p), full |-> FALSE, old |-> FALSE]
File == [id : Processes \X (1..MaxAcquires), full : BOOLEAN, old : BOOLEAN]

ASSUME NoFileAssumption == NoFile \notin File

\* read: a record, or null for an absent or incomplete file.
Readable(f) == f # NoFile /\ f.full
Owns(f, id) == Readable(f) /\ f.id = id

\* isProcessAlive: any error of kill(pid, 0) counts as dead, EPERM too.
IsProcessAlive(p) == pc[p] # "dead" /\ p \in Signalable

ZombieByAge(f) == f.old
IsZombie(f) == f.old /\ ~IsProcessAlive(f.id[1])
TakenOver(f) == Readable(f) /\ IsZombie(f)

\* Writing through the descriptor that created (or truncated) the file; when
\* the path names another file by now the content goes nowhere.
Filled(f, p) == IF f = Created(p) THEN [f EXCEPT !.full = TRUE] ELSE f

At(p, point) == pc[p] = point
Goto(p, point) == pc' = [pc EXCEPT ![p] = point]

Init ==
    /\ crashAt \in CrashSets
    /\ lock = NoFile /\ guard = NoFile
    /\ pc = [p \in Processes |-> "idle"]
    /\ count = [p \in Processes |-> 0]
    /\ attempt = [p \in Processes |-> 1]
    /\ seen = [p \in Processes |-> <<p, 0>>]
    /\ got = [p \in Processes |-> FALSE]
    /\ timer = [p \in Processes |-> FALSE]

-----------------------------------------------------------------------------
(* claimGuard                                                               *)

Acquire(p) ==
    /\ At(p, "idle") /\ count[p] < MaxAcquires
    /\ Goto(p, "guard")
    /\ count' = [count EXCEPT ![p] = @ + 1]
    /\ attempt' = [attempt EXCEPT ![p] = 1]
    /\ got' = [got EXCEPT ![p] = FALSE]
    /\ UNCHANGED <<crashAt, files, seen, timer>>

\* writeExclusive opens with "wx": one creator, the others get EEXIST.
CreateGuard(p) ==
    /\ At(p, "guard")
    /\ \/ guard = NoFile /\ guard' = Created(p) /\ Goto(p, "guardWrite")
       \/ guard # NoFile /\ Goto(p, "guardRead") /\ UNCHANGED guard
    /\ UNCHANGED <<crashAt, lock, count, attempt, seen, got, timer>>

WriteGuard(p) ==
    /\ At(p, "guardWrite")
    /\ guard' = Filled(guard, p)
    /\ Goto(p, "lockRead")
    /\ UNCHANGED <<crashAt, lock, count, attempt, seen, got, timer>>

\* A guard that cannot be read or is not a zombie's refuses the acquisition.
ReadGuard(p) ==
    /\ At(p, "guardRead")
    /\ \/ ~TakenOver(guard) /\ Goto(p, "idle") /\ UNCHANGED seen
       \/ /\ TakenOver(guard)
          /\ seen' = [seen EXCEPT ![p] = guard.id] /\ Goto(p, "guardCheck")
    /\ UNCHANGED <<crashAt, files, count, attempt, got, timer>>

NextAttempt(p) ==
    IF attempt[p] < MaxAttempts
      THEN Goto(p, "guard") /\ attempt' = [attempt EXCEPT ![p] = @ + 1]
      ELSE Goto(p, "idle") /\ UNCHANGED attempt

\* deleteOwned reads once more ...
CheckGuard(p) ==
    /\ At(p, "guardCheck")
    /\ IF Owns(guard, seen[p]) THEN Goto(p, "guardUnlink") /\ UNCHANGED attempt
                               ELSE NextAttempt(p)
    /\ UNCHANGED <<crashAt, files, count, seen, got, timer>>

\* ... and unlinks whatever the path names then; ENOENT ends the acquisition.
UnlinkGuard(p) ==
    /\ At(p, "guardUnlink")
    /\ IF guard = NoFile THEN Goto(p, "idle") /\ UNCHANGED attempt
                         ELSE NextAttempt(p)
    /\ guard' = NoFile
    /\ UNCHANGED <<crashAt, lock, count, seen, got, timer>>

-----------------------------------------------------------------------------
(* acquire, under the guard                                                 *)

Fail(p) == Goto(p, "guardDrop")

ReadLock(p) ==
    /\ At(p, "lockRead")
    /\ \/ ~Readable(lock) /\ Goto(p, "lockExists") /\ UNCHANGED seen
       \/ Readable(lock) /\ ~IsZombie(lock) /\ Fail(p) /\ UNCHANGED seen
       \/ /\ TakenOver(lock)
          /\ seen' = [seen EXCEPT ![p] = lock.id] /\ Goto(p, "lockCheck")
    /\ UNCHANGED <<crashAt, files, count, attempt, got, timer>>

\* A lock that exists but could not be read is not taken over.
LockExists(p) ==
    /\ At(p, "lockExists")
    /\ IF lock # NoFile THEN Fail(p) ELSE Goto(p, "lockCreate")
    /\ UNCHANGED <<crashAt, files, count, attempt, seen, got, timer>>

CheckLock(p) ==
    /\ At(p, "lockCheck")
    /\ Goto(p, IF Owns(lock, seen[p]) THEN "lockUnlink" ELSE "lockCreate")
    /\ UNCHANGED <<crashAt, files, count, attempt, seen, got, timer>>

UnlinkLock(p) ==
    /\ At(p, "lockUnlink")
    /\ IF lock = NoFile THEN Fail(p) ELSE Goto(p, "lockCreate")
    /\ lock' = NoFile
    /\ UNCHANGED <<crashAt, guard, count, attempt, seen, got, timer>>

CreateLock(p) ==
    /\ At(p, "lockCreate")
    /\ \/ lock = NoFile /\ lock' = Created(p) /\ Goto(p, "lockWrite")
       \/ lock # NoFile /\ Fail(p) /\ UNCHANGED lock
    /\ UNCHANGED <<crashAt, guard, count, attempt, seen, got, timer>>

WriteLock(p) ==
    /\ At(p, "lockWrite")
    /\ lock' = Filled(lock, p)
    /\ got' = [got EXCEPT ![p] = TRUE]
    /\ timer' = [timer EXCEPT ![p] = TRUE]
    /\ Goto(p, "guardDrop")
    /\ UNCHANGED <<crashAt, guard, count, attempt, seen>>

\* The write of writeExclusive fails: the file it created is unlinked.
WriteFails(p) ==
    /\ \/ At(p, "guardWrite") /\ guard' = NoFile /\ Goto(p, "idle") /\ UNCHANGED lock
       \/ At(p, "lockWrite") /\ lock' = NoFile /\ Fail(p) /\ UNCHANGED guard
    /\ UNCHANGED <<crashAt, count, attempt, seen, got, timer>>

Finish(p) == Goto(p, IF got[p] THEN "held" ELSE "idle")

\* finally: deleteOwned of the guard.
DropGuardOnSuccess(p) ==
    /\ At(p, "guardDrop")
    /\ IF got[p] /\ Owns(guard, Id(p)) THEN Goto(p, "guardDropUnlink") ELSE Finish(p)
    /\ UNCHANGED <<crashAt, files, count, attempt, seen, got, timer>>
DropGuard(p) ==
    /\ At(p, "guardDrop")
    /\ IF Owns(guard, Id(p)) THEN Goto(p, "guardDropUnlink") ELSE Finish(p)
    /\ UNCHANGED <<crashAt, files, count, attempt, seen, got, timer>>

\* An error here replaces the handle: the caller is told that it failed while
\* the lock file and its timer stay.
UnlinkOwnGuard(p) ==
    /\ At(p, "guardDropUnlink")
    /\ \/ guard = NoFile /\ got[p] /\ Goto(p, "leaked") /\ got' = [got EXCEPT ![p] = FALSE]
       \/ (guard # NoFile \/ ~got[p]) /\ Finish(p) /\ UNCHANGED got
    /\ guard' = NoFile
    /\ UNCHANGED <<crashAt, lock, count, attempt, seen, timer>>

-----------------------------------------------------------------------------
(* The holder                                                               *)

\* heartbeat reads its record; a timer that finds another one stops itself.
Beat(p) ==
    /\ timer[p] /\ pc[p] \in {"held", "leaked"}
    /\ IF Owns(lock, Id(p))
         THEN Goto(p, "beatOpen") /\ UNCHANGED timer
         ELSE timer' = [timer EXCEPT ![p] = FALSE] /\ UNCHANGED pc
    /\ UNCHANGED <<crashAt, files, count, attempt, seen, got>>

\* writeFileSync truncates what is at the path, or creates it, then writes.
BeatOpen(p) ==
    /\ At(p, "beatOpen")
    /\ lock' = Created(p)
    /\ Goto(p, "beatWrite")
    /\ UNCHANGED <<crashAt, guard, count, attempt, seen, got, timer>>

BeatWrite(p) ==
    /\ At(p, "beatWrite")
    /\ lock' = Filled(lock, p)
    /\ Goto(p, IF got[p] THEN "held" ELSE "leaked")
    /\ UNCHANGED <<crashAt, guard, count, attempt, seen, got, timer>>

Release(p) ==
    /\ At(p, "held")
    /\ timer' = [timer EXCEPT ![p] = FALSE]
    /\ Goto(p, IF Owns(lock, Id(p)) THEN "relCheck" ELSE "idle")
    /\ UNCHANGED <<crashAt, files, count, attempt, seen, got>>

CheckRelease(p) ==
    /\ At(p, "relCheck")
    /\ Goto(p, IF Owns(lock, Id(p)) THEN "relUnlink" ELSE "idle")
    /\ UNCHANGED <<crashAt, files, count, attempt, seen, got, timer>>

UnlinkReleased(p) ==
    /\ At(p, "relUnlink")
    /\ lock' = NoFile
    /\ Goto(p, "idle")
    /\ UNCHANGED <<crashAt, guard, count, attempt, seen, got, timer>>

-----------------------------------------------------------------------------

Die(p) ==
    /\ pc[p] \in crashAt
    /\ Goto(p, "dead")
    /\ timer' = [timer EXCEPT ![p] = FALSE]
    /\ UNCHANGED <<crashAt, files, count, attempt, seen, got>>

\* 30 s pass without a heartbeat: the owner is dead, or busy.
Age ==
    /\ \/ Readable(lock) /\ lock' = [lock EXCEPT !.old = TRUE] /\ UNCHANGED guard
       \/ Readable(guard) /\ guard' = [guard EXCEPT !.old = TRUE] /\ UNCHANGED lock
    /\ UNCHANGED <<crashAt, pc, count, attempt, seen, got, timer>>

Step(p) ==
    \/ Acquire(p) \/ CreateGuard(p) \/ WriteGuard(p) \/ ReadGuard(p)
    \/ CheckGuard(p) \/ UnlinkGuard(p)
    \/ ReadLock(p) \/ LockExists(p) \/ CheckLock(p) \/ UnlinkLock(p)
    \/ CreateLock(p) \/ WriteLock(p) \/ WriteFails(p)
    \/ DropGuard(p) \/ UnlinkOwnGuard(p)
    \/ Beat(p) \/ BeatOpen(p) \/ BeatWrite(p)
    \/ Release(p) \/ CheckRelease(p) \/ UnlinkReleased(p)

Next == (\E p \in Processes : Step(p) \/ Die(p)) \/ Age

Spec == Init /\ [][Next]_vars

-----------------------------------------------------------------------------

TypeOK ==
    /\ crashAt \in CrashSets
    /\ lock \in File \cup {NoFile}
    /\ guard \in File \cup {NoFile}
    /\ pc \in [Processes -> Points]
    /\ count \in [Processes -> 0..MaxAcquires]
    /\ attempt \in [Processes -> 1..MaxAttempts]
    /\ seen \in [Processes -> Processes \X (0..MaxAcquires)]
    /\ got \in [Processes -> BOOLEAN]
    /\ timer \in [Processes -> BOOLEAN]

Holders == {p \in Processes : pc[p] \in Holding /\ got[p]}

\* Of all live processes at most one runs its governance write.
MutualExclusion == \A p, q \in Holders : p = q

\* While a process holds the lock the file at the path is its own: no zombie
\* recovery, release, heartbeat or failed acquisition of another process has
\* removed or replaced it.
HolderOnDisk == \A p \in Holders : lock # NoFile /\ lock.id = Id(p)

\* A guard that is on disk belongs to an acquisition in progress or to a dead
\* process: no way out of acquire leaves it behind to refuse everybody else.
GuardInside ==
    guard # NoFile =>
        LET p == guard.id[1]
        IN  pc[p] = "dead" \/ (pc[p] \in Claiming \cup Guarded /\ guard.id = Id(p))

\* Both files are accounted for whoever dies when: the lock at the path is the
\* holder's, a guard belongs to somebody who still uses it or is dead, and the
\* types hold, with no attempt beyond the last.
FilesOwned == TypeOK /\ HolderOnDisk /\ GuardInside
=============================================================================
