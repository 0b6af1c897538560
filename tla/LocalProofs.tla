------------------------------ MODULE LocalProofs ------------------------------
(***************************************************************************)
(* Theorems about what runs around the commands on a developer's machine:  *)
(* the lock that governance writes take (AdvisoryLock), and the commit     *)
(* hook, the test runner and the editor plugin (the machines of            *)
(* LocalMachines).                                                         *)
(*                                                                         *)
(* The lock, for any number of processes, attempts and acquisitions.  The  *)
(* theorems assume that every process may signal every other one           *)
(* (AllSignalable), and that processes do not leave both a lock and a      *)
(* complete guard behind when they die (SafeDeaths): a behaviour lets them *)
(* die anywhere but under the guard, or anywhere before the lock file is   *)
(* theirs.  AnyDeath of the model is outside, and there the properties     *)
(* fail.                                                                   *)
(*                                                                         *)
(* The machines, for any files and contents, edits meanwhile, requests and *)
(* versions of the facts, and sizes of an output and of its tail.  They    *)
(* share no state: each has an inductive invariant and a lemma that its    *)
(* steps keep it.                                                          *)
(*                                                                         *)
(* Setup (ProjectSetup), for any disk and any request: what init leaves    *)
(* when it succeeds, fails or is run again, what the readiness report says *)
(* of it, and what a declaration of shapes means.                          *)
(***************************************************************************)
EXTENDS AdvisoryLock, LocalMachines, FiniteSetTheorems, SequenceTheorems, TLAPS

OutsideGuardOnly(S) == S \cap Guarded = {}
BeforeLockOnly(S) == S \subseteq Claiming \cup {"lockRead", "lockExists", "lockCreate"}

SafeDeaths == \A S \in CrashSets : OutsideGuardOnly(S) \/ BeforeLockOnly(S)
AllSignalable == Signalable = Processes

\* Where the lock file is p's own: from its creation to its removal.
HasLock(p) ==
    \/ pc[p] \in {"lockWrite", "leaked"} \cup Holding \cup Releasing
    \/ got[p] /\ pc[p] \in {"guardDrop", "guardDropUnlink"}
HasGuard(p) == pc[p] = "guardWrite" \/ pc[p] \in Guarded

LockOwned == \A p \in Processes : HasLock(p) => lock # NoFile /\ lock.id = Id(p)

\* A lock on disk is somebody's who has not removed it yet, or a dead one's.
LockInside ==
    lock # NoFile =>
        \/ pc[lock.id[1]] = "dead" /\ OutsideGuardOnly(crashAt)
        \/ HasLock(lock.id[1]) /\ lock.id = Id(lock.id[1])

\* Its content is complete except while its owner writes it.
LockWritten ==
    \A p \in Processes :
        HasLock(p) =>
            IF pc[p] \in {"lockWrite", "beatWrite"} THEN lock = Created(p) ELSE lock.full

\* A guard on disk belongs to an acquisition that will remove it, or to a dead
\* process; the latter is complete only when processes die under the guard.
GuardKept ==
    guard # NoFile =>
        LET p == guard.id[1]
        IN  \/ pc[p] = "dead" /\ (guard.full => ~OutsideGuardOnly(crashAt))
            \/ HasGuard(p) /\ guard.id = Id(p)

GuardWritten ==
    \A p \in Processes :
        HasGuard(p) /\ guard # NoFile /\ guard.id = Id(p) =>
            IF pc[p] = "guardWrite" THEN guard = Created(p) ELSE guard.full

\* When nobody dies under the guard nobody takes a guard over, and it excludes.
GuardExcludes ==
    OutsideGuardOnly(crashAt) =>
        \A p \in Processes :
            /\ HasGuard(p) => guard # NoFile /\ guard.id = Id(p)
            /\ pc[p] \notin {"guardCheck", "guardUnlink"}

\* Only the lock of a dead process is taken over, and only under a guard that
\* excludes.
TakeoverOfDead ==
    \A p \in Processes :
        /\ pc[p] \in {"lockCheck", "lockUnlink"} =>
              OutsideGuardOnly(crashAt) /\ pc[seen[p][1]] = "dead"
        /\ pc[p] = "lockUnlink" /\ lock # NoFile => pc[lock.id[1]] = "dead"

\* A handle is promised when the lock is written, not before.
NotYet ==
    \A p \in Processes :
        pc[p] \in Claiming \cup (Guarded \ {"guardDrop", "guardDropUnlink"}) => ~got[p]

\* Whoever is at work has begun an acquisition.
Begun == \A p \in Processes : pc[p] \notin {"idle", "dead"} => count[p] > 0

DeathsSafe == OutsideGuardOnly(crashAt) \/ BeforeLockOnly(crashAt)

IInv ==
    /\ TypeOK /\ Begun /\ DeathsSafe
    /\ LockOwned /\ LockInside /\ LockWritten
    /\ GuardKept /\ GuardWritten /\ GuardExcludes
    /\ TakeoverOfDead /\ NotYet

-----------------------------------------------------------------------------

\* The vocabulary of program points and of what a file says, in every proof below.
USE LockAssumption, NoFileAssumption
    DEF At, Goto, files, Claiming, Guarded, Holding, Releasing, Points,
        Id, Created, File, Filled, Readable, Owns, IsProcessAlive, IsZombie,
        TakenOver, NextAttempt, Fail, Finish, HasLock, HasGuard,
        OutsideGuardOnly, BeforeLockOnly

\* What a process creates is a file that carries its acquisition.
LEMMA CreatedFile ==
    ASSUME TypeOK, Begun, NEW p \in Processes, pc[p] \notin {"idle", "dead"}
    PROVE  /\ Created(p) \in File /\ Created(p) # NoFile
           /\ Created(p).id = Id(p) /\ ~Created(p).full
  <1>1. Id(p) \in Processes \X (1..MaxAcquires)
    BY DEF TypeOK, Begun
  <1>2. Created(p) \in File
    BY <1>1 DEF Created, File
  <1> QED
    BY <1>2 DEF Created

\* Writing changes nothing of a file but that it completes the writer's own.
LEMMA FilledFile ==
    ASSUME NEW f \in File \cup {NoFile}, NEW p \in Processes, Created(p) \in File
    PROVE  /\ Filled(f, p) \in File \cup {NoFile}
           /\ Filled(f, p) = NoFile <=> f = NoFile
           /\ f # Created(p) => Filled(f, p) = f
           /\ f = Created(p) /\ f # NoFile => Filled(f, p).id = f.id /\ Filled(f, p).full
  <1>1. CASE f # Created(p)
    BY <1>1
  <1>2. CASE f = Created(p)
    <2>1. f.id = Id(p)
      BY <1>2
    <2>2. Filled(f, p) = [id |-> Id(p), full |-> TRUE, old |-> FALSE]
      BY <1>2
    <2>3. Filled(f, p) \in File /\ f \in File
      BY <1>2, <2>2
    <2> QED
      BY <1>2, <2>1, <2>2, <2>3
  <1> QED
    BY <1>1, <1>2

\* Types are kept by every step, and so is that whoever is at work has begun.
LEMMA TypeStep == TypeOK /\ Begun /\ [Next]_vars => (TypeOK /\ Begun)'
  <1> SUFFICES ASSUME TypeOK, Begun, [Next]_vars PROVE (TypeOK /\ Begun)'
    OBVIOUS
  <1> USE DEF TypeOK, Begun
  <1>1. ASSUME NEW p \in Processes, Acquire(p) PROVE (TypeOK /\ Begun)'
    BY <1>1 DEF Acquire
  <1>2. ASSUME NEW p \in Processes, CreateGuard(p) PROVE (TypeOK /\ Begun)'
    <2>1. guard' \in File \cup {NoFile}
      BY <1>2, CreatedFile, ZenonT(30) DEF CreateGuard
    <2>2. pc' \in [Processes -> Points]
      BY <1>2, CreatedFile DEF CreateGuard
    <2>3. Begun'
      BY <1>2, CreatedFile DEF CreateGuard
    <2> QED
      BY <1>2, <2>1, <2>2, <2>3 DEF CreateGuard
  <1>3. ASSUME NEW p \in Processes, WriteGuard(p) PROVE (TypeOK /\ Begun)'
    BY <1>3, CreatedFile, FilledFile DEF WriteGuard
  <1>4. ASSUME NEW p \in Processes, ReadGuard(p) PROVE (TypeOK /\ Begun)'
    BY <1>4 DEF File, ReadGuard
  <1>5. ASSUME NEW p \in Processes, CheckGuard(p) PROVE (TypeOK /\ Begun)'
    <2>1. pc' \in [Processes -> Points]
      BY <1>5 DEF CheckGuard
    <2>2. attempt' \in [Processes -> 1..MaxAttempts]
      BY <1>5 DEF CheckGuard
    <2>3. Begun'
      BY <1>5 DEF CheckGuard
    <2> QED
      BY <1>5, <2>1, <2>2, <2>3 DEF CheckGuard
  <1>6. ASSUME NEW p \in Processes, UnlinkGuard(p) PROVE (TypeOK /\ Begun)'
    <2>1. pc' \in [Processes -> Points]
      <3>1. CASE guard = NoFile
        BY <1>6, <3>1 DEF UnlinkGuard
      <3>2. CASE guard # NoFile
        <4>1. \/ pc' = [pc EXCEPT ![p] = "guard"]
              \/ pc' = [pc EXCEPT ![p] = "idle"]
          BY <1>6, <3>2 DEF UnlinkGuard
        <4> QED
          BY <4>1
      <3> QED
        BY <3>1, <3>2
    <2>2. attempt' \in [Processes -> 1..MaxAttempts]
      <3>1. \/ attempt' = attempt
            \/ attempt[p] < MaxAttempts /\ attempt' = [attempt EXCEPT ![p] = @ + 1]
        BY <1>6 DEF UnlinkGuard
      <3> QED
        BY <3>1
    <2>3. Begun'
      BY <1>6 DEF UnlinkGuard
    <2> QED
      BY <1>6, <2>1, <2>2, <2>3 DEF UnlinkGuard
  <1>7. ASSUME NEW p \in Processes, ReadLock(p) PROVE (TypeOK /\ Begun)'
    <2>1. seen' \in [Processes -> Processes \X (0..MaxAcquires)]
      BY <1>7 DEF ReadLock
    <2>2. pc' \in [Processes -> Points]
      BY <1>7 DEF ReadLock
    <2>3. Begun'
      BY <1>7 DEF ReadLock
    <2> QED
      BY <1>7, <2>1, <2>2, <2>3 DEF ReadLock
  <1>8. ASSUME NEW p \in Processes, LockExists(p) PROVE (TypeOK /\ Begun)'
    BY <1>8 DEF LockExists
  <1>9. ASSUME NEW p \in Processes, CheckLock(p) PROVE (TypeOK /\ Begun)'
    BY <1>9 DEF CheckLock
  <1>10. ASSUME NEW p \in Processes, UnlinkLock(p) PROVE (TypeOK /\ Begun)'
    BY <1>10 DEF UnlinkLock
  <1>11. ASSUME NEW p \in Processes, CreateLock(p) PROVE (TypeOK /\ Begun)'
    <2>1. lock' \in File \cup {NoFile}
      BY <1>11, CreatedFile, ZenonT(30) DEF CreateLock
    <2>2. pc' \in [Processes -> Points]
      BY <1>11, CreatedFile DEF CreateLock
    <2>3. Begun'
      BY <1>11, CreatedFile DEF CreateLock
    <2> QED
      BY <1>11, <2>1, <2>2, <2>3 DEF CreateLock
  <1>12. ASSUME NEW p \in Processes, WriteLock(p) PROVE (TypeOK /\ Begun)'
    BY <1>12, FilledFile DEF WriteLock
  <1>13. ASSUME NEW p \in Processes, WriteFails(p) PROVE (TypeOK /\ Begun)'
    BY <1>13 DEF WriteFails
  <1>14. ASSUME NEW p \in Processes, DropGuard(p) PROVE (TypeOK /\ Begun)'
    BY <1>14 DEF DropGuard
  <1>15. ASSUME NEW p \in Processes, UnlinkOwnGuard(p) PROVE (TypeOK /\ Begun)'
    <2>1. pc' \in [Processes -> Points]
      BY <1>15 DEF UnlinkOwnGuard
    <2>2. got' \in [Processes -> BOOLEAN]
      BY <1>15 DEF UnlinkOwnGuard
    <2>3. Begun'
      BY <1>15 DEF UnlinkOwnGuard
    <2> QED
      BY <1>15, <2>1, <2>2, <2>3 DEF UnlinkOwnGuard
  <1>16. ASSUME NEW p \in Processes, Beat(p) PROVE (TypeOK /\ Begun)'
    BY <1>16 DEF Beat
  <1>17. ASSUME NEW p \in Processes, BeatOpen(p) PROVE (TypeOK /\ Begun)'
    BY <1>17, CreatedFile DEF BeatOpen
  <1>18. ASSUME NEW p \in Processes, BeatWrite(p) PROVE (TypeOK /\ Begun)'
    BY <1>18, CreatedFile, FilledFile DEF BeatWrite
  <1>19. ASSUME NEW p \in Processes, Release(p) PROVE (TypeOK /\ Begun)'
    BY <1>19 DEF Release
  <1>20. ASSUME NEW p \in Processes, CheckRelease(p) PROVE (TypeOK /\ Begun)'
    BY <1>20 DEF CheckRelease
  <1>21. ASSUME NEW p \in Processes, UnlinkReleased(p) PROVE (TypeOK /\ Begun)'
    BY <1>21 DEF UnlinkReleased
  <1>22. ASSUME NEW p \in Processes, Die(p) PROVE (TypeOK /\ Begun)'
    BY <1>22 DEF Die
  <1>23. CASE Age
    BY <1>23 DEF Age, File
  <1>24. CASE UNCHANGED vars
    BY <1>24 DEF vars
  <1> QED
    BY <1>1, <1>2, <1>3, <1>4, <1>5, <1>6, <1>7, <1>8, <1>9, <1>10, <1>11,
       <1>12, <1>13, <1>14, <1>15, <1>16, <1>17, <1>18, <1>19, <1>20, <1>21,
       <1>22, <1>23, <1>24
       DEF Next, Step

\* A new acquisition starts from idle, where nothing on disk is the process's.
LEMMA AcquireStep ==
    ASSUME AllSignalable, IInv, TypeOK', Begun', NEW p \in Processes, Acquire(p)
    PROVE  IInv'
  <1>0. DeathsSafe'
    BY DEF IInv, DeathsSafe, Acquire
  <1>1. LockOwned'
    BY DEF IInv, Acquire, TypeOK, LockOwned, LockInside
  <1>2. LockInside' /\ LockWritten'
    BY DEF IInv, Acquire, TypeOK, LockInside, LockWritten
  <1>3. GuardKept' /\ GuardWritten'
    BY DEF IInv, Acquire, TypeOK, GuardKept, GuardWritten
  <1>4. GuardExcludes'
    BY DEF IInv, Acquire, TypeOK, GuardExcludes
  <1>5. TakeoverOfDead' /\ NotYet'
    BY DEF IInv, Acquire, TypeOK, TakeoverOfDead, NotYet
  <1> QED
    BY <1>0, <1>1, <1>2, <1>3, <1>4, <1>5 DEF IInv

\* The exclusive open: a guard appears only where there was none.
LEMMA CreateGuardStep ==
    ASSUME AllSignalable, IInv, TypeOK', Begun', NEW p \in Processes, CreateGuard(p)
    PROVE  IInv'
  <1>0. DeathsSafe'
    BY DEF IInv, DeathsSafe, CreateGuard
  <1>1. LockOwned'
    BY DEF IInv, CreateGuard, TypeOK, LockOwned
  <1>2. LockInside' /\ LockWritten'
    BY DEF IInv, CreateGuard, TypeOK, LockInside, LockWritten
  <1>3. GuardKept' /\ GuardWritten'
    BY DEF IInv, CreateGuard, TypeOK, GuardKept, GuardWritten
  <1>4. GuardExcludes'
    BY CreatedFile DEF IInv, CreateGuard, TypeOK, GuardExcludes
  <1>5. TakeoverOfDead' /\ NotYet'
    BY CreatedFile
       DEF IInv, CreateGuard, TypeOK, Begun, LockOwned, LockInside, LockWritten,
           GuardExcludes, TakeoverOfDead, NotYet
  <1> QED
    BY <1>0, <1>1, <1>2, <1>3, <1>4, <1>5 DEF IInv

\* The content goes into the process's own guard, or nowhere if the path names
\* another one by now.
LEMMA WriteGuardStep ==
    ASSUME AllSignalable, IInv, TypeOK', Begun', NEW p \in Processes, WriteGuard(p)
    PROVE  IInv'
  <1>0. DeathsSafe'
    BY DEF IInv, DeathsSafe, WriteGuard
  <1>11. Created(p) \in File /\ Created(p)' = Created(p) /\ Created(p).id = Id(p)
    BY CreatedFile DEF IInv, TypeOK, WriteGuard
  <1>12. /\ (guard # Created(p) => guard' = guard)
         /\ (guard = Created(p) => guard' # NoFile /\ guard'.id = guard.id /\ guard'.full)
    BY <1>11, FilledFile DEF IInv, TypeOK, WriteGuard
  <1>1. LockOwned'
    BY DEF IInv, WriteGuard, TypeOK, LockOwned
  <1>2. LockInside' /\ LockWritten'
    BY DEF IInv, WriteGuard, TypeOK, LockInside, LockWritten
  <1>3. GuardKept' /\ GuardWritten'
    <2>1. GuardKept'
      BY DEF IInv, WriteGuard, TypeOK, GuardKept
    <2>2. GuardWritten'
      <3> HIDE DEF Created, Filled, File
      <3> SUFFICES ASSUME NEW q \in Processes, HasGuard(q)', guard' # NoFile, guard'.id = Id(q)
                   PROVE  IF pc'[q] = "guardWrite" THEN guard' = Created(q)' ELSE guard'.full
        BY DEF GuardWritten, WriteGuard
      <3>1. CASE q = p
        <4>1. guard # NoFile /\ guard.id = Id(p) => guard = Created(p)
          BY DEF IInv, GuardWritten, WriteGuard
        <4> QED
          BY <1>11, <1>12, <3>1, <4>1 DEF IInv, WriteGuard, TypeOK
      <3>2. CASE q # p
        <4>1. guard' = guard /\ pc'[q] = pc[q]
          BY <1>11, <1>12, <3>2 DEF IInv, WriteGuard, TypeOK, Id
        <4>2. Created(q)' = Created(q)
          BY DEF WriteGuard, Created
        <4> QED
          BY <3>2, <4>1, <4>2 DEF IInv, GuardWritten
      <3> QED
        BY <3>1, <3>2
    <2> QED
      BY <2>1, <2>2
  <1>4. GuardExcludes'
    <2> HIDE DEF Created, Filled, File
    <2> QED
      BY <1>12 DEF IInv, WriteGuard, TypeOK, GuardExcludes
  <1>5. TakeoverOfDead' /\ NotYet'
    BY DEF IInv, WriteGuard, TypeOK, TakeoverOfDead, NotYet
  <1> QED
    BY <1>0, <1>1, <1>2, <1>3, <1>4, <1>5 DEF IInv

\* A guard is a zombie's only if its owner is dead: this is where processes that
\* cannot signal each other would break it.
LEMMA ReadGuardStep ==
    ASSUME AllSignalable, IInv, TypeOK', Begun', NEW p \in Processes, ReadGuard(p)
    PROVE  IInv'
  <1>0. DeathsSafe'
    BY DEF IInv, DeathsSafe, ReadGuard
  <1>1. LockOwned'
    BY DEF IInv, ReadGuard, TypeOK, LockOwned
  <1>2. LockInside' /\ LockWritten'
    BY SMTT(30) DEF IInv, ReadGuard, TypeOK, LockOwned, LockInside, LockWritten,
           GuardKept
  <1>3. GuardKept' /\ GuardWritten'
    BY DEF IInv, ReadGuard, TypeOK, GuardKept, GuardWritten
  <1>4. GuardExcludes'
    BY DEF IInv, ReadGuard, TypeOK, GuardKept, GuardExcludes, AllSignalable
  <1>5. TakeoverOfDead' /\ NotYet'
    BY DEF IInv, ReadGuard, TypeOK, LockOwned, GuardKept, TakeoverOfDead, NotYet
  <1> QED
    BY <1>0, <1>1, <1>2, <1>3, <1>4, <1>5 DEF IInv

\* The second read of deleteOwned.
LEMMA CheckGuardStep ==
    ASSUME AllSignalable, IInv, TypeOK', Begun', NEW p \in Processes, CheckGuard(p)
    PROVE  IInv'
  <1>0. DeathsSafe'
    BY DEF IInv, DeathsSafe, CheckGuard
  <1>1. LockOwned'
    BY DEF IInv, CheckGuard, TypeOK, LockOwned
  <1>2. LockInside' /\ LockWritten'
    BY SMTT(30) DEF IInv, CheckGuard, TypeOK, LockInside, LockWritten
  <1>3. GuardKept' /\ GuardWritten'
    BY DEF IInv, CheckGuard, TypeOK, GuardKept, GuardWritten
  <1>4. GuardExcludes'
    BY DEF IInv, CheckGuard, TypeOK, GuardExcludes
  <1>5. TakeoverOfDead' /\ NotYet'
    BY SMTT(30) DEF IInv, CheckGuard, TypeOK, TakeoverOfDead, NotYet
  <1> QED
    BY <1>0, <1>1, <1>2, <1>3, <1>4, <1>5 DEF IInv

\* A takeover of a guard removes whatever is at the path; it happens only when
\* processes die before the lock file is theirs, so no lock can be lost.
LEMMA UnlinkGuardStep ==
    ASSUME AllSignalable, IInv, TypeOK', Begun', NEW p \in Processes, UnlinkGuard(p)
    PROVE  IInv'
  <1>0. DeathsSafe'
    BY DEF IInv, DeathsSafe, UnlinkGuard
  <1>1. LockOwned'
    BY DEF IInv, UnlinkGuard, TypeOK, LockOwned
  <1>2. LockInside' /\ LockWritten'
    BY SMTT(30) DEF IInv, UnlinkGuard, TypeOK, LockInside, LockWritten
  <1>3. GuardKept' /\ GuardWritten'
    BY DEF IInv, UnlinkGuard, TypeOK, GuardKept, GuardWritten
  <1>4. GuardExcludes'
    BY DEF IInv, UnlinkGuard, TypeOK, GuardExcludes
  <1>5. TakeoverOfDead' /\ NotYet'
    BY SMTT(30) DEF IInv, UnlinkGuard, TypeOK, LockOwned, GuardKept, TakeoverOfDead,
           NotYet
  <1> QED
    BY <1>0, <1>1, <1>2, <1>3, <1>4, <1>5 DEF IInv

\* Only a dead owner's lock is taken over.
LEMMA ReadLockStep ==
    ASSUME AllSignalable, IInv, TypeOK', Begun', NEW p \in Processes, ReadLock(p)
    PROVE  IInv'
  <1>0. DeathsSafe'
    BY DEF IInv, DeathsSafe, ReadLock
  <1>1. LockOwned'
    BY DEF IInv, ReadLock, TypeOK, LockOwned, GuardKept, GuardExcludes, NotYet
  <1>2. LockInside' /\ LockWritten'
    BY DEF IInv, ReadLock, TypeOK, LockInside, LockWritten
  <1>3. GuardKept' /\ GuardWritten'
    BY DEF IInv, ReadLock, TypeOK, GuardKept, GuardWritten
  <1>4. GuardExcludes'
    BY DEF IInv, ReadLock, TypeOK, GuardExcludes
  <1>5. TakeoverOfDead' /\ NotYet'
    <2>1. TakeoverOfDead'
      BY DEF IInv, ReadLock, TypeOK, LockOwned, LockInside, LockWritten,
             TakeoverOfDead, AllSignalable
    <2>2. NotYet'
      BY DEF IInv, ReadLock, TypeOK, NotYet
    <2> QED
      BY <2>1, <2>2
  <1> QED
    BY <1>0, <1>1, <1>2, <1>3, <1>4, <1>5 DEF IInv

\* The existence check before the creation.
LEMMA LockExistsStep ==
    ASSUME AllSignalable, IInv, TypeOK', Begun', NEW p \in Processes, LockExists(p)
    PROVE  IInv'
  <1>0. DeathsSafe'
    BY DEF IInv, DeathsSafe, LockExists
  <1>1. LockOwned'
    BY DEF IInv, LockExists, TypeOK, LockOwned, GuardKept, GuardExcludes, NotYet
  <1>2. LockInside' /\ LockWritten'
    BY DEF IInv, LockExists, TypeOK, LockOwned, LockInside, LockWritten,
           GuardKept, GuardExcludes, NotYet
  <1>3. GuardKept' /\ GuardWritten'
    BY DEF IInv, LockExists, TypeOK, GuardKept, GuardWritten
  <1>4. GuardExcludes'
    BY DEF IInv, LockExists, TypeOK, GuardExcludes
  <1>5. TakeoverOfDead' /\ NotYet'
    BY SMTT(30) DEF IInv, LockExists, TypeOK, TakeoverOfDead, NotYet
  <1> QED
    BY <1>0, <1>1, <1>2, <1>3, <1>4, <1>5 DEF IInv

\* The lock a process is about to remove is still the dead owner's.
LEMMA CheckLockStep ==
    ASSUME AllSignalable, IInv, TypeOK', Begun', NEW p \in Processes, CheckLock(p)
    PROVE  IInv'
  <1>0. DeathsSafe'
    BY DEF IInv, DeathsSafe, CheckLock
  <1>1. LockOwned'
    BY DEF IInv, CheckLock, TypeOK, LockOwned
  <1>2. LockInside' /\ LockWritten'
    BY DEF IInv, CheckLock, TypeOK, LockInside, LockWritten
  <1>3. GuardKept' /\ GuardWritten'
    BY DEF IInv, CheckLock, TypeOK, GuardKept, GuardWritten
  <1>4. GuardExcludes'
    BY DEF IInv, CheckLock, TypeOK, GuardExcludes
  <1>5. TakeoverOfDead' /\ NotYet'
    BY DEF IInv, CheckLock, TypeOK, TakeoverOfDead, NotYet
  <1> QED
    BY <1>0, <1>1, <1>2, <1>3, <1>4, <1>5 DEF IInv

\* Removing a dead owner's lock takes nobody's lock away.
LEMMA UnlinkLockStep ==
    ASSUME AllSignalable, IInv, TypeOK', Begun', NEW p \in Processes, UnlinkLock(p)
    PROVE  IInv'
  <1>0. DeathsSafe'
    BY DEF IInv, DeathsSafe, UnlinkLock
  <1>1. LockOwned'
    BY DEF IInv, UnlinkLock, TypeOK, LockOwned, TakeoverOfDead, NotYet
  <1>2. LockInside' /\ LockWritten'
    BY DEF IInv, UnlinkLock, TypeOK, LockOwned, LockInside, LockWritten,
           TakeoverOfDead, NotYet
  <1>3. GuardKept' /\ GuardWritten'
    BY DEF IInv, UnlinkLock, TypeOK, GuardKept, GuardWritten
  <1>4. GuardExcludes'
    BY DEF IInv, UnlinkLock, TypeOK, GuardExcludes
  <1>5. TakeoverOfDead' /\ NotYet'
    BY SMTT(30) DEF IInv, UnlinkLock, TypeOK, TakeoverOfDead, NotYet
  <1> QED
    BY <1>0, <1>1, <1>2, <1>3, <1>4, <1>5 DEF IInv

\* The exclusive open: the lock becomes the process's own.
LEMMA CreateLockStep ==
    ASSUME AllSignalable, IInv, TypeOK', Begun', NEW p \in Processes, CreateLock(p)
    PROVE  IInv'
  <1>0. DeathsSafe'
    BY DEF IInv, DeathsSafe, CreateLock
  <1>1. LockOwned'
    BY CreatedFile DEF IInv, CreateLock, TypeOK, Begun, LockOwned, NotYet
  <1>2. LockInside' /\ LockWritten'
    BY DEF IInv, CreateLock, TypeOK, LockOwned, LockInside, LockWritten,
           GuardKept, GuardExcludes, NotYet
  <1>3. GuardKept' /\ GuardWritten'
    BY DEF IInv, CreateLock, TypeOK, GuardKept, GuardWritten
  <1>4. GuardExcludes'
    BY DEF IInv, CreateLock, TypeOK, GuardExcludes
  <1>5. TakeoverOfDead' /\ NotYet'
    BY DEF IInv, CreateLock, TypeOK, LockOwned, GuardKept, GuardExcludes,
           TakeoverOfDead, NotYet
  <1> QED
    BY <1>0, <1>1, <1>2, <1>3, <1>4, <1>5 DEF IInv

\* The handle is promised once the content is written.
LEMMA WriteLockStep ==
    ASSUME AllSignalable, IInv, TypeOK', Begun', NEW p \in Processes, WriteLock(p)
    PROVE  IInv'
  <1>0. DeathsSafe'
    BY DEF IInv, DeathsSafe, WriteLock
  <1>1. LockOwned'
    BY CreatedFile, FilledFile
       DEF IInv, WriteLock, TypeOK, Begun, LockOwned, LockInside, GuardKept
  <1>2. LockInside' /\ LockWritten'
    BY DEF IInv, WriteLock, TypeOK, LockInside, LockWritten
  <1>3. GuardKept' /\ GuardWritten'
    BY DEF IInv, WriteLock, TypeOK, GuardKept, GuardWritten
  <1>4. GuardExcludes'
    BY DEF IInv, WriteLock, TypeOK, GuardExcludes
  <1>5. TakeoverOfDead' /\ NotYet'
    BY DEF IInv, WriteLock, TypeOK, LockOwned, GuardKept, TakeoverOfDead, NotYet
  <1> QED
    BY <1>0, <1>1, <1>2, <1>3, <1>4, <1>5 DEF IInv

\* A failed write removes the file the process created itself.
LEMMA WriteFailsStep ==
    ASSUME AllSignalable, IInv, TypeOK', Begun', NEW p \in Processes, WriteFails(p)
    PROVE  IInv'
  <1>0. DeathsSafe'
    BY DEF IInv, DeathsSafe, WriteFails
  <1>1. LockOwned'
    BY DEF IInv, WriteFails, TypeOK, LockOwned, GuardKept, GuardExcludes, NotYet
  <1>2. LockInside' /\ LockWritten'
    BY DEF IInv, WriteFails, TypeOK, LockOwned, LockInside, LockWritten,
           GuardKept, GuardExcludes, NotYet
  <1>3. GuardKept' /\ GuardWritten'
    BY DEF IInv, WriteFails, TypeOK, GuardKept, GuardWritten
  <1>4. GuardExcludes'
    BY DEF IInv, WriteFails, TypeOK, GuardExcludes
  <1>5. TakeoverOfDead' /\ NotYet'
    BY DEF IInv, WriteFails, TypeOK, TakeoverOfDead, NotYet
  <1> QED
    BY <1>0, <1>1, <1>2, <1>3, <1>4, <1>5 DEF IInv

\* On the way out the guard is read before it is removed.
LEMMA DropGuardStep ==
    ASSUME AllSignalable, IInv, TypeOK', Begun', NEW p \in Processes, DropGuard(p)
    PROVE  IInv'
  <1>0. DeathsSafe'
    BY DEF IInv, DeathsSafe, DropGuard
  <1>1. LockOwned'
    BY DEF IInv, DropGuard, TypeOK, LockOwned
  <1>2. LockInside' /\ LockWritten'
    BY DEF IInv, DropGuard, TypeOK, LockInside, LockWritten
  <1>3. GuardKept' /\ GuardWritten'
    BY DEF IInv, DropGuard, TypeOK, GuardKept, GuardWritten
  <1>4. GuardExcludes'
    BY DEF IInv, DropGuard, TypeOK, GuardExcludes
  <1>5. TakeoverOfDead' /\ NotYet'
    <2>1. TakeoverOfDead'
      BY DEF IInv, DropGuard, TypeOK, TakeoverOfDead
    <2>2. NotYet'
      BY DEF IInv, DropGuard, TypeOK, NotYet
    <2> QED
      BY <2>1, <2>2
  <1> QED
    BY <1>0, <1>1, <1>2, <1>3, <1>4, <1>5 DEF IInv

\* The guard that is removed is the process's own.
LEMMA UnlinkOwnGuardStep ==
    ASSUME AllSignalable, IInv, TypeOK', Begun', NEW p \in Processes, UnlinkOwnGuard(p)
    PROVE  IInv'
  <1>0. DeathsSafe'
    BY DEF IInv, DeathsSafe, UnlinkOwnGuard
  <1>1. LockOwned'
    BY DEF IInv, UnlinkOwnGuard, TypeOK, LockOwned
  <1>2. LockInside' /\ LockWritten'
    BY SMTT(30) DEF IInv, UnlinkOwnGuard, TypeOK, LockInside, LockWritten
  <1>3. GuardKept' /\ GuardWritten'
    BY DEF IInv, UnlinkOwnGuard, TypeOK, GuardKept, GuardWritten
  <1>4. GuardExcludes'
    BY DEF IInv, UnlinkOwnGuard, TypeOK, GuardExcludes
  <1>5. TakeoverOfDead' /\ NotYet'
    BY SMTT(30) DEF IInv, UnlinkOwnGuard, TypeOK, TakeoverOfDead, NotYet
  <1> QED
    BY <1>0, <1>1, <1>2, <1>3, <1>4, <1>5 DEF IInv

\* The heartbeat reads before it writes.
LEMMA BeatStep ==
    ASSUME AllSignalable, IInv, TypeOK', Begun', NEW p \in Processes, Beat(p)
    PROVE  IInv'
  <1>0. DeathsSafe'
    BY DEF IInv, DeathsSafe, Beat
  <1>1. LockOwned'
    BY DEF IInv, Beat, TypeOK, LockOwned
  <1>2. LockInside' /\ LockWritten'
    BY DEF IInv, Beat, TypeOK, LockInside, LockWritten
  <1>3. GuardKept' /\ GuardWritten'
    BY DEF IInv, Beat, TypeOK, GuardKept, GuardWritten
  <1>4. GuardExcludes'
    BY DEF IInv, Beat, TypeOK, GuardExcludes
  <1>5. TakeoverOfDead' /\ NotYet'
    BY DEF IInv, Beat, TypeOK, TakeoverOfDead, NotYet
  <1> QED
    BY <1>0, <1>1, <1>2, <1>3, <1>4, <1>5 DEF IInv

\* The heartbeat truncates the file at the path: it is the holder's own.
LEMMA BeatOpenStep ==
    ASSUME AllSignalable, IInv, TypeOK', Begun', NEW p \in Processes, BeatOpen(p)
    PROVE  IInv'
  <1>0. DeathsSafe'
    BY DEF IInv, DeathsSafe, BeatOpen
  <1>1. LockOwned'
    BY CreatedFile DEF IInv, BeatOpen, TypeOK, LockOwned
  <1>2. LockInside' /\ LockWritten'
    <2>1. LockInside'
      BY DEF IInv, BeatOpen, TypeOK, LockInside
    <2>2. LockWritten'
      <3> SUFFICES ASSUME NEW q \in Processes, HasLock(q)'
                   PROVE  IF pc'[q] \in {"lockWrite", "beatWrite"} THEN lock' = Created(q)' ELSE lock'.full
        BY DEF LockWritten
      <3>1. q = p
        BY DEF IInv, TypeOK, BeatOpen, LockOwned
      <3> QED
        BY <3>1 DEF IInv, TypeOK, BeatOpen
    <2> QED
      BY <2>1, <2>2
  <1>3. GuardKept' /\ GuardWritten'
    BY DEF IInv, BeatOpen, TypeOK, GuardKept, GuardWritten
  <1>4. GuardExcludes'
    BY DEF IInv, BeatOpen, TypeOK, GuardExcludes
  <1>5. TakeoverOfDead' /\ NotYet'
    BY DEF IInv, BeatOpen, TypeOK, LockOwned, GuardKept, TakeoverOfDead, NotYet
  <1> QED
    BY <1>0, <1>1, <1>2, <1>3, <1>4, <1>5 DEF IInv

\* The heartbeat completes the file it truncated.
LEMMA BeatWriteStep ==
    ASSUME AllSignalable, IInv, TypeOK', Begun', NEW p \in Processes, BeatWrite(p)
    PROVE  IInv'
  <1>0. DeathsSafe'
    BY DEF IInv, DeathsSafe, BeatWrite
  <1>1. LockOwned'
    BY CreatedFile, FilledFile DEF IInv, BeatWrite, TypeOK, LockOwned
  <1>2. LockInside' /\ LockWritten'
    BY DEF IInv, BeatWrite, TypeOK, LockInside, LockWritten
  <1>3. GuardKept' /\ GuardWritten'
    BY DEF IInv, BeatWrite, TypeOK, GuardKept, GuardWritten
  <1>4. GuardExcludes'
    BY DEF IInv, BeatWrite, TypeOK, GuardExcludes
  <1>5. TakeoverOfDead' /\ NotYet'
    BY DEF IInv, BeatWrite, TypeOK, LockOwned, GuardKept, TakeoverOfDead, NotYet
  <1> QED
    BY <1>0, <1>1, <1>2, <1>3, <1>4, <1>5 DEF IInv

\* Release: the first read.
LEMMA ReleaseStep ==
    ASSUME AllSignalable, IInv, TypeOK', Begun', NEW p \in Processes, Release(p)
    PROVE  IInv'
  <1>0. DeathsSafe'
    BY DEF IInv, DeathsSafe, Release
  <1>1. LockOwned'
    BY DEF IInv, Release, TypeOK, LockOwned
  <1>2. LockInside' /\ LockWritten'
    BY DEF IInv, Release, TypeOK, LockInside, LockWritten
  <1>3. GuardKept' /\ GuardWritten'
    BY DEF IInv, Release, TypeOK, GuardKept, GuardWritten
  <1>4. GuardExcludes'
    BY DEF IInv, Release, TypeOK, GuardExcludes
  <1>5. TakeoverOfDead' /\ NotYet'
    BY DEF IInv, Release, TypeOK, TakeoverOfDead, NotYet
  <1> QED
    BY <1>0, <1>1, <1>2, <1>3, <1>4, <1>5 DEF IInv

\* Release: the second read.
LEMMA CheckReleaseStep ==
    ASSUME AllSignalable, IInv, TypeOK', Begun', NEW p \in Processes, CheckRelease(p)
    PROVE  IInv'
  <1>0. DeathsSafe'
    BY DEF IInv, DeathsSafe, CheckRelease
  <1>1. LockOwned'
    BY DEF IInv, CheckRelease, TypeOK, LockOwned
  <1>2. LockInside' /\ LockWritten'
    BY DEF IInv, CheckRelease, TypeOK, LockInside, LockWritten
  <1>3. GuardKept' /\ GuardWritten'
    BY DEF IInv, CheckRelease, TypeOK, GuardKept, GuardWritten
  <1>4. GuardExcludes'
    BY DEF IInv, CheckRelease, TypeOK, GuardExcludes
  <1>5. TakeoverOfDead' /\ NotYet'
    BY DEF IInv, CheckRelease, TypeOK, TakeoverOfDead, NotYet
  <1> QED
    BY <1>0, <1>1, <1>2, <1>3, <1>4, <1>5 DEF IInv

\* Release removes the releaser's own lock.
LEMMA UnlinkReleasedStep ==
    ASSUME AllSignalable, IInv, TypeOK', Begun', NEW p \in Processes, UnlinkReleased(p)
    PROVE  IInv'
  <1>0. DeathsSafe'
    BY DEF IInv, DeathsSafe, UnlinkReleased
  <1>1. LockOwned'
    BY DEF IInv, UnlinkReleased, TypeOK, LockOwned
  <1>2. LockInside' /\ LockWritten'
    BY DEF IInv, UnlinkReleased, TypeOK, LockOwned, LockInside, LockWritten,
           GuardKept
  <1>3. GuardKept' /\ GuardWritten'
    BY DEF IInv, UnlinkReleased, TypeOK, GuardKept, GuardWritten
  <1>4. GuardExcludes'
    BY DEF IInv, UnlinkReleased, TypeOK, GuardExcludes
  <1>5. TakeoverOfDead' /\ NotYet'
    BY DEF IInv, UnlinkReleased, TypeOK, TakeoverOfDead, NotYet
  <1> QED
    BY <1>0, <1>1, <1>2, <1>3, <1>4, <1>5 DEF IInv

\* A process dies where the behaviour lets it: what it leaves is accounted for.
LEMMA DieStep ==
    ASSUME AllSignalable, IInv, TypeOK', Begun', NEW p \in Processes, Die(p)
    PROVE  IInv'
  <1>0. DeathsSafe'
    BY DEF IInv, DeathsSafe, Die
  <1>1. LockOwned'
    BY DEF IInv, Die, TypeOK, LockOwned
  <1>2. LockInside' /\ LockWritten'
    BY DEF IInv, Die, TypeOK, LockOwned, LockInside, LockWritten, DeathsSafe
  <1>3. GuardKept' /\ GuardWritten'
    BY DEF IInv, Die, TypeOK, GuardKept, GuardWritten
  <1>4. GuardExcludes'
    BY DEF IInv, Die, TypeOK, GuardExcludes
  <1>5. TakeoverOfDead' /\ NotYet'
    BY DEF IInv, Die, TypeOK, TakeoverOfDead, NotYet
  <1> QED
    BY <1>0, <1>1, <1>2, <1>3, <1>4, <1>5 DEF IInv

\* Time passes: age changes neither the owner of a file nor its content.
LEMMA AgeStep == ASSUME AllSignalable, IInv, TypeOK', Begun', Age PROVE IInv'
  <1>11. /\ lock' = NoFile <=> lock = NoFile
         /\ (lock # NoFile => lock'.id = lock.id /\ lock'.full = lock.full)
         /\ (lock # NoFile /\ ~lock.full => lock' = lock)
    <2>1. CASE lock' = lock
      BY <2>1
    <2>2. CASE lock' # lock
      <3>1. lock \in File /\ lock.full /\ lock' = [lock EXCEPT !.old = TRUE]
        BY <2>2 DEF IInv, TypeOK, Age
      <3>2. lock' = [id |-> lock.id, full |-> TRUE, old |-> TRUE] /\ lock' \in File
        BY <3>1
      <3> QED
        BY <3>1, <3>2
    <2> QED
      BY <2>1, <2>2
  <1>12. /\ guard' = NoFile <=> guard = NoFile
         /\ (guard # NoFile => guard'.id = guard.id /\ guard'.full = guard.full)
         /\ (guard # NoFile /\ ~guard.full => guard' = guard)
    <2>1. CASE guard' = guard
      BY <2>1
    <2>2. CASE guard' # guard
      <3>1. guard \in File /\ guard.full /\ guard' = [guard EXCEPT !.old = TRUE]
        BY <2>2 DEF IInv, TypeOK, Age
      <3>2. guard' = [id |-> guard.id, full |-> TRUE, old |-> TRUE] /\ guard' \in File
        BY <3>1
      <3> QED
        BY <3>1, <3>2
    <2> QED
      BY <2>1, <2>2
  <1>13. crashAt' = crashAt /\ pc' = pc /\ count' = count /\ seen' = seen /\ got' = got
    BY DEF Age
  <1>14. \A p \in Processes : Created(p)' = Created(p) /\ ~Created(p).full
    BY <1>13
  <1> HIDE DEF Created, File
  <1>0. DeathsSafe'
    BY <1>13 DEF IInv, DeathsSafe
  <1>1. LockOwned'
    BY <1>11, <1>13 DEF IInv, LockOwned
  <1>2. LockInside'
    BY <1>11, <1>13 DEF IInv, LockInside
  <1>3. LockWritten'
    <2> SUFFICES ASSUME NEW p \in Processes, HasLock(p)
                 PROVE  IF pc[p] \in {"lockWrite", "beatWrite"} THEN lock' = Created(p) ELSE lock'.full
      BY <1>13, <1>14 DEF LockWritten
    <2>1. lock # NoFile
      BY DEF IInv, LockOwned
    <2>2. IF pc[p] \in {"lockWrite", "beatWrite"} THEN lock = Created(p) ELSE lock.full
      BY DEF IInv, LockWritten
    <2> QED
      BY <1>11, <1>14, <2>1, <2>2
  <1>4. GuardKept'
    BY <1>12, <1>13 DEF IInv, GuardKept
  <1>5. GuardWritten'
    <2> SUFFICES ASSUME NEW p \in Processes, HasGuard(p), guard # NoFile, guard.id = Id(p)
                 PROVE  IF pc[p] = "guardWrite" THEN guard' = Created(p) ELSE guard'.full
      BY <1>12, <1>13, <1>14 DEF GuardWritten
    <2>1. IF pc[p] = "guardWrite" THEN guard = Created(p) ELSE guard.full
      BY DEF IInv, GuardWritten
    <2> QED
      BY <1>12, <1>14, <2>1
  <1>6. GuardExcludes'
    BY <1>12, <1>13 DEF IInv, GuardExcludes
  <1>7. (TakeoverOfDead /\ NotYet)'
    BY <1>11, <1>13 DEF IInv, TakeoverOfDead, NotYet
  <1> QED
    BY <1>0, <1>1, <1>2, <1>3, <1>4, <1>5, <1>6, <1>7 DEF IInv

\* At the start no file exists and nobody is at work.
LEMMA InvInit == SafeDeaths /\ Init => IInv
  <1> SUFFICES ASSUME SafeDeaths, Init PROVE IInv
    OBVIOUS
  <1>1. TypeOK /\ Begun /\ DeathsSafe
    BY DEF Init, TypeOK, Begun, DeathsSafe, SafeDeaths
  <1>2. LockOwned /\ LockInside /\ LockWritten
    BY DEF Init, LockOwned, LockInside, LockWritten
  <1>3. GuardKept /\ GuardWritten /\ GuardExcludes
    BY DEF Init, GuardKept, GuardWritten, GuardExcludes
  <1>4. TakeoverOfDead /\ NotYet
    BY DEF Init, TakeoverOfDead, NotYet
  <1> QED
    BY <1>1, <1>2, <1>3, <1>4 DEF IInv

\* The inductive step: every action keeps the invariant.
LEMMA InvStep == AllSignalable /\ IInv /\ [Next]_vars => IInv'
  <1> SUFFICES ASSUME AllSignalable, IInv, [Next]_vars PROVE IInv'
    OBVIOUS
  <1>1. (TypeOK /\ Begun)'
    BY TypeStep DEF IInv
  <1>2. ASSUME NEW p \in Processes, Step(p) \/ Die(p) PROVE IInv'
    BY <1>1, <1>2, AcquireStep, CreateGuardStep, WriteGuardStep, ReadGuardStep,
       CheckGuardStep,
       UnlinkGuardStep, ReadLockStep, LockExistsStep, CheckLockStep, UnlinkLockStep,
       CreateLockStep, WriteLockStep, WriteFailsStep, DropGuardStep, UnlinkOwnGuardStep,
       BeatStep, BeatOpenStep, BeatWriteStep, ReleaseStep, CheckReleaseStep,
       UnlinkReleasedStep, DieStep DEF Step
  <1>3. CASE Age
    BY <1>1, <1>3, AgeStep
  <1>4. CASE UNCHANGED vars
    BY <1>4
       DEF vars, IInv, TypeOK, Begun, DeathsSafe, LockOwned, LockInside,
           LockWritten, GuardKept, GuardWritten, GuardExcludes, TakeoverOfDead, NotYet
  <1> QED
    BY <1>2, <1>3, <1>4 DEF Next

\* The types hold, and no claim of the guard goes beyond its last attempt, with
\* no assumption on signals or deaths.
THEOREM TypeCorrect == Spec => []TypeOK
  <1>1. Init => TypeOK /\ Begun
    BY DEF Init, TypeOK, Begun
  <1> QED
    BY <1>1, TypeStep, PTL DEF Spec

\* At most one live process runs its governance write, whatever the order of the
\* file operations of any number of processes.
THEOREM LockExclusion == SafeDeaths /\ AllSignalable => (Spec => []MutualExclusion)
  <1> SUFFICES ASSUME SafeDeaths, AllSignalable PROVE Spec => []MutualExclusion
    OBVIOUS
  <1>i. Init => IInv
    BY InvInit
  <1>s. IInv /\ [Next]_vars => IInv'
    BY InvStep
  <1>1. IInv => MutualExclusion
    BY DEF IInv, LockOwned, MutualExclusion, Holders
  <1> QED
    BY <1>1, <1>i, <1>s, PTL DEF Spec

\* The lock at the path is the holder's and a guard is somebody's who still uses
\* it or is dead: acquire, heartbeat, release and zombie recovery never remove or
\* replace another holder's file.
THEOREM FilesAccounted == SafeDeaths /\ AllSignalable => (Spec => []FilesOwned)
  <1> SUFFICES ASSUME SafeDeaths, AllSignalable PROVE Spec => []FilesOwned
    OBVIOUS
  <1>i. Init => IInv
    BY InvInit
  <1>s. IInv /\ [Next]_vars => IInv'
    BY InvStep
  <1>1. IInv => FilesOwned
    <2>1. IInv => HolderOnDisk
      BY DEF IInv, LockOwned, HolderOnDisk, Holders
    <2>2. IInv => GuardInside
      BY DEF IInv, GuardKept, GuardInside
    <2> QED
      BY <2>1, <2>2 DEF IInv, FilesOwned
  <1> QED
    BY <1>1, <1>i, <1>s, PTL DEF Spec

-----------------------------------------------------------------------------
(* The commit hook.  What it hashed is what it listed, until it lists again, *)
(* and nothing is staged by it before its end.                               *)

Names(evidence) == {e[1] : e \in evidence}

ConfigTyped ==
    /\ config \in [{"disk", "before", "staged"} -> Nat]
    /\ at # "committed" => config.staged = 0
HashedIsListed ==
    /\ at = "sealing" => Names(hashes) \subseteq listed
    /\ at = "hashed" => Names(hashes) = listed

HookInv == ConfigTyped /\ HashedIsListed /\ CH!PassedIsSealed /\ CH!OnlyChangedArtifacts

LEMMA HookInvInit == CH!HookInit => HookInv
  BY DEF CH!HookInit, HookInv, ConfigTyped, HashedIsListed, CH!PassedIsSealed, CH!OnlyChangedArtifacts

LEMMA NamesWithOne == \A f : Names(hashes \cup CH!Of({f})) = Names(hashes) \cup {f}
  <1> SUFFICES ASSUME NEW f PROVE Names(hashes \cup CH!Of({f})) = Names(hashes) \cup {f}
    OBVIOUS
  <1>1. CH!Of({f}) = {<<f, index[f]>>}
    BY DEF CH!Of
  <1>2. Names({<<f, index[f]>>}) = {f}
    BY DEF Names
  <1>3. \A s, t : Names(s \cup t) = Names(s) \cup Names(t)
    BY DEF Names
  <1> QED
    BY <1>1, <1>2, <1>3

LEMMA HookInvStep == HookInv /\ [CH!HookNext]_hook => HookInv'
  <1> SUFFICES ASSUME HookInv, [CH!HookNext]_hook PROVE HookInv'
    OBVIOUS
  <1> USE DEF HookInv, ConfigTyped, HashedIsListed, Names, CH!PassedIsSealed, CH!OnlyChangedArtifacts
  <1>1. CASE CH!CommitBegins
    BY <1>1 DEF CH!CommitBegins
  <1>2. CASE CH!CannotStart
    BY <1>2 DEF CH!CannotStart
  <1>3. CASE CH!ListForCheck
    BY <1>3 DEF CH!ListForCheck
  <1>4. ASSUME NEW code \in 0..3, CH!Check(code) PROVE HookInv'
    BY <1>4 DEF CH!Check
  <1>5. CASE CH!ListForSeal
    BY <1>5 DEF CH!ListForSeal
  <1>6. CASE CH!HashStaged
    <2>1. PICK f \in listed \ CH!Hashed :
             IF index[f] = Gone THEN at' = "stopped" /\ UNCHANGED hashes
             ELSE /\ hashes' = hashes \cup CH!Of({f})
                  /\ at' = IF listed \subseteq CH!Hashed \cup {f} THEN "hashed" ELSE "sealing"
      BY <1>6 DEF CH!HashStaged
    <2>2. at = "sealing" /\ UNCHANGED <<listed, config>> /\ at' \in {"stopped", "hashed", "sealing"}
      BY <1>6, <2>1 DEF CH!HashStaged
    <2>3. Names(hashes) \subseteq listed /\ CH!Hashed = Names(hashes)
      BY <2>2 DEF CH!Hashed
    <2>4. HashedIsListed'
      <3>1. CASE index[f] = Gone
        BY <2>1, <3>1
      <3>2. CASE index[f] # Gone
        <4>1. Names(hashes') = Names(hashes) \cup {f}
          BY <2>1, <3>2, NamesWithOne
        <4> QED
          BY <2>1, <2>2, <2>3, <3>2, <4>1
      <3> QED
        BY <3>1, <3>2
    <2> QED
      BY <2>2, <2>4
  <1>7. CASE CH!Seal
    <2>1. hashes \subseteq history'
      BY <1>7 DEF CH!Seal, CH!Matching
    <2> QED
      BY <1>7, <2>1 DEF CH!Seal
  <1>8. CASE CH!Mismatch
    BY <1>8 DEF CH!Mismatch
  <1>9. CASE CH!Verify
    BY <1>9 DEF CH!Verify
  <1>10. CASE CH!LockBusy
    BY <1>10 DEF CH!LockBusy
  <1>11. CASE CH!StageArtifacts
    BY <1>11 DEF CH!StageArtifacts
  <1>12. CASE CH!Meanwhile
    BY <1>12 DEF CH!Meanwhile
  <1>13. CASE UNCHANGED hook
    BY <1>13 DEF hook
  <1> QED
    BY <1>1, <1>2, <1>3, <1>4, <1>5, <1>6, <1>7, <1>8, <1>9, <1>10, <1>11, <1>12, <1>13 DEF CH!HookNext

-----------------------------------------------------------------------------
(* The process of a test run: one that goes on after its answer was aborted. *)

Answers == {<<>>, <<TRUE>>, <<FALSE>>}

RunInv ==
    /\ proc \in [child : {"none", "running", "gone"}, aborting : BOOLEAN, answers : Answers]
    /\ TG!Settled /\ proc.aborting => proc.answers = <<FALSE>>
    /\ TG!Settled /\ proc.child = "running" => proc.aborting

LEMMA FirstAnswer ==
    ASSUME NEW p \in BOOLEAN PROVE Append(<<>>, p) \in Answers \ {<<>>} /\ Append(<<>>, FALSE) = <<FALSE>>
  <1>1. Append(<<>>, TRUE) = <<TRUE>> /\ Append(<<>>, FALSE) = <<FALSE>>
    OBVIOUS
  <1>2. <<TRUE>> # <<>> /\ <<FALSE>> # <<>>
    OBVIOUS
  <1> QED
    BY <1>1, <1>2 DEF Answers

LEMMA RunInvInit == TG!ProcessInit => RunInv
  <1> SUFFICES ASSUME TG!ProcessInit PROVE RunInv
    OBVIOUS
  <1>1. proc = [child |-> "none", aborting |-> FALSE, answers |-> <<>>]
    BY DEF TG!ProcessInit, TG!NewProcess
  <1>2. proc.answers = <<>> /\ proc.answers \in Answers
    BY <1>1 DEF Answers
  <1> QED
    BY <1>1, <1>2 DEF RunInv, TG!Settled

LEMMA RunInvStep == RunInv /\ [TG!ProcessNext]_proc => RunInv'
  <1> SUFFICES ASSUME RunInv, [TG!ProcessNext]_proc PROVE RunInv'
    OBVIOUS
  <1> USE DEF RunInv, TG!Settled
  <1>1. CASE TG!SpawnProcess
    <2>1. proc.answers = <<>>
      BY <1>1 DEF TG!SpawnProcess
    <2>2. CASE proc' = [child |-> "running", aborting |-> FALSE, answers |-> <<>>]
      BY <2>2 DEF Answers
    <2>3. CASE proc' = [proc EXCEPT !.child = "none", !.answers = Append(<<>>, FALSE)]
      BY <1>1, <2>3, FirstAnswer DEF TG!SpawnProcess
    <2> QED
      BY <1>1, <2>1, <2>2, <2>3 DEF TG!SpawnProcess, TG!NewProcess, TG!Answer
  <1>2. CASE TG!AbortProcess
    BY <1>2 DEF TG!AbortProcess
  <1>3. CASE TG!CloseProcess
    <2>1. CASE proc.aborting
      BY <1>3, <2>1 DEF TG!CloseProcess
    <2>2. CASE ~proc.aborting
      <3>1. proc.answers = <<>>
        BY <1>3, <2>2 DEF TG!CloseProcess
      <3>2. PICK code \in {0, 1} : proc' = [proc EXCEPT !.child = "gone", !.answers = Append(proc.answers, code = 0)]
        BY <1>3, <2>2 DEF TG!CloseProcess, TG!Answer
      <3>3. Append(proc.answers, code = 0) \in Answers
        BY <3>1, FirstAnswer
      <3> QED
        BY <2>2, <3>2, <3>3
    <2> QED
      BY <2>1, <2>2
  <1>4. CASE TG!TerminatedProcess
    <2>1. PICK after \in {proc.child, "gone"} : proc' = [proc EXCEPT !.child = after, !.answers = Append(<<>>, FALSE)]
      BY <1>4 DEF TG!TerminatedProcess, TG!Answer
    <2> QED
      BY <1>4, <2>1, FirstAnswer DEF TG!TerminatedProcess
  <1>5. CASE UNCHANGED proc
    BY <1>5
  <1> QED
    BY <1>1, <1>2, <1>3, <1>4, <1>5 DEF TG!ProcessNext

LEMMA AnswersCounted == RunInv => AnsweredOnce
  <1>1. Len(<<>>) <= 1 /\ Len(<<TRUE>>) <= 1 /\ Len(<<FALSE>>) <= 1
    OBVIOUS
  <1>2. \A s \in Answers : Len(s) <= 1
    BY <1>1, Zenon DEF Answers
  <1> QED
    BY <1>2 DEF RunInv, AnsweredOnce, TG!AnsweredOnce

-----------------------------------------------------------------------------
(* The output of a background scan.                                          *)

JobInv ==
    /\ lo \in Nat /\ hi \in Nat /\ cursor \in Nat /\ given \in Nat
    /\ lo + cursor <= hi /\ given <= hi
    /\ O!OutputOnce

LEMMA JobInvInit == O!OutputInit => JobInv
  BY DEF O!OutputInit, JobInv, O!OutputOnce

LEMMA JobInvStep == JobInv /\ [O!OutputNext]_job => JobInv'
  <1> SUFFICES ASSUME JobInv, [O!OutputNext]_job PROVE JobInv'
    OBVIOUS
  <1> USE DEF JobInv, O!OutputOnce
  <1>1. ASSUME NEW k \in 1..Output, O!PrintChars(k) PROVE JobInv'
    <2> DEFINE dropped == IF hi + k - lo > MaxChars THEN hi + k - lo - MaxChars ELSE 0
    <2>1. dropped \in Nat /\ lo + dropped <= hi + k
      BY MachinesAssumption DEF MachinesAssumption
    <2>2. /\ hi' = hi + k /\ lo' = lo + dropped /\ given' = given
          /\ cursor' = IF dropped = 0 THEN cursor ELSE IF cursor > dropped THEN cursor - dropped ELSE 0
      BY <1>1 DEF O!PrintChars, O!CursorAfter
    <2> HIDE DEF dropped
    <2> QED
      BY <2>1, <2>2
  <1>2. CASE O!ReadOutput
    BY <1>2 DEF O!ReadOutput
  <1>3. CASE O!Cancel \/ O!SpawnError \/ \E code \in 0..1 : O!Close(code)
    BY <1>3 DEF O!Cancel, O!SpawnError, O!Close
  <1>4. CASE UNCHANGED job
    BY <1>4 DEF job
  <1> QED
    BY <1>1, <1>2, <1>3, <1>4 DEF O!OutputNext

\* The first event that settles a job gives its outcome.
LEMMA SettledStep == [O!OutputNext]_job => (settled # "no" => settled' = settled)
  BY DEF O!OutputNext, O!PrintChars, O!ReadOutput, O!Cancel, O!SpawnError, O!Close, O!Settled, job

-----------------------------------------------------------------------------
(* The dashboard's cache.                                                    *)

\* What is served was collected, so that who is answered does not wait.
Collected == [v : 1..MaxVersion, old : BOOLEAN]
Cache == [state : Collected \cup {None}, inflight : B!Snapshot \cup {None}]

BoardInv ==
    /\ disk \in 1..MaxVersion /\ shown \in 0..MaxVersion
    /\ cache \in [B!Caches -> Cache]
    /\ reqs \in [Slots -> {None} \cup [v : {None} \cup 0..MaxVersion]]
    /\ \A s \in Slots : B!Waits(s) => cache["tools"].inflight # None

LEMMA BoardInvTyped == BoardInv => BoardTypeOK
  BY DEF BoardInv, BoardTypeOK, B!BoardTypeOK, Cache, Collected, B!Snapshot

LEMMA BoardInvInit == B!BoardInit => BoardInv
  BY MachinesAssumption
     DEF MachinesAssumption, B!BoardInit, BoardInv, Cache, B!Empty, B!Waits, B!Wait, B!Caches

\* What a request is told is an answer, and not one more to wait for.
LEMMA AnswersEnd ==
    ASSUME BoardInv, NEW c \in B!Caches, NEW v \in 0..MaxVersion
    PROVE  LET told == B!Answered(c, B!Answer(v))
           IN  /\ told \in [Slots -> {None} \cup [v : {None} \cup 0..MaxVersion]]
               /\ \A s \in Slots : told[s] = B!Wait => B!Waits(s) /\ c # "tools"
  <1>1. B!Answer(v) # B!Wait
    BY MachinesAssumption DEF MachinesAssumption, B!Answer, B!Wait
  <1> QED
    BY <1>1 DEF BoardInv, B!Answered, B!Answer, B!Waits

\* A collection that starts, and what it starts from, keep their type.
LEMMA StartedTyped ==
    ASSUME BoardInv, NEW c \in B!Caches
    PROVE  /\ B!Started(c) \in [B!Caches -> Cache] /\ B!Started(c)[c].inflight # None
           /\ \A d \in B!Caches : cache[d].inflight # None => B!Started(c)[d].inflight # None
           /\ B!Invalidated \in [B!Caches -> Cache]
           /\ \A d \in B!Caches : B!Invalidated[d].inflight = cache[d].inflight
  <1>1. [v |-> None, old |-> FALSE] \in B!Snapshot
    BY DEF B!Snapshot
  <1>2. [v |-> None, old |-> FALSE] # None
    BY <1>1, MachinesAssumption DEF MachinesAssumption
  <1> QED
    BY <1>1, <1>2 DEF BoardInv, Cache, B!Started, B!Invalidated, B!Caches

LEMMA BoardInvStep == BoardInv /\ [B!BoardNext]_board => BoardInv'
  <1> SUFFICES ASSUME BoardInv, [B!BoardNext]_board PROVE BoardInv'
    OBVIOUS
  <1> USE DEF BoardInv, B!Waits
  <1>0. "tools" \in B!Caches /\ "signals" \in B!Caches
    BY DEF B!Caches
  <1>1. ASSUME NEW c \in B!Caches, B!CollectRead(c) PROVE BoardInv'
    <2>1. cache[c].inflight \in B!Snapshot /\ disk \in 1..MaxVersion
      BY <1>1 DEF B!CollectRead, Cache
    <2>2. [cache[c].inflight EXCEPT !.v = disk] \in B!Snapshot
      BY <2>1 DEF B!Snapshot
    <2>3. [cache[c].inflight EXCEPT !.v = disk] # None
      BY <2>2, MachinesAssumption DEF MachinesAssumption
    <2> QED
      BY <1>0, <1>1, <2>2, <2>3 DEF B!CollectRead, Cache
  <1>2. ASSUME NEW c \in B!Caches, B!CollectDone(c) PROVE BoardInv'
    <2>1. cache[c].inflight \in Collected /\ cache[c].inflight.v \in 0..MaxVersion
      BY <1>2 DEF B!CollectDone, Cache, Collected, B!Snapshot
    <2>2. cache' = [cache EXCEPT ![c] = [state |-> cache[c].inflight, inflight |-> None]]
      BY <1>2 DEF B!CollectDone
    <2>3. cache' \in [B!Caches -> Cache]
      BY <2>1, <2>2 DEF Cache
    <2> QED
      BY <1>0, <1>2, <2>1, <2>2, <2>3, AnswersEnd DEF B!CollectDone
  <1>3. ASSUME NEW c \in B!Caches, B!CollectFails(c) PROVE BoardInv'
    <2>1. 0 \in 0..MaxVersion
      BY MachinesAssumption DEF MachinesAssumption
    <2>2. cache' \in [B!Caches -> Cache]
      BY <1>3 DEF B!CollectFails, B!AfterFailure, Cache
    <2> QED
      BY <1>0, <1>3, <2>1, <2>2, AnswersEnd DEF B!CollectFails, B!AfterFailure
  <1>4. ASSUME NEW c \in B!Caches, B!Age(c) PROVE BoardInv'
    <2>1. \A snap \in B!Snapshot : LET aged == [snap EXCEPT !.old = TRUE] IN aged \in B!Snapshot /\ aged # None
      BY MachinesAssumption DEF MachinesAssumption, B!Snapshot
    <2>2. \A snap \in Collected : [snap EXCEPT !.old = TRUE] \in Collected
      BY DEF Collected
    <2>3. CASE cache' = [cache EXCEPT ![c].state.old = TRUE] /\ cache[c].state # None
      BY <1>0, <1>4, <2>2, <2>3 DEF B!Age, Cache
    <2>4. CASE cache' = [cache EXCEPT ![c].inflight.old = TRUE] /\ cache[c].inflight # None
      BY <1>0, <1>4, <2>1, <2>4 DEF B!Age, Cache
    <2> QED
      BY <1>4, <2>3, <2>4 DEF B!Age
  <1>5. ASSUME NEW kind, B!StartTool(kind) PROVE BoardInv'
    BY <1>0, <1>5, StartedTyped DEF B!StartTool
  <1>6. CASE B!Write
    BY <1>6, MachinesAssumption DEF B!Write, MachinesAssumption
  <1>7. CASE B!EndTool
    BY <1>0, <1>7, StartedTyped DEF B!EndTool
  <1>8. CASE B!SignalsTimer
    BY <1>0, <1>8, StartedTyped DEF B!SignalsTimer
  <1>9. ASSUME NEW s \in Slots, B!Deliver(s) PROVE BoardInv'
    BY <1>9, MachinesAssumption DEF B!Deliver, B!Wait, MachinesAssumption
  <1>10. ASSUME NEW s \in Slots, NEW force \in BOOLEAN, B!Poll(s, force) PROVE BoardInv'
    <2>1. CASE ~force /\ B!Fresh("tools")
      <3>1. cache["tools"].state \in Collected
        BY <1>0, <2>1 DEF B!Fresh, Cache
      <3>2. /\ B!Answer(cache["tools"].state.v) \in [v : {None} \cup 0..MaxVersion]
            /\ B!Answer(cache["tools"].state.v) # B!Wait
        BY <3>1, MachinesAssumption DEF MachinesAssumption, B!Answer, B!Wait, Collected
      <3>3. /\ cache' = cache /\ UNCHANGED <<disk, shown>>
            /\ reqs' = [reqs EXCEPT ![s] = B!Answer(cache["tools"].state.v)]
        BY <1>10, <2>1 DEF B!Poll, B!Serve
      <3> QED
        BY <3>2, <3>3
    <2>2. CASE ~(~force /\ B!Fresh("tools"))
      <3>1. /\ reqs' = [reqs EXCEPT ![s] = B!Wait] /\ UNCHANGED <<disk, shown>>
            /\ cache' = [B!Started("tools") EXCEPT
                           !["tools"].state = (IF force THEN B!Invalidated ELSE cache)["tools"].state]
        BY <1>10, <2>2 DEF B!Poll, B!Serve
      <3>2. (IF force THEN B!Invalidated ELSE cache)["tools"].state \in Collected \cup {None}
        BY <1>0, StartedTyped DEF Cache
      <3>3. /\ B!Started("tools") \in [B!Caches -> Cache] /\ B!Started("tools")["tools"].inflight # None
        BY <1>0, StartedTyped
      <3>4. cache' \in [B!Caches -> Cache] /\ cache'["tools"].inflight # None
        <4> DEFINE held == (IF force THEN B!Invalidated ELSE cache)["tools"].state
        <4> HIDE DEF held
        <4> QED
          BY <1>0, <3>1, <3>2, <3>3 DEF Cache
      <3> QED
        BY <3>1, <3>4 DEF B!Wait
    <2> QED
      BY <2>1, <2>2
  <1>11. CASE UNCHANGED board
    BY <1>11 DEF board
  <1> QED
    BY <1>1, <1>2, <1>3, <1>4, <1>5, <1>6, <1>7, <1>8, <1>9, <1>10, <1>11 DEF B!BoardNext

-----------------------------------------------------------------------------
(* The machines side by side.                                                *)

LEMMA MachinesStep ==
    ASSUME [MachinesNext]_<<board, job, proc, hook>>
    PROVE  /\ [CH!HookNext]_hook /\ [TG!ProcessNext]_proc
           /\ [O!OutputNext]_job /\ [B!BoardNext]_board
  BY DEF MachinesNext, OnRunner, OnBoard, RunJob, RunHook

\* What passes the hook was hashed, and is sealed evidence of what was hashed
\* unless the lock was busy; and it commits no configuration that did not change
\* while it ran (stagedEvidenceForPaths, finalizeStagedEvidence,
\* stage_changed_governance_artifacts): whatever is staged, edited or checked
\* meanwhile.
THEOREM CommitsGuarded == MachinesSpec => []CommitGuarded
  <1>1. MachinesInit => HookInv
    BY HookInvInit DEF MachinesInit
  <1>2. HookInv /\ [MachinesNext]_<<board, job, proc, hook>> => HookInv'
    BY HookInvStep, MachinesStep
  <1>3. HookInv => CommitGuarded
    BY DEF HookInv, CommitGuarded
  <1> QED
    BY <1>1, <1>2, <1>3, PTL DEF MachinesSpec

\* Whoever waits for the governance facts waits for a collection, however
\* collections, failures, tools and polls overlap (openarch-state.mjs), and no
\* character of a scan's output is given twice (createTail).
THEOREM EditorIsSound == MachinesSpec => []EditorSound
  <1>1. MachinesInit => BoardInv /\ JobInv
    BY BoardInvInit, JobInvInit DEF MachinesInit
  <1>2. BoardInv /\ JobInv /\ [MachinesNext]_<<board, job, proc, hook>> => (BoardInv /\ JobInv)'
    BY BoardInvStep, JobInvStep, MachinesStep
  <1>3. BoardInv /\ JobInv => EditorSound
    BY BoardInvTyped DEF JobInv, EditorSound, OutputOnce
  <1> QED
    BY <1>1, <1>2, <1>3, PTL DEF MachinesSpec

\* The outcome of a background scan is the one of its first event: a late cancel,
\* error or close does not change it (makeScanJob).
THEOREM OutcomeFinal == MachinesSpec => SettledFinal
  <1>1. [MachinesNext]_<<board, job, proc, hook>> => [settled # "no" => settled' = settled]_(O!ovars)
    BY MachinesStep, SettledStep DEF O!ovars, job
  <1> QED
    BY <1>1, PTL DEF MachinesSpec, SettledFinal, O!SettledFinal

\* A test run is answered once, and never passes once it was aborted, although
\* its process may end before, during or after the termination
\* (runProjectProcess).
THEOREM RunsAnsweredOnce == MachinesSpec => []AnsweredOnce
  <1>1. MachinesInit => RunInv
    BY RunInvInit DEF MachinesInit
  <1>2. RunInv /\ [MachinesNext]_<<board, job, proc, hook>> => RunInv'
    BY RunInvStep, MachinesStep
  <1>3. RunInv => AnsweredOnce
    BY AnswersCounted
  <1> QED
    BY <1>1, <1>2, <1>3, PTL DEF MachinesSpec

-----------------------------------------------------------------------------
(* The policies of a check                                                   *)

\* Exit codes
LEMMA CombinedIsHighest ==
    ASSUME NEW codes \in SUBSET (0..3)
    PROVE  CH!Combined(codes) \in codes \cup {0} /\ \A c \in codes : CH!Combined(codes) >= c
  <1> DEFINE all == codes \cup {0}
  <1>1. \E x \in all : \A y \in all : x >= y
    <2>1. CASE 3 \in codes
      BY <2>1
    <2>2. CASE 3 \notin codes /\ 2 \in codes
      BY <2>2
    <2>3. CASE 3 \notin codes /\ 2 \notin codes /\ 1 \in codes
      BY <2>3
    <2>4. CASE codes \subseteq {0}
      BY <2>4
    <2> QED
      BY <2>1, <2>2, <2>3, <2>4
  <1>2. CH!Combined(codes) = CHOOSE x \in all : \A y \in all : x >= y
    BY DEF CH!Combined, CH!Max
  <1> QED
    BY <1>1, <1>2

\* Every file of a check is classified, by hand only where an analysis failed,
\* and every override is applied or reported (automaticSemanticProfiles).
THEOREM OverridesAreExact ==
    \A paths, batch, alone, overrides : CH!OverridesExact(paths, batch, alone, overrides)
  <1> TAKE paths, batch, alone, overrides
  <1> DEFINE manual == CH!Manual(paths, batch, alone, overrides)
             auto == paths \cap (batch \cup alone)
             p == CH!Profiles(paths, batch, alone, overrides)
  <1> SUFFICES ASSUME p # None
               PROVE  /\ p.auto \cup p.manual = paths /\ p.auto \cap p.manual = {}
                      /\ p.applied \cup p.ignored \cup {"all"} = p.manual \cup overrides \cup {"all"}
                      /\ p.manual \cap (batch \cup alone) = {}
    BY DEF CH!OverridesExact
  <1>1. paths \ (auto \cup manual) = {} /\ overrides \ (paths \cup {"all"}) = {}
    BY DEF CH!Profiles
  <1>2. p = [auto |-> auto, manual |-> manual, applied |-> manual, ignored |-> overrides \ (manual \cup {"all"})]
    BY DEF CH!Profiles
  <1>3. p.auto = auto /\ p.manual = manual /\ p.applied = manual /\ p.ignored = overrides \ (manual \cup {"all"})
    BY <1>2
  <1>4. manual \subseteq paths \ (batch \cup alone)
    BY DEF CH!Manual
  <1> HIDE DEF p, manual
  <1> QED
    BY <1>1, <1>3, <1>4

\* A check that passes passed every part of it, and no protected path is lost
\* behind another result (combinedExit, checkCommand).
THEOREM ChecksAreHonest ==
    ASSUME NEW impact \in 0..3, NEW gate \in 0..3, NEW audit \in 0..3, NEW policy, NEW paths
    PROVE  CH!CheckHonest(impact, gate, audit, policy, paths)
  <1> DEFINE p == CH!Protected(policy, paths)
  <1>1. p \in 0..3
    <2>1. CASE policy.errors
      BY <2>1 DEF CH!Protected
    <2>2. CASE ~policy.errors
      <3> DEFINE hit == {r \in policy.rules : \E q \in paths : q \in r.matches \ r.allow}
                 levels == {IF r.level = "block" THEN 2 ELSE 1 : r \in hit}
      <3>1. levels \in SUBSET (0..3)
        OBVIOUS
      <3>2. p = CH!Combined(levels)
        BY <2>2 DEF CH!Protected
      <3> HIDE DEF levels, p
      <3>3. CH!Combined(levels) \in levels \cup {0}
        BY <3>1, CombinedIsHighest
      <3>4. \A x \in levels \cup {0} : x \in 0..3
        BY <3>1
      <3> QED
        BY <3>2, <3>3, <3>4
    <2> QED
      BY <2>1, <2>2
  <1> HIDE DEF p
  <1>2. {impact, p} \in SUBSET (0..3) /\ {gate, audit, p} \in SUBSET (0..3)
    BY <1>1
  <1>3. /\ CH!Combined({impact, p}) >= impact /\ CH!Combined({impact, p}) >= p
        /\ CH!Combined({gate, audit, p}) >= gate /\ CH!Combined({gate, audit, p}) >= audit
        /\ CH!Combined({gate, audit, p}) >= p
        /\ CH!Combined({impact, p}) \in 0..3 /\ CH!Combined({gate, audit, p}) \in 0..3
    BY <1>1, <1>2, CombinedIsHighest
  <1> DEFINE e == CH!CheckExit(impact, gate, audit, p)
  <1>4. e = IF p = 3 THEN 3 ELSE IF impact # 0 THEN CH!Combined({impact, p}) ELSE CH!Combined({gate, audit, p})
    BY DEF CH!CheckExit
  <1>5. (e = 0 => impact = 0 /\ gate = 0 /\ audit = 0 /\ p = 0) /\ e >= p
    <2> HIDE DEF e
    <2> QED
      BY <1>1, <1>3, <1>4
  <1> QED
    BY <1>5 DEF CH!CheckHonest, p

\* PASS speaks for every rule that was selected: all of them ran, none failed and
\* none was triggered (evaluateAuthorityHygieneQuality).
THEOREM QualitySpeaksForAll ==
    ASSUME NEW S, NEW selected \in [S -> {"warn", "block"}], NEW ran, NEW failed, NEW hits
    PROVE  CH!QualitySpeaks(selected, ran, failed, hits)
  <1> DEFINE unavailable == (DOMAIN selected \ ran) \cup (failed \cap DOMAIN selected)
             triggered == {selected[s] : s \in hits \cap DOMAIN selected}
  <1> SUFFICES ASSUME CH!Quality(selected, ran, failed, hits) = "PASS"
               PROVE  DOMAIN selected \subseteq (ran \ failed) \ hits
    BY DEF CH!QualitySpeaks
  <1>1. triggered \subseteq {"warn", "block"}
    OBVIOUS
  <1>2. unavailable = {} /\ "block" \notin triggered /\ triggered # {"warn"}
    <2>1. CH!Quality(selected, ran, failed, hits) =
            CASE unavailable # {} \/ "block" \in triggered -> "BLOCK"
              [] unavailable = {} /\ triggered = {"warn"} -> "WARN"
              [] OTHER -> "PASS"
      BY DEF CH!Quality
    <2> HIDE DEF unavailable, triggered
    <2> QED
      BY <2>1
  <1>3. triggered = {}
    <2> HIDE DEF triggered
    <2> QED
      BY <1>1, <1>2
  <1> QED
    BY <1>2, <1>3

-----------------------------------------------------------------------------
(* What init leaves, and what is reported of it (ProjectSetup) *)

PS == INSTANCE ProjectSetup

\* Among at most one there are no two.
LEMMA AtMostOne ==
    ASSUME NEW S, IsFiniteSet(S), PS!Cardinality(S) <= 1, NEW x \in S, NEW y \in S
    PROVE  x = y
  <1>1. PS!Cardinality(S) = Cardinality(S)
    BY DEF PS!Cardinality, Cardinality
  <1> SUFFICES ASSUME x # y PROVE FALSE
    OBVIOUS
  <1>2. Cardinality(S) \in Nat /\ Cardinality(S \ {x}) = Cardinality(S) - 1 /\ IsFiniteSet(S \ {x})
    BY FS_RemoveElement, FS_CardinalityType
  <1>3. Cardinality(S \ {x}) \in Nat
    BY <1>2, FS_CardinalityType
  <1>4. Cardinality(S \ {x}) # 0
    <2>1. S \ {x} # {}
      OBVIOUS
    <2> HIDE DEF PS!Cardinality
    <2> QED
      BY <1>2, <2>1, FS_EmptySet
  <1> QED
    BY <1>1, <1>2, <1>3, <1>4

\* For every set of file operations that fail: if it is at most one of them,
\* the agent's skill is the old copy or the new one and never gone
\* (replaceSkillDirectory).
THEOREM SkillsSurvive ==
    ASSUME NEW old, NEW fails, IsFiniteSet(fails)
    PROVE  PS!SkillKept(old, fails)
  <1> SUFFICES ASSUME PS!Cardinality(fails) <= 1 PROVE PS!ReplaceSkill(old, fails) \in {old, "new"}
    BY DEF PS!SkillKept
  <1>1. ~("swap" \in fails /\ "restore" \in fails)
    BY AtMostOne
  <1> QED
    BY <1>1 DEF PS!ReplaceSkill

\* The readiness report names every item once, whatever is on disk
\* (governanceReadiness).
THEOREM ReportsOnce == \A d : PS!ReadinessFunctional(d)
  <1> SUFFICES ASSUME NEW d, NEW i \in PS!Readiness(d), NEW j \in PS!Readiness(d), i[1] = j[1]
               PROVE  i = j
    BY DEF PS!ReadinessFunctional
  <1> DEFINE reached == IF PS!Reachable(d) THEN "ready" ELSE "unavailable"
             store == CASE PS!Store(d) = "none" -> "not_configured"
                        [] PS!Store(d) = "project" -> "ready"
                        [] PS!Store(d) = "shared" -> reached
                        [] OTHER -> "unavailable"
             state(id) ==
                CASE id = "code-hook" -> IF d.hook = "openarch" THEN "ready"
                                         ELSE IF d.hook = "none" THEN "not_configured" ELSE "unavailable"
                  [] id = "code-hook-runtime" -> IF d.bin THEN "ready" ELSE "unavailable"
                  [] id = "coordination-service" ->
                       IF d.url \notin {"none", "invalid"} THEN "ready"
                       ELSE IF d.url = "none" THEN "not_configured" ELSE "unavailable"
                  [] id = "document-store" -> store
                  [] id = "document-scope" -> IF d.scope \in d.registry THEN "ready" ELSE "unavailable"
                  [] id = "document-hook" -> IF d.docsHook = "advisory" THEN "ready" ELSE "unavailable"
                  [] id = "document-hook-runtime" -> IF d.bin THEN "ready" ELSE "unavailable"
                  [] id = "document-similarity" -> IF d.similarity THEN "ready" ELSE "not_observed"
                  [] id = "capability-asset" -> IF d.asset = "none" THEN "unavailable" ELSE "ready"
                  [] id = "capability-maintenance" -> IF d.seen = d.asset THEN "ready" ELSE "not_observed"
  <1>1. ASSUME NEW x \in PS!CodeHookItems(d) \cup PS!CoordinationItem(d) PROVE x = <<x[1], state(x[1])>>
    BY <1>1 DEF PS!CodeHookItems, PS!CoordinationItem, PS!Item
  <1>2. ASSUME NEW x \in PS!CapabilityItems(d) \cup PS!Item("document-similarity", d.similarity, "not_observed")
        PROVE x = <<x[1], state(x[1])>>
    BY <1>2 DEF PS!CapabilityItems, PS!Item
  <1>3. PS!Store(d) \in {"none", "legacy", "project", "shared"}
    BY DEF PS!Store
  <1> DEFINE shared == PS!Item("document-scope", d.scope \in d.registry, "unavailable")
                       \cup PS!Item("document-hook", d.docsHook = "advisory", "unavailable")
                       \cup PS!Item("document-hook-runtime", d.bin, "unavailable")
  <1>5. ASSUME NEW x \in shared \cup {<<"document-store", store>>} PROVE x = <<x[1], state(x[1])>>
    <2> HIDE DEF store
    <2> QED
      BY <1>5 DEF PS!Item
  <1> HIDE DEF state
  <1>4. ASSUME NEW x \in PS!Readiness(d) PROVE x = <<x[1], state(x[1])>>
    <2> HIDE DEF shared
    <2>1. CASE PS!Store(d) = "none"
      BY <1>1, <1>4, <1>5, <2>1 DEF PS!Readiness
    <2>2. CASE PS!Store(d) = "legacy"
      BY <1>1, <1>4, <1>5, <2>2 DEF PS!Readiness
    <2>3. CASE PS!Store(d) = "project"
      BY <1>1, <1>2, <1>4, <1>5, <2>3 DEF PS!Readiness
    <2>4. CASE PS!Store(d) = "shared"
      <3>1. PS!Readiness(d) = (PS!CodeHookItems(d) \cup PS!CoordinationItem(d))
                                \cup PS!Item("document-store", PS!Reachable(d), "unavailable") \cup shared
                                \cup PS!CapabilityItems(d) \cup PS!Item("document-similarity", d.similarity, "not_observed")
        BY <2>4 DEF PS!Readiness, shared
      <3>2. PS!Item("document-store", PS!Reachable(d), "unavailable") = {<<"document-store", store>>}
        BY <2>4 DEF PS!Item
      <3> HIDE DEF store
      <3> QED
        BY <1>1, <1>2, <1>4, <1>5, <3>1, <3>2
    <2> QED
      BY <1>3, <2>1, <2>2, <2>3, <2>4
  <1> QED
    BY <1>4

-----------------------------------------------------------------------------
\* The weak assertion methods a declaration names for a language.
Weak(d, l) == IF l \notin DOMAIN d THEN {} ELSE UNION {PS!Range(d[l].classes[c]) : c \in DOMAIN d[l].classes}

\* Of a declaration without errors the fingerprint holds, for each language,
\* what it names, and nothing of the languages it names nothing for.
LEMMA AcceptedShapes ==
    ASSUME NEW a, \A l \in DOMAIN a : \A c \in DOMAIN a[l].classes : a[l].classes[c] = <<>> \/ DOMAIN a[l].classes[c] # {},
           PS!ReadShapes(TRUE, a).errors = {}
    PROVE  /\ PS!ReadShapes(TRUE, a).fingerprint = {<<l, Weak(a, l)>> : l \in {x \in DOMAIN a : Weak(a, x) # {}}}
           /\ PS!ReadShapes(TRUE, a).source = IF \A l \in DOMAIN a : Weak(a, l) = {} THEN "builtin" ELSE "project"
  <1> DEFINE weak(l) == Weak(a, l)
             names(l) == PS!EntryNames(l, a[l])
             there == {x \in DOMAIN a : names(x) # <<>>}
             shapes == [l \in there |-> names(l)]
             fp == PS!ShapesFingerprint(shapes)
  <1>1. /\ UNION {PS!EntryErrors(l, a[l]) : l \in DOMAIN a} = {}
        /\ PS!ReadShapes(TRUE, a).fingerprint = fp
        /\ PS!ReadShapes(TRUE, a).source = IF fp = {} THEN "builtin" ELSE "project"
    BY DEF PS!ReadShapes, PS!ParseShapes
  <1>2. ASSUME NEW l \in DOMAIN a
        PROVE  /\ names(l) # <<>> <=> weak(l) # {}
               /\ names(l) # <<>> => PS!Range(names(l)) = weak(l)
    <2>1. PS!EntryErrors(l, a[l]) = {}
      BY <1>1
    <2>2. PS!LanguageKeyError(l) = {} /\ a[l].mapping
      BY <2>1 DEF PS!EntryErrors
    <2>3. \A c \in DOMAIN a[l].classes : PS!ShapeClassError(c, a[l].classes[c]) = {}
      <3>1. UNION {PS!ShapeClassError(c, a[l].classes[c]) : c \in DOMAIN a[l].classes} = {}
        BY <2>1, <2>2 DEF PS!EntryErrors
      <3> QED
        BY <3>1
    <2>4. DOMAIN a[l].classes \subseteq {"weak_assertion_methods"}
      BY <2>3 DEF PS!ShapeClassError
    <2>5. CASE DOMAIN a[l].classes = {}
      BY <2>2, <2>5 DEF PS!EntryNames, Weak
    <2>6. CASE DOMAIN a[l].classes = {"weak_assertion_methods"}
      <3> DEFINE s == a[l].classes["weak_assertion_methods"]
      <3>1. names(l) = s
        BY <2>2, <2>3, <2>6 DEF PS!EntryNames
      <3>2. weak(l) = PS!Range(s)
        BY <2>6 DEF Weak
      <3>3. s = <<>> \/ DOMAIN s # {}
        BY <2>6
      <3>4. s = <<>> => PS!Range(s) = {}
        BY DEF PS!Range
      <3>5. DOMAIN s # {} => PS!Range(s) # {}
        BY DEF PS!Range
      <3>6. DOMAIN s # {} => s # <<>>
        OBVIOUS
      <3> QED
        BY <3>1, <3>2, <3>3, <3>4, <3>5, <3>6
    <2> QED
      BY <2>4, <2>5, <2>6
  <1>3. there = {x \in DOMAIN a : weak(x) # {}}
    BY <1>2
  <1>4. DOMAIN shapes = there /\ \A l \in there : shapes[l] = names(l)
    OBVIOUS
  <1>5. fp = {<<l, weak(l)>> : l \in there}
    <2>1. fp = {<<l, PS!Range(shapes[l])>> : l \in there}
      BY <1>4 DEF PS!ShapesFingerprint
    <2>2. \A l \in there : PS!Range(shapes[l]) = weak(l)
      BY <1>2, <1>4
    <2> QED
      BY <2>1, <2>2
  <1> HIDE DEF fp, there, weak
  <1>6. fp = {} <=> \A l \in DOMAIN a : weak(l) = {}
    BY <1>3, <1>5
  <1> QED
    BY <1>1, <1>3, <1>5, <1>6 DEF weak

\* Of any two declarations that scan accepts, with the names of each class a
\* list: the fingerprints agree exactly when the declarations mean the same,
\* and the default is used exactly when nothing is declared
\* (shapesFingerprintOf, projectShapesOfRead).
THEOREM ShapesAreMeaning ==
    ASSUME NEW names, NEW a, NEW b,
           \A x \in {a, b} : \A l \in DOMAIN x : \A c \in DOMAIN x[l].classes : x[l].classes[c] \in Seq(names)
    PROVE  PS!ShapesIdentity(a, b)
  <1> DEFINE ra == PS!ReadShapes(TRUE, a)
             rb == PS!ReadShapes(TRUE, b)
  <1> SUFFICES ASSUME ra.errors = {}, rb.errors = {}
               PROVE  /\ (ra.fingerprint = rb.fingerprint) = (\A l \in DOMAIN a \cup DOMAIN b : Weak(a, l) = Weak(b, l))
                      /\ (ra.source = "builtin") = (\A l \in DOMAIN a : Weak(a, l) = {})
    BY DEF PS!ShapesIdentity, Weak
  <1>1. \A s \in Seq(names) : s = <<>> \/ DOMAIN s # {}
    <2> SUFFICES ASSUME NEW s \in Seq(names), s # <<>> PROVE DOMAIN s # {}
      OBVIOUS
    <2>1. DOMAIN s = 1..Len(s) /\ Len(s) \in Nat /\ Len(s) # 0
      BY EmptySeq, LenProperties
    <2>2. 1 \in 1..Len(s)
      BY <2>1
    <2> QED
      BY <2>1, <2>2
  <1>2. /\ ra.fingerprint = {<<l, Weak(a, l)>> : l \in {x \in DOMAIN a : Weak(a, x) # {}}}
        /\ ra.source = IF \A l \in DOMAIN a : Weak(a, l) = {} THEN "builtin" ELSE "project"
    BY <1>1, AcceptedShapes
  <1>3. rb.fingerprint = {<<l, Weak(b, l)>> : l \in {x \in DOMAIN b : Weak(b, x) # {}}}
    BY <1>1, AcceptedShapes
  <1>4. \A l : (l \notin DOMAIN a => Weak(a, l) = {}) /\ (l \notin DOMAIN b => Weak(b, l) = {})
    BY DEF Weak
  <1> HIDE DEF ra, rb
  <1> DEFINE mine == ra.fingerprint
             theirs == rb.fingerprint
             same == \A l \in DOMAIN a \cup DOMAIN b : Weak(a, l) = Weak(b, l)
  <1>5. \A x : x \in mine <=> \E l : Weak(a, l) # {} /\ x = <<l, Weak(a, l)>>
    BY <1>2, <1>4
  <1>6. \A x : x \in theirs <=> \E l : Weak(b, l) # {} /\ x = <<l, Weak(b, l)>>
    BY <1>3, <1>4
  <1>7. ASSUME mine = theirs PROVE same
    <2> SUFFICES ASSUME NEW l \in DOMAIN a \cup DOMAIN b, Weak(a, l) # Weak(b, l) PROVE FALSE
      OBVIOUS
    <2>1. \A s, t : <<l, s>> \in mine /\ <<l, t>> \in mine => s = t
      BY <1>5
    <2>2. Weak(a, l) # {} => <<l, Weak(a, l)>> \in mine
      BY <1>5
    <2>3. Weak(b, l) # {} => <<l, Weak(b, l)>> \in mine
      BY <1>6, <1>7
    <2>4. \A s : <<l, s>> \in mine => s = Weak(a, l)
      BY <1>5
    <2>5. \A s : <<l, s>> \in mine => s = Weak(b, l)
      BY <1>6, <1>7
    <2> QED
      BY <2>2, <2>3, <2>4, <2>5
  <1>8. ASSUME same PROVE mine = theirs
    <2>1. \A l : Weak(a, l) = Weak(b, l)
      BY <1>4, <1>8
    <2>2. \A x : x \in mine <=> x \in theirs
      BY <2>1, <1>5, <1>6
    <2> HIDE DEF mine, theirs
    <2>3. mine \subseteq theirs /\ theirs \subseteq mine
      BY <2>2
    <2> QED
      BY <2>3
  <1> QED
    BY <1>2, <1>7, <1>8

\* What init finds.
Fields == {"config", "git", "exclude", "hook", "bin", "skill", "url", "docs", "target", "link", "store", "scope",
           "registry", "docsHook", "asset", "seen", "similarity"}
DiskMade(d) ==
    /\ d = [f \in Fields |-> d[f]]
    /\ d.docs \in BOOLEAN /\ d.target \in BOOLEAN /\ d.git \in BOOLEAN
    /\ d.link \in {"none", "valid", "dangling"} /\ d.store \in {"none", "project", "shared"}

\* What init is asked for.
Requests == {"docsRepo", "project", "scope", "unlink", "installHook", "mode", "agent", "fails", "url"}
AskedFor(in) ==
    /\ in = [f \in Requests |-> in[f]]
    /\ in.docsRepo \in BOOLEAN /\ in.project \in BOOLEAN /\ in.unlink \in BOOLEAN /\ in.installHook \in BOOLEAN /\ in.agent \in BOOLEAN

\* The chain of init's steps, one result after the other.
LEMMA InitIs ==
    ASSUME NEW d, NEW in
    PROVE  LET r1 == PS!InitDocuments(d, in)
               r2 == IF r1.code = "ok" THEN PS!InitConfig(r1.disk) ELSE r1
               r3 == IF r2.code = "ok" THEN PS!InitPersistence(r2.disk, in) ELSE r2
               r4 == IF r3.code = "ok" THEN PS!InitHook(r3.disk, in) ELSE r3
               r5 == IF r4.code = "ok" THEN PS!InitSkill(r4.disk, in) ELSE r4
               r6 == IF r5.code = "ok" THEN PS!InitCoordination(r5.disk, in) ELSE r5
               r7 == IF r6.code = "ok" THEN PS!InitStore(r6.disk, in) ELSE r6
           IN  PS!Init_(d, in) = r7
  BY DEF PS!Init_, PS!Then

\* The documents step, case by case.
LEMMA InitDocumentsIs ==
    ASSUME NEW d, DiskMade(d), NEW in, AskedFor(in)
    PROVE  LET a == [d EXCEPT !.link = "valid", !.docs = TRUE]
               r == PS!InitDocuments(d, in)
           IN  \/ ~in.docsRepo /\ r = [disk |-> d, code |-> IF in.scope = <<>> THEN "ok" ELSE "refused"]
               \/ in.docsRepo /\ in.project /\ r = [disk |-> d, code |-> "refused"]
               \/ in.docsRepo /\ ~in.project /\ in.unlink /\ r = PS!Unlink(d)
               \/ in.docsRepo /\ ~in.project /\ ~in.unlink /\ (~d.target \/ d.link = "dangling") /\ r.disk = d /\ r.code # "ok"
               \/ /\ in.docsRepo /\ ~in.project /\ ~in.unlink /\ d.target /\ d.link # "dangling"
                  /\ in.scope = <<>> /\ r = [disk |-> a, code |-> "ok"]
               \/ /\ in.docsRepo /\ ~in.project /\ ~in.unlink /\ d.target /\ d.link # "dangling"
                  /\ in.scope # <<>> /\ r = PS!ConfigureScope(a, in.scope, in.installHook)
  <1>1. CASE ~in.docsRepo \/ in.project \/ in.unlink
    BY <1>1 DEF PS!InitDocuments, AskedFor
  <1>2. CASE in.docsRepo /\ ~in.project /\ ~in.unlink
    <2> DEFINE a == [d EXCEPT !.link = "valid", !.docs = TRUE]
               s == PS!Associate(d)
    <2>1. PS!InitDocuments(d, in) = IF s.code = "ok" THEN (IF in.scope = <<>> THEN [disk |-> s.disk, code |-> "ok"]
                                                           ELSE PS!ConfigureScope(s.disk, in.scope, in.installHook)) ELSE s
      BY <1>2 DEF PS!InitDocuments, PS!Then, PS!Done
    <2>2. CASE ~d.target
      <3>1. s = [disk |-> d, code |-> "refused"]
        BY <2>2 DEF PS!Associate
      <3> QED
        BY <1>2, <2>1, <2>2, <3>1
    <2>3. CASE d.target /\ d.link = "dangling"
      <3>1. s = [disk |-> d, code |-> "crash"]
        BY <2>3 DEF PS!Associate, PS!Linked
      <3> QED
        BY <1>2, <2>1, <2>3, <3>1
    <2>4. CASE d.target /\ d.link # "dangling"
      <3> DEFINE l == [disk |-> [d EXCEPT !.link = "valid"], code |-> "ok"]
      <3>1. PS!Linked(d) = l
        BY <2>4 DEF PS!Linked
      <3>2. s = [l EXCEPT !.disk.docs = TRUE]
        BY <2>4, <3>1 DEF PS!Associate
      <3>3. s = [disk |-> a, code |-> "ok"]
        BY <3>2 DEF DiskMade, Fields
      <3> HIDE DEF s, a
      <3> QED
        BY <1>2, <2>1, <2>4, <3>3 DEF a
    <2> QED
      BY <2>2, <2>3, <2>4
  <1> QED
    BY <1>1, <1>2 DEF AskedFor

\* The scopes of a docs repository: ids and roots belong to each other.
OneToOne(registry) == \A s, t \in registry : s[1] = t[1] <=> s[2] = t[2]

\* What a step that made e of d leaves alone.
Spared(d, e) ==
    /\ DiskMade(e)
    /\ d.hook = "foreign" => e.hook = "foreign"
    /\ d.registry \subseteq e.registry /\ d.asset \in {"none", e.asset}
    /\ OneToOne(d.registry) => OneToOne(e.registry)

\* What two steps in a row spare.
LEMMA SparedOn ==
    ASSUME NEW a, NEW b, NEW c, Spared(a, b), Spared(b, c)
    PROVE  Spared(a, c)
  BY DEF Spared

\* What the configuration of a shared scope does, and when it is refused.
LEMMA ScopeConfigured ==
    ASSUME NEW d, DiskMade(d), NEW scope, NEW wanted
    PROVE  LET r == PS!ConfigureScope(d, scope, wanted)
               e == r.disk
           IN  /\ Spared(d, e)
               /\ r.code # "ok" => e = d
               /\ r.code = "ok" <=> PS!Reachable(d) /\ PS!Registrable(d.registry, scope)
               /\ r.code = "ok" =>
                    /\ e.asset = (IF d.asset = "none" THEN "a" ELSE d.asset)
                    /\ e.registry = d.registry \cup {scope} /\ e.store = "shared" /\ e.scope = scope
                    /\ e.docsHook = (IF wanted /\ d.docsHook # "foreign" THEN "advisory" ELSE d.docsHook)
                    /\ \A f \in Fields \ {"asset", "registry", "store", "scope", "docsHook"} : e[f] = d[f]
  <1> DEFINE r == PS!ConfigureScope(d, scope, wanted)
             w == [d EXCEPT !.asset = IF @ = "none" THEN "a" ELSE @]
             e == [w EXCEPT !.registry = @ \cup {scope}, !.store = "shared", !.scope = scope,
                            !.docsHook = IF wanted /\ @ # "foreign" THEN "advisory" ELSE @]
  <1>1. CASE ~(PS!Reachable(d) /\ PS!Registrable(d.registry, scope))
    <2>1. r = [disk |-> d, code |-> "refused"]
      BY <1>1 DEF PS!ConfigureScope
    <2> HIDE DEF r
    <2> QED
      BY <1>1, <2>1 DEF Spared, r
  <1>2. CASE PS!Reachable(d) /\ PS!Registrable(d.registry, scope)
    <2>1. r = [disk |-> e, code |-> "ok"]
      BY <1>2 DEF PS!ConfigureScope, PS!WithLayout
    <2>2. DiskMade(w) /\ w.asset = (IF d.asset = "none" THEN "a" ELSE d.asset) /\ \A f \in Fields \ {"asset"} : w[f] = d[f]
      BY DEF DiskMade, Fields
    <2>3. /\ DiskMade(e)
          /\ e.registry = w.registry \cup {scope} /\ e.store = "shared" /\ e.scope = scope
          /\ e.docsHook = (IF wanted /\ w.docsHook # "foreign" THEN "advisory" ELSE w.docsHook)
          /\ \A f \in Fields \ {"registry", "store", "scope", "docsHook"} : e[f] = w[f]
      <3> HIDE DEF w
      <3> QED
        BY <2>2 DEF DiskMade, Fields
    <2> HIDE DEF e, w, r
    <2>4. /\ e.asset = (IF d.asset = "none" THEN "a" ELSE d.asset)
          /\ e.registry = d.registry \cup {scope} /\ e.store = "shared" /\ e.scope = scope
          /\ e.docsHook = (IF wanted /\ d.docsHook # "foreign" THEN "advisory" ELSE d.docsHook)
          /\ e.hook = d.hook
          /\ \A f \in Fields \ {"asset", "registry", "store", "scope", "docsHook"} : e[f] = d[f]
      BY <2>2, <2>3 DEF Fields
    <2>5. OneToOne(d.registry) => OneToOne(e.registry)
      BY <1>2, <2>4 DEF OneToOne, PS!Registrable
    <2>6. Spared(d, e)
      BY <2>3, <2>4, <2>5 DEF Spared
    <2> QED
      BY <1>2, <2>1, <2>4, <2>6 DEF r
  <1> QED
    BY <1>1, <1>2

\* The documents step spares what others wrote.
LEMMA DocumentsSpare ==
    ASSUME NEW d, DiskMade(d), NEW in, AskedFor(in)
    PROVE  Spared(d, PS!InitDocuments(d, in).disk)
  <1> DEFINE r == PS!InitDocuments(d, in)
             a == [d EXCEPT !.link = "valid", !.docs = TRUE]
  <1>1. Spared(d, d)
    BY DEF Spared
  <1>2. Spared(d, a)
    BY DEF Spared, DiskMade, Fields
  <1>3. Spared(d, PS!Unlink(d).disk)
    BY DEF Spared, DiskMade, Fields, PS!Unlink
  <1>4. Spared(d, PS!ConfigureScope(a, in.scope, in.installHook).disk)
    <2>1. DiskMade(a)
      BY <1>2 DEF Spared
    <2> HIDE DEF a
    <2>2. Spared(a, PS!ConfigureScope(a, in.scope, in.installHook).disk)
      BY <2>1, ScopeConfigured
    <2> QED
      BY <1>2, <2>2, SparedOn
  <1>5. \/ r.disk = d \/ r = PS!Unlink(d) \/ r.disk = a \/ r = PS!ConfigureScope(a, in.scope, in.installHook)
    <2>1. \/ r = [disk |-> d, code |-> IF in.scope = <<>> THEN "ok" ELSE "refused"]
          \/ r = [disk |-> d, code |-> "refused"] \/ r = PS!Unlink(d) \/ r.disk = d
          \/ r = [disk |-> a, code |-> "ok"] \/ r = PS!ConfigureScope(a, in.scope, in.installHook)
      BY InitDocumentsIs
    <2> HIDE DEF a, r
    <2> QED
      BY <2>1
  <1> HIDE DEF a, r
  <1> QED
    BY <1>1, <1>2, <1>3, <1>4, <1>5 DEF r

\* So does each of the other steps.
LEMMA StepsSpare ==
    ASSUME NEW d, DiskMade(d), NEW in, AskedFor(in)
    PROVE  /\ Spared(d, PS!InitConfig(d).disk)
           /\ Spared(d, PS!InitPersistence(d, in).disk)
           /\ Spared(d, PS!InitHook(d, in).disk)
           /\ Spared(d, PS!InitSkill(d, in).disk)
           /\ Spared(d, PS!InitCoordination(d, in).disk)
           /\ Spared(d, PS!InitStore(d, in).disk)
  <1>1. Spared(d, d)
    BY DEF Spared
  <1>2. \A x : Spared(d, [d EXCEPT !.config = x]) /\ Spared(d, [d EXCEPT !.skill = x]) /\ Spared(d, [d EXCEPT !.url = x])
    BY DEF Spared, DiskMade, Fields
  <1>3. ASSUME NEW x, NEW y PROVE Spared(d, [d EXCEPT !.config = x, !.exclude = y])
    <2> DEFINE e == [d EXCEPT !.config = x, !.exclude = y]
    <2>1. DiskMade(e) /\ e.hook = d.hook /\ e.registry = d.registry /\ e.asset = d.asset
      BY DEF DiskMade, Fields
    <2> HIDE DEF e
    <2> QED
      BY <2>1 DEF Spared, e
  <1>4. d.hook # "foreign" => Spared(d, [d EXCEPT !.hook = "openarch"])
    BY DEF Spared, DiskMade, Fields
  <1>5. Spared(d, PS!InitConfig(d).disk)
    BY <1>2 DEF PS!InitConfig, PS!Done
  <1>6. Spared(d, PS!InitPersistence(d, in).disk)
    BY <1>1, <1>3 DEF PS!InitPersistence, PS!Done
  <1>7. Spared(d, PS!InitHook(d, in).disk)
    BY <1>1, <1>4 DEF PS!InitHook, PS!Done
  <1>8. Spared(d, PS!InitSkill(d, in).disk)
    BY <1>1, <1>2 DEF PS!InitSkill, PS!Done
  <1>9. Spared(d, PS!InitCoordination(d, in).disk)
    BY <1>1, <1>2 DEF PS!InitCoordination, PS!Done
  <1>10. Spared(d, PS!InitStore(d, in).disk)
    <2> DEFINE w == [PS!WithLayout(d) EXCEPT !.store = "project"]
               kept == IF in.project \/ ~d.docs THEN w ELSE d
               e == [kept EXCEPT !.link = IF kept.docs /\ @ = "none" /\ kept.target THEN "valid" ELSE @]
    <2>1. PS!InitStore(d, in).disk = e
      BY DEF PS!InitStore, PS!Done
    <2>2. Spared(d, w)
      BY DEF Spared, DiskMade, Fields, PS!WithLayout
    <2>3. Spared(d, kept)
      BY <1>1, <2>2
    <2> HIDE DEF kept
    <2>4. Spared(kept, e)
      BY <2>3 DEF Spared, DiskMade, Fields
    <2> HIDE DEF e
    <2> QED
      BY <2>1, <2>3, <2>4, SparedOn
  <1> QED
    BY <1>5, <1>6, <1>7, <1>8, <1>9, <1>10

\* An init, whether it succeeds or fails at any of its steps, leaves a foreign
\* hook alone, forgets no scope of the docs repository, replaces no asset that
\* is there and keeps ids and roots of scopes one to one (initApp); for any
\* disk and any request.
THEOREM InitSpares ==
    ASSUME NEW d, DiskMade(d), OneToOne(d.registry), NEW in, AskedFor(in)
    PROVE  LET r == PS!Init_(d, in)
           IN  /\ d.hook = "foreign" => r.disk.hook = "foreign"
               /\ d.registry \subseteq r.disk.registry /\ d.asset \in {"none", r.disk.asset}
               /\ OneToOne(r.disk.registry)
  <1> DEFINE r1 == PS!InitDocuments(d, in)
             r2 == IF r1.code = "ok" THEN PS!InitConfig(r1.disk) ELSE r1
             r3 == IF r2.code = "ok" THEN PS!InitPersistence(r2.disk, in) ELSE r2
             r4 == IF r3.code = "ok" THEN PS!InitHook(r3.disk, in) ELSE r3
             r5 == IF r4.code = "ok" THEN PS!InitSkill(r4.disk, in) ELSE r4
             r6 == IF r5.code = "ok" THEN PS!InitCoordination(r5.disk, in) ELSE r5
             r7 == IF r6.code = "ok" THEN PS!InitStore(r6.disk, in) ELSE r6
  <1>1. PS!Init_(d, in) = r7
    BY InitIs
  <1>2. Spared(d, r1.disk)
    BY DocumentsSpare
  <1> HIDE DEF r1
  <1>3. Spared(d, r2.disk)
    <2>1. DiskMade(r1.disk)
      BY <1>2 DEF Spared
    <2>2. Spared(r1.disk, PS!InitConfig(r1.disk).disk)
      BY <2>1, StepsSpare
    <2>3. r2 \in {r1, PS!InitConfig(r1.disk)}
      OBVIOUS
    <2> HIDE DEF r2
    <2> QED
      BY <1>2, <2>2, <2>3, SparedOn
  <1> HIDE DEF r2
  <1>4. Spared(d, r3.disk)
    <2>1. DiskMade(r2.disk)
      BY <1>3 DEF Spared
    <2>2. Spared(r2.disk, PS!InitPersistence(r2.disk, in).disk)
      BY <2>1, StepsSpare
    <2>3. r3 \in {r2, PS!InitPersistence(r2.disk, in)}
      OBVIOUS
    <2> HIDE DEF r3
    <2> QED
      BY <1>3, <2>2, <2>3, SparedOn
  <1> HIDE DEF r3
  <1>5. Spared(d, r4.disk)
    <2>1. DiskMade(r3.disk)
      BY <1>4 DEF Spared
    <2>2. Spared(r3.disk, PS!InitHook(r3.disk, in).disk)
      BY <2>1, StepsSpare
    <2>3. r4 \in {r3, PS!InitHook(r3.disk, in)}
      OBVIOUS
    <2> HIDE DEF r4
    <2> QED
      BY <1>4, <2>2, <2>3, SparedOn
  <1> HIDE DEF r4
  <1>6. Spared(d, r5.disk)
    <2>1. DiskMade(r4.disk)
      BY <1>5 DEF Spared
    <2>2. Spared(r4.disk, PS!InitSkill(r4.disk, in).disk)
      BY <2>1, StepsSpare
    <2>3. r5 \in {r4, PS!InitSkill(r4.disk, in)}
      OBVIOUS
    <2> HIDE DEF r5
    <2> QED
      BY <1>5, <2>2, <2>3, SparedOn
  <1> HIDE DEF r5
  <1>7. Spared(d, r6.disk)
    <2>1. DiskMade(r5.disk)
      BY <1>6 DEF Spared
    <2>2. Spared(r5.disk, PS!InitCoordination(r5.disk, in).disk)
      BY <2>1, StepsSpare
    <2>3. r6 \in {r5, PS!InitCoordination(r5.disk, in)}
      OBVIOUS
    <2> HIDE DEF r6
    <2> QED
      BY <1>6, <2>2, <2>3, SparedOn
  <1> HIDE DEF r6
  <1>8. Spared(d, r7.disk)
    <2>1. DiskMade(r6.disk)
      BY <1>7 DEF Spared
    <2>2. Spared(r6.disk, PS!InitStore(r6.disk, in).disk)
      BY <2>1, StepsSpare
    <2>3. r7 \in {r6, PS!InitStore(r6.disk, in)}
      OBVIOUS
    <2> HIDE DEF r7
    <2> QED
      BY <1>7, <2>2, <2>3, SparedOn
  <1> QED
    BY <1>1, <1>8 DEF Spared

-----------------------------------------------------------------------------
\* What the steps after the documents make of each field of disk x.
ConfigOf(x) == IF x.config = <<>> THEN PS!DefaultConfig ELSE x.config
Configured(x, in) ==
    IF in.mode = "none" THEN [ok |-> TRUE, text |-> ConfigOf(x)] ELSE PS!SetPersistence(ConfigOf(x), in.mode)
Excluded(x, in) == IF in.mode # "none" /\ x.git THEN PS!SyncExclude(x.exclude, in.mode) ELSE x.exclude
HookOf(x, in) ==
    IF (in.installHook \/ (in.mode # "none" /\ x.hook \in {"openarch", "stale"})) /\ x.hook # "foreign"
    THEN "openarch" ELSE x.hook
SkillOf(x, in) == IF in.agent THEN PS!ReplaceSkill(x.skill, in.fails) ELSE x.skill
UrlOf(x, in) == IF in.url = "none" THEN x.url ELSE IF in.url = "clear" THEN "none" ELSE in.url
Own(x, in) == in.project \/ ~x.docs
Hooked(x, in) ==
    [x EXCEPT !.config = Configured(x, in).text, !.exclude = Excluded(x, in), !.hook = HookOf(x, in)]
Skilled(x, in) == [Hooked(x, in) EXCEPT !.skill = SkillOf(x, in)]
Stored(x, in) ==
    [x EXCEPT !.asset = IF Own(x, in) /\ @ = "none" THEN "a" ELSE @,
              !.store = IF Own(x, in) THEN "project" ELSE @,
              !.link = IF x.docs /\ @ = "none" /\ x.target THEN "valid" ELSE @]
\* The steps after the documents, as one: they stop where the first one fails.
Rest(x, in) ==
    IF ~Configured(x, in).ok THEN [disk |-> [x EXCEPT !.config = ConfigOf(x)], code |-> "refused"]
    ELSE IF in.agent /\ ~PS!Parses(Configured(x, in).text) THEN [disk |-> Hooked(x, in), code |-> "refused"]
    ELSE IF (in.agent /\ in.fails # {}) \/ in.url = "invalid" THEN [disk |-> Skilled(x, in), code |-> "refused"]
    ELSE [disk |-> Stored([Skilled(x, in) EXCEPT !.url = UrlOf(x, in)], in), code |-> "ok"]

\* A disk is its fields.
LEMMA SameDisk ==
    ASSUME NEW d, NEW e, DiskMade(d), DiskMade(e), \A f \in Fields : d[f] = e[f]
    PROVE  d = e
  BY DEF DiskMade

\* What the store step writes, with the repair of the link that comes last.
LEMMA StoredIs ==
    ASSUME NEW x, DiskMade(x), NEW in
    PROVE  /\ PS!InitStore(x, in) = [disk |-> Stored(x, in), code |-> "ok"]
           /\ DiskMade(Stored(x, in))
           /\ \A f \in Fields \ {"asset", "store", "link"} : Stored(x, in)[f] = x[f]
           /\ Stored(x, in).asset = (IF Own(x, in) /\ x.asset = "none" THEN "a" ELSE x.asset)
           /\ Stored(x, in).store = (IF Own(x, in) THEN "project" ELSE x.store)
           /\ Stored(x, in).link = (IF x.docs /\ x.link = "none" /\ x.target THEN "valid" ELSE x.link)
  <1> DEFINE w == [[x EXCEPT !.asset = IF @ = "none" THEN "a" ELSE @] EXCEPT !.store = "project"]
             kept == IF Own(x, in) THEN w ELSE x
             e == [kept EXCEPT !.link = IF kept.docs /\ @ = "none" /\ kept.target THEN "valid" ELSE @]
             s == Stored(x, in)
  <1>1. PS!InitStore(x, in) = [disk |-> e, code |-> "ok"]
    BY DEF PS!InitStore, PS!Done, PS!WithLayout, Own
  <1>2. /\ DiskMade(s) /\ \A f \in Fields \ {"asset", "store", "link"} : s[f] = x[f]
        /\ s.asset = (IF Own(x, in) /\ x.asset = "none" THEN "a" ELSE x.asset)
        /\ s.store = (IF Own(x, in) THEN "project" ELSE x.store)
        /\ s.link = (IF x.docs /\ x.link = "none" /\ x.target THEN "valid" ELSE x.link)
    BY DEF DiskMade, Fields, Stored
  <1>3. /\ DiskMade(w) /\ \A f \in Fields \ {"asset", "store"} : w[f] = x[f]
        /\ w.asset = (IF x.asset = "none" THEN "a" ELSE x.asset)
        /\ w.store = "project"
    BY DEF DiskMade, Fields
  <1> HIDE DEF w, s
  <1>4. /\ DiskMade(kept) /\ \A f \in Fields \ {"asset", "store"} : kept[f] = x[f]
        /\ kept.asset = (IF Own(x, in) /\ x.asset = "none" THEN "a" ELSE x.asset)
        /\ kept.store = (IF Own(x, in) THEN "project" ELSE x.store)
    BY <1>3
  <1> HIDE DEF kept
  <1>5. /\ DiskMade(e) /\ \A f \in Fields \ {"link"} : e[f] = kept[f]
        /\ e.link = (IF kept.docs /\ kept.link = "none" /\ kept.target THEN "valid" ELSE kept.link)
    BY <1>4 DEF DiskMade, Fields
  <1> HIDE DEF e
  <1>6. \A f \in Fields : e[f] = s[f]
    <2>1. kept.docs = x.docs /\ kept.link = x.link /\ kept.target = x.target
      BY <1>4 DEF Fields
    <2> QED
      BY <1>2, <1>4, <1>5, <2>1 DEF Fields
  <1>7. e = s
    BY <1>2, <1>5, <1>6, SameDisk
  <1> QED
    BY <1>1, <1>2, <1>7 DEF s

\* The fields of a disk after the configuration and the hook.
LEMMA HookedIs ==
    ASSUME NEW x, DiskMade(x), NEW in
    PROVE  /\ DiskMade(Hooked(x, in))
           /\ \A f \in Fields \ {"config", "exclude", "hook"} : Hooked(x, in)[f] = x[f]
           /\ Hooked(x, in).config = Configured(x, in).text
           /\ Hooked(x, in).exclude = Excluded(x, in)
           /\ Hooked(x, in).hook = HookOf(x, in)
  <1> DEFINE c == Configured(x, in).text
             e == Excluded(x, in)
             h == HookOf(x, in)
  <1> HIDE DEF c, e, h
  <1>1. Hooked(x, in) = [x EXCEPT !.config = c, !.exclude = e, !.hook = h]
    BY DEF Hooked, c, e, h
  <1> QED
    BY <1>1 DEF DiskMade, Fields, c, e, h

\* The fields of a disk after the skill.
LEMMA SkilledIs ==
    ASSUME NEW x, DiskMade(x), NEW in
    PROVE  /\ DiskMade(Skilled(x, in))
           /\ \A f \in Fields \ {"skill"} : Skilled(x, in)[f] = Hooked(x, in)[f]
           /\ Skilled(x, in).skill = SkillOf(x, in)
  <1> DEFINE y == Hooked(x, in)
             s == SkillOf(x, in)
  <1> HIDE DEF s, y
  <1>1. Skilled(x, in) = [y EXCEPT !.skill = s]
    BY DEF Skilled, s, y
  <1>2. DiskMade(y)
    BY HookedIs DEF y
  <1> QED
    BY <1>1, <1>2 DEF DiskMade, Fields, s, y

\* The fields of a disk after the coordination.
LEMMA UrledIs ==
    ASSUME NEW x, DiskMade(x), NEW u
    PROVE  /\ DiskMade([x EXCEPT !.url = u])
           /\ \A f \in Fields \ {"url"} : [x EXCEPT !.url = u][f] = x[f]
           /\ [x EXCEPT !.url = u].url = u
  BY DEF DiskMade, Fields

\* After the documents step an init is Rest of the disk it left.
LEMMA InitRests ==
    ASSUME NEW d, DiskMade(d), NEW in, AskedFor(in)
    PROVE  LET r == PS!InitDocuments(d, in)
           IN  PS!Init_(d, in) = IF r.code = "ok" THEN Rest(r.disk, in) ELSE r
  <1> DEFINE r1 == PS!InitDocuments(d, in)
             r2 == IF r1.code = "ok" THEN PS!InitConfig(r1.disk) ELSE r1
             r3 == IF r2.code = "ok" THEN PS!InitPersistence(r2.disk, in) ELSE r2
             r4 == IF r3.code = "ok" THEN PS!InitHook(r3.disk, in) ELSE r3
             r5 == IF r4.code = "ok" THEN PS!InitSkill(r4.disk, in) ELSE r4
             r6 == IF r5.code = "ok" THEN PS!InitCoordination(r5.disk, in) ELSE r5
             r7 == IF r6.code = "ok" THEN PS!InitStore(r6.disk, in) ELSE r6
             x == r1.disk
  <1>1. PS!Init_(d, in) = r7
    BY InitIs
  <1>2. DiskMade(x)
    BY DocumentsSpare DEF Spared
  <1>3. CASE r1.code # "ok"
    <2> HIDE DEF r1
    <2>1. r2 = r1
      BY <1>3
    <2> HIDE DEF r2
    <2>2. r3 = r1
      BY <1>3, <2>1
    <2> HIDE DEF r3
    <2>3. r4 = r1
      BY <1>3, <2>2
    <2> HIDE DEF r4
    <2>4. r5 = r1
      BY <1>3, <2>3
    <2> HIDE DEF r5
    <2>5. r6 = r1
      BY <1>3, <2>4
    <2> HIDE DEF r6
    <2>6. r7 = r1
      BY <1>3, <2>5
    <2> QED
      BY <1>1, <1>3, <2>6 DEF r1
  <1>4. CASE r1.code = "ok"
    <2> DEFINE b == [x EXCEPT !.config = ConfigOf(x)]
               c == Configured(x, in)
               w == [x EXCEPT !.config = c.text, !.exclude = Excluded(x, in)]
               y == Hooked(x, in)
               z == Skilled(x, in)
               v == [z EXCEPT !.url = UrlOf(x, in)]
    <2> HIDE DEF r1
    <2>1. r2 = [disk |-> b, code |-> "ok"]
      BY <1>4 DEF PS!InitConfig, PS!Done, ConfigOf
    <2>2. DiskMade(b) /\ b.config = ConfigOf(x) /\ \A f \in Fields \ {"config"} : b[f] = x[f]
      BY <1>2 DEF DiskMade, Fields
    <2>3. DiskMade(w) /\ w.config = c.text /\ w.exclude = Excluded(x, in) /\ \A f \in Fields \ {"config", "exclude"} : w[f] = x[f]
      <3> HIDE DEF c
      <3> DEFINE ex == Excluded(x, in)
      <3> HIDE DEF ex
      <3>1. w = [x EXCEPT !.config = c.text, !.exclude = ex]
        BY DEF ex
      <3> QED
        BY <1>2, <3>1 DEF DiskMade, Fields, ex
    <2> HIDE DEF r2, b, w, x
    <2>4. r3 = IF c.ok THEN [disk |-> w, code |-> "ok"] ELSE [disk |-> b, code |-> "refused"]
      <3>1. r3 = PS!InitPersistence(b, in)
        BY <2>1
      <3>2. CASE in.mode = "none"
        <4>1. r3 = [disk |-> b, code |-> "ok"]
          BY <3>1, <3>2 DEF PS!InitPersistence, PS!Done
        <4>2. c = [ok |-> TRUE, text |-> ConfigOf(x)] /\ Excluded(x, in) = x.exclude
          BY <3>2 DEF Configured, Excluded
        <4>3. \A f \in Fields : w[f] = b[f]
          BY <2>2, <2>3, <4>2 DEF Fields
        <4>4. w = b
          BY <2>2, <2>3, <4>3, SameDisk
        <4> QED
          BY <4>1, <4>2, <4>4
      <3>3. CASE in.mode # "none"
        <4> DEFINE ex == IF x.git THEN PS!SyncExclude(x.exclude, in.mode) ELSE x.exclude
                   g == [b EXCEPT !.config = c.text, !.exclude = ex]
        <4>1. c = PS!SetPersistence(b.config, in.mode)
          BY <2>2, <3>3 DEF Configured
        <4>2. b.git = x.git /\ b.exclude = x.exclude
          BY <2>2 DEF Fields
        <4> HIDE DEF c, r3
        <4>3. r3 = IF ~c.ok THEN [disk |-> b, code |-> "refused"] ELSE [disk |-> g, code |-> "ok"]
          BY <3>1, <3>3, <4>1, <4>2 DEF PS!InitPersistence, PS!Done
        <4>4. ex = Excluded(x, in)
          BY <3>3 DEF Excluded
        <4> HIDE DEF ex
        <4>5. DiskMade(g) /\ g.config = c.text /\ g.exclude = ex /\ \A f \in Fields \ {"config", "exclude"} : g[f] = b[f]
          BY <2>2 DEF DiskMade, Fields
        <4> HIDE DEF g
        <4>6. \A f \in Fields : w[f] = g[f]
          BY <2>2, <2>3, <4>4, <4>5 DEF Fields
        <4>7. w = g
          BY <2>3, <4>5, <4>6, SameDisk
        <4> QED
          BY <4>3, <4>7
      <3> QED
        BY <3>2, <3>3
    <2> HIDE DEF r3
    <2>5. CASE ~c.ok
      <3>1. r3 = [disk |-> b, code |-> "refused"]
        BY <2>4, <2>5
      <3>2. r4 = r3
        BY <3>1
      <3> HIDE DEF r4
      <3>3. r5 = r3
        BY <3>1, <3>2
      <3> HIDE DEF r5
      <3>4. r6 = r3
        BY <3>1, <3>3
      <3> HIDE DEF r6
      <3>5. r7 = r3
        BY <3>1, <3>4
      <3>6. Rest(x, in) = [disk |-> b, code |-> "refused"]
        BY <2>5 DEF Rest, c, b
      <3> QED
        BY <1>1, <1>4, <3>1, <3>5, <3>6 DEF r1, x
    <2>6. CASE c.ok
      <3>1. r3 = [disk |-> w, code |-> "ok"]
        BY <2>4, <2>6
      <3>2. r4 = [disk |-> y, code |-> "ok"]
        <4> DEFINE ours == w.hook \in {"openarch", "stale"}
                   g == IF (in.installHook \/ (in.mode # "none" /\ ours)) /\ w.hook # "foreign"
                        THEN [w EXCEPT !.hook = "openarch"] ELSE w
        <4>1. r4 = [disk |-> g, code |-> "ok"]
          BY <3>1 DEF PS!InitHook, PS!Done
        <4>2. w.hook = x.hook
          BY <2>3 DEF Fields
        <4>3. DiskMade(g) /\ g.hook = HookOf(x, in) /\ \A f \in Fields \ {"hook"} : g[f] = w[f]
          BY <2>3, <4>2 DEF DiskMade, Fields, HookOf
        <4> HIDE DEF g
        <4>4. \A f \in Fields : g[f] = y[f]
          BY <1>2, <2>3, <4>3, HookedIs DEF Fields
        <4>5. g = y
          BY <1>2, <4>3, <4>4, HookedIs, SameDisk
        <4> QED
          BY <4>1, <4>5
      <3> HIDE DEF r4
      <3>3. DiskMade(y) /\ y.config = c.text /\ y.skill = x.skill /\ y.url = x.url
        BY <1>2, HookedIs DEF Fields
      <3>4. r5 = IF in.agent /\ ~PS!Parses(c.text) THEN [disk |-> y, code |-> "refused"]
                 ELSE [disk |-> z, code |-> IF in.agent /\ in.fails # {} THEN "refused" ELSE "ok"]
        <4>1. r5 = PS!InitSkill(y, in)
          BY <3>2
        <4>2. CASE ~in.agent
          <5>1. r5 = [disk |-> y, code |-> "ok"]
            BY <4>1, <4>2 DEF PS!InitSkill, PS!Done
          <5>2. \A f \in Fields : z[f] = y[f]
            <6>1. (\A f \in Fields \ {"skill"} : z[f] = y[f]) /\ z.skill = SkillOf(x, in)
              BY <1>2, SkilledIs
            <6>2. SkillOf(x, in) = y.skill
              BY <3>3, <4>2 DEF SkillOf
            <6> HIDE DEF y, z
            <6> QED
              BY <6>1, <6>2 DEF Fields
          <5>3. z = y
            BY <1>2, <3>3, <5>2, SkilledIs, SameDisk
          <5> QED
            BY <4>2, <5>1, <5>3
        <4>3. CASE in.agent
          <5>1. SkillOf(x, in) = PS!ReplaceSkill(y.skill, in.fails)
            BY <3>3, <4>3 DEF SkillOf
          <5>2. z = [y EXCEPT !.skill = PS!ReplaceSkill(y.skill, in.fails)]
            BY <5>1 DEF Skilled
          <5> HIDE DEF y, z, c, r5
          <5> QED
            BY <3>3, <4>1, <4>3, <5>2 DEF PS!InitSkill
        <4> QED
          BY <4>2, <4>3
      <3> HIDE DEF r5
      <3>5. CASE in.agent /\ ~PS!Parses(c.text)
        <4>1. r5 = [disk |-> y, code |-> "refused"]
          BY <3>4, <3>5
        <4>2. r6 = r5
          BY <4>1
        <4> HIDE DEF r6
        <4>3. r7 = r5
          BY <4>1, <4>2
        <4>4. Rest(x, in) = [disk |-> y, code |-> "refused"]
          BY <2>6, <3>5 DEF Rest
        <4> QED
          BY <1>1, <1>4, <4>1, <4>3, <4>4 DEF r1, x
      <3>6. CASE ~(in.agent /\ ~PS!Parses(c.text)) /\ in.agent /\ in.fails # {}
        <4>1. r5 = [disk |-> z, code |-> "refused"]
          BY <3>4, <3>6
        <4>2. r6 = r5
          BY <4>1
        <4> HIDE DEF r6
        <4>3. r7 = r5
          BY <4>1, <4>2
        <4>4. Rest(x, in) = [disk |-> z, code |-> "refused"]
          BY <2>6, <3>6 DEF Rest
        <4> QED
          BY <1>1, <1>4, <4>1, <4>3, <4>4 DEF r1, x
      <3>7. CASE ~(in.agent /\ ~PS!Parses(c.text)) /\ ~(in.agent /\ in.fails # {})
        <4>1. r5 = [disk |-> z, code |-> "ok"]
          BY <3>4, <3>7
        <4>2. z.url = x.url /\ DiskMade(z)
          BY <1>2, <3>3, SkilledIs DEF Fields
        <4>3. r6 = IF in.url = "invalid" THEN [disk |-> z, code |-> "refused"] ELSE [disk |-> v, code |-> "ok"]
          <5>1. r6 = PS!InitCoordination(z, in)
            BY <4>1
          <5>2. CASE in.url = "none"
            <6>1. r6 = [disk |-> z, code |-> "ok"]
              BY <5>1, <5>2 DEF PS!InitCoordination, PS!Done
            <6>2. DiskMade(v) /\ \A f \in Fields : v[f] = z[f]
              BY <4>2, <5>2, UrledIs DEF UrlOf, Fields
            <6>3. v = z
              BY <4>2, <6>2, SameDisk
            <6> QED
              BY <5>2, <6>1, <6>3
          <5>3. CASE in.url # "none"
            <6> HIDE DEF z, r6
            <6> QED
              BY <5>1, <5>3 DEF PS!InitCoordination, PS!Done, UrlOf
          <5> QED
            BY <5>2, <5>3
        <4> HIDE DEF r6
        <4>4. CASE in.url = "invalid"
          <5>1. r7 = [disk |-> z, code |-> "refused"]
            BY <4>3, <4>4
          <5>2. Rest(x, in) = [disk |-> z, code |-> "refused"]
            BY <2>6, <3>7, <4>4 DEF Rest
          <5> QED
            BY <1>1, <1>4, <5>1, <5>2 DEF r1, x
        <4>5. CASE in.url # "invalid"
          <5>1. DiskMade(v)
            BY <4>2, UrledIs
          <5>2. r7 = [disk |-> Stored(v, in), code |-> "ok"]
            BY <4>3, <4>5, <5>1, StoredIs
          <5>3. Rest(x, in) = [disk |-> Stored(v, in), code |-> "ok"]
            BY <2>6, <3>7, <4>5 DEF Rest
          <5> QED
            BY <1>1, <1>4, <5>2, <5>3 DEF r1, x
        <4> QED
          BY <4>4, <4>5
      <3> QED
        BY <3>5, <3>6, <3>7
    <2> QED
      BY <2>5, <2>6
  <1> QED
    BY <1>3, <1>4

\* When the steps after the documents succeed, and what they leave.
LEMMA RestOk ==
    ASSUME NEW x, DiskMade(x), NEW in
    PROVE  LET t == Rest(x, in)
               c == Configured(x, in)
               e == t.disk
           IN  /\ t.code = "ok" \/ t.code = "refused"
               /\ t.code = "ok" <=> /\ c.ok /\ in.url # "invalid"
                                    /\ in.agent => PS!Parses(c.text) /\ in.fails = {}
               /\ t.code = "ok" =>
                    /\ t = [disk |-> e, code |-> "ok"]
                    /\ DiskMade(e)
                    /\ e.config = c.text /\ e.exclude = Excluded(x, in) /\ e.hook = HookOf(x, in)
                    /\ e.skill = SkillOf(x, in) /\ e.url = UrlOf(x, in)
                    /\ e.asset = (IF Own(x, in) /\ x.asset = "none" THEN "a" ELSE x.asset)
                    /\ e.store = (IF Own(x, in) THEN "project" ELSE x.store)
                    /\ e.link = (IF x.docs /\ x.link = "none" /\ x.target THEN "valid" ELSE x.link)
                    /\ \A f \in {"git", "bin", "docs", "target", "scope", "registry", "docsHook", "seen", "similarity"} : e[f] = x[f]
  <1> DEFINE t == Rest(x, in)
             c == Configured(x, in)
             z == Skilled(x, in)
             v == [z EXCEPT !.url = UrlOf(x, in)]
  <1>1. t.code = "ok" \/ t.code = "refused"
    BY DEF Rest
  <1>2. t.code = "ok" <=> /\ c.ok /\ in.url # "invalid"
                          /\ in.agent => PS!Parses(c.text) /\ in.fails = {}
    BY DEF Rest
  <1>3. ASSUME t.code = "ok" PROVE t = [disk |-> Stored(v, in), code |-> "ok"]
    BY <1>3 DEF Rest
  <1>4. DiskMade(v) /\ v.url = UrlOf(x, in) /\ \A f \in Fields \ {"url"} : v[f] = z[f]
    <2>1. DiskMade(z)
      BY SkilledIs
    <2> DEFINE u == UrlOf(x, in)
    <2> HIDE DEF z, u
    <2>2. v = [z EXCEPT !.url = u]
      BY DEF u
    <2> HIDE DEF v
    <2> QED
      BY <2>1, <2>2 DEF u, DiskMade, Fields
  <1>5. /\ v.config = c.text /\ v.exclude = Excluded(x, in) /\ v.hook = HookOf(x, in) /\ v.skill = SkillOf(x, in)
        /\ v.asset = x.asset /\ v.store = x.store /\ v.link = x.link /\ v.docs = x.docs /\ v.target = x.target
        /\ \A f \in {"git", "bin", "docs", "target", "scope", "registry", "docsHook", "seen", "similarity"} : v[f] = x[f]
    <2> HIDE DEF v
    <2>1. /\ z.skill = SkillOf(x, in)
          /\ \A f \in Fields \ {"skill"} : z[f] = Hooked(x, in)[f]
      BY SkilledIs
    <2> HIDE DEF z, c
    <2>2. /\ \A f \in Fields \ {"config", "exclude", "hook"} : Hooked(x, in)[f] = x[f]
          /\ Hooked(x, in).config = c.text
          /\ Hooked(x, in).exclude = Excluded(x, in)
          /\ Hooked(x, in).hook = HookOf(x, in)
      BY HookedIs DEF c
    <2> QED
      BY <1>4, <2>1, <2>2 DEF Fields
  <1> HIDE DEF t, v
  <1>6. Own(v, in) = Own(x, in)
    BY <1>5 DEF Own
  <1>7. /\ DiskMade(Stored(v, in))
        /\ \A f \in Fields \ {"asset", "store", "link"} : Stored(v, in)[f] = v[f]
        /\ Stored(v, in).asset = (IF Own(x, in) /\ x.asset = "none" THEN "a" ELSE x.asset)
        /\ Stored(v, in).store = (IF Own(x, in) THEN "project" ELSE x.store)
        /\ Stored(v, in).link = (IF x.docs /\ x.link = "none" /\ x.target THEN "valid" ELSE x.link)
    <2>1. /\ DiskMade(Stored(v, in))
          /\ \A f \in Fields \ {"asset", "store", "link"} : Stored(v, in)[f] = v[f]
          /\ Stored(v, in).asset = (IF Own(v, in) /\ v.asset = "none" THEN "a" ELSE v.asset)
          /\ Stored(v, in).store = (IF Own(v, in) THEN "project" ELSE v.store)
          /\ Stored(v, in).link = (IF v.docs /\ v.link = "none" /\ v.target THEN "valid" ELSE v.link)
      BY <1>4, StoredIs
    <2> QED
      BY <1>5, <1>6, <2>1
  <1> DEFINE e == Stored(v, in)
  <1> HIDE DEF e, c
  <1>8. /\ e.config = c.text /\ e.exclude = Excluded(x, in) /\ e.hook = HookOf(x, in)
        /\ e.skill = SkillOf(x, in) /\ e.url = UrlOf(x, in)
        /\ \A f \in {"git", "bin", "docs", "target", "scope", "registry", "docsHook", "seen", "similarity"} : e[f] = x[f]
    BY <1>4, <1>5, <1>7 DEF Fields, e
  <1>9. t.code = "ok" => t.disk = e /\ t = [disk |-> t.disk, code |-> "ok"]
    BY <1>3 DEF e
  <1> QED
    BY <1>1, <1>2, <1>7, <1>8, <1>9 DEF e, t, c

\* The fields the documents step writes.
DocFields == {"docs", "target", "link", "store", "scope", "registry", "docsHook", "asset"}

\* The documents step writes nothing outside the documents.
LEMMA DocumentsOnly ==
    ASSUME NEW d, DiskMade(d), NEW in, AskedFor(in)
    PROVE  \A f \in (Fields \ DocFields) \cup {"target"} : PS!InitDocuments(d, in).disk[f] = d[f]
  <1> DEFINE r == PS!InitDocuments(d, in)
             a == [d EXCEPT !.link = "valid", !.docs = TRUE]
             others == (Fields \ DocFields) \cup {"target"}
  <1>1. DiskMade(a) /\ \A f \in others : a[f] = d[f]
    BY DEF DiskMade, Fields, DocFields
  <1>2. \A f \in others : PS!Unlink(d).disk[f] = d[f]
    BY DEF DiskMade, Fields, DocFields, PS!Unlink
  <1> HIDE DEF a
  <1>3. \A f \in others : PS!ConfigureScope(a, in.scope, in.installHook).disk[f] = a[f]
    <2> DEFINE t == PS!ConfigureScope(a, in.scope, in.installHook).disk
    <2>1. t = a \/ \A f \in Fields \ {"asset", "registry", "store", "scope", "docsHook"} : t[f] = a[f]
      BY <1>1, ScopeConfigured
    <2> HIDE DEF t
    <2>2. \A f \in others : t[f] = a[f]
      BY <2>1 DEF Fields, DocFields
    <2> QED
      BY <2>2 DEF t
  <1>4. \/ r.disk = d \/ r = PS!Unlink(d) \/ r.disk = a \/ r = PS!ConfigureScope(a, in.scope, in.installHook)
    <2>1. \/ r = [disk |-> d, code |-> IF in.scope = <<>> THEN "ok" ELSE "refused"]
          \/ r = [disk |-> d, code |-> "refused"] \/ r = PS!Unlink(d) \/ r.disk = d
          \/ r = [disk |-> a, code |-> "ok"] \/ r = PS!ConfigureScope(a, in.scope, in.installHook)
      BY InitDocumentsIs DEF a
    <2> HIDE DEF r
    <2> QED
      BY <2>1
  <1> HIDE DEF r, others
  <1> QED
    BY <1>1, <1>2, <1>3, <1>4 DEF r, others

\* e is what a run left that found x once the documents were linked.
\* e is x after later steps, as far as documents are concerned.
Left(x, e, in) ==
    /\ \A f \in {"docs", "target", "scope", "registry", "docsHook"} : e[f] = x[f]
    /\ e.asset = x.asset \/ (x.asset = "none" /\ Own(x, in))
    /\ e.store = x.store \/ Own(x, in)
    /\ e.link = x.link \/ (x.link = "none" /\ e.link = "valid")

\* A documents step on what the later steps left of an earlier one succeeds
\* again and changes nothing but a link that the last step has to make once
\* more.
LEMMA DocumentsAgain ==
    ASSUME NEW d, DiskMade(d), NEW in, AskedFor(in), PS!InitDocuments(d, in).code = "ok",
           NEW e, DiskMade(e), Left(PS!InitDocuments(d, in).disk, e, in)
    PROVE  LET x == PS!InitDocuments(d, in).disk
               r == PS!InitDocuments(e, in)
           IN  /\ r.code = "ok"
               /\ \A f \in Fields \ {"link"} : r.disk[f] = e[f]
               /\ r.disk.link = e.link \/ (r.disk.link = "none" /\ x.link = "none")
  <1> DEFINE s == PS!InitDocuments(d, in)
             x == s.disk
             r == PS!InitDocuments(e, in)
             a == [d EXCEPT !.link = "valid", !.docs = TRUE]
             b == [e EXCEPT !.link = "valid", !.docs = TRUE]
  <1>1. DiskMade(a) /\ a.link = "valid" /\ a.docs /\ a.target = d.target
    BY DEF DiskMade, Fields
  <1>2. DiskMade(b) /\ b.link = "valid" /\ b.docs /\ b.target = e.target /\ \A f \in Fields \ {"link", "docs"} : b[f] = e[f]
    BY DEF DiskMade, Fields
  <1>3. /\ s.code = "ok" /\ Left(x, e, in)
        /\ in.docsRepo \in BOOLEAN /\ in.project \in BOOLEAN /\ in.unlink \in BOOLEAN
    BY DEF AskedFor
  <1>4. \/ ~in.docsRepo /\ s = [disk |-> d, code |-> IF in.scope = <<>> THEN "ok" ELSE "refused"]
        \/ in.docsRepo /\ ~in.project /\ in.unlink /\ s = PS!Unlink(d)
        \/ /\ in.docsRepo /\ ~in.project /\ ~in.unlink /\ d.target /\ d.link # "dangling"
           /\ in.scope = <<>> /\ s = [disk |-> a, code |-> "ok"]
        \/ /\ in.docsRepo /\ ~in.project /\ ~in.unlink /\ d.target /\ d.link # "dangling"
           /\ in.scope # <<>> /\ s = PS!ConfigureScope(a, in.scope, in.installHook)
    <2>1. /\ in.docsRepo /\ in.project => s = [disk |-> d, code |-> "refused"]
          /\ in.docsRepo /\ ~in.project /\ ~in.unlink /\ (~d.target \/ d.link = "dangling") => s.code # "ok"
      BY InitDocumentsIs
    <2>2. ~(in.docsRepo /\ in.project)
      <3> HIDE DEF s, x
      <3> QED
        BY <1>3, <2>1
    <2> QED
      BY <1>3, <2>1, <2>2, InitDocumentsIs
  <1>5. /\ ~in.docsRepo => r = [disk |-> e, code |-> IF in.scope = <<>> THEN "ok" ELSE "refused"]
        /\ in.docsRepo /\ ~in.project /\ in.unlink => r = PS!Unlink(e)
        /\ in.docsRepo /\ ~in.project /\ ~in.unlink /\ e.target /\ e.link # "dangling" /\ in.scope = <<>>
              => r = [disk |-> b, code |-> "ok"]
        /\ in.docsRepo /\ ~in.project /\ ~in.unlink /\ e.target /\ e.link # "dangling" /\ in.scope # <<>>
              => r = PS!ConfigureScope(b, in.scope, in.installHook)
    BY InitDocumentsIs
  <1> DEFINE q == r.disk
  <1> SUFFICES /\ r.code = "ok"
               /\ \A f \in Fields \ {"link"} : q[f] = e[f]
               /\ q.link = e.link \/ (q.link = "none" /\ x.link = "none")
    OBVIOUS
  <1> HIDE DEF a, b, s, r, q, x
  <1>6. CASE ~in.docsRepo
    <2>1. s = [disk |-> d, code |-> IF in.scope = <<>> THEN "ok" ELSE "refused"]
      BY <1>4, <1>6
    <2>2. in.scope = <<>>
      BY <1>3, <2>1
    <2>3. r = [disk |-> e, code |-> "ok"]
      BY <1>5, <1>6, <2>2
    <2>4. r.code = "ok" /\ q = e
      BY <2>3 DEF q
    <2> QED
      BY <2>4
  <1>7. CASE in.docsRepo /\ in.unlink
    <2>1. s = PS!Unlink(d) /\ r = PS!Unlink(e)
      BY <1>4, <1>5, <1>7
    <2>2. x.link = IF d.link = "dangling" THEN "dangling" ELSE "none"
      BY <2>1 DEF PS!Unlink, DiskMade, Fields, x
    <2>3. /\ r.code = "ok" /\ q.link = (IF e.link = "dangling" THEN "dangling" ELSE "none")
          /\ \A f \in Fields \ {"link"} : q[f] = e[f]
      BY <2>1 DEF PS!Unlink, DiskMade, Fields, q
    <2>4. e.link = x.link \/ x.link = "none"
      BY <1>3 DEF Left
    <2>5. q.link = e.link \/ (q.link = "none" /\ x.link = "none")
      BY <2>2, <2>3, <2>4
    <2> QED
      BY <2>3, <2>5
  <1>8. CASE in.docsRepo /\ ~in.unlink /\ in.scope = <<>>
    <2>1. d.target /\ s = [disk |-> a, code |-> "ok"]
      BY <1>4, <1>8
    <2> x = a
      BY <2>1 DEF x
    <2>2. x.docs /\ x.link = "valid" /\ x.target
      BY <1>1, <2>1
    <2>3. e.docs /\ e.link = "valid" /\ e.target
      BY <1>3, <2>2 DEF Left
    <2>4. r = [disk |-> b, code |-> "ok"]
      BY <1>4, <1>5, <1>8, <2>3
    <2>5. e.docs = b.docs
      BY <1>2, <2>3 DEF DiskMade
    <2>6. \A f \in Fields \ {"link"} : b[f] = e[f]
      BY <1>2, <2>5 DEF Fields
    <2>7. r.code = "ok" /\ q = b
      BY <2>4 DEF q
    <2>8. q.link = e.link /\ \A f \in Fields \ {"link"} : q[f] = e[f]
      BY <1>2, <2>3, <2>6, <2>7
    <2> QED
      BY <2>7, <2>8
  <1>9. CASE in.docsRepo /\ ~in.unlink /\ in.scope # <<>>
    <2>1. /\ ~in.project /\ d.target
          /\ s = PS!ConfigureScope(a, in.scope, in.installHook)
      BY <1>4, <1>9
    <2>2. PS!ConfigureScope(a, in.scope, in.installHook).code = "ok" /\ x = PS!ConfigureScope(a, in.scope, in.installHook).disk
      BY <1>3, <2>1 DEF x
    <2>3. /\ PS!Registrable(a.registry, in.scope)
          /\ x.asset = (IF a.asset = "none" THEN "a" ELSE a.asset)
          /\ x.registry = a.registry \cup {in.scope} /\ x.store = "shared" /\ x.scope = in.scope
          /\ x.docsHook = (IF in.installHook /\ a.docsHook # "foreign" THEN "advisory" ELSE a.docsHook)
          /\ \A f \in Fields \ {"asset", "registry", "store", "scope", "docsHook"} : x[f] = a[f]
      BY <1>1, <2>2, ScopeConfigured
    <2>4. x.docs /\ x.link = "valid" /\ x.target
      BY <1>1, <2>1, <2>3 DEF Fields
    <2>5. ~Own(x, in) /\ x.asset # "none"
      BY <2>1, <2>3, <2>4 DEF Own
    <2>6. /\ e.docs /\ e.link = "valid" /\ e.target /\ e.store = "shared" /\ e.scope = in.scope
          /\ e.registry = a.registry \cup {in.scope} /\ e.asset = x.asset /\ e.docsHook = x.docsHook
      BY <1>3, <2>3, <2>4, <2>5 DEF Left
    <2>7. e.docsHook = (IF in.installHook /\ e.docsHook # "foreign" THEN "advisory" ELSE e.docsHook)
      BY <2>3, <2>6
    <2>8. e.docs = b.docs
      BY <1>2, <2>6 DEF DiskMade
    <2>9. \A f \in Fields : b[f] = e[f]
      BY <1>2, <2>6, <2>8 DEF Fields
    <2>10. b = e
      BY <1>2, <2>9, SameDisk
    <2>11. r = PS!ConfigureScope(e, in.scope, in.installHook)
      BY <1>5, <1>9, <2>1, <2>6, <2>10
    <2>12. PS!Registrable(e.registry, in.scope) /\ PS!Reachable(e)
      BY <2>3, <2>6 DEF PS!Registrable, PS!Reachable
    <2>13. /\ r.code = "ok"
           /\ q.asset = (IF e.asset = "none" THEN "a" ELSE e.asset)
           /\ q.registry = e.registry \cup {in.scope} /\ q.store = "shared" /\ q.scope = in.scope
           /\ q.docsHook = (IF in.installHook /\ e.docsHook # "foreign" THEN "advisory" ELSE e.docsHook)
           /\ \A f \in Fields \ {"asset", "registry", "store", "scope", "docsHook"} : q[f] = e[f]
      BY <2>11, <2>12, ScopeConfigured DEF q
    <2>14. \A f \in Fields : q[f] = e[f]
      <3>1. q.asset = e.asset
        BY <2>5, <2>6, <2>13
      <3>2. q.registry = e.registry /\ q.store = e.store /\ q.scope = e.scope /\ q.docsHook = e.docsHook
        BY <2>6, <2>7, <2>13
      <3> QED
        BY <2>13, <3>1, <3>2 DEF Fields
    <2>15. q.link = e.link
      BY <2>14 DEF Fields
    <2> QED
      BY <2>13, <2>14, <2>15
  <1> QED
    BY <1>3, <1>6, <1>7, <1>8, <1>9

-----------------------------------------------------------------------------
\* What a run finds has settled with respect to the persistence it asks for: the
\* configuration is one that PersistenceSafe holds of, and the ignore file one in
\* which the managed block is where a run leaves it.
Settles(d, in) ==
    in.mode # "none" =>
        /\ PS!PersistenceSafe(ConfigOf(d), in.mode)
        /\ \E L : ConfigOf(d) \in Seq(L)
        /\ d.git => LET once == PS!SyncExclude(d.exclude, in.mode) IN PS!SyncExclude(once, in.mode) = once

\* From its second step on there is a configuration.
LEMMA ConfigThere == \A x : ConfigOf(x) # <<>>
  BY DEF ConfigOf, PS!DefaultConfig

\* Joined lists are empty only if both are.
LEMMA SomethingListed ==
    ASSUME NEW S, NEW a \in S, NEW b \in S
    PROVE  /\ <<a>> \in Seq(S) /\ <<a>> # <<>> /\ <<a, b>> \in Seq(S) /\ <<a, b>> # <<>>
           /\ \A s, t \in Seq(S) : s # <<>> \/ t # <<>> => s \o t # <<>>
  <1>1. <<a>> \in Seq(S) /\ <<a>> # <<>> /\ <<a, b>> \in Seq(S) /\ <<a, b>> # <<>>
    OBVIOUS
  <1>2. \A s, t \in Seq(S) : s # <<>> \/ t # <<>> => s \o t # <<>>
    BY ConcatEqualIffEmpty
  <1> QED
    BY <1>1, <1>2

\* Writing the persistence empties no configuration.
LEMMA WrittenThere ==
    ASSUME NEW L, NEW text \in Seq(L), text # <<>>, NEW mode, PS!SetPersistence(text, mode).ok
    PROVE  PS!SetPersistence(text, mode).text # <<>>
  <1> DEFINE kind == PS!Governance(text).kind
             block == \E i \in DOMAIN text : text[i].indent = 0 /\ text[i].key = "governance" /\ text[i].value = ""
             after == IF kind = "absent" THEN PS!Appended(text, mode) ELSE PS!Rewritten(text, mode)
  <1>1. kind \in {"absent", "mapping", "other"}
    BY DEF PS!Governance
  <1>2. /\ kind # "other" /\ (kind = "mapping" => block)
        /\ PS!SetPersistence(text, mode).text = after
    BY DEF PS!SetPersistence
  <1> DEFINE added == PS!Line(2, "persistence", mode)
             M == L \cup {added, PS!Line(0, "governance", "")}
  <1>3. text \in Seq(M) /\ added \in M /\ PS!Line(0, "governance", "") \in M
    BY SeqMonotonic
  <1> HIDE DEF added, kind, M
  <1>4. PS!Appended(text, mode) # <<>>
    <2> DEFINE block2 == <<PS!Line(0, "governance", ""), added>>
    <2>1. block2 \in Seq(M) /\ block2 # <<>>
      BY <1>3, SomethingListed
    <2> HIDE DEF block2
    <2>2. text \o block2 # <<>>
      BY <1>3, <2>1, SomethingListed
    <2> QED
      BY <2>2 DEF PS!Appended, block2, added
  <1>5. ASSUME block PROVE PS!Rewritten(text, mode) # <<>>
    <2> DEFINE g == CHOOSE i \in DOMAIN text : text[i].key = "governance" /\ text[i].value = ""
    <2>1. g \in DOMAIN text
      BY <1>5
    <2> HIDE DEF g
    <2>2. \A p : [text EXCEPT ![p] = PS!Line(@.indent, "persistence", mode)] # <<>>
      BY <2>1
    <2>3. SubSeq(text, 1, g) \o <<added>> \o SubSeq(text, g + 1, Len(text)) # <<>>
      <3> DEFINE u == SubSeq(text, 1, g)
                 v == SubSeq(text, g + 1, Len(text))
                 w == <<added>>
      <3>1. g \in 1..Len(text) /\ Len(text) \in Nat /\ \A i \in 1..Len(text) : text[i] \in M
        BY <1>3, <2>1, ElementOfSeq, LenProperties
      <3>2. u \in Seq(M) /\ v \in Seq(M)
        BY <3>1, SubSeqProperties
      <3>3. w \in Seq(M) /\ w # <<>>
        BY <1>3, SomethingListed
      <3> HIDE DEF u, v, w
      <3>4. u \o w \in Seq(M) /\ u \o w # <<>>
        BY <3>2, <3>3, ConcatProperties, ConcatEqualIffEmpty
      <3>5. (u \o w) \o v # <<>>
        BY <3>2, <3>4, ConcatEqualIffEmpty
      <3> QED
        BY <3>5 DEF u, v, w
    <2> QED
      BY <2>2, <2>3 DEF PS!Rewritten, g, added
  <1> QED
    BY <1>1, <1>2, <1>4, <1>5

\* Nor does the configuration step of init.
LEMMA ConfiguredThere ==
    ASSUME NEW x, NEW in, Settles(x, in), Configured(x, in).ok
    PROVE  Configured(x, in).text # <<>>
  <1>1. CASE in.mode = "none"
    BY <1>1, ConfigThere DEF Configured
  <1>2. CASE in.mode # "none"
    <2>1. PICK L : ConfigOf(x) \in Seq(L)
      BY <1>2 DEF Settles
    <2>2. Configured(x, in) = PS!SetPersistence(ConfigOf(x), in.mode)
      BY <1>2 DEF Configured
    <2> QED
      BY <2>1, <2>2, ConfigThere, WrittenThere
  <1> QED
    BY <1>1, <1>2

\* On what they left, configuration, ignore file and hook are done.
LEMMA ConfiguredAgain ==
    ASSUME NEW x, NEW y, NEW in, Settles(x, in), Configured(x, in).ok, y.git = x.git,
           y.config = Configured(x, in).text, y.exclude = Excluded(x, in), y.hook = HookOf(x, in)
    PROVE  /\ Configured(y, in) = Configured(x, in)
           /\ Excluded(y, in) = Excluded(x, in)
           /\ HookOf(y, in) = HookOf(x, in)
  <1> DEFINE c == Configured(x, in)
  <1>1. ConfigOf(y) = c.text
    BY ConfiguredThere DEF ConfigOf
  <1>2. Configured(y, in) = c
    <2>1. CASE in.mode = "none"
      <3>1. c = [ok |-> TRUE, text |-> ConfigOf(x)] /\ Configured(y, in) = [ok |-> TRUE, text |-> ConfigOf(y)]
        BY <2>1 DEF Configured
      <3> HIDE DEF c
      <3> QED
        BY <1>1, <3>1
    <2>2. CASE in.mode # "none"
      <3>1. c = PS!SetPersistence(ConfigOf(x), in.mode) /\ Configured(y, in) = PS!SetPersistence(c.text, in.mode)
        BY <1>1, <2>2 DEF Configured
      <3>2. PS!SetPersistence(c.text, in.mode) = c
        BY <2>2, <3>1 DEF Settles, PS!PersistenceSafe
      <3> QED
        BY <3>1, <3>2
    <2> QED
      BY <2>1, <2>2
  <1>3. Excluded(y, in) = Excluded(x, in)
    BY DEF Excluded, Settles
  <1>4. HookOf(y, in) = HookOf(x, in)
    BY DEF HookOf
  <1> QED
    BY <1>2, <1>3, <1>4

\* The documents step leaves the configuration and the ignore file alone.
LEMMA DocumentsSettle ==
    ASSUME NEW d, DiskMade(d), NEW in, AskedFor(in), Settles(d, in)
    PROVE  LET x == PS!InitDocuments(d, in).disk
           IN  /\ DiskMade(x) /\ Settles(x, in) /\ ConfigOf(x) = ConfigOf(d)
               /\ x.hook = d.hook /\ x.config = d.config
  <1> DEFINE x == PS!InitDocuments(d, in).disk
  <1>1. DiskMade(x)
    BY DocumentsSpare DEF Spared
  <1>2. \A f \in (Fields \ DocFields) \cup {"target"} : x[f] = d[f]
    BY DocumentsOnly
  <1> HIDE DEF x
  <1>3. x.config = d.config /\ x.git = d.git /\ x.exclude = d.exclude /\ x.hook = d.hook
    BY <1>2 DEF Fields, DocFields
  <1>4. ConfigOf(x) = ConfigOf(d)
    BY <1>3 DEF ConfigOf
  <1>5. Settles(x, in)
    BY <1>3, <1>4 DEF Settles
  <1> QED
    BY <1>1, <1>3, <1>4, <1>5 DEF x

\* An init that succeeds leaves what it was asked for, as the readiness report
\* sees it, and a second one changes nothing (initApp, governanceReadiness);
\* for any disk and request. Of a request that sets the persistence it is
\* assumed that the writing of the two files settles.
THEOREM InitsDeliver ==
    ASSUME NEW d, DiskMade(d), NEW in, AskedFor(in), Settles(d, in)
    PROVE  PS!InitDelivers(d, in)
  <1> DEFINE s == PS!InitDocuments(d, in)
             x == s.disk
             r == PS!Init_(d, in)
             e == r.disk
             c == Configured(x, in)
             s2 == PS!InitDocuments(e, in)
             y == s2.disk
             e2 == Rest(y, in).disk
  <1> SUFFICES ASSUME r.code = "ok"
               PROVE  /\ in.installHook /\ d.hook # "foreign" => <<"code-hook", "ready">> \in PS!Readiness(e)
                      /\ in.mode # "none" => PS!Persistence(e.config) = in.mode
                      /\ in.scope # <<>> /\ ~in.unlink
                           => {<<"document-store", "ready">>, <<"document-scope", "ready">>} \subseteq PS!Readiness(e)
                      /\ in.project => <<"document-store", "ready">> \in PS!Readiness(e)
                      /\ PS!Init_(e, in) = r
    BY DEF PS!InitDelivers
  <1>1. s.code = "ok" /\ r = Rest(x, in) /\ Rest(x, in).code = "ok"
    <2>1. r = IF s.code = "ok" THEN Rest(x, in) ELSE s
      BY InitRests
    <2> HIDE DEF r, s, x
    <2> QED
      BY <2>1
  <1>2. DiskMade(x) /\ Settles(x, in) /\ ConfigOf(x) = ConfigOf(d) /\ x.hook = d.hook
    BY DocumentsSettle
  <1> HIDE DEF x
  <1>3. /\ c.ok /\ in.url # "invalid"
        /\ in.agent => PS!Parses(c.text) /\ in.fails = {}
    BY <1>1, <1>2, RestOk
  <1>4. /\ r = [disk |-> e, code |-> "ok"] /\ DiskMade(e)
        /\ e.config = c.text /\ e.exclude = Excluded(x, in) /\ e.hook = HookOf(x, in)
        /\ e.skill = SkillOf(x, in) /\ e.url = UrlOf(x, in)
        /\ e.asset = (IF Own(x, in) /\ x.asset = "none" THEN "a" ELSE x.asset)
        /\ e.store = (IF Own(x, in) THEN "project" ELSE x.store)
        /\ e.link = (IF x.docs /\ x.link = "none" /\ x.target THEN "valid" ELSE x.link)
        /\ \A f \in {"git", "bin", "docs", "target", "scope", "registry", "docsHook", "seen", "similarity"} : e[f] = x[f]
    <2> DEFINE t == Rest(x, in)
               g == t.disk
    <2>1. /\ t = [disk |-> g, code |-> "ok"] /\ DiskMade(g)
          /\ g.config = c.text /\ g.exclude = Excluded(x, in) /\ g.hook = HookOf(x, in)
          /\ g.skill = SkillOf(x, in) /\ g.url = UrlOf(x, in)
          /\ g.asset = (IF Own(x, in) /\ x.asset = "none" THEN "a" ELSE x.asset)
          /\ g.store = (IF Own(x, in) THEN "project" ELSE x.store)
          /\ g.link = (IF x.docs /\ x.link = "none" /\ x.target THEN "valid" ELSE x.link)
          /\ \A f \in {"git", "bin", "docs", "target", "scope", "registry", "docsHook", "seen", "similarity"} : g[f] = x[f]
      BY <1>1, <1>2, RestOk
    <2>2. r = t
      BY <1>1
    <2> HIDE DEF t, r, c
    <2> QED
      BY <2>1, <2>2
  <1> HIDE DEF r, s, c, e
  <1>5. in.installHook /\ d.hook # "foreign" => <<"code-hook", "ready">> \in PS!Readiness(e)
    <2>1. in.installHook /\ d.hook # "foreign" => e.hook = "openarch"
      BY <1>2, <1>4 DEF HookOf
    <2> QED
      BY <2>1 DEF PS!Readiness, PS!CodeHookItems
  <1>6. in.mode # "none" => PS!Persistence(e.config) = in.mode
    BY <1>2, <1>3, <1>4 DEF Settles, PS!PersistenceSafe, Configured, c
  <1>7. in.project => <<"document-store", "ready">> \in PS!Readiness(e)
    <2>1. in.project => PS!Store(e) = "project"
      BY <1>4 DEF Own, PS!Store
    <2> QED
      BY <2>1 DEF PS!Readiness
  <1>8. in.scope # <<>> /\ ~in.unlink
          => {<<"document-store", "ready">>, <<"document-scope", "ready">>} \subseteq PS!Readiness(e)
    <2> SUFFICES ASSUME in.scope # <<>>, ~in.unlink
                 PROVE  {<<"document-store", "ready">>, <<"document-scope", "ready">>} \subseteq PS!Readiness(e)
      OBVIOUS
    <2> DEFINE a == [d EXCEPT !.link = "valid", !.docs = TRUE]
    <2>1. DiskMade(a)
      BY DEF DiskMade, Fields
    <2>2. /\ in.docsRepo /\ ~in.project
          /\ s = PS!ConfigureScope(a, in.scope, in.installHook)
      <3>1. \/ ~in.docsRepo /\ s = [disk |-> d, code |-> IF in.scope = <<>> THEN "ok" ELSE "refused"]
            \/ in.docsRepo /\ in.project /\ s = [disk |-> d, code |-> "refused"]
            \/ s.code # "ok"
            \/ in.docsRepo /\ ~in.project /\ s = PS!ConfigureScope(a, in.scope, in.installHook)
        BY InitDocumentsIs DEF s
      <3> QED
        BY <1>1, <3>1
    <2> HIDE DEF a
    <2>3. /\ PS!Reachable(a) /\ x.registry = a.registry \cup {in.scope} /\ x.store = "shared" /\ x.scope = in.scope
          /\ \A f \in Fields \ {"asset", "registry", "store", "scope", "docsHook"} : x[f] = a[f]
      BY <1>1, <2>1, <2>2, ScopeConfigured DEF x
    <2>4. x.docs /\ x.link = "valid"
      BY <2>3 DEF PS!Reachable, Fields
    <2>5. e.docs /\ e.link = "valid" /\ e.store = "shared" /\ e.scope \in e.registry
      BY <1>4, <2>2, <2>3, <2>4 DEF Own
    <2>6. PS!Store(e) = "shared" /\ PS!Reachable(e)
      BY <2>5 DEF PS!Store, PS!Reachable
    <2> QED
      BY <2>5, <2>6 DEF PS!Readiness, PS!Item
  <1>9. PS!Init_(e, in) = r
    <2>1. Left(x, e, in)
      BY <1>4 DEF Left
    <2>2. /\ s2.code = "ok" /\ \A f \in Fields \ {"link"} : y[f] = e[f]
          /\ y.link = e.link \/ (y.link = "none" /\ x.link = "none")
      BY <1>1, <1>4, <2>1, DocumentsAgain DEF s, x
    <2>3. DiskMade(y)
      BY <1>4, DocumentsSpare DEF Spared
    <2>4. PS!Init_(e, in) = Rest(y, in)
      BY <1>4, <2>2, InitRests
    <2> HIDE DEF y
    <2>5. /\ y.config = c.text /\ y.exclude = Excluded(x, in) /\ y.hook = HookOf(x, in) /\ y.git = x.git
          /\ y.skill = SkillOf(x, in) /\ y.url = UrlOf(x, in) /\ y.asset = e.asset /\ y.store = e.store
          /\ \A f \in {"git", "bin", "docs", "target", "scope", "registry", "docsHook", "seen", "similarity"} : y[f] = e[f]
      BY <1>4, <2>2 DEF Fields
    <2>6. Configured(y, in) = c /\ Excluded(y, in) = Excluded(x, in) /\ HookOf(y, in) = HookOf(x, in)
      BY <1>2, <1>3, <2>5, ConfiguredAgain DEF c
    <2>7. /\ Rest(y, in).code = "ok" /\ Rest(y, in) = [disk |-> e2, code |-> "ok"] /\ DiskMade(e2)
          /\ e2.config = c.text /\ e2.exclude = Excluded(y, in) /\ e2.hook = HookOf(y, in)
          /\ e2.skill = SkillOf(y, in) /\ e2.url = UrlOf(y, in)
          /\ e2.asset = (IF Own(y, in) /\ y.asset = "none" THEN "a" ELSE y.asset)
          /\ e2.store = (IF Own(y, in) THEN "project" ELSE y.store)
          /\ e2.link = (IF y.docs /\ y.link = "none" /\ y.target THEN "valid" ELSE y.link)
          /\ \A f \in {"git", "bin", "docs", "target", "scope", "registry", "docsHook", "seen", "similarity"} : e2[f] = y[f]
      BY <1>3, <2>3, <2>6, RestOk
    <2> HIDE DEF e2
    <2>8. Own(y, in) = Own(x, in)
      BY <1>4, <2>5 DEF Own
    <2>9. SkillOf(y, in) = SkillOf(x, in)
      BY <1>3, <2>5 DEF SkillOf, PS!ReplaceSkill
    <2>10. UrlOf(y, in) = UrlOf(x, in)
      BY <2>5 DEF UrlOf
    <2>11. e2.link = e.link
      BY <1>4, <2>2, <2>5, <2>7
    <2>12. e2.asset = e.asset /\ e2.store = e.store
      BY <1>4, <2>5, <2>7, <2>8
    <2>13. \A f \in Fields : e2[f] = e[f]
      BY <1>4, <2>5, <2>6, <2>7, <2>9, <2>10, <2>11, <2>12 DEF Fields
    <2>14. e2 = e
      BY <1>4, <2>7, <2>13, SameDisk
    <2> QED
      BY <1>4, <2>4, <2>7, <2>14
  <1> QED
    BY <1>5, <1>6, <1>7, <1>8, <1>9

\* A documents step that failed fails again in the same way.
LEMMA DocumentsRefusedAgain ==
    ASSUME NEW d, DiskMade(d), NEW in, AskedFor(in), PS!InitDocuments(d, in).code # "ok"
    PROVE  PS!InitDocuments(PS!InitDocuments(d, in).disk, in) = PS!InitDocuments(d, in)
  <1> DEFINE s == PS!InitDocuments(d, in)
             a == [d EXCEPT !.link = "valid", !.docs = TRUE]
             b == [a EXCEPT !.link = "valid", !.docs = TRUE]
  <1>1. DiskMade(a) /\ a.target = d.target /\ a.link = "valid" /\ a.docs = TRUE
    BY DEF DiskMade, Fields
  <1>2. b = a
    <2> HIDE DEF a
    <2>1. DiskMade(b) /\ \A f \in Fields : b[f] = a[f]
      BY <1>1 DEF DiskMade, Fields
    <2> QED
      BY <1>1, <2>1, SameDisk
  <1>3. s.code # "ok"
    OBVIOUS
  <1>4. PS!Unlink(d).code = "ok" /\ [disk |-> a, code |-> "ok"].code = "ok"
    BY DEF PS!Unlink
  <1>5. \/ s.disk = d
        \/ /\ in.docsRepo /\ ~in.project /\ ~in.unlink /\ d.target /\ in.scope # <<>>
           /\ s = PS!ConfigureScope(a, in.scope, in.installHook)
    <2>1. \/ s = [disk |-> d, code |-> IF in.scope = <<>> THEN "ok" ELSE "refused"]
          \/ s = [disk |-> d, code |-> "refused"] \/ s = PS!Unlink(d) \/ s.disk = d
          \/ s = [disk |-> a, code |-> "ok"]
          \/ /\ in.docsRepo /\ ~in.project /\ ~in.unlink /\ d.target /\ in.scope # <<>>
             /\ s = PS!ConfigureScope(a, in.scope, in.installHook)
      BY InitDocumentsIs
    <2> HIDE DEF s, a
    <2> QED
      BY <1>3, <1>4, <2>1
  <1>6. CASE s.disk = d
    BY <1>6
  <1>7. CASE /\ in.docsRepo /\ ~in.project /\ ~in.unlink /\ d.target /\ in.scope # <<>>
             /\ s = PS!ConfigureScope(a, in.scope, in.installHook)
    <2>1. PS!InitDocuments(a, in) = PS!ConfigureScope(b, in.scope, in.installHook)
      <3> HIDE DEF a
      <3> QED
        BY <1>1, <1>7, InitDocumentsIs
    <2> HIDE DEF s, a, b
    <2>2. s.disk = a
      BY <1>1, <1>3, <1>7, ScopeConfigured
    <2> QED
      BY <1>2, <1>7, <2>1, <2>2 DEF s
  <1> QED
    BY <1>5, <1>6, <1>7

\* An init never touches what others wrote, and one that failed can be repeated
\* without the step that failed: the disk is then what a single init would have
\* left (initApp); for any disk and request, under the same assumption.
THEOREM InitsRespect ==
    ASSUME NEW d, DiskMade(d), OneToOne(d.registry), NEW in, AskedFor(in), Settles(d, in)
    PROVE  PS!InitRespects(d, in)
  <1> DEFINE s == PS!InitDocuments(d, in)
             x == s.disk
             r == PS!Init_(d, in)
             y == r.disk
             c == Configured(x, in)
             in0 == [in EXCEPT !.fails = {}, !.url = "none"]
             t == Rest(x, in)
             t1 == Rest(x, in0)
             t2 == Rest(y, in0)
  <1>1. /\ d.hook = "foreign" => y.hook = "foreign"
        /\ d.registry \subseteq y.registry /\ d.asset \in {"none", y.asset}
        /\ OneToOne(y.registry)
    BY InitSpares
  <1>2. DiskMade(x) /\ Settles(x, in) /\ ConfigOf(x) = ConfigOf(d) /\ x.config = d.config
    BY DocumentsSettle
  <1>3. /\ s.code # "ok" => r = s
        /\ s.code = "ok" => r = t
    BY InitRests
  <1> HIDE DEF s, r, c, t, t1, t2, x, y
  <1>4. \/ t = [disk |-> [x EXCEPT !.config = ConfigOf(x)], code |-> "refused"] /\ ~c.ok
        \/ t = [disk |-> Hooked(x, in), code |-> "refused"] /\ c.ok /\ in.agent /\ ~PS!Parses(c.text)
        \/ t = [disk |-> Skilled(x, in), code |-> "refused"] /\ c.ok /\ (in.agent => PS!Parses(c.text))
        \/ t.code = "ok" /\ c.ok /\ t.disk.config = c.text
    <2>1. t.code = "ok" => t.disk.config = c.text /\ c.ok
      BY <1>2, RestOk DEF t, c
    <2>2. t = IF ~c.ok THEN [disk |-> [x EXCEPT !.config = ConfigOf(x)], code |-> "refused"]
              ELSE IF in.agent /\ ~PS!Parses(c.text) THEN [disk |-> Hooked(x, in), code |-> "refused"]
              ELSE IF (in.agent /\ in.fails # {}) \/ in.url = "invalid" THEN [disk |-> Skilled(x, in), code |-> "refused"]
              ELSE [disk |-> Stored([Skilled(x, in) EXCEPT !.url = UrlOf(x, in)], in), code |-> "ok"]
      BY DEF t, c, Rest
    <2> QED
      BY <2>1, <2>2
  <1> DEFINE b == [x EXCEPT !.config = ConfigOf(x)]
  <1>5. DiskMade(b) /\ b.config = ConfigOf(x) /\ \A f \in Fields \ {"config"} : b[f] = x[f]
    BY <1>2 DEF DiskMade, Fields
  <1> HIDE DEF b
  <1>6. /\ DiskMade(Hooked(x, in)) /\ Hooked(x, in).config = c.text /\ Hooked(x, in).exclude = Excluded(x, in)
        /\ Hooked(x, in).hook = HookOf(x, in)
        /\ \A f \in Fields \ {"config", "exclude", "hook"} : Hooked(x, in)[f] = x[f]
    BY <1>2, HookedIs DEF c
  <1>7. /\ DiskMade(Skilled(x, in)) /\ Skilled(x, in).skill = SkillOf(x, in)
        /\ \A f \in Fields \ {"skill"} : Skilled(x, in)[f] = Hooked(x, in)[f]
    BY <1>2, SkilledIs
  <1>8. t.disk.config \in {ConfigOf(x), c.text} /\ (t.disk.config = c.text => c.ok \/ c.text = ConfigOf(x))
    <2>1. CASE ~c.ok /\ t.disk = b
      BY <2>1, <1>5
    <2>2. CASE c.ok /\ t.disk.config = c.text
      BY <2>2
    <2>3. CASE c.ok /\ (t.disk = Hooked(x, in) \/ t.disk = Skilled(x, in))
      <3>1. Skilled(x, in).config = c.text /\ Hooked(x, in).config = c.text
        BY <1>6, <1>7 DEF Fields
      <3> QED
        BY <2>3, <3>1
    <2> QED
      BY <1>4, <2>1, <2>2, <2>3 DEF b
  <1>9. d.config # <<>> => PS!Rest(y.config) = PS!Rest(d.config)
    <2> SUFFICES ASSUME d.config # <<>> PROVE PS!Rest(y.config) = PS!Rest(d.config)
      OBVIOUS
    <2>1. ConfigOf(x) = d.config
      BY <1>2 DEF ConfigOf
    <2>2. CASE s.code # "ok"
      BY <1>2, <1>3, <2>2 DEF x, y
    <2>3. CASE s.code = "ok" /\ t.disk.config = ConfigOf(x)
      BY <1>3, <2>1, <2>3 DEF y
    <2>4. CASE s.code = "ok" /\ t.disk.config = c.text /\ c.ok
      <3>1. CASE in.mode = "none"
        BY <1>3, <2>1, <2>4, <3>1 DEF y, c, Configured
      <3>2. CASE in.mode # "none"
        <4>1. c = PS!SetPersistence(d.config, in.mode)
          BY <2>1, <3>2 DEF c, Configured
        <4>2. PS!Rest(c.text) = PS!Rest(d.config)
          BY <1>2, <2>1, <2>4, <3>2, <4>1 DEF Settles, PS!PersistenceSafe
        <4> QED
          BY <1>3, <2>4, <4>2 DEF y
      <3> QED
        BY <3>1, <3>2
    <2> QED
      BY <1>8, <2>2, <2>3, <2>4
  <1>10. /\ AskedFor(in0) /\ in0.fails = {} /\ in0.url = "none"
         /\ \A f \in Requests \ {"fails", "url"} : in0[f] = in[f]
    BY DEF AskedFor, Requests
  <1> HIDE DEF in0
  <1>11. /\ in0.docsRepo = in.docsRepo /\ in0.project = in.project /\ in0.scope = in.scope /\ in0.unlink = in.unlink
         /\ in0.installHook = in.installHook /\ in0.mode = in.mode /\ in0.agent = in.agent
    BY <1>10 DEF Requests
  <1>12. \A e : PS!InitDocuments(e, in0) = PS!InitDocuments(e, in)
    BY <1>11 DEF PS!InitDocuments
  <1>13. \A e : /\ Configured(e, in0) = Configured(e, in) /\ Excluded(e, in0) = Excluded(e, in)
                /\ HookOf(e, in0) = HookOf(e, in) /\ Own(e, in0) = Own(e, in) /\ Settles(e, in0) = Settles(e, in)
    BY <1>11 DEF Configured, Excluded, HookOf, Own, Settles
  <1>14. \A e : e.skill = x.skill \/ e.skill = SkillOf(x, in) => (in.agent \/ e.skill = x.skill)
    BY DEF SkillOf
  <1>15. ASSUME r.code # "ok" PROVE PS!Init_(y, in0).disk = PS!Init_(d, in0).disk
    <2>1. CASE s.code # "ok"
      <3>1. y = x
        BY <1>3, <2>1 DEF x, y
      <3>2. PS!InitDocuments(x, in) = s
        BY <2>1, DocumentsRefusedAgain DEF s, x
      <3>3. PS!Init_(x, in0) = s
        BY <1>2, <1>10, <1>12, <2>1, <3>2, InitRests
      <3>4. PS!Init_(d, in0) = s
        BY <1>10, <1>12, <2>1, InitRests DEF s
      <3> QED
        BY <3>1, <3>3, <3>4
    <2>2. CASE s.code = "ok"
      <3>1. r = t /\ t.code # "ok" /\ y = t.disk
        BY <1>3, <1>15, <2>2 DEF y
      <3>2. \/ y = b /\ ~c.ok
            \/ y = Hooked(x, in) /\ c.ok /\ in.agent /\ ~PS!Parses(c.text)
            \/ y = Skilled(x, in) /\ c.ok /\ (in.agent => PS!Parses(c.text))
        BY <1>4, <3>1 DEF b
      <3>3. DiskMade(y)
        BY <1>5, <1>6, <1>7, <3>2
      <3>4. \A f \in Fields \ {"config", "exclude", "hook", "skill"} : y[f] = x[f]
        BY <1>5, <1>6, <1>7, <3>2
      <3>5. Left(x, y, in0)
        BY <3>4 DEF Left, Fields
      <3>6. /\ PS!InitDocuments(y, in0).code = "ok"
            /\ \A f \in Fields \ {"link"} : PS!InitDocuments(y, in0).disk[f] = y[f]
            /\ \/ PS!InitDocuments(y, in0).disk.link = y.link
               \/ (PS!InitDocuments(y, in0).disk.link = "none" /\ x.link = "none")
        <4>1. PS!InitDocuments(d, in0) = s
          BY <1>12 DEF s
        <4> QED
          BY <1>10, <2>2, <3>3, <3>5, <4>1, DocumentsAgain DEF x
      <3>7. PS!InitDocuments(y, in0).disk = y
        <4> DEFINE q == PS!InitDocuments(y, in0).disk
        <4>1. DiskMade(q)
          BY <1>10, <3>3, DocumentsSpare DEF Spared
        <4>2. q.link = y.link /\ \A f \in Fields \ {"link"} : q[f] = y[f]
          BY <3>4, <3>6 DEF Fields
        <4> HIDE DEF q
        <4>3. \A f \in Fields : q[f] = y[f]
          BY <4>2
        <4> QED
          BY <3>3, <4>1, <4>3, SameDisk DEF q
      <3>8. PS!Init_(y, in0) = t2 /\ PS!Init_(d, in0) = t1
        BY <1>10, <1>12, <2>2, <3>3, <3>6, <3>7, InitRests DEF t1, t2, s, x
      <3>9. CASE y = b /\ ~c.ok
        <4>1. ConfigOf(b) = ConfigOf(x)
          BY <1>5, ConfigThere DEF ConfigOf
        <4>2. Configured(b, in0) = c /\ Configured(x, in0) = c
          BY <1>13, <4>1 DEF Configured, c
        <4>3. t1.disk = b
          BY <3>9, <4>2 DEF t1, Rest, b
        <4>4. t2.disk = [b EXCEPT !.config = ConfigOf(b)]
          BY <3>9, <4>2 DEF t2, Rest
        <4>5. [b EXCEPT !.config = ConfigOf(b)] = b
          BY <1>5, <4>1 DEF DiskMade
        <4> QED
          BY <3>8, <4>3, <4>4, <4>5
      <3>10. CASE c.ok
        <4>1. /\ y.config = c.text /\ y.exclude = Excluded(x, in) /\ y.hook = HookOf(x, in) /\ y.git = x.git
              /\ (in.agent \/ y.skill = x.skill)
              /\ (in.agent /\ ~PS!Parses(c.text) => y = Hooked(x, in))
          <5>1. CASE y = Hooked(x, in)
            BY <1>6, <5>1 DEF Fields
          <5>2. CASE y = Skilled(x, in) /\ (in.agent => PS!Parses(c.text))
            BY <1>6, <1>7, <5>2 DEF Fields, SkillOf
          <5> QED
            BY <3>2, <3>10, <5>1, <5>2
        <4>2. /\ Configured(y, in0) = c /\ Excluded(y, in0) = Excluded(x, in) /\ HookOf(y, in0) = HookOf(x, in)
              /\ Configured(x, in0) = c /\ Excluded(x, in0) = Excluded(x, in) /\ HookOf(x, in0) = HookOf(x, in)
          BY <1>2, <1>13, <3>10, <4>1, ConfiguredAgain DEF c
        <4>3. CASE in.agent /\ ~PS!Parses(c.text)
          <5>1. t1.disk = Hooked(x, in0) /\ t2.disk = Hooked(y, in0)
            BY <1>11, <3>10, <4>2, <4>3 DEF t1, t2, Rest
          <5>2. /\ DiskMade(Hooked(x, in0)) /\ DiskMade(Hooked(y, in0))
                /\ Hooked(x, in0).config = c.text /\ Hooked(y, in0).config = c.text
                /\ Hooked(x, in0).exclude = Hooked(y, in0).exclude /\ Hooked(x, in0).hook = Hooked(y, in0).hook
                /\ \A f \in Fields \ {"config", "exclude", "hook"} : Hooked(x, in0)[f] = x[f] /\ Hooked(y, in0)[f] = y[f]
            BY <1>2, <3>3, <4>2, HookedIs
          <5>3. \A f \in Fields \ {"config", "exclude", "hook"} : y[f] = x[f]
            BY <1>6, <4>1, <4>3
          <5>4. \A f \in Fields : Hooked(x, in0)[f] = Hooked(y, in0)[f]
            BY <5>2, <5>3 DEF Fields
          <5>5. Hooked(x, in0) = Hooked(y, in0)
            BY <5>2, <5>4, SameDisk
          <5> QED
            BY <3>8, <5>1, <5>5
        <4>4. CASE in.agent => PS!Parses(c.text)
          <5> DEFINE e1 == t1.disk
                     e2 == t2.disk
          <5>1. t1.code = "ok" /\ t2.code = "ok"
            <6>1. /\ in0.url # "invalid" /\ (in0.agent => in.agent) /\ in0.fails = {}
                  /\ Configured(x, in0) = c /\ Configured(y, in0) = c /\ c.ok
              BY <1>10, <1>11, <3>10, <4>2
            <6>2. \A e : DiskMade(e) /\ Configured(e, in0) = c => Rest(e, in0).code = "ok"
              BY <4>4, <6>1, RestOk
            <6> QED
              BY <1>2, <3>3, <6>1, <6>2 DEF t1, t2
          <5>2. /\ DiskMade(e1)
                /\ e1.config = c.text /\ e1.exclude = Excluded(x, in) /\ e1.hook = HookOf(x, in)
                /\ e1.skill = SkillOf(x, in0) /\ e1.url = UrlOf(x, in0)
                /\ e1.asset = (IF Own(x, in) /\ x.asset = "none" THEN "a" ELSE x.asset)
                /\ e1.store = (IF Own(x, in) THEN "project" ELSE x.store)
                /\ e1.link = (IF x.docs /\ x.link = "none" /\ x.target THEN "valid" ELSE x.link)
                /\ \A f \in {"git", "bin", "docs", "target", "scope", "registry", "docsHook", "seen", "similarity"} : e1[f] = x[f]
            BY <1>2, <1>13, <4>2, <5>1, RestOk DEF t1
          <5>3. /\ DiskMade(e2)
                /\ e2.config = c.text /\ e2.exclude = Excluded(x, in) /\ e2.hook = HookOf(x, in)
                /\ e2.skill = SkillOf(y, in0) /\ e2.url = UrlOf(y, in0)
                /\ e2.asset = (IF Own(y, in) /\ y.asset = "none" THEN "a" ELSE y.asset)
                /\ e2.store = (IF Own(y, in) THEN "project" ELSE y.store)
                /\ e2.link = (IF y.docs /\ y.link = "none" /\ y.target THEN "valid" ELSE y.link)
                /\ \A f \in {"git", "bin", "docs", "target", "scope", "registry", "docsHook", "seen", "similarity"} : e2[f] = y[f]
            BY <1>13, <3>3, <4>2, <5>1, RestOk DEF t2
          <5> HIDE DEF e1, e2
          <5>4. /\ y.asset = x.asset /\ y.store = x.store /\ y.link = x.link /\ y.docs = x.docs /\ y.target = x.target
                /\ y.url = x.url
                /\ \A f \in {"git", "bin", "docs", "target", "scope", "registry", "docsHook", "seen", "similarity"} : y[f] = x[f]
            BY <3>4 DEF Fields
          <5>5. Own(y, in) = Own(x, in)
            BY <5>4 DEF Own
          <5>6. SkillOf(y, in0) = SkillOf(x, in0)
            BY <1>10, <1>11, <4>1 DEF SkillOf, PS!ReplaceSkill
          <5>7. UrlOf(y, in0) = UrlOf(x, in0)
            BY <1>10, <5>4 DEF UrlOf
          <5>8. \A f \in Fields : e1[f] = e2[f]
            BY <5>2, <5>3, <5>4, <5>5, <5>6, <5>7 DEF Fields
          <5>9. e1 = e2
            BY <5>2, <5>3, <5>8, SameDisk
          <5> QED
            BY <3>8, <5>9 DEF e1, e2
        <4> QED
          BY <4>3, <4>4
      <3> QED
        BY <3>2, <3>9, <3>10
    <2> QED
      BY <2>1, <2>2
  <1> QED
    BY <1>1, <1>9, <1>15 DEF PS!InitRespects, r, y, in0, OneToOne
=============================================================================
