--------------------------- MODULE MCAdvisoryLock ---------------------------
(* AdvisoryLock on small instances: where processes may die.                *)
EXTENDS AdvisoryLock, TLC

Anywhere == Points \ {"dead"}
\* Not between the complete guard and its removal.
OutsideGuard == Anywhere \ Guarded
\* Claiming and using the guard, before a lock file of one's own exists.
BeforeLock == Claiming \cup {"lockRead", "lockExists", "lockCreate"}

\* Deaths that leave a lock, or a guard, but never both.
OneFileLeft == {OutsideGuard, BeforeLock}
AnyDeath == {Anywhere}
NoDeath == {{}}

Symmetry == Permutations(Processes)
=============================================================================
