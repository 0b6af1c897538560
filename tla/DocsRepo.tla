------------------------------ MODULE DocsRepo ------------------------------
(***************************************************************************)
(* The shared docs-repo as the coordination service uses it                *)
(* (internal/evidence/adapter/docsrepo): one branch of a Git remote that   *)
(* agents push their documents to, and the worktree of the service, which  *)
(* only commits the files it owns.  In local mode (Local) the worktree     *)
(* itself is what agents commit into and there is no remote.               *)
(*                                                                         *)
(* A commit is its position in heads, which keeps the agents' documents    *)
(* at every commit; log is the content of the service-owned files at the   *)
(* last one (only the service writes them, so older contents are           *)
(* prefixes).  One mutex serialises every operation on the worktree: reads *)
(* are one action each, an owned write holds the mutex from its commit to  *)
(* its last check while agents keep pushing.                               *)
(***************************************************************************)
EXTENDS Naturals, Sequences

CONSTANTS Files,        \* service-owned files
          Docs,         \* agent-owned documents
          Editable,     \* the documents agents change during a run
          Versions,     \* contents of an agent-owned document
          Writers,      \* request slots of the service
          Local,        \* TRUE: no remote, agents share the worktree
          PushAttempts, \* maxServicePushAttempts
          None,         \* no draft, no mutex owner
          Dirty,        \* uncommitted changes left in the worktree
          MaxHeads      \* bound: commits on the branch

ASSUME DocsAssumption ==
    /\ Editable \subseteq Docs
    /\ Local \in BOOLEAN
    /\ PushAttempts \in Nat \ {0}
    /\ MaxHeads \in Nat \ {0}

VARIABLES heads,   \* agents' documents at each commit of the branch
          log,     \* service-owned files at the last commit of the branch
          local,   \* the commit the worktree is at, or its draft's parent
          draft,   \* the service's commit that is not on the branch yet
          mu,      \* who holds Authority.mu across steps
          stage    \* how far each slot's owned write has come

docsVars == <<heads, log, local, draft, mu, stage>>

Last(s) == s[Len(s)]

Stages == {"idle", "push", "rebase", "sync", "ok", "error"}
Write(s, n) == [at |-> s, attempt |-> n]

\* ensureSynchronized: HEAD equals the remote branch (always so in local mode).
Synchronized == Local \/ (draft \in {None, Dirty} /\ local = Len(heads))

\* A read of the worktree at HEAD: the mutex is free and HEAD is the branch.
CanRead == mu = None /\ Synchronized

\* Documents and files at HEAD, for a read that found it synchronized.
DocAtStart(d) == heads[1][d]
DocAt(d) == heads[Len(heads)][d]

\* validateRefreshHead with allowServiceDescendants, refreshLocal: a later
\* commit than the advertised one may differ in service-owned files only;
\* local mode only asks for an ancestor.
DescendantsAllowed(head) == Local \/ heads[head] = Last(heads)

\* The worktree can be fast-forwarded to the branch: nothing uncommitted and no
\* commit of its own (advanceWorktree, syncBeforeOwnedWrite).
CanAdvance == mu = None /\ (Local \/ draft = None)
FastForward == local' = Len(heads)

\* refreshFromRemoteWithServiceDescendants for an advertised head.  Local mode
\* asks for no clean worktree; the service's own draft cannot exist there.
Refresh(head) ==
    /\ CanAdvance
    /\ DescendantsAllowed(head)
    /\ FastForward
    /\ UNCHANGED <<heads, log, draft, mu, stage>>

-----------------------------------------------------------------------------
(* An owned write: prepareOwnedMutation, publishOwnedFile, pushOwnedCommit. *)

\* Clean worktree, fast-forward, write the file, commit it.  In local mode the
\* commit is on the branch at once.
Commit(w, f, content) ==
    /\ mu = None
    /\ draft = None
    /\ Len(heads) < MaxHeads
    /\ IF Local
         THEN /\ heads' = Append(heads, Last(heads))
              /\ log' = [log EXCEPT ![f] = content]
              /\ local' = Len(heads) + 1
              /\ stage' = [stage EXCEPT ![w] = Write("ok", 0)]
              /\ UNCHANGED <<draft, mu>>
         ELSE /\ FastForward
              /\ draft' = [file |-> f, content |-> content]
              /\ mu' = w
              /\ stage' = [stage EXCEPT ![w] = Write("push", 1)]
              /\ UNCHANGED <<heads, log>>

\* The write found its record already there: nothing to commit.
NothingToCommit(w) ==
    /\ mu = None
    /\ draft = None
    /\ FastForward
    /\ stage' = [stage EXCEPT ![w] = Write("ok", 0)]
    /\ UNCHANGED <<heads, log, draft, mu>>

\* The remote takes the push: HEAD descends from the branch.
Publish ==
    /\ local = Len(heads)
    /\ IF draft = None
         THEN UNCHANGED <<heads, log, local>>
         ELSE /\ Len(heads) < MaxHeads
              /\ heads' = Append(heads, Last(heads))
              /\ log' = [log EXCEPT ![draft.file] = draft.content]
              /\ local' = Len(heads) + 1
    /\ draft' = None

PushOk(w) ==
    /\ stage[w].at = "push"
    /\ Publish
    /\ stage' = [stage EXCEPT ![w].at = "sync"]
    /\ UNCHANGED mu

\* After a failed push: another attempt after a rebase, or give up and leave
\* the commit in the worktree.
AfterGiveUpAck(n) == IF n < PushAttempts THEN "rebase" ELSE "ok"
AfterFailedPush(n) == IF n < PushAttempts THEN "rebase" ELSE "error"

FailPush(w) ==
    LET next == AfterFailedPush(stage[w].attempt)
    IN  /\ stage' = [stage EXCEPT ![w].at = next]
        /\ mu' = IF next = "rebase" THEN w ELSE None

\* The remote refuses the push, or is not reached.
PushRejected(w) ==
    /\ stage[w].at = "push"
    /\ FailPush(w)
    /\ UNCHANGED <<heads, log, local, draft>>

\* The remote takes the push and the answer is lost.
PushUnanswered(w) ==
    /\ stage[w].at = "push"
    /\ Publish
    /\ FailPush(w)

RebaseUncounted(w) ==
    /\ stage[w].at = "rebase"
    /\ FastForward
    /\ stage' = [stage EXCEPT ![w].at = "push"]
    /\ UNCHANGED <<heads, log, draft, mu>>

\* rebaseOntoRemote: the draft, if it is not on the branch, moves on top of it.
Rebase(w) ==
    /\ stage[w].at = "rebase"
    /\ FastForward
    /\ stage' = [stage EXCEPT ![w] = Write("push", stage[w].attempt + 1)]
    /\ UNCHANGED <<heads, log, draft, mu>>

RebaseFailsLocked(w) ==
    /\ stage[w].at = "rebase"
    /\ stage' = [stage EXCEPT ![w].at = "error"]
    /\ UNCHANGED <<heads, log, local, draft, mu>>

\* The remote is not reached for the rebase: the commit stays in the worktree.
RebaseFails(w) ==
    /\ stage[w].at = "rebase"
    /\ stage' = [stage EXCEPT ![w].at = "error"]
    /\ mu' = None
    /\ UNCHANGED <<heads, log, local, draft>>

\* The final ensureSynchronized: agents may have pushed in the meantime.
ConfirmSync(w) ==
    /\ stage[w].at = "sync"
    /\ stage' = [stage EXCEPT ![w].at = IF Synchronized THEN "ok" ELSE "error"]
    /\ mu' = None
    /\ UNCHANGED <<heads, log, local, draft>>

\* The remote cannot be asked for its head.
SyncUnanswered(w) ==
    /\ stage[w].at = "sync"
    /\ stage' = [stage EXCEPT ![w].at = "error"]
    /\ mu' = None
    /\ UNCHANGED <<heads, log, local, draft>>

WriteStep(w) ==
    \/ PushOk(w) \/ PushRejected(w) \/ PushUnanswered(w)
    \/ Rebase(w) \/ RebaseFails(w) \/ ConfirmSync(w) \/ SyncUnanswered(w)

-----------------------------------------------------------------------------
(* What happens to the docs-repo from outside the service.                  *)

\* An agent pushes (or, in local mode, commits) a change to its document.
AgentPush(d, v) ==
    /\ Len(heads) < MaxHeads
    /\ DocAt(d) # v
    /\ heads' = Append(heads, [Last(heads) EXCEPT ![d] = v])
    /\ local' = IF Local THEN Len(heads) + 1 ELSE local
    /\ UNCHANGED <<log, draft, mu, stage>>

\* An operator synchronises a worktree the service refuses to work on.
OperatorReset ==
    /\ mu = None
    /\ draft # None
    /\ draft' = None
    /\ FastForward
    /\ UNCHANGED <<heads, log, mu, stage>>

DocsInit ==
    /\ local = Len(heads)
    /\ draft = None
    /\ mu = None
    /\ stage = [w \in Writers |-> Write("idle", 0)]
=============================================================================
