-------------------------------- MODULE Seeding --------------------------------
(***************************************************************************)
(* `bivouac session start` and `bivouac session pull` of one session       *)
(* (cmd/run_session.go, internal/lifecycle/start.go, pull.go, rescue.go):  *)
(* the repository made on the instance and the user's HEAD pushed to it,   *)
(* the remote and the worktree that track it, and the way the agent's work *)
(* comes back. Starts exclude each other by the session lock; pull takes   *)
(* no lock, and either may die between any two of its commands.            *)
(***************************************************************************)
EXTENDS Integers, FiniteSets

CONSTANTS
  Command,    \* the processes that run a command
  MaxHead,    \* bound: commits on the user's branch
  MaxWork,    \* bound: commits of the session
  MaxEdits,   \* bound: edits of the agent
  MaxFaults   \* bound: commands that die or fail half-way

SeedingAssumption == {MaxHead, MaxWork, MaxEdits, MaxFaults} \subseteq Nat /\ MaxHead > 0

VARIABLES
  head,    \* commits on the user's branch, which only grows
  record,  \* the base the state file has of the session (0: no session)
  lock,    \* the start that holds the session lock
  repo,    \* the session's repository on the instance
  mirror,  \* what the user's repository has of it
  cmd,     \* where each process is
  edits, faults

vars == <<head, record, lock, repo, mirror, cmd, edits, faults>>

\* A history is the user's commits up to base and the session's own on top; an
\* edit is one of edits numbered, and edited those that some commit holds.
None == [base |-> 0, work |-> 0]
Idle == [pc |-> "idle", tip |-> None, base |-> 0, dirty |-> {}]

Init ==
  /\ head = 1 /\ record = 0 /\ lock = {}
  /\ repo = [made |-> FALSE, identity |-> FALSE, tip |-> None, out |-> FALSE,
             dirty |-> {}, edited |-> {}, invented |-> FALSE]
  /\ mirror = [remote |-> FALSE, ref |-> None, edited |-> {},
               there |-> FALSE, branch |-> None, own |-> FALSE]
  /\ cmd = [c \in Command |-> Idle] /\ edits = 0 /\ faults = 0

At(c, pc) == cmd[c].pc = pc
Goto(c, pc) == cmd' = [cmd EXCEPT ![c].pc = pc]
Ends(c) == cmd' = [cmd EXCEPT ![c] = Idle] /\ lock' = lock \ {c}

\* t is n or a descendant of it: the session's own commits all sit on one base.
Contains(t, n) == IF n.work = 0 THEN n.base <= t.base ELSE n.base = t.base /\ n.work <= t.work

-------------------------------------------------------------------------------
(* session start *)

\* Both locks, the record read again, and HeadCommit.
StartBegins(c) ==
  /\ At(c, "idle") /\ lock = {} /\ lock' = {c}
  /\ cmd' = [cmd EXCEPT ![c] = [Idle EXCEPT !.pc = "prepare", !.base = head]]
  /\ UNCHANGED <<head, record, repo, mirror, edits, faults>>

SameStart(c) == record \in {0, cmd[c].base}

\* PrepareSessionStart, under Store.Update: before anything is created.
Prepares(c) ==
  /\ At(c, "prepare")
  /\ IF SameStart(c)
     THEN record' = cmd[c].base /\ Goto(c, "init") /\ UNCHANGED lock
     ELSE Ends(c) /\ UNCHANGED record
  /\ UNCHANGED <<head, repo, mirror, edits, faults>>

\* Mutant of AfterInit: the identity is left for later.
NoIdentity == "push"
AfterInit == "identity"

\* git init, a no-op on a repository that is there.
MakesRepo(c) ==
  /\ At(c, "init") /\ repo' = [repo EXCEPT !.made = TRUE] /\ Goto(c, AfterInit)
  /\ UNCHANGED <<head, record, lock, mirror, edits, faults>>

SetsIdentity(c) ==
  /\ At(c, "identity") /\ repo' = [repo EXCEPT !.identity = TRUE] /\ Goto(c, "push")
  /\ UNCHANGED <<head, record, lock, mirror, edits, faults>>

\* What is pushed is the HEAD of now, which no lock of bivouac holds still.
Pushed == [base |-> head, work |-> 0]

\* Mutant of Accepts: the push is forced.
Forced == TRUE
\* git refuses what is no fast-forward, and any change of a checked-out branch.
Accepts == Contains(Pushed, repo.tip) /\ (repo.out => repo.tip = Pushed)

Pushes(c) ==
  /\ At(c, "push")
  /\ IF Accepts
     THEN repo' = [repo EXCEPT !.tip = Pushed] /\ Goto(c, "checkout") /\ UNCHANGED lock
     ELSE Ends(c) /\ UNCHANGED repo
  /\ UNCHANGED <<head, record, mirror, edits, faults>>

\* Checking out gives the agent its files; TASK.md, the instructions and the
\* issues follow it here, and a failure of theirs is a warning.
ChecksOut(c) ==
  /\ At(c, "checkout") /\ repo' = [repo EXCEPT !.out = TRUE] /\ Goto(c, "drop")
  /\ UNCHANGED <<head, record, lock, mirror, edits, faults>>

\* trackSession: a stale remote goes first, and its refs with it.
DropsRemote(c) ==
  /\ At(c, "drop") /\ Goto(c, "add")
  /\ mirror' = [mirror EXCEPT !.remote = FALSE, !.ref = None]
  /\ UNCHANGED <<head, record, lock, repo, edits, faults>>

AddsRemote(c) ==
  /\ At(c, "add") /\ mirror' = [mirror EXCEPT !.remote = TRUE] /\ Goto(c, "track")
  /\ UNCHANGED <<head, record, lock, repo, edits, faults>>

FetchesNew(c) ==
  /\ At(c, "track") /\ mirror.remote
  /\ mirror' = [mirror EXCEPT !.ref = repo.tip, !.edited = repo.edited] /\ Goto(c, "worktree")
  /\ UNCHANGED <<head, record, lock, repo, edits, faults>>

MakesTree == ~mirror.there

\* worktree add -B: the local branch moves to what was fetched, whatever it held.
AddsWorktree(c) ==
  /\ At(c, "worktree") /\ Ends(c)
  /\ mirror' = IF MakesTree
               THEN [mirror EXCEPT !.there = TRUE, !.branch = mirror.ref, !.own = FALSE]
               ELSE mirror
  /\ UNCHANGED <<head, record, repo, edits, faults>>

Starts(c) == Prepares(c) \/ MakesRepo(c) \/ SetsIdentity(c) \/ Pushes(c) \/ ChecksOut(c)
             \/ DropsRemote(c) \/ AddsRemote(c) \/ FetchesNew(c) \/ AddsWorktree(c)

-------------------------------------------------------------------------------
(* session pull: RescueSession, then the worktree *)

PullBegins(c) ==
  /\ At(c, "idle") /\ record # 0
  /\ cmd' = [cmd EXCEPT ![c] = [Idle EXCEPT !.pc = "checkpoint"]]
  /\ UNCHANGED <<head, record, lock, repo, mirror, edits, faults>>

\* A commit on the instance: with the user's identity, or one git makes up.
Committed == [repo EXCEPT !.tip.work = @ + 1, !.edited = @ \cup repo.dirty, !.dirty = {},
                          !.invented = @ \/ ~repo.identity]

\* Mutant of Checkpointed: what the agent did not commit is left where it is.
NoCheckpoint == repo
Checkpointed == IF repo.out /\ repo.dirty # {} THEN Committed ELSE repo

Checkpoints(c) ==
  /\ At(c, "checkpoint")
  /\ IF repo.made
     THEN /\ repo' = Checkpointed
          /\ cmd' = [cmd EXCEPT ![c].pc = "tip", ![c].dirty = repo.edited \cup repo.dirty]
          /\ UNCHANGED lock
     ELSE Ends(c) /\ UNCHANGED repo
  /\ UNCHANGED <<head, record, mirror, edits, faults>>

\* rev-parse of the branch, then the stored address of the remote.
ReadsTip(c) ==
  /\ At(c, "tip")
  /\ IF repo.tip # None /\ mirror.remote
     THEN cmd' = [cmd EXCEPT ![c].pc = "fetch", ![c].tip = repo.tip] /\ UNCHANGED lock
     ELSE Ends(c)
  /\ UNCHANGED <<head, record, repo, mirror, edits, faults>>

Fetches(c) ==
  /\ At(c, "fetch")
  /\ IF mirror.remote
     THEN /\ mirror' = [mirror EXCEPT !.ref = repo.tip, !.edited = repo.edited]
          /\ Goto(c, "forward") /\ UNCHANGED lock
     ELSE Ends(c) /\ UNCHANGED mirror
  /\ UNCHANGED <<head, record, repo, edits, faults>>

\* merge --ff-only: a worktree with commits of the user's own is left alone.
Forwarded ==
  IF mirror.there /\ ~mirror.own /\ Contains(mirror.ref, mirror.branch)
  THEN [mirror EXCEPT !.branch = mirror.ref] ELSE mirror

Forwards(c) ==
  /\ At(c, "forward") /\ Ends(c)
  /\ mirror' = Forwarded
  /\ UNCHANGED <<head, record, repo, edits, faults>>

Pulls(c) == Checkpoints(c) \/ ReadsTip(c) \/ Fetches(c) \/ Forwards(c)

-------------------------------------------------------------------------------
\* A lost connection, a failed fetch or an interrupt: the locks are the kernel's.
Dies(c) ==
  /\ ~At(c, "idle") /\ faults < MaxFaults /\ faults' = faults + 1
  /\ Ends(c) /\ UNCHANGED <<head, record, repo, mirror, edits>>

AgentEdits ==
  /\ repo.out /\ edits < MaxEdits /\ edits' = edits + 1
  /\ repo' = [repo EXCEPT !.dirty = @ \cup {edits'}]
  /\ UNCHANGED <<head, record, lock, mirror, cmd, faults>>

AgentCommits ==
  /\ repo.out /\ repo.dirty # {} /\ repo.tip.work < MaxWork
  /\ repo' = Committed
  /\ UNCHANGED <<head, record, lock, mirror, cmd, edits, faults>>

UserCommits ==
  /\ head < MaxHead /\ head' = head + 1
  /\ UNCHANGED <<record, lock, repo, mirror, cmd, edits, faults>>

\* The user works in the session's worktree.
UserWorksInTree ==
  /\ mirror.there /\ ~mirror.own
  /\ mirror' = [mirror EXCEPT !.own = TRUE]
  /\ UNCHANGED <<head, record, lock, repo, cmd, edits, faults>>

UserRemovesTree ==
  /\ mirror.there /\ faults < MaxFaults /\ faults' = faults + 1
  /\ mirror' = [mirror EXCEPT !.there = FALSE]
  /\ UNCHANGED <<head, record, lock, repo, cmd, edits>>

Next == \/ \E c \in Command : StartBegins(c) \/ PullBegins(c) \/ Starts(c) \/ Pulls(c) \/ Dies(c)
        \/ AgentEdits \/ AgentCommits \/ UserCommits \/ UserWorksInTree
        \/ UserRemovesTree

Spec == Init /\ [][Next]_vars

-------------------------------------------------------------------------------
(* Properties *)

\* No commit of the session is by an author git made up: not even a pull that
\* runs into an interrupted start commits before the identity is set.
NoInventedAuthor == ~repo.invented

\* Neither a repeated start nor anything else takes a commit out of the
\* session's branch.
Keeping == Contains(repo'.tip, repo.tip)

\* What a pull found in the checkout, committed or not, is in the user's
\* repository when it succeeds.
Pulling == \A c \in Command : Forwards(c) => cmd[c].dirty \subseteq mirror'.edited
================================================================================
