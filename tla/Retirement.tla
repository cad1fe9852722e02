------------------------------ MODULE Retirement ------------------------------
(***************************************************************************)
(* Retiring one session (`bivouac session merge` and `session delete`),    *)
(* internal/lifecycle/retirement*.go, together with what it races:         *)
(* the agent and its writers on the instance, the user in the destination  *)
(* checkout and in the session worktree, `bivouac attach`                  *)
(* (herdrownership.go), and a crash or a failed call at every step.        *)
(*                                                                         *)
(* Commits of the session are numbers in the order they are made; a branch *)
(* is the set of commits on it, so "is an ancestor of" is set inclusion.   *)
(* Commands on the session run under its exclusive lock, so one program    *)
(* counter `pc` stands for whichever command holds the lock.               *)
(***************************************************************************)
EXTENDS Integers, Sequences, FiniteSets

CONSTANTS
  MaxCommits,      \* bound: commits ever made on the session
  MaxAttachments,  \* bound: Herdr workspaces attach ever records
  MaxFaults,       \* bound: crashes, failed calls and replay conflicts
  MaxMoves,        \* bound: times the user moves the destination by hand
  Operations,      \* the <<operation, force>> pairs the user asks for
  DropsStopped     \* the user may abort a cherry-pick and commit on without it

ASSUME BoundsAssumption ==
  /\ MaxCommits \in Nat /\ MaxAttachments \in Nat
  /\ MaxFaults \in Nat /\ MaxMoves \in Nat
ASSUME OperationsAssumption ==
  Operations \subseteq {<<"merge", FALSE>>, <<"delete", FALSE>>, <<"delete", TRUE>>}
ASSUME DropsStoppedAssumption == DropsStopped \in BOOLEAN

Commit == 1..MaxCommits
Attachment == 1..MaxAttachments

\* Mutant of EffectOrder: the branch goes before the worktree that has it.
EffectOrderBranchFirst ==
  <<"remote-checkout", "git-branch", "local-worktree", "beads-remote",
    "git-remote", "replay-journal">>
EffectOrder == <<"remote-checkout", "local-worktree", "beads-remote",
                 "git-remote", "git-branch", "replay-journal">>
EffectKey == {"remote-checkout", "local-worktree", "beads-remote",
              "git-remote", "git-branch", "replay-journal"}
LastEffect == 6
Status == {"none", "intended", "done"}

\* HEAD of the destination checkout: the session commits whose change is on
\* it, and how often the user moved it by hand (a move is a different commit).
DestHead == [landed : SUBSET Commit, moves : 0..MaxMoves]

\* The replay journal of a conflict: the commit it stopped on, the session tip
\* it was replaying, and whether the destination has moved on since.
Stop == [commit : 0..MaxCommits, ref : SUBSET Commit, moved : BOOLEAN]
NoStop == [commit |-> 0, ref |-> {}, moved |-> FALSE]

\* state.Acceptance; discard is the source tip "discard-authorised".
Acceptance == [discard : BOOLEAN, tip : SUBSET Commit, head : DestHead]

VARIABLES
  (* The session's record in state.json *)
  live,      \* the session is active; FALSE once a receipt replaced it
  op,        \* Retirement.Operation, "none" before any intent
  force,     \* Retirement.Force
  phase,     \* Retirement.Phase, "none" before any intent
  failure,   \* Retirement.LastFailure is set
  accepted,  \* Retirement.Accepted
  fx,        \* Retirement.Effects, the cleanup effects
  herdrFx,   \* Retirement.Effects, the "herdr:<id>" keys
  att,       \* Session.Attachments, by position
  (* The instance, the user's machine and the Herdr servers *)
  made,      \* commits made so far
  tip,       \* the session branch on the instance
  dirty,     \* uncommitted work in the instance checkout (0: none)
  head,      \* HEAD of the destination checkout
  picking,   \* the commit of a cherry-pick left open there (0: none)
  stopped,   \* the replay journal, of the last conflict
  branch,    \* the local session branch, as the user and pull left it
  wtDirty,   \* uncommitted edits in the session worktree (0: none)
  present,   \* which of the things cleanup removes still exist
  ws,        \* each attachment's workspace on its Herdr server
  pane,      \* the recorded proof still names a live pane of it
  stray,     \* a workspace attach created and no record names any more
  slipped,   \* an attach died between naming its workspace and recording that
  (* The running commands *)
  pc, k, failed,  \* the command under the session lock, its loop, its errors
  ref,            \* the session tip its rescue fetched
  skip,           \* the commit its replay takes to be resolved by hand
  closed,         \* no workspace was open when it began, after an acceptance
  layout,         \* the attachment whose proof an attach is about to refresh
  faults

record == <<live, op, force, phase, failure, accepted, fx, herdrFx>>
source == <<made, tip, dirty>>
dest == <<head, picking, stopped>>
local == <<branch, wtDirty>>
herdr == <<ws, pane, stray, slipped>>
loop == <<k, failed, ref, skip, closed>>
vars == <<record, att, source, dest, local, present, herdr,
          pc, loop, layout, faults>>

-------------------------------------------------------------------------------
(* Reading the record *)

Last == accepted[Len(accepted)]
HasAccepted == accepted # <<>>
\* Mutant of Open: an attachment still being created is overlooked.
OpenIfActive(a) == att[a].phase = "active"
Open(a) == att[a].phase \in {"creating", "active"}
NoEffects == (\A e \in EffectKey : fx[e] = "none") /\ (\A a \in Attachment : herdrFx[a] = "none")
EffectsDone == /\ \A e \in EffectKey : fx[e] = "done"
               /\ \A a \in Attachment : att[a].phase # "none" => herdrFx[a] = "done"

\* Mutant of Replaceable: evidence and effects are not looked at.
ReplaceableWhilePaused == phase \in {"checking", "paused"}

\* An intent that protects nothing yet: it may be replaced by another one.
Replaceable == phase \in {"checking", "paused"} /\ ~HasAccepted /\ NoEffects

\* appendAcceptance: evidence for a tip seen before replaces it in place.
SameTip(a, b) == a.discard = b.discard /\ (a.discard \/ a.tip = b.tip)
AppendAcceptance(list, a) ==
  IF \E i \in 1..Len(list) : SameTip(list[i], a)
  THEN [i \in 1..Len(list) |-> IF SameTip(list[i], a) THEN a ELSE list[i]]
  ELSE Append(list, a)

\* Mutant of Entry: the phase is taken for the step that serves it.
EntryByName(ph) == IF ph = "checking" THEN "check" ELSE ph

\* Where a command holding this record starts or resumes.
Entry(ph) == CASE ph \in {"checking", "paused", "final-check"} -> "check"
               [] ph = "closing" -> "close"
               [] OTHER -> "validate"

NoLayout == [id |-> 0, read |-> FALSE]
Fault == faults < MaxFaults /\ faults' = faults + 1

-------------------------------------------------------------------------------
Init ==
  /\ live = TRUE /\ op = "none" /\ force = FALSE /\ phase = "none"
  /\ failure = FALSE /\ accepted = <<>>
  /\ fx = [e \in EffectKey |-> "none"]
  /\ herdrFx = [a \in Attachment |-> "none"]
  /\ att = [a \in Attachment |-> [phase |-> "none", handle |-> FALSE]]
  /\ made = 0 /\ tip = {} /\ dirty = 0
  /\ head = [landed |-> {}, moves |-> 0] /\ picking = 0 /\ stopped = NoStop
  /\ branch = {} /\ wtDirty = 0
  /\ present = [e \in EffectKey |-> TRUE]
  /\ ws = [a \in Attachment |-> "absent"]
  /\ pane = [a \in Attachment |-> FALSE] /\ stray = FALSE /\ slipped = FALSE
  /\ pc = "idle" /\ k = 1 /\ failed = FALSE /\ ref = {} /\ skip = 0
  /\ closed = FALSE
  /\ layout = NoLayout /\ faults = 0

-------------------------------------------------------------------------------
(* RetireSession: the intent *)

Enter(ph) ==
  /\ pc' = Entry(ph) /\ k' = 1 /\ failed' = FALSE /\ ref' = {} /\ skip' = 0
  /\ closed' = (accepted' # <<>> /\ \A a \in Attachment : ~Open(a))
  /\ UNCHANGED <<att, source, dest, local, present, herdr, layout, faults>>

\* No intent, or one that protects nothing: record this one.
BeginIntent(o, f) ==
  /\ pc = "idle" /\ live
  /\ op = "none" \/ (<<op, force>> # <<o, f>> /\ Replaceable)
  /\ op' = o /\ force' = f /\ phase' = "checking"
  /\ failure' = FALSE /\ accepted' = <<>>
  /\ fx' = [e \in EffectKey |-> "none"]
  /\ herdrFx' = [a \in Attachment |-> "none"]
  /\ UNCHANGED live
  /\ Enter("checking")

\* Raising force on a plain delete, until removal begins.
BeginRaise(o, f) ==
  /\ pc = "idle" /\ live
  /\ op = "delete" /\ o = "delete" /\ ~force /\ f
  /\ ~Replaceable /\ phase # "removing"
  /\ force' = TRUE
  /\ UNCHANGED <<live, op, phase, failure, accepted, fx, herdrFx>>
  /\ Enter(phase)

\* The same command again. Any other operation is refused: no action.
BeginResume(o, f) ==
  /\ pc = "idle" /\ live
  /\ <<op, force>> = <<o, f>>
  /\ UNCHANGED record
  /\ Enter(phase)

-------------------------------------------------------------------------------
(* The work check, retirement_work.go *)

\* Mutant of Pause: a failure during removal is an ordinary pause.
PauseAnywhere == phase' = "paused" /\ failure' = TRUE /\ pc' = "idle"

Pause ==
  /\ phase' = IF phase = "removing" THEN "removing" ELSE "paused"
  /\ failure' = TRUE
  /\ pc' = "idle"

\* Leaves the record's evidence alone, as every failed check does.
KeepEvidence == UNCHANGED <<live, op, force, accepted, fx, herdrFx>>

RescueReady == picking = 0 /\ wtDirty = 0

\* requireRetirementWorktreesClean, then RescueSession: checkpoint, fetch.
Rescue ==
  /\ pc = "check" /\ ~force
  /\ RescueReady
  /\ tip' = tip \cup ({dirty} \ {0}) /\ dirty' = 0
  /\ ref' = tip'
  /\ pc' = IF op = "merge" THEN "prior" ELSE "proof"
  /\ UNCHANGED <<record, att, made, dest, local, present, herdr, k, failed, skip, closed, layout, faults>>

\* What an earlier acceptance demands of a merge before it may go on.
PriorHolds == HasAccepted => head = Last.head /\ Last.tip \subseteq ref

\* resumeAt: a journal of this very tip whose destination has moved on says
\* the commit it stopped on was resolved and is there.
StartReplay ==
  /\ pc = "prior" /\ PriorHolds
  /\ skip' = IF stopped.ref = ref /\ stopped.moved THEN stopped.commit ELSE 0
  /\ pc' = "pick"
  /\ UNCHANGED <<record, att, source, dest, local, present, herdr, k, failed, ref, closed, layout, faults>>

\* Mutant of Todo: commits made after an acceptance are taken as accepted.
TodoIgnoresLateWork == (IF HasAccepted THEN {} ELSE ref) \ head.landed

\* The range replayed: past the tip already accepted. Commits on the
\* destination already are skipped (the replay journal, --empty=drop).
Todo == (IF HasAccepted THEN ref \ Last.tip ELSE ref) \ (head.landed \cup {skip})

Pick ==
  /\ pc = "pick"
  /\ \E c \in Todo : /\ \A d \in Todo : c <= d
                     /\ head' = [head EXCEPT !.landed = @ \cup {c}]
  /\ stopped' = NoStop
  /\ UNCHANGED <<record, att, source, picking, local, present, herdr, pc, loop, layout, faults>>

PickConflicts ==
  /\ pc = "pick" /\ Fault
  /\ \E c \in Todo : /\ \A d \in Todo : c <= d
                     /\ picking' = c
                     /\ stopped' = [commit |-> c, ref |-> ref, moved |-> FALSE]
  /\ Pause /\ KeepEvidence
  /\ UNCHANGED <<att, source, head, local, present, herdr, loop, layout>>

\* Evidence is stored and the phase moves on in one store update.
Accept(a) ==
  /\ accepted' = AppendAcceptance(accepted, a)
  /\ phase' = IF phase = "final-check" \/ closed THEN "removing" ELSE "closing"
  /\ failure' = FALSE
  /\ pc' = IF phase = "final-check" \/ closed THEN "validate" ELSE "close"
  /\ k' = 1
  /\ UNCHANGED <<live, op, force, fx, herdrFx>>
  /\ UNCHANGED <<att, source, dest, local, present, herdr, failed, ref, skip, closed, layout, faults>>

\* A merge whose whole range is on the destination and verified. A tip that
\* was accepted before is accepted again on the evidence it had.
AcceptMerge ==
  /\ pc = "pick" /\ Todo = {}
  /\ Accept([discard |-> FALSE, tip |-> ref, head |-> head])

DeleteProved == ref \subseteq head.landed /\ branch \subseteq head.landed

AcceptDelete ==
  /\ pc = "proof" /\ DeleteProved
  /\ Accept([discard |-> FALSE, tip |-> ref, head |-> head])

AcceptDiscard ==
  /\ pc = "check" /\ force
  /\ Accept([discard |-> TRUE, tip |-> {}, head |-> head])

\* A check that refuses: a dirty worktree, an open cherry-pick, evidence that
\* no longer holds, work that has not landed.
CheckRefuses ==
  /\ \/ pc = "check" /\ ~force /\ ~RescueReady
     \/ pc = "prior" /\ ~PriorHolds
     \/ pc = "proof" /\ ~DeleteProved
  /\ Pause /\ KeepEvidence
  /\ UNCHANGED <<att, source, dest, local, present, herdr, loop, layout, faults>>

\* A check that could not be made: instance unreachable, issues not synced,
\* a signature that does not verify. Commits replayed so far stay.
CheckFails ==
  /\ pc \in {"check", "prior", "pick", "proof", "validate"} /\ ~force /\ Fault
  /\ Pause /\ KeepEvidence
  /\ UNCHANGED <<att, source, dest, local, present, herdr, loop, layout>>

-------------------------------------------------------------------------------
(* Closing the session's workspaces *)

NextOpen(a) == a >= k /\ Open(a) /\ \A b \in k..(a - 1) : ~Open(b)

IntendClose ==
  /\ pc = "close"
  /\ \E a \in Attachment :
       /\ NextOpen(a)
       /\ k' = a
       /\ herdrFx' = [herdrFx EXCEPT ![a] = IF @ = "done" THEN @ ELSE "intended"]
  /\ pc' = "closing"
  /\ UNCHANGED <<live, op, force, phase, failure, accepted, fx>>
  /\ UNCHANGED <<att, source, dest, local, present, herdr, failed, ref, skip, closed, layout, faults>>

\* Mutant of Found: a workspace whose proof is stale passes for absent.
FoundIfProved(a) == att[a].handle /\ ws[a] # "absent" /\ pane[a]

\* CloseSessionAttachment looks the recorded handle up: without one there is
\* nothing to find, whatever is on the server.
Found(a) == att[a].handle /\ ws[a] # "absent"

\* Absent already, or proved to be ours and closed.
CloseWorkspace ==
  /\ pc = "closing"
  /\ Found(k) => pane[k]
  /\ ws' = [ws EXCEPT ![k] = IF Found(k) THEN "absent" ELSE @]
  /\ pc' = "closed"
  /\ UNCHANGED <<record, att, source, dest, local, present, pane, stray, slipped, loop, layout, faults>>

\* Open, and no longer shown to be ours: only a forced delete goes on.
LeaveUnproven ==
  /\ pc = "closing" /\ Found(k) /\ ~pane[k]
  /\ IF force THEN pc' = "closed" /\ UNCHANGED <<phase, failure>> ELSE Pause
  /\ KeepEvidence
  /\ UNCHANGED <<att, source, dest, local, present, herdr, loop, layout, faults>>

\* Herdr does not answer; a close may have been applied all the same.
CloseFails ==
  /\ pc = "closing" /\ Fault
  /\ \/ UNCHANGED ws
     \/ Found(k) /\ pane[k] /\ ws' = [ws EXCEPT ![k] = "absent"]
  /\ Pause /\ KeepEvidence
  /\ UNCHANGED <<att, source, dest, local, present, pane, stray, slipped, loop, layout>>

CompleteClose ==
  /\ pc = "closed" /\ att[k].handle
  /\ att' = [att EXCEPT ![k].phase = "closed"]
  /\ herdrFx' = [herdrFx EXCEPT ![k] = "done"]
  /\ k' = k + 1 /\ pc' = "close"
  /\ UNCHANGED <<live, op, force, phase, failure, accepted, fx>>
  /\ UNCHANGED <<source, dest, local, present, herdr, failed, ref, skip, closed, layout, faults>>

\* The store refuses a closed attachment with no handle (validateAttachment):
\* the command fails without recording a pause.
CloseRefusedByStore ==
  /\ pc = "closed" /\ ~att[k].handle
  /\ pc' = "idle"
  /\ UNCHANGED <<record, att, source, dest, local, present, herdr, loop, layout, faults>>

FinishClosing ==
  /\ pc = "close" /\ \A a \in Attachment : a >= k => ~Open(a)
  /\ phase' = "final-check" /\ pc' = "check"
  /\ UNCHANGED <<live, op, force, failure, accepted, fx, herdrFx>>
  /\ UNCHANGED <<att, source, dest, local, present, herdr, loop, layout, faults>>

-------------------------------------------------------------------------------
(* Cleanup, retirement_effects.go *)

StillHolds == Last.discard \/ head = Last.head

Validate ==
  /\ pc = "validate" /\ StillHolds
  /\ pc' = "effect" /\ k' = 1 /\ failed' = FALSE
  /\ UNCHANGED <<record, att, source, dest, local, present, herdr, ref, skip, closed, layout, faults>>

ValidateRefuses ==
  /\ pc = "validate" /\ ~StillHolds
  /\ Pause /\ KeepEvidence
  /\ UNCHANGED <<att, source, dest, local, present, herdr, loop, layout, faults>>

Key == EffectOrder[k]

SkipDone ==
  /\ pc = "effect" /\ k <= LastEffect /\ fx[Key] = "done"
  /\ k' = k + 1
  /\ UNCHANGED <<record, att, source, dest, local, present, herdr, pc, failed, ref, skip, closed, layout, faults>>

IntendEffect ==
  /\ pc = "effect" /\ k <= LastEffect /\ fx[Key] # "done"
  /\ fx' = [fx EXCEPT ![Key] = "intended"]
  /\ pc' = "apply"
  /\ UNCHANGED <<live, op, force, phase, failure, accepted, herdrFx>>
  /\ UNCHANGED <<att, source, dest, local, present, herdr, loop, layout, faults>>

\* Mutant of CheckoutMayGo: the tip is not compared again before rm.
CheckoutMayGoUncompared == force \/ dirty = 0
\* Mutant of CheckoutMayGo: a forced delete is held to the comparison too.
CheckoutMayGoCompared == tip = Last.tip /\ dirty = 0

\* The instance compares the tip and looks for uncommitted work before rm.
CheckoutMayGo == force \/ (tip = Last.tip /\ dirty = 0)

\* Mutant of MayRemove: the worktree goes with the edits in it.
MayRemoveAnyWorktree(e) == CASE e = "remote-checkout" -> CheckoutMayGo
                             [] e = "git-branch" -> ~present["local-worktree"]
                             [] OTHER -> TRUE

\* What each removal insists on while the thing is still there. A branch
\* checked out in a worktree cannot be deleted.
MayRemove(e) == CASE e = "remote-checkout" -> CheckoutMayGo
                  [] e = "local-worktree" -> force \/ wtDirty = 0
                  [] e = "git-branch" -> ~present["local-worktree"]
                  [] OTHER -> TRUE

\* Mutant of AfterRemoval: a failed rm on the instance is masked by tidying.
AfterMaskedRemoval(e) == [present EXCEPT ![e] = @ /\ e = "remote-checkout"]

AfterRemoval(e) == [present EXCEPT ![e] = FALSE]

ApplyEffect ==
  /\ pc = "apply"
  /\ present[Key] => MayRemove(Key)
  /\ present' = AfterRemoval(Key)
  /\ wtDirty' = IF Key = "local-worktree" THEN 0 ELSE wtDirty
  /\ pc' = "applied"
  /\ UNCHANGED <<record, att, source, dest, branch, herdr, loop, layout, faults>>

\* An effect that fails stops the command; a forced delete tries the others.
NextOrPause ==
  IF force
  THEN /\ k' = k + 1 /\ failed' = TRUE /\ pc' = "effect"
       /\ UNCHANGED <<phase, failure>>
  ELSE Pause /\ UNCHANGED <<k, failed>>

ApplyRefuses ==
  /\ pc = "apply" /\ present[Key] /\ ~MayRemove(Key)
  /\ NextOrPause /\ KeepEvidence
  /\ UNCHANGED <<att, source, dest, local, present, herdr, ref, skip, closed, layout, faults>>

\* Unreachable, or the reply is lost after the removal took place.
ApplyFails ==
  /\ pc = "apply" /\ Fault
  /\ \/ UNCHANGED <<present, wtDirty>>
     \/ /\ present[Key] /\ MayRemove(Key)
        /\ present' = AfterRemoval(Key)
        /\ wtDirty' = IF Key = "local-worktree" THEN 0 ELSE wtDirty
  /\ NextOrPause /\ KeepEvidence
  /\ UNCHANGED <<att, source, dest, branch, herdr, ref, skip, closed, layout>>

CompleteEffect ==
  /\ pc = "applied"
  /\ fx' = [fx EXCEPT ![Key] = "done"]
  /\ k' = k + 1 /\ pc' = "effect"
  /\ UNCHANGED <<live, op, force, phase, failure, accepted, herdrFx>>
  /\ UNCHANGED <<att, source, dest, local, present, herdr, failed, ref, skip, closed, layout, faults>>

EffectsPending ==
  /\ pc = "effect" /\ k > LastEffect /\ (failed \/ ~EffectsDone)
  /\ Pause /\ KeepEvidence
  /\ UNCHANGED <<att, source, dest, local, present, herdr, loop, layout, faults>>

\* Store.CompleteRetirement: the session gives way to a receipt.
CompleteRetirement ==
  /\ pc = "effect" /\ k > LastEffect /\ ~failed /\ EffectsDone
  /\ live' = FALSE /\ pc' = "idle"
  /\ UNCHANGED <<op, force, phase, failure, accepted, fx, herdrFx>>
  /\ UNCHANGED <<att, source, dest, local, present, herdr, loop, layout, faults>>

-------------------------------------------------------------------------------
(* bivouac attach: EnsureSessionAttachment, then RefreshWorkspaceProof *)

Attachable == live /\ phase \in {"none", "paused"}

\* Intent first; it also takes back whatever a paused retirement had proved.
AttachNew ==
  /\ pc = "idle" /\ Attachable
  /\ \E a \in Attachment :
       /\ att[a].phase = "none"
       /\ \A b \in Attachment : ~Open(b) /\ (b < a => att[b].phase # "none")
       /\ att' = [att EXCEPT ![a].phase = "creating"]
       /\ k' = a
  /\ IF phase = "paused"
     THEN /\ phase' = "checking" /\ failure' = FALSE
          /\ fx' = [e \in EffectKey |-> "none"]
     ELSE UNCHANGED <<phase, failure, fx>>
  /\ pc' = "create"
  /\ UNCHANGED <<live, op, force, accepted, herdrFx>>
  /\ UNCHANGED <<source, dest, local, present, herdr, failed, ref, skip, closed, layout, faults>>

AttachAgain ==
  /\ pc = "idle" /\ Attachable
  /\ \E a \in Attachment : att[a].phase = "creating" /\ k' = a
  /\ pc' = "create"
  /\ UNCHANGED <<record, att, source, dest, local, present, herdr, failed, ref, skip, closed, layout, faults>>

\* A workspace on record is shown to be ours and laid out again.
AttachActive ==
  /\ pc = "idle" /\ Attachable
  /\ \E a \in Attachment :
       /\ att[a].phase = "active" /\ ws[a] # "absent" /\ pane[a]
       /\ layout' = [id |-> a, read |-> FALSE]
  /\ UNCHANGED <<record, att, source, dest, local, present, herdr, pc, loop, faults>>

\* Adopt the workspace that still bears the intent label, or create one.
CreateWorkspace ==
  /\ pc = "create"
  /\ ws' = [ws EXCEPT ![k] = "intent"]
  /\ stray' = (stray \/ ws[k] = "named")
  /\ pc' = "save"
  /\ UNCHANGED <<record, att, source, dest, local, present, pane, slipped, loop, layout, faults>>

SaveHandle ==
  /\ pc = "save"
  /\ att' = [att EXCEPT ![k].handle = TRUE]
  /\ pane' = [pane EXCEPT ![k] = ws[k] = "intent"]
  /\ pc' = "rename"
  /\ UNCHANGED <<record, source, dest, local, present, ws, stray, slipped, loop, layout, faults>>

RenameWorkspace ==
  /\ pc = "rename" /\ ws[k] # "absent"
  /\ ws' = [ws EXCEPT ![k] = "named"]
  /\ pc' = "activate"
  /\ UNCHANGED <<record, att, source, dest, local, present, pane, stray, slipped, loop, layout, faults>>

\* The workspace is gone again, or Herdr fails: attach ends where it is.
RenameFails ==
  /\ pc = "rename" /\ ws[k] = "absent"
  /\ pc' = "idle"
  /\ UNCHANGED <<record, att, source, dest, local, present, herdr, loop, layout, faults>>

\* The lock is released here; laying out tabs goes on without it.
Activate ==
  /\ pc = "activate"
  /\ att' = [att EXCEPT ![k].phase = "active"]
  /\ layout' = [id |-> k, read |-> FALSE]
  /\ pc' = "idle"
  /\ UNCHANGED <<record, source, dest, local, present, herdr, loop, faults>>

ReadPanes ==
  /\ layout.id # 0 /\ ~layout.read
  /\ layout' = IF ws[layout.id] # "absent" THEN [layout EXCEPT !.read = TRUE]
                                            ELSE NoLayout
  /\ UNCHANGED <<record, att, source, dest, local, present, herdr, pc, loop, faults>>

\* Writes back the whole attachment as it was when the lock was released.
RefreshWorkspaceProof ==
  /\ layout.read
  /\ IF live
     THEN /\ att' = [att EXCEPT ![layout.id] = [phase |-> "active", handle |-> TRUE]]
          /\ pane' = [pane EXCEPT ![layout.id] = ws[layout.id] # "absent"]
     ELSE UNCHANGED <<att, pane>>
  /\ layout' = NoLayout
  /\ UNCHANGED <<record, source, dest, local, present, ws, stray, slipped, pc, loop, faults>>

-------------------------------------------------------------------------------
(* Everything around the commands *)

\* A crash, Ctrl-C, a lost answer to the rename, or a state write that fails:
\* nothing more is recorded.
Crash ==
  /\ pc # "idle" /\ Fault
  /\ pc' = "idle" /\ slipped' = (slipped \/ pc = "activate")
  /\ UNCHANGED <<record, att, source, dest, local, present, ws, pane, stray, loop, layout>>

AgentEdits ==
  /\ present["remote-checkout"] /\ dirty = 0 /\ made < MaxCommits
  /\ made' = made + 1 /\ dirty' = made'
  /\ UNCHANGED <<record, att, tip, dest, local, present, herdr, pc, loop, layout, faults>>

AgentCommits ==
  /\ present["remote-checkout"] /\ dirty # 0
  /\ tip' = tip \cup {dirty} /\ dirty' = 0
  /\ UNCHANGED <<record, att, made, dest, local, present, herdr, pc, loop, layout, faults>>

\* Amend or rebase: an earlier commit is replaced.
AgentRewrites ==
  /\ present["remote-checkout"] /\ dirty # 0
  /\ \E c \in tip : tip' = (tip \ {c}) \cup {dirty}
  /\ dirty' = 0
  /\ UNCHANGED <<record, att, made, dest, local, present, herdr, pc, loop, layout, faults>>

\* PullSession: rescue, then fast-forward the session worktree.
Pull ==
  /\ pc = "idle" /\ live
  /\ present["remote-checkout"] /\ present["local-worktree"]
  /\ tip' = tip \cup ({dirty} \ {0}) /\ dirty' = 0
  /\ branch' = IF branch \subseteq tip' THEN tip' ELSE branch
  /\ UNCHANGED <<record, att, made, dest, wtDirty, present, herdr, pc, loop, layout, faults>>

UserEditsWorktree ==
  /\ present["local-worktree"] /\ wtDirty = 0 /\ made < MaxCommits
  /\ made' = made + 1 /\ wtDirty' = made'
  /\ UNCHANGED <<record, att, tip, dirty, dest, branch, present, herdr, pc, loop, layout, faults>>

UserCommitsWorktree ==
  /\ wtDirty # 0
  /\ branch' = branch \cup {wtDirty} /\ wtDirty' = 0
  /\ UNCHANGED <<record, att, source, dest, present, herdr, pc, loop, layout, faults>>

UserCleansWorktree ==
  /\ wtDirty # 0 /\ wtDirty' = 0
  /\ UNCHANGED <<record, att, source, dest, branch, present, herdr, pc, loop, layout, faults>>

\* git cherry-pick --continue and --abort.
UserContinues ==
  /\ picking # 0
  /\ head' = [head EXCEPT !.landed = @ \cup {picking}] /\ picking' = 0
  /\ stopped' = [stopped EXCEPT !.moved = TRUE]
  /\ UNCHANGED <<record, att, source, local, present, herdr, pc, loop, layout, faults>>

UserAborts ==
  /\ picking # 0 /\ picking' = 0
  /\ UNCHANGED <<record, att, source, head, stopped, local, present, herdr, pc, loop, layout, faults>>

\* Commits of the user's own, at any time. On top of a cherry-pick that was
\* aborted they look like its resolution; without DropsStopped none are made.
UserCommits ==
  /\ head.moves < MaxMoves /\ picking = 0
  /\ stopped.commit \in head.landed \cup {0} \/ DropsStopped
  /\ head' = [head EXCEPT !.moves = @ + 1]
  /\ stopped' = [stopped EXCEPT !.moved = stopped.commit # 0]
  /\ UNCHANGED <<record, att, source, picking, local, present, herdr, pc, loop, layout, faults>>

\* A reset, only between commands; the journal's commit is gone from the
\* branch, or the branch is back where the conflict stopped.
UserResets ==
  /\ pc = "idle" /\ head.moves < MaxMoves /\ picking = 0
  /\ \E kept \in SUBSET head.landed :
       head' = [landed |-> kept, moves |-> head.moves + 1]
  /\ stopped' \in {NoStop, [stopped EXCEPT !.moved = FALSE]}
  /\ UNCHANGED <<record, att, source, picking, local, present, herdr, pc, loop, layout, faults>>

UserClosesPane(a) ==
  /\ ws[a] = "named" /\ pane[a]
  /\ pane' = [pane EXCEPT ![a] = FALSE]
  /\ UNCHANGED <<record, att, source, dest, local, present, ws, stray, slipped, pc, loop, layout, faults>>

UserClosesWorkspace(a) ==
  /\ ws[a] # "absent"
  /\ ws' = [ws EXCEPT ![a] = "absent"]
  /\ UNCHANGED <<record, att, source, dest, local, present, pane, stray, slipped, pc, loop, layout, faults>>

-------------------------------------------------------------------------------
Begin == \E r \in Operations :
  BeginIntent(r[1], r[2]) \/ BeginRaise(r[1], r[2]) \/ BeginResume(r[1], r[2])

Check == Rescue \/ StartReplay \/ Pick \/ AcceptMerge \/ AcceptDelete
         \/ AcceptDiscard \/ CheckRefuses

Close == IntendClose \/ CloseWorkspace \/ LeaveUnproven \/ CompleteClose
         \/ CloseRefusedByStore \/ FinishClosing

Remove == Validate \/ ValidateRefuses \/ SkipDone \/ IntendEffect \/ ApplyEffect
          \/ ApplyRefuses \/ CompleteEffect \/ EffectsPending \/ CompleteRetirement

Fails == PickConflicts \/ CheckFails \/ CloseFails \/ ApplyFails \/ Crash

Attach == AttachNew \/ AttachAgain \/ AttachActive \/ CreateWorkspace \/ SaveHandle
          \/ RenameWorkspace \/ RenameFails \/ Activate \/ ReadPanes
          \/ RefreshWorkspaceProof

Agent == AgentEdits \/ AgentCommits \/ AgentRewrites

User == \/ UserEditsWorktree \/ UserCommitsWorktree \/ UserCleansWorktree
        \/ UserContinues \/ UserAborts \/ UserCommits \/ UserResets \/ Pull
        \/ \E a \in Attachment : UserClosesPane(a) \/ UserClosesWorkspace(a)

Next == Begin \/ Check \/ Close \/ Remove \/ Fails \/ Attach \/ Agent \/ User

Spec == Init /\ [][Next]_vars

\* A started command runs on until it ends or fails; the user repeats the
\* command that is pending, finishes or aborts an open cherry-pick, deals with
\* uncommitted edits in the session worktree and closes a workspace that could
\* not be shown to be ours, as each refusal asks.
Fairness ==
  /\ WF_vars(Check \/ Close \/ Remove)
  /\ WF_vars(CreateWorkspace \/ SaveHandle \/ RenameWorkspace \/ RenameFails \/ Activate)
  /\ WF_vars(ReadPanes \/ RefreshWorkspaceProof)
  /\ SF_vars(\E r \in Operations : BeginResume(r[1], r[2]))
  /\ WF_vars(UserContinues \/ UserAborts)
  /\ WF_vars(UserCommitsWorktree \/ UserCleansWorktree)
  /\ SF_vars(\E a \in Attachment : ~pane[a] /\ UserClosesWorkspace(a))

FairSpec == Spec /\ Fairness

-------------------------------------------------------------------------------
(* Properties *)

PCs == {"idle", "check", "prior", "pick", "proof", "close", "closing", "closed",
        "validate", "effect", "apply", "applied",
        "create", "save", "rename", "activate"}

\* Every variable has its type; the bounds keep it finite.
TypeOK ==
  /\ live \in BOOLEAN /\ op \in {"none", "merge", "delete"} /\ force \in BOOLEAN
  /\ phase \in {"none", "checking", "paused", "closing", "final-check", "removing"}
  /\ failure \in BOOLEAN /\ accepted \in Seq(Acceptance)
  /\ fx \in [EffectKey -> Status] /\ herdrFx \in [Attachment -> Status]
  /\ att \in [Attachment -> [phase : {"none", "creating", "active", "closed"},
                             handle : BOOLEAN]]
  /\ made \in 0..MaxCommits /\ tip \subseteq Commit /\ dirty \in 0..MaxCommits
  /\ head \in DestHead /\ picking \in 0..MaxCommits /\ stopped \in Stop
  /\ branch \subseteq Commit /\ wtDirty \in 0..MaxCommits
  /\ present \in [EffectKey -> BOOLEAN]
  /\ ws \in [Attachment -> {"absent", "intent", "named"}]
  /\ pane \in [Attachment -> BOOLEAN] /\ stray \in BOOLEAN /\ slipped \in BOOLEAN
  /\ pc \in PCs /\ k \in Nat \ {0} /\ failed \in BOOLEAN /\ ref \subseteq Commit
  /\ skip \in 0..MaxCommits /\ closed \in BOOLEAN
  /\ layout \in [id : 0..MaxAttachments, read : BOOLEAN] /\ faults \in 0..MaxFaults

\* An acceptance is evidence: everything on the tip it names is on the head it
\* names, through conflicts, crashes, late commits and rewritten tips.
AcceptanceSound ==
  \A i \in 1..Len(accepted) :
    ~accepted[i].discard => accepted[i].tip \subseteq accepted[i].head.landed

\* Without --force the instance's checkout goes only while everything on it,
\* committed and uncommitted, is on the user's branch at that moment.
CheckoutKeepsWork ==
  [][present["remote-checkout"] /\ ~present'["remote-checkout"] /\ ~force
       => dirty = 0 /\ tip \subseteq head.landed]_vars

\* A cleanup effect is journalled done only if the thing is really gone, and a
\* plain retirement journals a workspace done only if it is closed.
JournalTruthful ==
  /\ \A e \in EffectKey : fx[e] = "done" => ~present[e]
  /\ \A a \in Attachment : herdrFx[a] = "done" /\ ~force => ws[a] = "absent"

\* What may be open of a session without force: no workspace an attachment
\* names, and one that none names any more only after an attach died between
\* naming it and recording that (the next attach made another).
AllClosed == (\A a \in Attachment : ws[a] = "absent") /\ (stray => slipped)

\* Nothing is removed while a workspace that an attachment names is open, or one
\* that none names and no dead attach explains, unless force went past one that
\* could not be shown to be ours.
ClosedBeforeRemoval == (\E e \in EffectKey : ~present[e]) => AllClosed \/ force

\* A receipt means nothing is left: not the checkout, not the worktree, no
\* remote, no branch, no journal, and no workspace but the ones named above.
ReceiptComplete ==
  ~live => (\A e \in EffectKey : ~present[e]) /\ (AllClosed \/ force)

\* Once work is accepted or an effect has begun the operation never changes;
\* force is then only ever added, to a delete, before removal begins.
IntentImmutable ==
  [][HasAccepted \/ ~NoEffects
       => /\ op' = op
          /\ force' # force => op = "delete" /\ force' /\ phase # "removing"]_vars

\* Once something has been removed, removal is all there is: no attach and no
\* new check takes the record back.
RemovalIsFinal ==
  (\E e \in EffectKey : ~present[e]) => phase = "removing" /\ HasAccepted

(* What a retirement promises: SessionLife, with the work of the session that
   is nowhere else in the instance's checkout or in the session worktree. Not
   in the local branch: merge deletes it without looking at it. *)

Stage == IF ~live THEN "retired" ELSE IF phase = "removing" THEN "removing" ELSE "active"
Holds(e) == \/ e = "remote-checkout" /\ ~(dirty = 0 /\ tip \subseteq head.landed)
            \/ e = "local-worktree" /\ wtDirty # 0

Life == INSTANCE SessionLife WITH
          Thing <- EffectKey, Workspace <- Attachment,
          stage <- Stage, forced <- force, things <- {e \in EffectKey : present[e]},
          held <- {e \in EffectKey : present[e] /\ Holds(e)},
          open <- {a \in Attachment : ws[a] # "absent"}

\* Every behaviour of the phases, the journal and the attachments, with crashes,
\* lost replies and whatever agent and user do meanwhile, is one of SessionLife.
KeepsItsPromise == Life!Spec

(* Liveness: what repeating the command cannot get past *)

\* Recorded as about to be created, never given a handle: cannot be closed.
HandleMissing == phase = "closing" /\ \E a \in Attachment : Open(a) /\ ~att[a].handle
\* The destination is no longer where the last acceptance left it.
DestinationMoved == HasAccepted /\ ~Last.discard /\ head # Last.head
\* The session branch no longer contains what was accepted from it.
SourceRewritten == HasAccepted /\ ~Last.discard /\ ~(Last.tip \subseteq tip)
\* Work reached the instance after the final check had passed.
LateForRemoval == /\ phase = "removing" /\ ~force /\ present["remote-checkout"]
                  /\ tip # Last.tip \/ dirty # 0

Stuck == HandleMissing \/ DestinationMoved \/ SourceRewritten \/ LateForRemoval

\* A merge that is pending and repeated ends in a receipt, or in one of four
\* states named above, whatever crashes, conflicts and races came before.
MergeRetires == (op = "merge") ~> (~live \/ Stuck \/ op # "merge")

\* A forced delete always ends, unless an attachment has no handle.
ForceRetires == (op = "delete" /\ force) ~> (~live \/ HandleMissing \/ ~force)

-------------------------------------------------------------------------------
(* What the documents say and the code does not do; each has a run of its own *)

\* replaySignedRange tells the user to resolve a conflict, `git cherry-pick
\* --continue`, and merge again, "it picks up from here": a merge turns its
\* destination or source down only when the user moved the one or the agent
\* rewrote the other.
ResolvedConflictResumes ==
  [][pc = "prior" /\ CheckRefuses
       => head.moves # Last.head.moves \/ ~(Last.tip \subseteq ref)]_vars

\* docs/architecture.md: "Every phase is durable. ... the same merge command
\* resumes": a retirement that reached closing, and is repeated, leaves it.
ClosingResumes == (phase = "closing") ~> (phase # "closing")

\* herdrownership.go:65: EnsureSessionAttachment "creates or recovers the owned
\* workspace": an attach that is repeated while the workspace of its attachment
\* is open makes no other.
AttachRecovers == [][CreateWorkspace /\ ws[k] # "absent" => ws' = ws]_vars
===============================================================================
