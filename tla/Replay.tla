-------------------------------- MODULE Replay --------------------------------
(***************************************************************************)
(* Replaying a session's commits onto the user's branch, signed            *)
(* (replaySignedRange, merge.go), with the progress record that carries a  *)
(* replay across conflicts and crashes (replayprogress.go) and the merge   *)
(* check around it (checkMerge, retirement_work.go). Retirement keeps only *)
(* which commits are on the branch; this module is what it leaves out:     *)
(* order, identity and signatures of commits, and where a re-run starts.   *)
(*                                                                         *)
(* A session commit is a number; the tip of the session is the sequence    *)
(* that leads to it. A commit of the destination branch is the sequence of *)
(* entries that leads to it, so an ancestor is a prefix.                   *)
(***************************************************************************)
EXTENDS Integers, SequencesExt

CONSTANTS
  MaxCommits,   \* bound: commits ever made on the session
  MaxFaults,    \* bound: crashes, conflicts and failed verifications
  MaxMoves      \* bound: the user's own commits and resets

ASSUME ReplayBoundsAssumption ==
  MaxCommits \in Nat /\ MaxFaults \in Nat /\ MaxMoves \in Nat

Commit == 1..MaxCommits

\* A commit on the destination: what it is a replay of (0: the user's own),
\* whether the user made it, its signature, whether the agent's trailers are
\* gone, and the number of resets before it (a commit made again is another).
Entry == [of : 0..MaxCommits, hand : BOOLEAN, signed : BOOLEAN, clean : BOOLEAN,
          gen : 0..MaxMoves]

VARIABLES
  made, tip,     \* the session: commits made so far, the branch
  branch,        \* the destination branch
  picking,       \* the commit of a cherry-pick left open there (0: none)
  gen, moves,    \* resets so far; the user's commits and resets so far
  rec,           \* the progress record on disk, NoRecord when there is none
  accepted,      \* the last acceptance, NoAcceptance when there is none
  pc,            \* the running merge
  ref, todo,     \* the tip it fetched, the commits it has still to pick
  base, done,    \* the anchor of its replay, the last commit accounted for
  onto,          \* the head a conflict stopped on
  lost,          \* a resolved conflict the record does not know of, or that a
                 \* run started over past
  passed,        \* commits a run took for resolved though the user had given up
                 \* their cherry-pick and committed something else past it
  raced,         \* the user committed to the destination while a merge ran
  faults

session == <<made, tip>>
user == <<picking, gen, moves, raced>>
run == <<ref, todo, base, done, onto>>
vars == <<session, branch, user, rec, accepted, pc, run, lost, passed, faults>>

NoRecord == [ref |-> <<>>, base |-> <<>>, done |-> 0, stopped |-> 0, onto |-> <<>>]
NoAcceptance == [made |-> FALSE, tip |-> <<>>, base |-> <<>>, head |-> <<>>]

Fault == faults < MaxFaults /\ faults' = faults + 1

Landed(c, b) == \E i \in DOMAIN b : b[i].of = c
ByHand(c, b) == \E i \in DOMAIN b : b[i].of = c /\ b[i].hand

\* git's base..head: what head has and base has not.
Since(b, h) ==
  {i \in DOMAIN h : ~(i <= Len(b) /\ SubSeq(b, 1, i) = SubSeq(h, 1, i))}
Verified(b, h) == \A i \in Since(b, h) : h[i].signed

Init ==
  /\ made = 0 /\ tip = <<>>
  /\ branch = <<>> /\ picking = 0 /\ gen = 0 /\ moves = 0
  /\ rec = NoRecord /\ accepted = NoAcceptance
  /\ pc = "idle" /\ ref = <<>> /\ todo = <<>> /\ base = <<>> /\ done = 0 /\ onto = <<>>
  /\ lost = FALSE /\ raced = FALSE /\ passed = {} /\ faults = 0

-------------------------------------------------------------------------------
(* Where a replay starts: resumeAt *)

\* Mutant of RecordHolds: the branch is not asked.
RecordHoldsAfterReset == rec # NoRecord /\ rec.ref = tip

\* A record of this very tip whose commits are still on the branch.
RecordHolds == rec # NoRecord /\ rec.ref = tip /\ IsPrefix(rec.onto, branch)

\* Mutant of LastDone: a conflict is never taken to have been resolved.
LastDoneIgnoresStop == rec.done

\* The branch has moved past the conflict: its commit is taken to be on it.
LastDone == IF rec.stopped # 0 /\ branch # rec.onto THEN rec.stopped ELSE rec.done

\* Mutant of HandFinished: whatever HEAD is gets amended.
HandFinishedAnyLength == rec.stopped # 0 /\ branch # rec.onto

\* Only the one commit the resolution produced is known to be that commit.
HandFinished == rec.stopped # 0 /\ Len(branch) = Len(rec.onto) + 1

StartOver == [start |-> 0, base |-> branch, hand |-> FALSE]

\* Mutant of Anchor: every run verifies from its own HEAD.
AnchorOwnHead == branch
Anchor == rec.base

ResumeAt(commits) ==
  IF ~RecordHolds THEN StartOver
  ELSE IF LastDone = 0 THEN [start |-> 0, base |-> Anchor, hand |-> HandFinished]
  ELSE IF Contains(commits, LastDone)
  THEN [start |-> CHOOSE i \in DOMAIN commits : commits[i] = LastDone,
        base |-> Anchor, hand |-> HandFinished]
  ELSE StartOver

\* The commits to replay: past the tip already accepted, if there is one.
Pending == IF accepted.made THEN SubSeq(tip, Len(accepted.tip) + 1, Len(tip)) ELSE tip

\* What an acceptance on record demands: HEAD where it left it, its range
\* still signed, and a session that only grew.
PriorHolds ==
  accepted.made => /\ branch = accepted.head
                   /\ Verified(accepted.base, accepted.head)
                   /\ IsPrefix(accepted.tip, tip)

\* The commit a conflict stopped on, when HEAD moved past it without it: the
\* cherry-pick was aborted and the user committed something else.
Abandoned ==
  IF RecordHolds /\ rec.stopped # 0 /\ branch # rec.onto /\ ~Landed(rec.stopped, branch)
  THEN {rec.stopped} ELSE {}

\* checkMerge up to the replay; an open cherry-pick is refused. A tip that was
\* accepted before is accepted again as it was: nothing changes.
StartMerge ==
  /\ pc = "idle" /\ picking = 0
  /\ PriorHolds /\ Pending # <<>>
  /\ LET at == ResumeAt(Pending) IN
       /\ todo' = SubSeq(Pending, at.start + 1, Len(Pending))
       /\ base' = at.base
       /\ done' = IF at.start > 0 THEN Pending[at.start] ELSE 0
       /\ pc' = IF at.hand THEN "resign" ELSE "pick"
  /\ lost' = (lost \/ (~RecordHolds /\ \E i \in DOMAIN Pending : ByHand(Pending[i], branch)))
  /\ passed' = passed \cup Abandoned
  /\ ref' = tip /\ onto' = branch
  /\ UNCHANGED <<session, branch, user, rec, accepted, faults>>

\* A session without commits has nothing to replay.
AcceptEmpty ==
  /\ pc = "idle" /\ picking = 0
  /\ ~accepted.made /\ tip = <<>>
  /\ accepted' = [made |-> TRUE, tip |-> tip, base |-> branch, head |-> branch]
  /\ UNCHANGED <<session, branch, user, rec, pc, run, lost, passed, faults>>

-------------------------------------------------------------------------------
(* The replay *)

AmendLast(b) == [b EXCEPT ![Len(b)] = [@ EXCEPT !.signed = TRUE, !.clean = TRUE]]

\* resignHandFinished, then the record, so that it is amended only once.
Resign ==
  /\ pc = "resign"
  /\ branch' = AmendLast(branch)
  /\ pc' = "resigned"
  /\ UNCHANGED <<session, user, rec, accepted, run, lost, passed, faults>>

Progress(d, s, o) == [ref |-> ref, base |-> base, done |-> d, stopped |-> s, onto |-> o]

SaveResigned ==
  /\ pc = "resigned"
  /\ rec' = Progress(done, 0, branch)
  /\ pc' = "pick"
  /\ UNCHANGED <<session, branch, user, accepted, run, lost, passed, faults>>

\* cherry-pick -S --empty=drop of the next commit.
Pick ==
  /\ pc = "pick" /\ todo # <<>>
  /\ IF Landed(Head(todo), branch)
     THEN branch' = branch /\ pc' = "save"
     ELSE /\ branch' = Append(branch, [of |-> Head(todo), hand |-> FALSE, signed |-> TRUE,
                                       clean |-> FALSE, gen |-> gen])
          /\ pc' = "clean"
  /\ UNCHANGED <<session, user, rec, accepted, run, lost, passed, faults>>

\* cleanReplayedMessage
CleanMessage ==
  /\ pc = "clean"
  /\ branch' = AmendLast(branch)
  /\ pc' = "save"
  /\ UNCHANGED <<session, user, rec, accepted, run, lost, passed, faults>>

SaveProgress ==
  /\ pc = "save"
  /\ rec' = Progress(Head(todo), 0, branch)
  /\ done' = Head(todo) /\ todo' = Tail(todo)
  /\ pc' = "pick"
  /\ UNCHANGED <<session, branch, user, accepted, ref, base, onto, lost, passed, faults>>

\* A change that is not there yet may conflict, and so may one that is there
\* in the user's own wording, which is no longer an empty pick.
PickConflicts ==
  /\ pc = "pick" /\ todo # <<>> /\ picking = 0 /\ Fault
  /\ Landed(Head(todo), branch) => ByHand(Head(todo), branch)
  /\ picking' = Head(todo) /\ onto' = branch
  /\ pc' = "stopped"
  /\ UNCHANGED <<session, branch, gen, moves, raced, rec, accepted, ref, todo, base, done, lost, passed>>

\* Mutant of SaveStop: the replay goes on to the next commit.
SaveStopAndGoOn ==
  /\ pc = "stopped"
  /\ rec' = Progress(done, Head(todo), onto)
  /\ pc' = "pick" /\ todo' = Tail(todo)
  /\ UNCHANGED <<session, branch, user, accepted, ref, base, done, onto, lost, passed, faults>>

\* The run ends on the conflict, and the record names the commit it stopped on.
SaveStop ==
  /\ pc = "stopped"
  /\ rec' = Progress(done, Head(todo), onto)
  /\ pc' = "idle"
  /\ UNCHANGED <<session, branch, user, accepted, run, lost, passed, faults>>

\* verifySignatures of base..HEAD.
Verify ==
  /\ pc = "pick" /\ todo = <<>> /\ Verified(base, branch)
  /\ pc' = "accept"
  /\ UNCHANGED <<session, branch, user, rec, accepted, run, lost, passed, faults>>

\* A commit that does not verify ends the run, and its picks stay.
VerifyRefuses ==
  /\ pc = "pick" /\ todo = <<>> /\ ~Verified(base, branch)
  /\ pc' = "idle"
  /\ UNCHANGED <<session, branch, user, rec, accepted, run, lost, passed, faults>>

\* HEAD is read again for the evidence.
Accept ==
  /\ pc = "accept"
  /\ accepted' = [made |-> TRUE, tip |-> ref, base |-> base, head |-> branch]
  /\ pc' = "idle"
  /\ UNCHANGED <<session, branch, user, rec, run, lost, passed, faults>>

\* A crash, or a git call or a write of the record that fails. After a conflict
\* it leaves a record that does not know of it.
Crash ==
  /\ pc # "idle" /\ Fault
  /\ pc' = "idle" /\ lost' = (lost \/ pc = "stopped")
  /\ UNCHANGED <<session, branch, user, rec, accepted, run, passed>>

-------------------------------------------------------------------------------
(* The agent and the user *)

\* Commits, on the tip or (amend, reset) on an earlier commit.
AgentCommits ==
  /\ made < MaxCommits
  /\ made' = made + 1
  /\ \E n \in 0..Len(tip) : tip' = Append(SubSeq(tip, 1, n), made')
  /\ UNCHANGED <<branch, user, rec, accepted, pc, run, lost, passed, faults>>

\* git cherry-pick --continue signs nothing and keeps the message.
UserContinues ==
  /\ pc = "idle" /\ picking # 0 /\ ~Landed(picking, branch)
  /\ branch' = Append(branch, [of |-> picking, hand |-> TRUE, signed |-> FALSE,
                               clean |-> FALSE, gen |-> gen])
  /\ picking' = 0
  /\ UNCHANGED <<session, gen, moves, raced, rec, accepted, pc, run, lost, passed, faults>>

\* --abort; or --skip, when resolving leaves nothing to commit.
UserAborts ==
  /\ picking # 0 /\ pc = "idle"
  /\ picking' = 0
  /\ UNCHANGED <<session, branch, gen, moves, raced, rec, accepted, pc, run, lost, passed, faults>>

\* The user's own commit, even while a merge runs or where a cherry-pick that
\* stopped was aborted.
UserCommits ==
  /\ moves < MaxMoves /\ picking = 0
  /\ \E s \in BOOLEAN :
       branch' = Append(branch, [of |-> 0, hand |-> TRUE, signed |-> s, clean |-> TRUE,
                                 gen |-> gen])
  /\ moves' = moves + 1 /\ raced' = (raced \/ pc # "idle")
  /\ UNCHANGED <<session, picking, gen, rec, accepted, pc, run, lost, passed, faults>>

UserResets ==
  /\ pc = "idle" /\ moves < MaxMoves /\ picking = 0
  /\ \E n \in 0..(Len(branch) - 1) : branch' = SubSeq(branch, 1, n)
  /\ moves' = moves + 1 /\ gen' = gen + 1
  /\ UNCHANGED <<session, picking, raced, rec, accepted, pc, run, lost, passed, faults>>

-------------------------------------------------------------------------------
Merge == StartMerge \/ AcceptEmpty \/ Resign \/ SaveResigned \/ Pick \/ CleanMessage
         \/ SaveProgress \/ PickConflicts \/ SaveStop \/ Verify \/ VerifyRefuses
         \/ Accept \/ Crash

User == UserContinues \/ UserAborts \/ UserCommits \/ UserResets

Next == Merge \/ AgentCommits \/ User

Spec == Init /\ [][Next]_vars

-------------------------------------------------------------------------------
(* Properties *)

Branch == Seq(Entry)
RunStates == {"idle", "resign", "resigned", "pick", "clean", "save", "stopped", "accept"}

\* Every variable has its type; the bounds keep it finite. A cherry-pick that is
\* open has ended the run.
TypeOK ==
  /\ made \in 0..MaxCommits /\ tip \in Seq(Commit)
  /\ branch \in Branch /\ picking \in 0..MaxCommits
  /\ gen \in 0..MaxMoves /\ moves \in 0..MaxMoves
  /\ rec \in [ref : Seq(Commit), base : Branch, done : 0..MaxCommits,
              stopped : 0..MaxCommits, onto : Branch]
  /\ accepted \in [made : BOOLEAN, tip : Seq(Commit), base : Branch, head : Branch]
  /\ pc \in RunStates /\ ref \in Seq(Commit) /\ todo \in Seq(Commit)
  /\ base \in Branch /\ done \in 0..MaxCommits /\ onto \in Branch
  /\ picking # 0 => pc \in {"idle", "stopped"}
  /\ lost \in BOOLEAN /\ raced \in BOOLEAN /\ faults \in 0..MaxFaults
  /\ passed \subseteq Commit

\* An acceptance leaves no commit of its tip behind, whatever conflicts,
\* crashes, resets, rewritten tips and earlier records came before, but for one
\* whose cherry-pick the user aborted and then committed something else: the
\* next run takes that commit for the resolution.
NothingSkipped ==
  \A i \in DOMAIN accepted.tip :
    Landed(accepted.tip[i], accepted.head) \/ accepted.tip[i] \in passed

SessionSigned ==
  \A i \in DOMAIN accepted.head :
    accepted.head[i].of \in ToSet(accepted.tip) => accepted.head[i].signed

\* While the record knows of every resolved conflict, each session commit that
\* is accepted is signed: the anchor survives from run to run.
SignedWhileTracked == ~lost /\ ~raced => SessionSigned

\* While the record knows of it, a conflict resolved by hand is not met again.
ResolvedOnce ==
  [][PickConflicts /\ ~lost => ~Landed(Head(todo), branch)]_vars

\* A merge adds commits and amends at most the last one, which is never a
\* commit of the user's own, unless made while the merge ran, or in the place of
\* a conflict that was met a second time, or of one whose cherry-pick was
\* aborted: that commit alone is amended as the resolution it is taken for.
OwnCommitsKept ==
  [][Merge /\ ~raced /\ ~lost /\ (pc = "resign" => Landed(rec.stopped, branch))
       => \A i \in DOMAIN branch : branch[i].of = 0 =>
            i \in DOMAIN branch' /\ branch'[i] = branch[i]]_vars

(* What the documents say and the code does not do; a run of its own *)

\* docs/architecture.md: "Verify every replayed commit ... leaving unverified
\* commits behind would let the next merge drop them as empty, see an unmoved
\* HEAD, skip verification, and silently pass": it does not pass.
AcceptedIsSigned == SessionSigned
===============================================================================
