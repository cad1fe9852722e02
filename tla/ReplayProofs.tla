------------------------------ MODULE ReplayProofs ------------------------------
(***************************************************************************)
(* Proofs about Replay, for every number of commits, faults and moves: the *)
(* types, that an acceptance skips no commit whose cherry-pick the user    *)
(* did not give up, and leaves none unsigned while the record is told of   *)
(* every conflict, that a resolved conflict is not met again and that a    *)
(* merge leaves the user's own commits alone.                              *)
(***************************************************************************)
EXTENDS Replay, SequenceTheorems, TLAPS

(* The inductive invariant *)

Ordered(s) ==
  /\ \A i \in DOMAIN s : s[i] \in 1..made
  /\ \A i, j \in DOMAIN s : i < j => s[i] < s[j]

\* Commits are numbered as they are made, so that no tip ever comes back.
Numbered ==
  /\ Ordered(tip) /\ Ordered(rec.ref)
  /\ pc # "idle" => Ordered(ref)
  /\ pc # "idle" /\ rec.ref = tip => ref = tip

\* Once a reset has taken a commit the record names, what is made in its place
\* is younger.
Diverged ==
  \E k \in DOMAIN rec.onto :
    /\ gen > rec.onto[k].gen
    /\ \A i \in DOMAIN branch : i >= k => branch[i].gen > rec.onto[k].gen

Aged ==
  /\ gen <= moves
  /\ \A i \in DOMAIN branch : branch[i].gen <= gen
  /\ \A i \in DOMAIN rec.onto : rec.onto[i].gen <= gen
  /\ IsPrefix(rec.onto, branch) \/ Diverged

\* How much of a tip was accepted before: where the commits to replay begin.
Before == IF accepted.made THEN Len(accepted.tip) ELSE 0

\* A commit a replay has done with: it is on the branch, or its cherry-pick was
\* given up and a run went past it.
Reached(c, b) == Landed(c, b) \/ c \in passed

\* What the record says is on the branch it names.
RecordMeans ==
  \A i, j \in DOMAIN rec.ref :
    (rec.ref[i] = rec.done /\ j <= i) \/ (rec.ref[i] = rec.stopped /\ j < i)
      => Reached(rec.ref[j], rec.onto)

\* Where the commits a record names are among those to replay, unless its tip
\* was accepted since: the one it stopped on comes right after the last done.
RecordPlace ==
  RecordHolds =>
    \/ accepted.made /\ accepted.tip = tip
    \/ /\ rec.done # 0 => \E i \in DOMAIN tip : i > Before /\ tip[i] = rec.done
       /\ rec.stopped # 0 =>
            \E i \in DOMAIN tip :
              /\ i > Before /\ tip[i] = rec.stopped
              /\ IF rec.done = 0 THEN i = Before + 1 ELSE i > 1 /\ tip[i - 1] = rec.done

\* Until the branch moves past the conflict, the commit it was about is what is
\* picked, or resolved, next.
StopPassed ==
  RecordHolds /\ rec.stopped # 0 /\ branch = rec.onto =>
    /\ pc # "idle" => todo # <<>> /\ Head(todo) = rec.stopped
    /\ picking # 0 => picking = rec.stopped

Picked == Len(ref) - Len(todo)

\* The commits a run has behind it are reached.
Behind ==
  /\ Picked \in Before..Len(ref)
  /\ \A j \in DOMAIN todo : todo[j] = ref[Picked + j]
  /\ Picked = Before => done = 0
  /\ Picked # Before => done = ref[Picked]
  /\ \A j \in 1..Picked : Reached(ref[j], branch)

\* What is amended is past the record's branch.
Amendable == branch # <<>> /\ (IsPrefix(rec.onto, branch) => Len(rec.onto) < Len(branch))

Running ==
  pc # "idle" =>
    /\ Behind
    /\ pc \in {"clean", "save", "stopped"} => todo # <<>>
    /\ pc \in {"clean", "save"} => Landed(Head(todo), branch)
    /\ pc = "accept" => todo = <<>>
    /\ pc = "stopped" => picking = Head(todo) /\ onto = branch
    /\ pc \in {"resign", "clean"} => Amendable

Progresses == /\ Numbered /\ Aged /\ RecordMeans /\ RecordPlace /\ StopPassed /\ Running
              /\ NothingSkipped

\* What is signed: a commit git made of another is, so only one resolved by hand
\* may not be, and of those no anchor has any.
SignedIn(b, t) == \A i \in DOMAIN b : b[i].of \in ToSet(t) => b[i].signed

MadeSigned ==
  \A i \in DOMAIN branch : branch[i].of # 0 => branch[i].hand \/ branch[i].signed

AnchorsSigned ==
  /\ SignedIn(accepted.head, accepted.tip)
  /\ SignedIn(rec.base, rec.ref)
  /\ pc # "idle" => SignedIn(base, ref)
  /\ pc = "accept" => Verified(base, branch)

Signing == MadeSigned /\ (~lost /\ ~raced => AnchorsSigned)

\* While no conflict is lost, what was resolved by hand is behind the record's
\* last commit, and not among those still to pick.
NoHandAhead == pc # "idle" => \A j \in DOMAIN todo : ~ByHand(todo[j], branch)

RecordAhead ==
  RecordHolds =>
    \A j \in DOMAIN tip :
      j > Before /\ (LastDone # 0 => \A i \in DOMAIN tip : tip[i] = LastDone => i < j)
        => ~ByHand(tip[j], branch)

StopOpen == picking # 0 /\ pc = "idle" => rec.stopped = picking /\ rec.onto = branch

StopFresh ==
  /\ pc = "stopped" => ~Landed(Head(todo), branch)
  /\ rec.stopped # 0 => ~Landed(rec.stopped, rec.onto)

HandsDone == ~lost => NoHandAhead /\ RecordAhead /\ StopOpen /\ StopFresh

\* The commit that is amended is never the user's own, but in the place of a
\* cherry-pick that was given up.
Amends ==
  /\ ~lost /\ ~raced
  /\ pc = "clean" \/ (pc = "resign" /\ Landed(rec.stopped, branch))
  => branch[Len(branch)].of # 0

IInv == TypeOK /\ Progresses /\ Signing /\ HandsDone /\ Amends

-------------------------------------------------------------------------------
(* Branches *)

LEMMA PrefixPoints ==
  ASSUME NEW S, NEW s \in Seq(S), NEW t \in Seq(S)
  PROVE  IsPrefix(s, t) <=> Len(s) <= Len(t) /\ \A i \in 1..Len(s) : s[i] = t[i]
<1>1. ASSUME Len(s) <= Len(t)
      PROVE  /\ SubSeq(s, 1, Len(s)) = s
             /\ SubSeq(t, 1, Len(s)) \in Seq(S) /\ Len(SubSeq(t, 1, Len(s))) = Len(s)
             /\ \A i \in 1..Len(s) : SubSeq(t, 1, Len(s))[i] = t[i]
  BY <1>1
<1>2. ASSUME Len(s) <= Len(t), \A i \in 1..Len(s) : s[i] = t[i]
      PROVE  SubSeq(t, 1, Len(s)) = s
  BY <1>1, <1>2, SeqEqual
<1>3. QED
  BY <1>1, <1>2 DEF IsPrefix

\* A branch that grew: more commits, of which the last old one may be amended.
Grown(b, c) ==
  /\ b \in Branch /\ c \in Branch /\ Len(b) <= Len(c)
  /\ \A i \in DOMAIN b : c[i].of = b[i].of /\ c[i].hand = b[i].hand /\ c[i].gen = b[i].gen

LEMMA LandedStays ==
  ASSUME NEW b, NEW c, Grown(b, c), NEW k
  PROVE  /\ Landed(k, b) => Landed(k, c)
         /\ ByHand(k, b) => ByHand(k, c)
  BY DEF Grown, Landed, ByHand, Branch

LEMMA AmendGrows ==
  ASSUME NEW b \in Branch, b # <<>>
  PROVE  /\ Grown(b, AmendLast(b)) /\ Len(AmendLast(b)) = Len(b)
         /\ \A i \in DOMAIN b : i # Len(b) => AmendLast(b)[i] = b[i]
         /\ AmendLast(b)[Len(b)].signed
         /\ \A i \in DOMAIN b : b[i].signed => AmendLast(b)[i].signed
<1> DEFINE e == [b[Len(b)] EXCEPT !.signed = TRUE, !.clean = TRUE]
<1>1. b \in Seq(Entry) /\ Len(b) \in 1..Len(b) /\ b[Len(b)] \in Entry
  BY DEF Branch
<1>2. e \in Entry /\ e.of = b[Len(b)].of /\ e.hand = b[Len(b)].hand /\ e.gen = b[Len(b)].gen
      /\ e.signed
  BY <1>1 DEF Entry
<1>3. AmendLast(b) = [b EXCEPT ![Len(b)] = e]
  BY DEF AmendLast
<1> HIDE DEF e
<1>4. /\ AmendLast(b) \in Seq(Entry) /\ Len(AmendLast(b)) = Len(b)
      /\ \A j \in 1..Len(b) : AmendLast(b)[j] = IF j = Len(b) THEN e ELSE b[j]
  BY <1>1, <1>2, <1>3, ExceptSeq
<1>5. DOMAIN b = 1..Len(b)
  BY <1>1
<1>6. Grown(b, AmendLast(b))
  BY <1>1, <1>2, <1>4, <1>5 DEF Grown, Branch
<1>7. QED
  BY <1>1, <1>2, <1>4, <1>5, <1>6

LEMMA AppendGrows ==
  ASSUME NEW b \in Branch, NEW e \in Entry
  PROVE  LET c == Append(b, e) IN
         /\ Grown(b, c) /\ Len(c) = Len(b) + 1 /\ c[Len(c)] = e
         /\ \A i \in DOMAIN b : c[i] = b[i]
  BY DEF Grown, Branch

-------------------------------------------------------------------------------
(* Types *)

\* The commit at hand, whenever a step speaks of one.
AtHand == pc \in {"clean", "save", "stopped"} => todo # <<>>

LEMMA HeadTail ==
  ASSUME NEW S, NEW s \in Seq(S), s # <<>>
  PROVE  /\ Head(s) \in S /\ Tail(s) \in Seq(S) /\ Head(s) = s[1]
         /\ Len(Tail(s)) = Len(s) - 1 /\ Len(s) >= 1
         /\ \A i \in 1..Len(Tail(s)) : Tail(s)[i] = s[i + 1]
  BY HeadTailProperties

\* What a replay starts from, by its type.
LEMMA ResumeType ==
  ASSUME TypeOK
  PROVE  LET r == ResumeAt(Pending) IN
         /\ Pending \in Seq(Commit)
         /\ r.start \in 0..Len(Pending) /\ r.base \in Branch /\ r.hand \in BOOLEAN
         /\ r.hand => RecordHolds /\ HandFinished
<1>1. Pending \in Seq(Commit) /\ Len(Pending) \in Nat
  BY DEF Pending, TypeOK
<1>2. branch \in Branch /\ Anchor \in Branch /\ HandFinished \in BOOLEAN
  BY DEF TypeOK, Anchor, HandFinished
<1>3. CASE ~RecordHolds
  BY <1>1, <1>2, <1>3 DEF ResumeAt, StartOver
<1>4. CASE RecordHolds /\ LastDone = 0
  BY <1>1, <1>2, <1>4 DEF ResumeAt
<1>5. CASE RecordHolds /\ LastDone # 0 /\ Contains(Pending, LastDone)
  <2>1. \E i \in DOMAIN Pending : Pending[i] = LastDone
    BY <1>1, <1>5 DEF Contains
  <2>2. (CHOOSE i \in DOMAIN Pending : Pending[i] = LastDone) \in DOMAIN Pending
    BY <2>1
  <2>3. (CHOOSE i \in DOMAIN Pending : Pending[i] = LastDone) \in 0..Len(Pending)
    BY <1>1, <2>2
  <2>4. QED
    BY <1>1, <1>2, <1>5, <2>3 DEF ResumeAt
<1>6. CASE RecordHolds /\ LastDone # 0 /\ ~Contains(Pending, LastDone)
  BY <1>1, <1>2, <1>6 DEF ResumeAt, StartOver
<1>7. QED
  BY <1>3, <1>4, <1>5, <1>6

LEMMA TypeInit == Init => TypeOK
<1>1. <<>> \in Seq(Commit) /\ <<>> \in Branch
  BY DEF Branch
<1>2. ASSUME Init
      PROVE  /\ rec \in [ref : Seq(Commit), base : Branch, done : 0..MaxCommits,
                          stopped : 0..MaxCommits, onto : Branch]
             /\ accepted \in [made : BOOLEAN, tip : Seq(Commit), base : Branch, head : Branch]
  BY <1>1, <1>2, ReplayBoundsAssumption DEF Init, NoRecord, NoAcceptance
<1>3. ASSUME Init
      PROVE  /\ made \in 0..MaxCommits /\ tip \in Seq(Commit) /\ branch \in Branch
             /\ picking \in 0..MaxCommits /\ picking = 0
             /\ gen \in 0..MaxMoves /\ moves \in 0..MaxMoves /\ pc \in RunStates
             /\ ref \in Seq(Commit) /\ todo \in Seq(Commit) /\ base \in Branch
             /\ done \in 0..MaxCommits /\ onto \in Branch /\ faults \in 0..MaxFaults
  BY <1>1, <1>3, ReplayBoundsAssumption DEF Init, RunStates
<1>4. Init => lost \in BOOLEAN /\ raced \in BOOLEAN /\ passed \subseteq Commit
  BY DEF Init
<1>5. QED
  BY <1>2, <1>3, <1>4 DEF TypeOK

LEMMA TypeStep ==
  ASSUME TypeOK, Running, Aged, [Next]_vars
  PROVE  TypeOK'
<1>0. AtHand /\ (pc \in {"resign", "clean"} => branch # <<>>)
  BY DEF Running, Amendable, AtHand
<1> USE ReplayBoundsAssumption DEF session, user, run, vars, Fault, RunStates
<1>1. CASE StartMerge
  <2>1. PICK r : r = ResumeAt(Pending)
    OBVIOUS
  <2>2. /\ Pending \in Seq(Commit) /\ r.start \in 0..Len(Pending) /\ r.base \in Branch
        /\ todo' = SubSeq(Pending, r.start + 1, Len(Pending)) /\ base' = r.base
        /\ done' = IF r.start > 0 THEN Pending[r.start] ELSE 0
        /\ pc' = IF r.hand THEN "resign" ELSE "pick"
    BY <1>1, <2>1, ResumeType DEF StartMerge
  <2>3. todo' \in Seq(Commit)
    BY <2>2
  <2>4. done' \in 0..MaxCommits
    <3>1. CASE r.start > 0
      <4>1. Pending[r.start] \in Commit
        BY <2>2, <3>1, ElementOfSeq
      <4>2. QED
        BY <2>2, <3>1, <4>1 DEF Commit
    <3>2. QED
      BY <2>2, <3>1
  <2>5. pc' \in {"resign", "pick"} /\ lost' \in BOOLEAN
    BY <1>1, <2>2 DEF StartMerge
  <2>6. passed' \subseteq Commit
    <3>1. rec.stopped # 0 => rec.stopped \in Commit
      BY DEF TypeOK, Commit
    <3>2. Abandoned \subseteq Commit
      BY <3>1 DEF Abandoned
    <3>3. QED
      BY <1>1, <3>2 DEF StartMerge, TypeOK
  <2>7. QED
    BY <1>1, <2>2, <2>3, <2>4, <2>5, <2>6 DEF StartMerge, TypeOK
<1>2. CASE AcceptEmpty
  BY <1>2 DEF AcceptEmpty, TypeOK
<1>3. CASE Resign \/ CleanMessage
  <2>1. branch # <<>> /\ branch \in Branch
    BY <1>0, <1>3 DEF Resign, CleanMessage, TypeOK
  <2>2. branch' \in Branch
    BY <1>3, <2>1, AmendGrows DEF Resign, CleanMessage, Grown
  <2>3. QED
    BY <1>3, <2>2 DEF Resign, CleanMessage, TypeOK
<1>4. CASE SaveResigned
  BY <1>4 DEF SaveResigned, Progress, TypeOK
<1>5. CASE Pick
  <2>1. Head(todo) \in Commit
    BY <1>5 DEF Pick, TypeOK
  <2>2. [of |-> Head(todo), hand |-> FALSE, signed |-> TRUE, clean |-> FALSE, gen |-> gen] \in Entry
    BY <2>1 DEF TypeOK, Entry, Commit
  <2>3. branch' \in Branch
    <3>1. CASE Landed(Head(todo), branch)
      BY <1>5, <3>1 DEF Pick, TypeOK
    <3>2. CASE ~Landed(Head(todo), branch)
      <4> DEFINE e == [of |-> Head(todo), hand |-> FALSE, signed |-> TRUE, clean |-> FALSE,
                       gen |-> gen]
      <4>1. branch' = Append(branch, e)
        BY <1>5, <3>2 DEF Pick
      <4> HIDE DEF e
      <4>2. QED
        BY <2>2, <4>1, AppendProperties DEF TypeOK, Branch, e
    <3>3. QED
      BY <3>1, <3>2
  <2>4. QED
    BY <1>5, <2>3 DEF Pick, TypeOK
<1>6. CASE SaveProgress
  <2>1. Head(todo) \in Commit /\ Tail(todo) \in Seq(Commit)
    BY <1>0, <1>6 DEF SaveProgress, AtHand, TypeOK
  <2>2. QED
    BY <1>6, <2>1 DEF SaveProgress, Progress, TypeOK, Commit
<1>7. CASE PickConflicts
  <2>1. Head(todo) \in Commit
    BY <1>7 DEF PickConflicts, TypeOK
  <2>2. QED
    BY <1>7, <2>1 DEF PickConflicts, TypeOK, Commit
<1>8. CASE SaveStop
  <2>1. Head(todo) \in Commit
    BY <1>0, <1>8 DEF SaveStop, AtHand, TypeOK
  <2>2. QED
    BY <1>8, <2>1 DEF SaveStop, Progress, TypeOK, Commit
<1>9. CASE Verify \/ VerifyRefuses
  BY <1>9 DEF Verify, VerifyRefuses, TypeOK
<1>10. CASE Accept
  BY <1>10 DEF Accept, TypeOK
<1>11. CASE Crash
  BY <1>11 DEF Crash, TypeOK
<1>12. CASE AgentCommits
  <2>1. made' \in 0..MaxCommits /\ made' \in Commit
    BY <1>12 DEF AgentCommits, TypeOK, Commit
  <2>2. tip' \in Seq(Commit)
    BY <1>12, <2>1 DEF AgentCommits, TypeOK
  <2>3. QED
    BY <1>12, <2>1, <2>2 DEF AgentCommits, TypeOK
<1>13. CASE UserContinues
  <2>1. [of |-> picking, hand |-> TRUE, signed |-> FALSE, clean |-> FALSE, gen |-> gen] \in Entry
    BY DEF TypeOK, Entry
  <2>2. branch' \in Branch
    BY <1>13, <2>1 DEF UserContinues, TypeOK, Branch
  <2>3. QED
    BY <1>13, <2>2 DEF UserContinues, TypeOK
<1>14. CASE UserAborts
  BY <1>14 DEF UserAborts, TypeOK
<1>15. CASE UserCommits
  <2>1. \A s \in BOOLEAN : [of |-> 0, hand |-> TRUE, signed |-> s, clean |-> TRUE, gen |-> gen] \in Entry
    BY DEF TypeOK, Entry
  <2>2. branch' \in Branch
    BY <1>15, <2>1 DEF UserCommits, TypeOK, Branch
  <2>3. QED
    BY <1>15, <2>2 DEF UserCommits, TypeOK
<1>16. CASE UserResets
  <2>1. branch' \in Branch
    BY <1>16 DEF UserResets, TypeOK, Branch
  <2>2. moves' \in 0..MaxMoves /\ gen' \in 0..MaxMoves
    BY <1>16 DEF UserResets, TypeOK, Aged
  <2>3. QED
    BY <1>16, <2>1, <2>2 DEF UserResets, TypeOK
<1>17. CASE UNCHANGED vars
  BY <1>17 DEF TypeOK
<1>18. QED
  BY <1>1, <1>2, <1>3, <1>4, <1>5, <1>6, <1>7, <1>8, <1>9, <1>10, <1>11, <1>12, <1>13, <1>14,
     <1>15, <1>16, <1>17 DEF Next, Merge, User

\* What the proofs use of the types.
LEMMA TypeParts ==
  ASSUME TypeOK
  PROVE  /\ tip \in Seq(Commit) /\ ref \in Seq(Commit) /\ todo \in Seq(Commit)
         /\ rec.ref \in Seq(Commit) /\ accepted.tip \in Seq(Commit)
         /\ branch \in Branch /\ onto \in Branch /\ base \in Branch
         /\ rec.onto \in Branch /\ rec.base \in Branch /\ accepted.head \in Branch
         /\ accepted.base \in Branch
         /\ made \in Nat /\ gen \in Nat /\ moves \in Nat
         /\ picking \in Nat /\ done \in Nat /\ rec.done \in Nat /\ rec.stopped \in Nat
         /\ lost \in BOOLEAN /\ raced \in BOOLEAN /\ accepted.made \in BOOLEAN
  BY ReplayBoundsAssumption DEF TypeOK

LEMMA BranchParts ==
  ASSUME NEW b \in Branch
  PROVE  /\ b \in Seq(Entry) /\ Len(b) \in Nat /\ DOMAIN b = 1..Len(b)
         /\ \A i \in 1..Len(b) : /\ b[i].of \in Nat /\ b[i].gen \in Int
                                 /\ b[i].hand \in BOOLEAN /\ b[i].signed \in BOOLEAN
<1>1. b \in Seq(Entry)
  BY DEF Branch
<1>2. \A i \in 1..Len(b) : b[i] \in Entry
  BY <1>1
<1>3. \A e \in Entry : e.of \in Nat /\ e.gen \in Int /\ e.hand \in BOOLEAN /\ e.signed \in BOOLEAN
  BY ReplayBoundsAssumption DEF Entry
<1>4. QED
  BY <1>1, <1>2, <1>3

-------------------------------------------------------------------------------
(* Which branches a record can still hold on *)

LEMMA DivergedIsOff ==
  ASSUME NEW o \in Branch, NEW b \in Branch,
         NEW k \in DOMAIN o, \A i \in DOMAIN b : i >= k => b[i].gen > o[k].gen
  PROVE  ~IsPrefix(o, b)
<1>1. /\ o \in Seq(Entry) /\ b \in Seq(Entry)
      /\ DOMAIN o = 1..Len(o) /\ DOMAIN b = 1..Len(b)
      /\ \A i \in 1..Len(o) : o[i].gen \in Int
  BY BranchParts
<1>2. ASSUME IsPrefix(o, b)
      PROVE  FALSE
  <2>1. Len(o) <= Len(b) /\ o[k] = b[k]
    BY <1>1, <1>2, PrefixPoints
  <2>2. k \in 1..Len(b) /\ o[k].gen \in Int
    BY <1>1, <2>1
  <2>3. o[k].gen > o[k].gen
    BY <1>1, <2>1, <2>2
  <2>4. QED
    BY <2>2, <2>3
<1>3. QED
  BY <1>2

\* The branch grows, the record stays.
LEMMA AgedGrows ==
  ASSUME TypeOK, Aged, Grown(branch, branch'), UNCHANGED <<rec, gen>>, moves' >= moves,
         moves' \in Int,
         \A i \in DOMAIN branch' : i > Len(branch) => branch'[i].gen = gen,
         IsPrefix(rec.onto, branch) => \A i \in 1..Len(rec.onto) : branch'[i] = branch[i]
  PROVE  Aged' /\ (Diverged => Diverged')
<1>1. /\ branch \in Seq(Entry) /\ branch' \in Seq(Entry) /\ rec.onto \in Seq(Entry)
      /\ Len(branch) <= Len(branch') /\ gen \in Int /\ moves \in Int
      /\ \A i \in 1..Len(branch) : branch'[i].gen = branch[i].gen
  <2>1. branch \in Branch /\ branch' \in Branch /\ rec.onto \in Branch /\ gen \in Int /\ moves \in Int
    BY TypeParts DEF Grown
  <2>2. branch \in Seq(Entry) /\ branch' \in Seq(Entry) /\ rec.onto \in Seq(Entry) /\ DOMAIN branch = 1..Len(branch)
    BY <2>1, BranchParts
  <2>3. QED
    BY <2>1, <2>2 DEF Grown
<1>2. \A i \in 1..Len(branch') : branch'[i].gen = gen \/ i \in 1..Len(branch)
  BY <1>1
<1>3. \A i \in DOMAIN branch' : branch'[i].gen <= gen
  BY <1>1, <1>2 DEF Aged
<1>4. Diverged => Diverged'
  BY <1>1, <1>2 DEF Diverged
<1>5. IsPrefix(rec.onto, branch) => IsPrefix(rec.onto, branch')
  <2>1. SUFFICES ASSUME IsPrefix(rec.onto, branch)
                 PROVE  IsPrefix(rec.onto, branch')
    OBVIOUS
  <2>2. Len(rec.onto) <= Len(branch) /\ \A i \in 1..Len(rec.onto) : rec.onto[i] = branch[i]
    BY <1>1, <2>1, PrefixPoints
  <2>3. Len(rec.onto) \in Nat /\ Len(branch) \in Nat /\ Len(branch') \in Nat
    BY <1>1
  <2>4. Len(rec.onto) <= Len(branch') /\ \A i \in 1..Len(rec.onto) : rec.onto[i] = branch'[i]
    BY <1>1, <2>1, <2>2, <2>3
  <2>5. QED
    BY <1>1, <2>4, PrefixPoints
<1>6. QED
  BY <1>1, <1>3, <1>4, <1>5 DEF Aged

\* The branch loses its last commits.
LEMMA AgedResets ==
  ASSUME TypeOK, Aged, UserResets
  PROVE  Aged' /\ (Diverged => Diverged')
<1>1. /\ branch \in Seq(Entry) /\ rec.onto \in Seq(Entry) /\ gen \in Int /\ moves \in Int
      /\ gen' = gen + 1 /\ moves' = moves + 1 /\ rec' = rec /\ gen <= moves
      /\ \A i \in 1..Len(rec.onto) : rec.onto[i].gen <= gen /\ rec.onto[i].gen \in Int
  <2>1. branch \in Branch /\ rec.onto \in Branch /\ gen \in Int /\ moves \in Int
    BY TypeParts
  <2>2. /\ branch \in Seq(Entry) /\ rec.onto \in Seq(Entry) /\ DOMAIN rec.onto = 1..Len(rec.onto)
        /\ \A i \in 1..Len(rec.onto) : rec.onto[i].gen \in Int
    BY <2>1, BranchParts
  <2>3. QED
    BY <2>1, <2>2 DEF UserResets, Aged
<1>2. PICK n \in 0..(Len(branch) - 1) : branch' = SubSeq(branch, 1, n)
  BY DEF UserResets
<1>3. /\ branch' \in Seq(Entry) /\ Len(branch') = n /\ n <= Len(branch)
      /\ \A i \in 1..n : branch'[i] = branch[i] /\ i \in 1..Len(branch)
  BY <1>1, <1>2
<1>4. \A i \in DOMAIN branch' : branch'[i].gen <= gen'
  <2>1. \A i \in 1..Len(branch) : branch[i].gen <= gen /\ branch[i].gen \in Int
    BY TypeParts, BranchParts DEF Aged
  <2>2. QED
    BY <1>1, <1>3, <2>1
<1>5. Diverged => Diverged'
  BY <1>1, <1>3 DEF Diverged
<1>6. ASSUME IsPrefix(rec.onto, branch)
      PROVE  IsPrefix(rec.onto, branch') \/ Diverged'
  <2>1. Len(rec.onto) <= Len(branch) /\ \A i \in 1..Len(rec.onto) : rec.onto[i] = branch[i]
    BY <1>1, <1>6, PrefixPoints
  <2>2. CASE Len(rec.onto) <= n
    <3>1. Len(rec.onto) <= Len(branch') /\ \A i \in 1..Len(rec.onto) : rec.onto[i] = branch'[i]
      BY <1>1, <1>3, <2>1, <2>2
    <3>2. QED
      BY <1>1, <1>3, <3>1, PrefixPoints
  <2>3. CASE Len(rec.onto) > n
    <3>1. n + 1 \in 1..Len(rec.onto)
      BY <1>1, <2>3
    <3>2. rec'.onto[n + 1].gen < gen' /\ \A i \in DOMAIN branch' : ~(i >= n + 1)
      BY <1>1, <1>3, <3>1
    <3>3. n + 1 \in DOMAIN rec'.onto
      BY <1>1, <3>1
    <3>4. QED
      BY <3>2, <3>3 DEF Diverged
  <2>4. QED
    BY <1>1, <2>2, <2>3
<1>7. QED
  BY <1>1, <1>4, <1>5, <1>6 DEF Aged

LEMMA PrefixItself ==
  ASSUME NEW b \in Branch
  PROVE  IsPrefix(b, b)
  BY PrefixPoints DEF Branch

\* What each step that adds to the branch adds.
LEMMA Adds ==
  ASSUME TypeOK
  PROVE  /\ Pick /\ ~Landed(Head(todo), branch) =>
              /\ Grown(branch, branch') /\ Len(branch') = Len(branch) + 1
              /\ \A i \in DOMAIN branch : branch'[i] = branch[i]
              /\ branch'[Len(branch')] = [of |-> Head(todo), hand |-> FALSE, signed |-> TRUE,
                                          clean |-> FALSE, gen |-> gen]
              /\ Head(todo) \in Commit
         /\ UserContinues =>
              /\ Grown(branch, branch') /\ Len(branch') = Len(branch) + 1
              /\ \A i \in DOMAIN branch : branch'[i] = branch[i]
              /\ branch'[Len(branch')] = [of |-> picking, hand |-> TRUE, signed |-> FALSE,
                                          clean |-> FALSE, gen |-> gen]
         /\ UserCommits =>
              /\ Grown(branch, branch') /\ Len(branch') = Len(branch) + 1
              /\ \A i \in DOMAIN branch : branch'[i] = branch[i]
              /\ branch'[Len(branch')].of = 0 /\ branch'[Len(branch')].gen = gen
<1>1. branch \in Branch
  BY DEF TypeOK
<1>2. ASSUME Pick, ~Landed(Head(todo), branch)
      PROVE  /\ Grown(branch, branch') /\ Len(branch') = Len(branch) + 1
             /\ \A i \in DOMAIN branch : branch'[i] = branch[i]
             /\ branch'[Len(branch')] = [of |-> Head(todo), hand |-> FALSE, signed |-> TRUE,
                                         clean |-> FALSE, gen |-> gen]
             /\ Head(todo) \in Commit
  <2> DEFINE e == [of |-> Head(todo), hand |-> FALSE, signed |-> TRUE, clean |-> FALSE,
                   gen |-> gen]
  <2>1. Head(todo) \in Commit
    BY <1>2, HeadTail DEF Pick, TypeOK
  <2>2. e \in Entry
    BY <2>1 DEF TypeOK, Entry, Commit
  <2>3. branch' = Append(branch, e)
    BY <1>2 DEF Pick
  <2> HIDE DEF e
  <2>4. /\ Grown(branch, branch') /\ Len(branch') = Len(branch) + 1
        /\ \A i \in DOMAIN branch : branch'[i] = branch[i]
        /\ branch'[Len(branch')] = e
    BY <1>1, <2>2, <2>3, AppendGrows
  <2>5. QED
    BY <2>1, <2>4 DEF e
<1>3. ASSUME UserContinues
      PROVE  /\ Grown(branch, branch') /\ Len(branch') = Len(branch) + 1
             /\ \A i \in DOMAIN branch : branch'[i] = branch[i]
             /\ branch'[Len(branch')] = [of |-> picking, hand |-> TRUE, signed |-> FALSE,
                                         clean |-> FALSE, gen |-> gen]
  <2> DEFINE e == [of |-> picking, hand |-> TRUE, signed |-> FALSE, clean |-> FALSE,
                   gen |-> gen]
  <2>1. e \in Entry
    BY DEF TypeOK, Entry
  <2>2. branch' = Append(branch, e)
    BY <1>3 DEF UserContinues
  <2> HIDE DEF e
  <2>3. /\ Grown(branch, branch') /\ Len(branch') = Len(branch) + 1
        /\ \A i \in DOMAIN branch : branch'[i] = branch[i]
        /\ branch'[Len(branch')] = e
    BY <1>1, <2>1, <2>2, AppendGrows
  <2>4. QED
    BY <2>3 DEF e
<1>4. ASSUME UserCommits
      PROVE  /\ Grown(branch, branch') /\ Len(branch') = Len(branch) + 1
             /\ \A i \in DOMAIN branch : branch'[i] = branch[i]
             /\ branch'[Len(branch')].of = 0 /\ branch'[Len(branch')].gen = gen
  <2>1. PICK s \in BOOLEAN :
          branch' = Append(branch, [of |-> 0, hand |-> TRUE, signed |-> s, clean |-> TRUE,
                                    gen |-> gen])
    BY <1>4 DEF UserCommits
  <2> DEFINE e == [of |-> 0, hand |-> TRUE, signed |-> s, clean |-> TRUE, gen |-> gen]
  <2>2. e \in Entry
    BY ReplayBoundsAssumption DEF TypeOK, Entry
  <2>3. branch' = Append(branch, e)
    BY <2>1
  <2> HIDE DEF e
  <2>4. /\ Grown(branch, branch') /\ Len(branch') = Len(branch) + 1
        /\ \A i \in DOMAIN branch : branch'[i] = branch[i]
        /\ branch'[Len(branch')] = e
    BY <1>1, <2>2, <2>3, AppendGrows
  <2>5. QED
    BY <2>4 DEF e
<1>5. QED
  BY <1>2, <1>3, <1>4

\* An amendment is of what the record does not name.
LEMMA Amending ==
  ASSUME TypeOK, Running, Resign \/ CleanMessage
  PROVE  /\ branch # <<>> /\ branch' = AmendLast(branch)
         /\ Grown(branch, branch') /\ Len(branch') = Len(branch)
         /\ \A i \in DOMAIN branch : i # Len(branch) => branch'[i] = branch[i]
         /\ branch'[Len(branch)].signed
         /\ \A i \in DOMAIN branch : branch[i].signed => branch'[i].signed
         /\ IsPrefix(rec.onto, branch) => Len(rec.onto) < Len(branch)
<1>1. branch \in Branch /\ branch # <<>> /\ branch' = AmendLast(branch)
  BY DEF TypeOK, Running, Amendable, Resign, CleanMessage
<1>2. QED
  BY <1>1, AmendGrows DEF Running, Amendable, Resign, CleanMessage

LEMMA AgedAppended ==
  ASSUME TypeOK, Aged, Grown(branch, branch'), UNCHANGED <<rec, gen>>, moves' >= moves,
         moves' \in Int, Len(branch') = Len(branch) + 1, branch'[Len(branch')].gen = gen,
         \A i \in DOMAIN branch : branch'[i] = branch[i]
  PROVE  Aged' /\ (Diverged => Diverged')
<1>1. branch \in Branch /\ branch' \in Branch /\ rec.onto \in Branch
  BY TypeParts DEF Grown
<1>2. /\ branch \in Seq(Entry) /\ branch' \in Seq(Entry) /\ rec.onto \in Seq(Entry)
      /\ DOMAIN branch = 1..Len(branch) /\ DOMAIN branch' = 1..Len(branch')
      /\ Len(branch) \in Nat /\ Len(rec.onto) \in Nat
  BY <1>1, BranchParts
<1>3. \A i \in DOMAIN branch' : i > Len(branch) => branch'[i].gen = gen
  BY <1>2
<1>4. IsPrefix(rec.onto, branch) => \A i \in 1..Len(rec.onto) : branch'[i] = branch[i]
  BY <1>2, PrefixPoints
<1>5. QED
  BY <1>3, <1>4, AgedGrows

LEMMA AgedStep ==
  ASSUME TypeOK, Running, Aged, [Next]_vars
  PROVE  Aged' /\ (rec' = rec /\ Diverged => Diverged')
<1> USE DEF session, user, run, vars
<1>1. CASE UNCHANGED <<branch, rec, gen, moves>>
  BY <1>1 DEF Aged, Diverged
<1>2. CASE SaveResigned \/ SaveProgress \/ SaveStop
  <2>0. pc = "stopped" => onto = branch
    BY DEF Running
  <2>1. rec'.onto = branch /\ UNCHANGED <<branch, gen, moves>>
    BY <1>2, <2>0 DEF SaveResigned, SaveProgress, SaveStop, Progress
  <2>2. IsPrefix(branch, branch)
    BY TypeParts, PrefixItself
  <2>3. Aged'
    BY <2>1, <2>2 DEF Aged
  <2>4. QED
    BY <2>1, <2>3 DEF Diverged
<1>3. CASE Resign \/ CleanMessage
  <2>1. UNCHANGED <<rec, gen, moves>> /\ moves' \in Int /\ moves' >= moves
    BY <1>3, TypeParts DEF Resign, CleanMessage
  <2>2. /\ Grown(branch, branch') /\ Len(branch') = Len(branch)
        /\ \A i \in DOMAIN branch : i # Len(branch) => branch'[i] = branch[i]
        /\ IsPrefix(rec.onto, branch) => Len(rec.onto) < Len(branch)
    BY <1>3, Amending
  <2>3. /\ DOMAIN branch' = 1..Len(branch) /\ DOMAIN branch = 1..Len(branch)
        /\ Len(branch) \in Nat /\ Len(rec.onto) \in Nat
    BY <2>2, TypeParts, BranchParts DEF Grown
  <2>4. \A i \in DOMAIN branch' : ~(i > Len(branch))
    BY <2>3
  <2>5. IsPrefix(rec.onto, branch) => \A i \in 1..Len(rec.onto) : branch'[i] = branch[i]
    BY <2>2, <2>3
  <2>6. QED
    BY <2>1, <2>2, <2>4, <2>5, AgedGrows
<1>4. CASE Pick /\ ~Landed(Head(todo), branch)
  BY <1>4, Adds, AgedAppended, TypeParts DEF Pick
<1>5. CASE UserContinues
  BY <1>5, Adds, AgedAppended, TypeParts DEF UserContinues
<1>6. CASE UserCommits
  <2>1. UNCHANGED <<rec, gen>> /\ moves' = moves + 1 /\ moves \in Int
    BY <1>6, TypeParts DEF UserCommits
  <2>2. /\ Grown(branch, branch') /\ Len(branch') = Len(branch) + 1
        /\ \A i \in DOMAIN branch : branch'[i] = branch[i]
        /\ branch'[Len(branch')].gen = gen
    BY <1>6, Adds
  <2>3. QED
    BY <2>1, <2>2, AgedAppended
<1>7. CASE UserResets
  BY <1>7, AgedResets
<1>8. QED
  BY <1>1, <1>2, <1>3, <1>4, <1>5, <1>6, <1>7
     DEF Next, Merge, User, StartMerge, AcceptEmpty, Pick, PickConflicts, Verify, VerifyRefuses,
         Accept, Crash, AgentCommits, UserAborts
-------------------------------------------------------------------------------
(* Tips never come back *)

LEMMA AgentExtends ==
  ASSUME TypeOK, Ordered(tip), AgentCommits
  PROVE  /\ made' = made + 1 /\ made \in Nat
         /\ tip' \in Seq(Nat) /\ Len(tip') >= 1 /\ tip'[Len(tip')] = made'
         /\ Ordered(tip)'
<1>1. tip \in Seq(Nat) /\ made \in Nat /\ made' = made + 1
  <2>1. tip \in Seq(Commit) /\ made \in Nat /\ Commit \subseteq Nat
    BY TypeParts, ReplayBoundsAssumption DEF Commit
  <2>2. QED
    BY <2>1, SeqMonotonic DEF AgentCommits
<1>2. PICK n \in 0..Len(tip) : tip' = Append(SubSeq(tip, 1, n), made')
  BY DEF AgentCommits
<1> DEFINE s == SubSeq(tip, 1, n)
<1>3. /\ s \in Seq(Nat) /\ Len(s) = n /\ n \in Nat
      /\ \A i \in 1..n : s[i] = tip[i] /\ i \in DOMAIN tip
  BY <1>1, <1>2
<1>4. \A i \in 1..n : s[i] \in 1..made
  BY <1>3 DEF Ordered
<1>5. \A i, j \in 1..n : i < j => s[i] < s[j]
  BY <1>3 DEF Ordered
<1> HIDE DEF s
<1>6. tip' = Append(s, made')
  BY <1>2 DEF s
<1>7. /\ tip' \in Seq(Nat) /\ Len(tip') = n + 1 /\ tip'[n + 1] = made'
      /\ \A i \in 1..n : tip'[i] = s[i]
      /\ DOMAIN tip' = 1..(n + 1)
  <2>1. made' \in Nat /\ n + 1 \in Nat
    BY <1>1, <1>3
  <2>2. /\ tip' \in Seq(Nat) /\ Len(tip') = n + 1 /\ tip'[n + 1] = made'
        /\ \A i \in 1..n : tip'[i] = s[i]
    BY <1>3, <1>6, <2>1, AppendProperties
  <2>3. QED
    BY <2>2
<1>8. \A i \in 1..(n + 1) : i \in 1..n \/ i = n + 1
  BY <1>3
<1>9. \A i \in DOMAIN tip' : tip'[i] \in 1..made'
  BY <1>1, <1>3, <1>4, <1>7, <1>8
<1>10. \A i, j \in DOMAIN tip' : i < j => tip'[i] < tip'[j]
  <2>1. SUFFICES ASSUME NEW i \in 1..(n + 1), NEW j \in 1..(n + 1), i < j
                 PROVE  tip'[i] < tip'[j]
    BY <1>7
  <2>2. i \in 1..n
    BY <1>3, <2>1
  <2>3. CASE j \in 1..n
    BY <1>5, <1>7, <2>1, <2>2, <2>3
  <2>4. CASE j = n + 1
    <3>1. tip'[i] = s[i] /\ s[i] \in 1..made /\ tip'[j] = made + 1
      BY <1>1, <1>4, <1>7, <2>2, <2>4
    <3>2. QED
      BY <1>1, <3>1
  <2>5. QED
    BY <1>8, <2>3, <2>4
<1>11. QED
  BY <1>1, <1>3, <1>7, <1>9, <1>10 DEF Ordered

LEMMA OrderedLater ==
  ASSUME TypeOK, AgentCommits, NEW s, Ordered(s)
  PROVE  (\A i \in DOMAIN s : s[i] \in 1..made') /\ (\A i \in DOMAIN s : s[i] # made')
  BY TypeParts DEF AgentCommits, Ordered

\* A commit of the agent's makes a tip that no record names.
LEMMA TipIsNew ==
  ASSUME TypeOK, Numbered, AgentCommits
  PROVE  rec.ref # tip'
<1>1. Len(tip') \in DOMAIN tip' /\ tip'[Len(tip')] = made'
  BY AgentExtends DEF Numbered
<1>2. \A i \in DOMAIN rec.ref : rec.ref[i] # made'
  BY OrderedLater DEF Numbered
<1>3. QED
  BY <1>1, <1>2

LEMMA NumberedStep ==
  ASSUME TypeOK, Numbered, [Next]_vars
  PROVE  Numbered'
<1> USE DEF session, user, run, vars
<1>1. CASE UNCHANGED <<made, tip, rec, ref>> /\ (pc' # "idle" => pc # "idle")
  BY <1>1 DEF Numbered, Ordered
<1>2. CASE StartMerge
  BY <1>2 DEF StartMerge, Numbered, Ordered
<1>3. CASE SaveResigned \/ SaveProgress \/ SaveStop
  <2>1. rec'.ref = ref /\ pc # "idle" /\ UNCHANGED <<made, tip, ref>>
    BY <1>3 DEF SaveResigned, SaveProgress, SaveStop, Progress
  <2>2. QED
    BY <2>1 DEF Numbered, Ordered
<1>4. CASE AgentCommits
  <2>1. UNCHANGED <<rec, ref, pc>> /\ rec.ref # tip'
    BY <1>4, TipIsNew DEF AgentCommits
  <2>2. Ordered(tip)'
    BY <1>4, AgentExtends DEF Numbered
  <2>3. Ordered(rec.ref)' /\ (pc # "idle" => Ordered(ref)')
    BY <1>4, <2>1, OrderedLater DEF Numbered, Ordered
  <2>4. QED
    BY <2>1, <2>2, <2>3 DEF Numbered
<1>5. QED
  BY <1>1, <1>2, <1>3, <1>4
     DEF Next, Merge, User, AcceptEmpty, Resign, Pick, CleanMessage, PickConflicts, Verify,
         VerifyRefuses, Accept, Crash, UserContinues, UserAborts, UserCommits, UserResets

\* A record that does not hold never comes to hold by itself.
LEMMA HoldsKept ==
  ASSUME TypeOK, Numbered, Aged, Running, [Next]_vars, rec' = rec, RecordHolds'
  PROVE  RecordHolds /\ tip' = tip
<1> USE DEF session, user, run, vars
<1>1. tip' = tip
  <2>1. AgentCommits => rec.ref # tip'
    BY TipIsNew
  <2>2. ~AgentCommits => tip' = tip
    BY DEF Next, Merge, User, StartMerge, AcceptEmpty, Resign, SaveResigned, Pick, CleanMessage,
           SaveProgress, PickConflicts, SaveStop, Verify, VerifyRefuses, Accept, Crash,
           UserContinues, UserAborts, UserCommits, UserResets
  <2>3. QED
    BY <2>1, <2>2 DEF RecordHolds
<1>2. Diverged => ~IsPrefix(rec.onto, branch')
  <2>1. TypeOK' /\ (Diverged => Diverged')
    BY TypeStep, AgedStep
  <2>2. rec'.onto \in Branch /\ branch' \in Branch
    BY <2>1 DEF TypeOK
  <2>3. Diverged' => ~IsPrefix(rec'.onto, branch')
    BY <2>2, DivergedIsOff DEF Diverged
  <2>4. QED
    BY <2>1, <2>3
<1>3. QED
  BY <1>1, <1>2 DEF RecordHolds, Aged
-------------------------------------------------------------------------------
(* Where a run is *)

LEMMA OntoGrew ==
  ASSUME TypeOK, IsPrefix(rec.onto, branch)
  PROVE  /\ Grown(rec.onto, branch)
         /\ \A i \in DOMAIN rec.onto : branch[i] = rec.onto[i]
<1>1. rec.onto \in Branch /\ branch \in Branch
  BY TypeParts
<1>2. rec.onto \in Seq(Entry) /\ branch \in Seq(Entry) /\ DOMAIN rec.onto = 1..Len(rec.onto)
  BY <1>1, BranchParts
<1>3. Len(rec.onto) <= Len(branch) /\ \A i \in 1..Len(rec.onto) : rec.onto[i] = branch[i]
  BY <1>2, PrefixPoints
<1>4. QED
  BY <1>1, <1>2, <1>3 DEF Grown

\* Each commit is in one place of the tip that was fetched.
LEMMA RunPlaces ==
  ASSUME TypeOK, Numbered, Running, pc # "idle"
  PROVE  /\ Picked \in Nat /\ Before \in Nat /\ Before <= Picked /\ Picked <= Len(ref)
         /\ DOMAIN ref = 1..Len(ref) /\ Len(ref) \in Nat /\ Len(todo) = Len(ref) - Picked
         /\ \A i \in DOMAIN ref : ref[i] # 0
         /\ \A i \in DOMAIN ref : ref[i] = done => i = Picked /\ Before < Picked
         /\ todo # <<>> => /\ Picked + 1 \in DOMAIN ref /\ Head(todo) = ref[Picked + 1]
                           /\ \A i \in DOMAIN ref : ref[i] = Head(todo) => i = Picked + 1
<1>1. /\ ref \in Seq(Commit) /\ todo \in Seq(Commit) /\ made \in Nat
      /\ accepted.tip \in Seq(Commit) /\ accepted.made \in BOOLEAN
  BY TypeParts
<1>2. /\ Len(ref) \in Nat /\ Len(todo) \in Nat /\ DOMAIN ref = 1..Len(ref) /\ Before \in Nat
      /\ Picked = Len(ref) - Len(todo)
  BY <1>1 DEF Before, Picked
<1>3. Picked \in Nat /\ Before <= Picked /\ Picked <= Len(ref)
  <2>1. Picked \in Before..Len(ref)
    BY DEF Running, Behind
  <2>2. QED
    BY <1>2, <2>1
<1>4. /\ \A i \in 1..Len(ref) : ref[i] \in 1..made
      /\ \A i, j \in 1..Len(ref) : i < j => ref[i] < ref[j]
  BY <1>2 DEF Numbered, Ordered
<1>5. \A i, j \in 1..Len(ref) : ref[i] = ref[j] => i = j
  <2>1. SUFFICES ASSUME NEW i \in 1..Len(ref), NEW j \in 1..Len(ref), ref[i] = ref[j]
                 PROVE  i = j
    OBVIOUS
  <2>2. ref[i] \in Int /\ ref[j] \in Int
    BY <1>1, <1>4
  <2>3. ~(i < j) /\ ~(j < i)
    BY <1>4, <2>1, <2>2
  <2>4. QED
    BY <2>3
<1>6. ASSUME todo # <<>>
      PROVE  /\ Picked + 1 \in 1..Len(ref) /\ Head(todo) = ref[Picked + 1]
             /\ \A i \in 1..Len(ref) : ref[i] = Head(todo) => i = Picked + 1
  <2>1. Len(todo) >= 1 /\ Head(todo) = todo[1] /\ 1 \in DOMAIN todo
    BY <1>1, <1>6, HeadTail
  <2>2. todo[1] = ref[Picked + 1]
    BY <2>1 DEF Running, Behind
  <2>3. Picked + 1 \in 1..Len(ref)
    <3>1. Picked + 1 <= Len(ref) /\ Picked + 1 \in Nat
      BY <1>2, <1>3, <2>1
    <3>2. QED
      BY <1>2, <1>3, <3>1
  <2>4. QED
    BY <1>5, <2>1, <2>2, <2>3
<1>7. \A i \in 1..Len(ref) : ref[i] # 0
  BY <1>1, <1>4
<1>8. ASSUME NEW i \in 1..Len(ref), ref[i] = done
      PROVE  i = Picked /\ Before < Picked
  <2>0. /\ Picked = Before => done = 0
        /\ Picked # Before => done = ref[Picked]
    BY DEF Running, Behind
  <2>1. Picked # Before
    BY <2>0, <1>7, <1>8
  <2>2. Before < Picked /\ Picked \in 1..Len(ref)
    <3>1. Before \in Int /\ Picked \in Int /\ Len(ref) \in Int /\ 0 <= Before
      BY <1>2, <1>3
    <3> HIDE DEF Before, Picked
    <3>2. Before < Picked /\ 1 <= Picked
      BY <1>3, <2>1, <3>1
    <3>3. QED
      BY <1>3, <3>1, <3>2
  <2>3. ref[i] = ref[Picked]
    BY <1>8, <2>0, <2>1
  <2>4. QED
    BY <1>5, <2>2, <2>3
<1>9. Len(todo) = Len(ref) - Picked
  BY <1>2
<1>10. QED
  BY <1>2, <1>3, <1>6, <1>7, <1>8, <1>9

\* A commit that was passed stays passed.
LEMMA PassedStays ==
  ASSUME [Next]_vars
  PROVE  passed \subseteq passed'
BY DEF session, user, run, vars, Next, Merge, User, StartMerge, AcceptEmpty, Resign, SaveResigned,
       Pick, CleanMessage, SaveProgress, PickConflicts, SaveStop, Verify, VerifyRefuses, Accept,
       Crash, AgentCommits, UserContinues, UserAborts, UserCommits, UserResets

LEMMA RecordMeansStep ==
  ASSUME TypeOK, Numbered, Running, RecordMeans, [Next]_vars
  PROVE  RecordMeans'
<1> USE DEF session, user, run, vars
<1>1. CASE rec' = rec
  BY <1>1, PassedStays DEF RecordMeans, Reached
<1>2. CASE SaveResigned \/ SaveProgress \/ SaveStop
  <2>1. /\ pc # "idle" /\ rec'.ref = ref /\ rec'.onto = branch
        /\ pc \in {"save", "stopped"} => todo # <<>>
        /\ pc = "save" => Reached(Head(todo), branch)
        /\ \A j \in 1..Picked : Reached(ref[j], branch)
        /\ passed' = passed
    BY <1>2 DEF SaveResigned, SaveProgress, SaveStop, Progress, Running, Behind, Reached
  <2>2. /\ Picked \in Nat /\ DOMAIN ref = 1..Len(ref)
        /\ \A i \in DOMAIN ref : ref[i] # 0
        /\ \A i \in DOMAIN ref : ref[i] = done => i = Picked
        /\ todo # <<>> => /\ Head(todo) = ref[Picked + 1]
                          /\ \A i \in DOMAIN ref : ref[i] = Head(todo) => i = Picked + 1
    BY <2>1, RunPlaces
  <2>3. SUFFICES ASSUME NEW i \in DOMAIN ref, NEW j \in DOMAIN ref,
                        (rec'.done = ref[i] /\ j <= i) \/ (rec'.stopped = ref[i] /\ j < i)
                 PROVE  Reached(ref[j], branch)
    BY <2>1 DEF RecordMeans, Reached
  <2>4. \/ rec'.done = done /\ rec'.stopped = 0
        \/ pc = "save" /\ rec'.done = Head(todo) /\ rec'.stopped = 0
        \/ pc = "stopped" /\ rec'.done = done /\ rec'.stopped = Head(todo)
    BY <1>2 DEF SaveResigned, SaveProgress, SaveStop, Progress
  <2>5. j \in 1..Picked \/ (pc = "save" /\ j = Picked + 1)
    <3>1. ref[i] # 0 /\ i \in Nat /\ j \in Nat /\ j >= 1
      BY <2>2
    <3>2. \/ i = Picked /\ j <= i
          \/ pc = "save" /\ i = Picked + 1 /\ j <= i
          \/ i = Picked + 1 /\ j < i
      BY <2>1, <2>2, <2>3, <2>4, <3>1
    <3>3. QED
      <4>1. PICK n \in Nat : n = Picked
        BY <2>2
      <4>2. QED
        BY <3>1, <3>2, <4>1
  <2>6. QED
    BY <2>1, <2>2, <2>5
<1>3. QED
  BY <1>1, <1>2
     DEF Next, Merge, User, StartMerge, AcceptEmpty, Resign, Pick, CleanMessage, PickConflicts,
         Verify, VerifyRefuses, Accept, Crash, AgentCommits, UserContinues, UserAborts,
         UserCommits, UserResets
-------------------------------------------------------------------------------
(* Where a replay starts *)

LEMMA OrderedPlaces ==
  ASSUME made \in Nat, NEW s \in Seq(Commit), Ordered(s)
  PROVE  /\ Len(s) \in Nat /\ DOMAIN s = 1..Len(s)
         /\ \A i \in DOMAIN s : s[i] # 0
         /\ \A i, j \in DOMAIN s : s[i] = s[j] => i = j
<1>1. /\ Len(s) \in Nat /\ DOMAIN s = 1..Len(s)
      /\ \A i \in DOMAIN s : s[i] \in 1..made
      /\ \A i, j \in DOMAIN s : i < j => s[i] < s[j]
  BY DEF Ordered
<1>2. \A i \in DOMAIN s : s[i] # 0 /\ s[i] \in Int
  BY <1>1
<1>3. ASSUME NEW i \in 1..Len(s), NEW j \in 1..Len(s), s[i] = s[j]
      PROVE  i = j
  <2>1. s[i] \in Int /\ ~(i < j) /\ ~(j < i)
    BY <1>1, <1>2, <1>3
  <2>2. QED
    BY <2>1
<1>4. QED
  BY <1>1, <1>2, <1>3

LEMMA SuffixIs ==
  ASSUME NEW S, NEW s \in Seq(S), NEW n \in 0..Len(s)
  PROVE  LET t == SubSeq(s, n + 1, Len(s)) IN
         /\ t \in Seq(S) /\ Len(t) = Len(s) - n /\ DOMAIN t = 1..Len(t)
         /\ \A i \in 1..Len(t) : t[i] = s[n + i]
         /\ t # <<>> => n < Len(s)
<1>1. Len(s) \in Nat
  OBVIOUS
<1>2. CASE n = Len(s)
  BY <1>1, <1>2, SubSeqEmpty, EmptySeq
<1>3. CASE n < Len(s)
  BY <1>1, <1>3, SubSeqProperties
<1>4. QED
  BY <1>1, <1>2, <1>3

\* The commits to replay are those of the tip past the ones accepted before, and
\* of these none was skipped.
LEMMA PendingIs ==
  ASSUME TypeOK, NothingSkipped, PriorHolds, Pending # <<>>
  PROVE  /\ Before \in Nat /\ Before < Len(tip) /\ Len(Pending) = Len(tip) - Before
         /\ Pending \in Seq(Commit) /\ DOMAIN Pending = 1..Len(Pending)
         /\ \A j \in DOMAIN Pending : Pending[j] = tip[Before + j]
         /\ ~(accepted.made /\ accepted.tip = tip)
         /\ \A j \in 1..Before : Reached(tip[j], branch)
<1>1. tip \in Seq(Commit) /\ accepted.tip \in Seq(Commit) /\ Len(tip) \in Nat /\ Len(accepted.tip) \in Nat
  BY TypeParts
<1>2. CASE ~accepted.made
  <2>1. Pending = tip /\ Before = 0
    BY <1>2 DEF Pending, Before
  <2>2. QED
    BY <1>1, <1>2, <2>1
<1>3. CASE accepted.made
  <2>1. /\ branch = accepted.head /\ IsPrefix(accepted.tip, tip) /\ Before = Len(accepted.tip)
        /\ Pending = SubSeq(tip, Len(accepted.tip) + 1, Len(tip))
    BY <1>3 DEF PriorHolds, Before, Pending
  <2>2. /\ Len(accepted.tip) <= Len(tip)
        /\ \A i \in 1..Len(accepted.tip) : accepted.tip[i] = tip[i]
    BY <1>1, <2>1, PrefixPoints
  <2>3. \A j \in 1..Len(accepted.tip) : Reached(tip[j], branch)
    BY <1>1, <2>1, <2>2 DEF NothingSkipped, Reached
  <2>4. Len(accepted.tip) \in 0..Len(tip) /\ (Len(accepted.tip) = Len(tip) => accepted.tip = tip)
    BY <1>1, <2>2, SeqEqual
  <2>5. /\ Pending \in Seq(Commit) /\ Len(Pending) = Len(tip) - Len(accepted.tip)
        /\ \A j \in 1..Len(Pending) : Pending[j] = tip[Len(accepted.tip) + j]
    <3>1. LET t == SubSeq(tip, Len(accepted.tip) + 1, Len(tip)) IN
          /\ t \in Seq(Commit) /\ Len(t) = Len(tip) - Len(accepted.tip) /\ DOMAIN t = 1..Len(t)
          /\ \A i \in 1..Len(t) : t[i] = tip[Len(accepted.tip) + i]
          /\ t # <<>> => Len(accepted.tip) < Len(tip)
      BY <1>1, <2>4, SuffixIs, Zenon
    <3>2. QED
      BY <2>1, <3>1
  <2>6. Len(accepted.tip) < Len(tip) /\ accepted.tip # tip /\ DOMAIN Pending = 1..Len(Pending)
    BY <1>1, <2>2, <2>4, <2>5, EmptySeq
  <2>7. QED
    BY <1>1, <2>1, <2>3, <2>5, <2>6
<1>4. QED
  BY <1>2, <1>3

\* A record that holds is resumed from, right after the last commit it has.
LEMMA ResumeMeans ==
  ASSUME TypeOK, Progresses, PriorHolds, Pending # <<>>
  PROVE  LET r == ResumeAt(Pending) IN
         /\ r.start \in 0..Len(Pending)
         /\ ~RecordHolds => r.start = 0 /\ r.base = branch /\ ~r.hand
         /\ RecordHolds =>
              /\ r.base = rec.base /\ (r.hand <=> HandFinished)
              /\ LastDone = 0 => r.start = 0
              /\ LastDone # 0 => r.start > 0 /\ Pending[r.start] = LastDone
<1>1. ResumeAt(Pending).start \in 0..Len(Pending)
  BY ResumeType
<1>2. /\ DOMAIN Pending = 1..Len(Pending) /\ Pending \in Seq(Commit)
      /\ Len(Pending) = Len(tip) - Before /\ Before \in Nat /\ Len(tip) \in Nat
      /\ \A j \in DOMAIN Pending : Pending[j] = tip[Before + j]
      /\ ~(accepted.made /\ accepted.tip = tip)
  BY PendingIs, TypeParts DEF Progresses
<1>3. CASE ~RecordHolds
  BY <1>1, <1>3 DEF ResumeAt, StartOver
<1>4. CASE RecordHolds /\ LastDone = 0
  BY <1>1, <1>4 DEF ResumeAt, Anchor
<1>5. CASE RecordHolds /\ LastDone # 0
  <2>1. \E i \in DOMAIN tip : i > Before /\ tip[i] = LastDone
    BY <1>2, <1>5 DEF Progresses, RecordPlace, LastDone
  <2>2. PICK i \in 1..Len(tip) : i > Before /\ tip[i] = LastDone
    BY <2>1, TypeParts
  <2>3. i - Before \in DOMAIN Pending /\ Pending[i - Before] = tip[i]
    <3>1. i - Before \in 1..Len(Pending) /\ Before + (i - Before) = i
      BY <1>2, <2>2
    <3>2. QED
      BY <1>2, <3>1
  <2>4. \E j \in DOMAIN Pending : Pending[j] = LastDone
    BY <2>2, <2>3
  <2>5. LET c == CHOOSE j \in DOMAIN Pending : Pending[j] = LastDone
        IN  c \in DOMAIN Pending /\ Pending[c] = LastDone
    BY <2>4
  <2>6. Contains(Pending, LastDone)
    BY <2>4 DEF Contains
  <2>7. ResumeAt(Pending) = [start |-> CHOOSE j \in DOMAIN Pending : Pending[j] = LastDone,
                             base |-> Anchor, hand |-> HandFinished]
    BY <1>5, <2>6 DEF ResumeAt
  <2>8. QED
    BY <1>1, <1>2, <1>5, <2>5, <2>7 DEF Anchor
<1>6. QED
  BY <1>3, <1>4, <1>5

\* What the run has behind it when it starts, and what it still has to do.
LEMMA StartMeans ==
  ASSUME TypeOK, Progresses, StartMerge
  PROVE  /\ Before \in Nat /\ Len(tip) \in Nat /\ DOMAIN tip = 1..Len(tip)
         /\ ref' = tip /\ Picked' \in Before..Len(tip)
         /\ DOMAIN todo' = 1..(Len(tip) - Picked')
         /\ \A j \in DOMAIN todo' : todo'[j] = tip[Picked' + j]
         /\ Picked' = Before => done' = 0
         /\ Picked' # Before => done' = tip[Picked']
         /\ ~RecordHolds => Picked' = Before /\ base' = branch /\ pc' = "pick"
         /\ RecordHolds =>
              /\ base' = rec.base /\ pc' = (IF HandFinished THEN "resign" ELSE "pick")
              /\ LastDone = 0 => Picked' = Before
              /\ LastDone # 0 => Picked' # Before /\ tip[Picked'] = LastDone
         /\ \A j \in 1..Before : Reached(tip[j], branch)
<1>1. PICK r : r = ResumeAt(Pending)
  OBVIOUS
<1>2. /\ PriorHolds /\ Pending # <<>> /\ ref' = tip
      /\ todo' = SubSeq(Pending, r.start + 1, Len(Pending)) /\ base' = r.base
      /\ done' = IF r.start > 0 THEN Pending[r.start] ELSE 0
      /\ pc' = IF r.hand THEN "resign" ELSE "pick"
  BY <1>1 DEF StartMerge
<1>3. /\ Before \in Nat /\ Before < Len(tip) /\ Len(Pending) = Len(tip) - Before
      /\ Pending \in Seq(Commit) /\ Len(tip) \in Nat /\ DOMAIN tip = 1..Len(tip)
      /\ \A j \in 1..Len(Pending) : Pending[j] = tip[Before + j]
      /\ \A j \in 1..Before : Reached(tip[j], branch)
  <2>1. NothingSkipped /\ tip \in Seq(Commit)
    BY TypeParts DEF Progresses
  <2>2. /\ Before \in Nat /\ Before < Len(tip) /\ Len(Pending) = Len(tip) - Before
        /\ Pending \in Seq(Commit) /\ DOMAIN Pending = 1..Len(Pending)
        /\ \A j \in DOMAIN Pending : Pending[j] = tip[Before + j]
        /\ \A j \in 1..Before : Reached(tip[j], branch)
    BY <1>2, <2>1, PendingIs
  <2>3. Len(tip) \in Nat /\ DOMAIN tip = 1..Len(tip) /\ 1..Len(Pending) = DOMAIN Pending
    BY <2>1, <2>2
  <2>4. QED
    BY <2>2, <2>3, Zenon
<1>4. r.start \in 0..Len(Pending)
  BY <1>1, <1>2, ResumeMeans
<1>5. /\ todo' \in Seq(Commit) /\ Len(todo') = Len(Pending) - r.start
      /\ \A j \in 1..Len(todo') : todo'[j] = Pending[r.start + j]
  <2>1. LET t == SubSeq(Pending, r.start + 1, Len(Pending)) IN
        /\ t \in Seq(Commit) /\ Len(t) = Len(Pending) - r.start /\ DOMAIN t = 1..Len(t)
        /\ \A i \in 1..Len(t) : t[i] = Pending[r.start + i]
        /\ t # <<>> => r.start < Len(Pending)
    BY <1>3, <1>4, SuffixIs, Zenon
  <2>2. QED
    BY <1>2, <2>1
<1>6. Picked' = Before + r.start /\ Picked' \in Before..Len(tip)
  <2>1. Picked' = Len(tip) - Len(todo')
    BY <1>2 DEF Picked
  <2>2. Before \in Int /\ Len(Pending) \in Int /\ r.start \in Int
    BY <1>3, <1>4
  <2> HIDE DEF Before, Picked, Pending
  <2>3. Picked' = Before + r.start
    BY <1>3, <1>5, <2>1, <2>2
  <2>4. QED
    BY <1>3, <1>4, <2>2, <2>3
<1>7. DOMAIN todo' = 1..(Len(tip) - Picked')
  BY <1>3, <1>4, <1>5, <1>6
<1>8. ASSUME NEW j \in DOMAIN todo'
      PROVE  todo'[j] = tip[Picked' + j]
  <2>1. r.start + j \in 1..Len(Pending) /\ j \in 1..Len(todo') /\ Before + (r.start + j) = Picked' + j
    BY <1>3, <1>4, <1>5, <1>6
  <2>2. QED
    BY <1>3, <1>5, <2>1
<1>9. r.start > 0 => Pending[r.start] = tip[Picked']
  BY <1>3, <1>4, <1>6
<1>10. Picked' = Before <=> r.start = 0
  BY <1>3, <1>4, <1>6
<1>11. (Picked' = Before => done' = 0) /\ (Picked' # Before => done' = tip[Picked'])
  BY <1>2, <1>4, <1>9, <1>10
<1>12. ~RecordHolds => Picked' = Before /\ base' = branch /\ pc' = "pick"
  BY <1>1, <1>2, <1>10, ResumeMeans
<1>13. RecordHolds =>
         /\ base' = rec.base /\ pc' = (IF HandFinished THEN "resign" ELSE "pick")
         /\ LastDone = 0 => Picked' = Before
         /\ LastDone # 0 => Picked' # Before /\ tip[Picked'] = LastDone
  BY <1>1, <1>2, <1>4, <1>9, <1>10, ResumeMeans
<1>14. QED
  BY <1>2, <1>3, <1>6, <1>7, <1>8, <1>11, <1>12, <1>13

\* What a run has behind it when it starts is reached, the commit it goes past
\* because its cherry-pick was given up among it.
LEMMA StartLanded ==
  ASSUME TypeOK, Progresses, StartMerge
  PROVE  \A j \in 1..Picked' : Landed(tip[j], branch) \/ tip[j] \in passed'
<1>0. passed' = passed \cup Abandoned
  BY DEF StartMerge
<1>1. SUFFICES ASSUME NEW j \in 1..Picked'
               PROVE  Landed(tip[j], branch) \/ tip[j] \in passed'
  OBVIOUS
<1>2. /\ Before \in Nat /\ Len(tip) \in Nat /\ DOMAIN tip = 1..Len(tip)
      /\ Picked' \in Before..Len(tip)
      /\ Picked' # Before => RecordHolds /\ LastDone # 0 /\ tip[Picked'] = LastDone
      /\ \A i \in 1..Before : Reached(tip[i], branch)
  BY StartMeans
<1>3. CASE j \in 1..Before
  BY <1>0, <1>2, <1>3 DEF Reached
<1>4. CASE ~(j \in 1..Before)
  <2>1. /\ Picked' # Before /\ Picked' \in DOMAIN tip /\ j \in DOMAIN tip /\ j <= Picked'
        /\ j # Picked' => j < Picked'
    BY <1>2, <1>4
  <2>2. RecordHolds /\ LastDone # 0 /\ tip[Picked'] = LastDone /\ rec.ref = tip
        /\ IsPrefix(rec.onto, branch)
    BY <1>2, <2>1 DEF RecordHolds
  <2>3. Reached(tip[j], rec.onto) => Landed(tip[j], branch) \/ tip[j] \in passed'
    BY <1>0, <2>2, OntoGrew, LandedStays DEF Reached
  <2>4. CASE LastDone = rec.done
    BY <2>1, <2>2, <2>3, <2>4 DEF Progresses, RecordMeans
  <2>5. CASE LastDone = rec.stopped /\ rec.stopped # 0 /\ branch # rec.onto
    <3>1. CASE j = Picked'
      BY <1>0, <2>2, <2>5, <3>1 DEF Abandoned
    <3>2. CASE j < Picked'
      BY <2>1, <2>2, <2>3, <2>5, <3>2 DEF Progresses, RecordMeans
    <3>3. QED
      BY <2>1, <3>1, <3>2
  <2>6. QED
    BY <2>4, <2>5 DEF LastDone
<1>5. QED
  BY <1>3, <1>4
-------------------------------------------------------------------------------
(* What a run has behind it stays on the branch *)

LEMMA BehindGrows ==
  ASSUME Behind, Grown(branch, branch'), UNCHANGED <<ref, todo, done, accepted, passed>>
  PROVE  Behind'
<1>1. \A j \in 1..Picked : Landed(ref[j], branch') \/ ref[j] \in passed
  BY LandedStays DEF Behind, Reached
<1>2. Picked' = Picked /\ Before' = Before
  BY DEF Picked, Before
<1>3. QED
  BY <1>1, <1>2 DEF Behind, Reached

\* A commit made on a branch leaves the record's branch behind.
LEMMA MadeIsAmendable ==
  ASSUME TypeOK, Progresses, [Next]_vars, rec' = rec, Len(branch') = Len(branch) + 1
  PROVE  Amendable'
<1>1. TypeOK' /\ (Diverged => Diverged') /\ rec.onto \in Branch /\ branch \in Branch
  BY TypeStep, AgedStep, TypeParts DEF Progresses
<1>2. rec'.onto \in Branch /\ branch' \in Branch
  BY <1>1 DEF TypeOK
<1>3. Diverged' => ~IsPrefix(rec'.onto, branch')
  BY <1>2, DivergedIsOff DEF Diverged
<1>4. IsPrefix(rec.onto, branch) \/ Diverged
  BY DEF Progresses, Aged
<1>5. /\ rec.onto \in Seq(Entry) /\ branch \in Seq(Entry) /\ branch' \in Seq(Entry)
      /\ Len(rec.onto) \in Nat /\ Len(branch) \in Nat
  BY <1>1, <1>2, BranchParts
<1>6. IsPrefix(rec.onto, branch) => Len(rec.onto) <= Len(branch)
  BY <1>5, PrefixPoints
<1>7. branch' # <<>>
  BY <1>5
<1>8. QED
  BY <1>1, <1>3, <1>4, <1>5, <1>6, <1>7 DEF Amendable

LEMMA RunningStep ==
  ASSUME TypeOK, Progresses, [Next]_vars
  PROVE  Running'
<1>0. TypeOK' /\ Running
  BY TypeStep DEF Progresses
<1> USE DEF session, user, run, vars
<1>1. CASE pc' = "idle"
  BY <1>1 DEF Running
<1>2. CASE StartMerge
  <2>1. UNCHANGED <<branch, rec, accepted>> /\ pc' \in {"resign", "pick"} /\ Before' = Before
    BY <1>2 DEF StartMerge, Before
  <2>2. Behind'
    <3>1. \A j \in 1..Picked' : Landed(tip[j], branch) \/ tip[j] \in passed'
      BY <1>2, StartLanded
    <3>2. /\ ref' = tip /\ Picked' \in Before..Len(tip)
          /\ \A j \in DOMAIN todo' : todo'[j] = tip[Picked' + j]
          /\ Picked' = Before => done' = 0
          /\ Picked' # Before => done' = tip[Picked']
      BY <1>2, StartMeans
    <3>3. QED
      BY <2>1, <3>1, <3>2 DEF Behind, Reached
  <2>3. pc' = "resign" => Amendable'
    <3>1. pc' = "resign" => HandFinished
      BY <1>2, StartMeans
    <3>2. rec.onto \in Branch /\ branch \in Branch
      BY TypeParts
    <3>3. Len(rec.onto) \in Nat /\ branch \in Seq(Entry)
      BY <3>2, BranchParts
    <3>4. HandFinished => branch # <<>> /\ Len(rec.onto) < Len(branch)
      BY <3>3, EmptySeq DEF HandFinished
    <3>5. QED
      BY <2>1, <3>1, <3>4 DEF Amendable
  <2>4. QED
    BY <2>1, <2>2, <2>3 DEF Running
<1>3. CASE Resign \/ CleanMessage
  <2>1. /\ Grown(branch, branch') /\ UNCHANGED <<ref, todo, done, accepted, passed>>
        /\ Resign => pc' = "resigned"
        /\ CleanMessage => pc = "clean" /\ pc' = "save"
        /\ pc # "idle"
    BY <1>0, <1>3, Amending DEF Resign, CleanMessage
  <2>2. Behind'
    BY <1>0, <2>1, BehindGrows DEF Running
  <2>3. CleanMessage => todo # <<>> /\ Landed(Head(todo), branch')
    BY <1>0, <2>1, LandedStays DEF Running
  <2>4. QED
    BY <1>3, <2>1, <2>2, <2>3 DEF Running
<1>4. CASE SaveResigned \/ Verify
  BY <1>0, <1>4 DEF SaveResigned, Verify, Running, Behind, Picked, Before, Reached
<1>5. CASE Pick
  <2>1. pc = "pick" /\ todo # <<>> /\ Behind
        /\ UNCHANGED <<ref, todo, done, accepted, rec, passed>>
    BY <1>0, <1>5 DEF Pick, Running
  <2>2. CASE Landed(Head(todo), branch)
    <3>1. branch' = branch /\ pc' = "save"
      BY <1>5, <2>2 DEF Pick
    <3>2. Behind'
      BY <2>1, <3>1 DEF Behind, Picked, Before, Reached
    <3>3. QED
      BY <2>1, <2>2, <3>1, <3>2 DEF Running
  <2>3. CASE ~Landed(Head(todo), branch)
    <3>1. /\ Grown(branch, branch') /\ Len(branch') = Len(branch) + 1
          /\ branch'[Len(branch')].of = Head(todo) /\ pc' = "clean"
      BY <1>5, <2>3, Adds DEF Pick
    <3>2. Behind'
      BY <2>1, <3>1, BehindGrows
    <3>3. Amendable'
      BY <2>1, <3>1, MadeIsAmendable
    <3>4. Len(branch') \in DOMAIN branch'
      <4>1. branch \in Branch /\ branch' \in Branch
        BY <1>0, TypeParts DEF TypeOK
      <4>2. Len(branch) \in Nat /\ DOMAIN branch' = 1..Len(branch')
        BY <4>1, BranchParts
      <4>3. QED
        BY <3>1, <4>2
    <3>5. Landed(Head(todo), branch')
      BY <3>1, <3>4 DEF Landed
    <3>6. QED
      BY <2>1, <3>1, <3>2, <3>3, <3>5 DEF Running
  <2>4. QED
    BY <2>2, <2>3
<1>6. CASE SaveProgress
  <2>1. /\ pc = "save" /\ pc' = "pick" /\ todo # <<>> /\ done' = Head(todo) /\ todo' = Tail(todo)
        /\ UNCHANGED <<ref, branch, accepted, passed>> /\ Behind /\ Landed(Head(todo), branch)
    BY <1>0, <1>6 DEF SaveProgress, Running
  <2>2. /\ Picked \in Nat /\ Before \in Nat /\ Before <= Picked /\ Picked <= Len(ref)
        /\ Len(ref) \in Nat /\ Len(todo) = Len(ref) - Picked
        /\ Picked + 1 \in DOMAIN ref /\ Head(todo) = ref[Picked + 1] /\ DOMAIN ref = 1..Len(ref)
    BY <1>0, <2>1, RunPlaces DEF Progresses
  <2>3. /\ todo \in Seq(Commit) /\ Len(todo') = Len(todo) - 1 /\ Len(todo) \in Nat
        /\ \A i \in 1..Len(todo') : todo'[i] = todo[i + 1]
        /\ DOMAIN todo' = 1..Len(todo') /\ DOMAIN todo = 1..Len(todo)
    BY <2>1, TypeParts, HeadTail
  <2>4. Before' = Before /\ Picked' = Picked + 1
    <3>1. Picked' = Len(ref) - Len(todo')
      BY <2>1 DEF Picked
    <3>2. Before' = Before
      BY <2>1 DEF Before
    <3>3. QED
      BY <2>2, <2>3, <3>1, <3>2
  <2>5. Picked' \in Before'..Len(ref') /\ Picked' # Before'
    BY <2>1, <2>2, <2>4
  <2>6. \A j \in DOMAIN todo' : todo'[j] = ref[Picked' + j]
    <3>1. SUFFICES ASSUME NEW j \in DOMAIN todo'
                   PROVE  todo'[j] = ref[Picked' + j]
      OBVIOUS
    <3>2. j + 1 \in DOMAIN todo /\ todo'[j] = todo[j + 1] /\ Picked + (j + 1) = Picked' + j
      BY <2>2, <2>3, <2>4
    <3>3. QED
      BY <2>1, <3>2 DEF Behind
  <2>7. done' = ref'[Picked']
    BY <2>1, <2>2, <2>4
  <2>8. \A j \in 1..Picked' : Landed(ref'[j], branch') \/ ref'[j] \in passed'
    <3>1. \A j \in 1..Picked' : j \in 1..Picked \/ j = Picked + 1
      BY <2>2, <2>4
    <3>2. QED
      BY <2>1, <2>2, <3>1 DEF Behind, Reached
  <2>9. Behind'
    BY <2>1, <2>5, <2>6, <2>7, <2>8 DEF Behind, Reached
  <2>10. QED
    BY <2>1, <2>9 DEF Running
<1>7. CASE PickConflicts
  BY <1>0, <1>7 DEF PickConflicts, Running, Behind, Picked, Before, Reached
<1>8. CASE UserCommits /\ pc # "idle"
  <2>1. /\ Grown(branch, branch') /\ Len(branch') = Len(branch) + 1
        /\ UNCHANGED <<ref, todo, done, accepted, rec, pc, onto, passed>> /\ picking = 0
    BY <1>8, Adds DEF UserCommits
  <2>2. Behind' /\ Amendable'
    BY <1>0, <1>8, <2>1, BehindGrows, MadeIsAmendable DEF Running
  <2>3. pc # "stopped"
    <3>1. ASSUME pc = "stopped"
          PROVE  FALSE
      <4>1. todo # <<>> /\ todo \in Seq(Commit) /\ picking = Head(todo)
        BY <1>0, <3>1, TypeParts DEF Running
      <4>2. Head(todo) \in Commit
        BY <4>1, HeadTail
      <4>3. QED
        BY <2>1, <4>1, <4>2 DEF Commit
    <3>2. QED
      BY <3>1
  <2>4. pc \in {"clean", "save"} => Landed(Head(todo), branch')
    BY <1>0, <2>1, LandedStays DEF Running
  <2>5. QED
    BY <1>0, <1>8, <2>1, <2>2, <2>3, <2>4 DEF Running
<1>9. CASE AgentCommits \/ UNCHANGED vars
  <2>1. UNCHANGED <<pc, ref, todo, done, branch, accepted, rec, picking, onto, passed>>
    BY <1>9 DEF AgentCommits
  <2>2. QED
    BY <1>0, <2>1 DEF Running, Behind, Picked, Before, Amendable, Reached
<1>10. QED
  BY <1>1, <1>2, <1>3, <1>4, <1>5, <1>6, <1>7, <1>8, <1>9
     DEF Next, Merge, User, AcceptEmpty, SaveStop, VerifyRefuses, Accept, Crash, UserContinues,
         UserAborts, UserCommits, UserResets
-------------------------------------------------------------------------------
(* What an acceptance and a record say *)

LEMMA NothingSkippedStep ==
  ASSUME TypeOK, Progresses, [Next]_vars
  PROVE  NothingSkipped'
<1> USE DEF session, user, run, vars
<1>1. CASE accepted' = accepted
  BY <1>1, PassedStays DEF Progresses, NothingSkipped
<1>2. CASE AcceptEmpty
  BY <1>2 DEF AcceptEmpty, NothingSkipped
<1>3. CASE Accept
  <2>1. /\ accepted'.tip = ref /\ accepted'.head = branch /\ todo = <<>>
        /\ \A j \in 1..Picked : Landed(ref[j], branch) \/ ref[j] \in passed'
    BY <1>3 DEF Accept, Progresses, Running, Behind, Reached
  <2>2. ref \in Seq(Commit) /\ Picked = Len(ref)
    BY <2>1, TypeParts DEF Picked
  <2>3. QED
    BY <2>1, <2>2 DEF NothingSkipped
<1>4. QED
  BY <1>1, <1>2, <1>3
     DEF Next, Merge, User, StartMerge, Resign, SaveResigned, Pick, CleanMessage, SaveProgress,
         PickConflicts, SaveStop, Verify, VerifyRefuses, Crash, AgentCommits, UserContinues,
         UserAborts, UserCommits, UserResets

\* What is written of a run's progress is where its tip has it.
LEMMA SavedPlaces ==
  ASSUME TypeOK, Progresses, SaveResigned \/ SaveProgress \/ SaveStop
  PROVE  /\ Before' = Before /\ rec'.ref = ref /\ rec'.base = base /\ rec'.onto = branch'
         /\ branch' = branch /\ tip' = tip
         /\ rec'.done # 0 => \E i \in DOMAIN ref : i > Before /\ ref[i] = rec'.done
         /\ rec'.stopped # 0 =>
              \E i \in DOMAIN ref :
                /\ i > Before /\ ref[i] = rec'.stopped
                /\ IF rec'.done = 0 THEN i = Before + 1 ELSE i > 1 /\ ref[i - 1] = rec'.done
<1>1. /\ pc # "idle" /\ Running /\ Numbered
      /\ pc \in {"save", "stopped"} => todo # <<>>
      /\ pc = "stopped" => onto = branch
  BY DEF SaveResigned, SaveProgress, SaveStop, Progresses, Running
<1>2. /\ Picked \in Nat /\ Before \in Nat /\ Before <= Picked /\ Picked <= Len(ref)
      /\ Len(ref) \in Nat /\ DOMAIN ref = 1..Len(ref)
      /\ todo # <<>> => Picked + 1 \in DOMAIN ref /\ Head(todo) = ref[Picked + 1]
  BY <1>1, RunPlaces
<1>3. /\ Picked = Before => done = 0
      /\ Picked # Before => done = ref[Picked]
  BY <1>1 DEF Running, Behind
<1>4. done # 0 => Picked > Before /\ Picked \in DOMAIN ref /\ ref[Picked] = done
  <2>1. Picked # Before => Picked > Before /\ Picked \in DOMAIN ref
    BY <1>2
  <2>2. QED
    BY <1>3, <2>1
<1>5. /\ Before' = Before /\ rec'.ref = ref /\ rec'.base = base /\ rec'.onto = branch'
      /\ branch' = branch /\ tip' = tip
  BY <1>1 DEF SaveResigned, SaveProgress, SaveStop, Progress, Before, session
<1>6. CASE SaveResigned
  <2>1. rec'.done = done /\ rec'.stopped = 0
    BY <1>6 DEF SaveResigned, Progress
  <2>2. QED
    BY <1>4, <1>5, <2>1
<1>7. CASE SaveProgress
  <2>1. rec'.done = Head(todo) /\ rec'.stopped = 0 /\ todo # <<>>
    BY <1>1, <1>7 DEF SaveProgress, Progress
  <2>2. Picked + 1 > Before
    BY <1>2
  <2>3. QED
    BY <1>2, <1>5, <2>1, <2>2
<1>8. CASE SaveStop
  <2>1. rec'.done = done /\ rec'.stopped = Head(todo) /\ todo # <<>>
    BY <1>1, <1>8 DEF SaveStop, Progress
  <2>2. Picked + 1 > Before /\ Picked + 1 \in DOMAIN ref /\ ref[Picked + 1] = rec'.stopped
    BY <1>2, <2>1
  <2>3. done = 0 => Picked = Before
    <3>1. Picked # Before => Picked \in DOMAIN ref /\ done = ref[Picked]
      BY <1>2, <1>3
    <3>2. \A i \in DOMAIN ref : ref[i] # 0
      BY <1>1, RunPlaces
    <3>3. QED
      BY <3>1, <3>2
  <2>4. done # 0 => Picked + 1 > 1 /\ ref[(Picked + 1) - 1] = done
    BY <1>2, <1>4
  <2>5. rec'.done = 0 => Picked + 1 = Before + 1
    BY <2>1, <2>3
  <2>6. QED
    BY <1>4, <1>5, <2>1, <2>2, <2>4, <2>5
<1>9. QED
  BY <1>6, <1>7, <1>8

LEMMA RecordPlaceStep ==
  ASSUME TypeOK, Progresses, [Next]_vars
  PROVE  RecordPlace'
<1>0. SUFFICES ASSUME RecordHolds'
               PROVE  RecordPlace'
  BY DEF RecordPlace
<1> USE DEF session, user, run, vars
<1>1. CASE rec' = rec
  <2>1. RecordHolds /\ tip' = tip
    BY <1>0, <1>1, HoldsKept DEF Progresses
  <2>2. CASE accepted' = accepted
    BY <1>1, <2>1, <2>2 DEF Progresses, RecordPlace, Before
  <2>3. CASE AcceptEmpty
    BY <2>1, <2>3 DEF AcceptEmpty, RecordPlace
  <2>4. CASE Accept
    <3>1. ref = tip
      BY <2>1, <2>4 DEF Accept, Progresses, Numbered, RecordHolds
    <3>2. QED
      BY <2>1, <2>4, <3>1 DEF Accept, RecordPlace
  <2>5. QED
    BY <2>2, <2>3, <2>4
       DEF Next, Merge, User, StartMerge, Resign, SaveResigned, Pick, CleanMessage, SaveProgress,
           PickConflicts, SaveStop, Verify, VerifyRefuses, Crash, AgentCommits, UserContinues,
           UserAborts, UserCommits, UserResets
<1>2. CASE SaveResigned \/ SaveProgress \/ SaveStop
  <2>1. tip' = ref
    BY <1>0, <1>2, SavedPlaces DEF RecordHolds
  <2>2. QED
    BY <1>2, <2>1, SavedPlaces DEF RecordPlace
<1>3. QED
  BY <1>1, <1>2
     DEF Next, Merge, User, StartMerge, AcceptEmpty, Resign, Pick, CleanMessage, PickConflicts,
         Verify, VerifyRefuses, Accept, Crash, AgentCommits, UserContinues, UserAborts,
         UserCommits, UserResets
-------------------------------------------------------------------------------
(* A conflict is passed by its own commit *)

LEMMA PastTheStop ==
  ASSUME NEW o \in Branch, NEW b \in Branch, IsPrefix(o, b)
  PROVE  /\ Len(o) \in Nat /\ Len(b) \in Nat /\ Len(o) <= Len(b)
         /\ b # o <=> Len(o) < Len(b)
         /\ DOMAIN b = 1..Len(b) /\ DOMAIN o = 1..Len(o)
         /\ \A i \in DOMAIN o : b[i] = o[i]
<1>1. o \in Seq(Entry) /\ b \in Seq(Entry) /\ Len(o) \in Nat /\ Len(b) \in Nat
      /\ DOMAIN b = 1..Len(b) /\ DOMAIN o = 1..Len(o)
  BY BranchParts
<1>2. Len(o) <= Len(b) /\ \A i \in 1..Len(o) : o[i] = b[i]
  BY <1>1, PrefixPoints
<1>3. Len(o) = Len(b) => o = b
  BY <1>1, <1>2, SeqEqual
<1>4. o = b => Len(o) = Len(b)
  OBVIOUS
<1>5. b # o <=> Len(o) < Len(b)
  <2> DEFINE m == Len(o)
             n == Len(b)
  <2>1. m \in Nat /\ n \in Nat /\ m <= n /\ (m = n <=> o = b)
    BY <1>1, <1>2, <1>3, <1>4
  <2> HIDE DEF m, n
  <2>2. m # n <=> m < n
    BY <2>1
  <2>3. QED
    BY <2>1, <2>2 DEF m, n
<1>6. \A i \in DOMAIN o : b[i] = o[i]
  BY <1>1, <1>2
<1>7. QED
  BY <1>1, <1>2, <1>5, <1>6

\* A branch that is past the conflict, or grows, is not the record's.
LEMMA StopGrows ==
  ASSUME TypeOK, TypeOK', RecordHolds, rec' = rec, Grown(branch, branch'),
         branch # rec.onto \/ Len(branch') = Len(branch) + 1
  PROVE  StopPassed'
<1>1. rec.onto \in Branch /\ branch \in Branch /\ branch' \in Branch
  BY TypeParts DEF TypeOK
<1>2. PICK k \in Nat, m \in Nat, n \in Nat :
        /\ k = Len(rec.onto) /\ m = Len(branch) /\ n = Len(branch')
        /\ k <= m /\ m <= n /\ (branch # rec.onto <=> k < m)
  BY <1>1, PastTheStop, BranchParts DEF RecordHolds, Grown
<1>3. k < m \/ n = m + 1
  BY <1>2
<1>4. k < n
  BY <1>2, <1>3
<1>5. branch' # rec.onto
  BY <1>2, <1>4
<1>6. QED
  BY <1>5 DEF StopPassed

\* A run that starts on the record's own branch starts with the conflict's commit.
LEMMA StopIsNext ==
  ASSUME TypeOK, Progresses, StartMerge, RecordHolds, rec.stopped # 0, branch = rec.onto
  PROVE  todo' # <<>> /\ Head(todo') = rec.stopped
<1>1. /\ Before \in Nat /\ Len(tip) \in Nat /\ DOMAIN tip = 1..Len(tip)
      /\ Picked' \in Before..Len(tip) /\ DOMAIN todo' = 1..(Len(tip) - Picked')
      /\ \A j \in DOMAIN todo' : todo'[j] = tip[Picked' + j]
      /\ LastDone = 0 => Picked' = Before
      /\ LastDone # 0 => Picked' # Before /\ tip[Picked'] = LastDone
  BY StartMeans
<1>2. LastDone = rec.done
  BY DEF LastDone
<1>3. ~(accepted.made /\ accepted.tip = tip)
  BY PendingIs DEF StartMerge, Progresses
<1>4. PICK i \in DOMAIN tip :
        /\ i > Before /\ tip[i] = rec.stopped
        /\ IF rec.done = 0 THEN i = Before + 1 ELSE i > 1 /\ tip[i - 1] = rec.done
  BY <1>3 DEF Progresses, RecordPlace
<1>5. \A k, j \in DOMAIN tip : tip[k] = tip[j] => k = j
  BY TypeParts, OrderedPlaces DEF Progresses, Numbered
<1>6. Picked' = i - 1
  <2>1. CASE rec.done = 0
    BY <1>1, <1>2, <1>4, <2>1
  <2>2. CASE rec.done # 0
    <3>1. i - 1 \in DOMAIN tip /\ tip[i - 1] = rec.done
      BY <1>1, <1>4, <2>2
    <3>2. Picked' \in DOMAIN tip /\ tip[Picked'] = rec.done
      BY <1>1, <1>2, <2>2
    <3>3. QED
      BY <1>5, <3>1, <3>2
  <2>3. QED
    BY <2>1, <2>2
<1>7. 1 \in DOMAIN todo' /\ todo'[1] = rec.stopped
  <2>1. Len(tip) - Picked' >= 1 /\ Len(tip) - Picked' \in Int /\ Picked' + 1 = i
    BY <1>1, <1>4, <1>6
  <2>2. 1 \in DOMAIN todo'
    BY <1>1, <2>1
  <2>3. QED
    BY <1>1, <1>4, <2>1, <2>2
<1>8. QED
  <2>1. todo' # <<>>
    BY <1>7
  <2>2. Head(todo') = todo'[1]
    <3>1. TypeOK'
      BY TypeStep DEF Progresses, Next, Merge
    <3>2. todo' \in Seq(Commit)
      BY <3>1 DEF TypeOK
    <3>3. QED
      BY <2>1, <3>2, HeadTail
  <2>3. QED
    BY <1>7, <2>1, <2>2

LEMMA StopPassedStep ==
  ASSUME TypeOK, Progresses, [Next]_vars
  PROVE  StopPassed'
<1>0. SUFFICES ASSUME RecordHolds', rec'.stopped # 0
               PROVE  StopPassed'
  BY DEF StopPassed
<1>1. TypeOK' /\ Running /\ StopPassed
  BY TypeStep DEF Progresses
<1> USE DEF session, user, run, vars
<1>2. CASE SaveResigned \/ SaveProgress \/ SaveStop
  <2>1. SaveStop
    BY <1>0, <1>2 DEF SaveResigned, SaveProgress, Progress
  <2>2. /\ pc' = "idle" /\ branch' = branch /\ picking' = Head(todo) /\ rec'.onto = branch
        /\ rec'.stopped = Head(todo)
    BY <1>1, <2>1 DEF SaveStop, Progress, Running
  <2>3. QED
    BY <2>2 DEF StopPassed
<1>3. CASE rec' = rec /\ ~(SaveResigned \/ SaveProgress \/ SaveStop)
  <2>0. RecordHolds /\ tip' = tip /\ rec.stopped # 0
    BY <1>0, <1>3, HoldsKept DEF Progresses
  <2>1. CASE StartMerge
    <3>1. branch' = branch /\ picking' = 0
      BY <2>1 DEF StartMerge
    <3>2. QED
      BY <1>1, <1>3, <2>0, <2>1, <3>1, StopIsNext DEF StopPassed
  <2>2. CASE branch' = branch /\ ~StartMerge
    <3>1. CASE branch # rec.onto
      BY <1>3, <2>2, <3>1 DEF StopPassed
    <3>2. CASE branch = rec.onto
      <4>1. /\ pc # "idle" => todo # <<>> /\ Head(todo) = rec.stopped
            /\ picking # 0 => picking = rec.stopped
        BY <1>1, <2>0, <3>2 DEF StopPassed
      <4>2. /\ pc' # "idle" => pc # "idle" /\ todo' = todo
            /\ picking' # 0 => picking' = picking \/ (picking' = Head(todo) /\ pc # "idle")
        BY <1>3, <2>2
           DEF Next, Merge, User, AcceptEmpty, Resign, Pick, CleanMessage, PickConflicts,
               Verify, VerifyRefuses, Accept, Crash, AgentCommits, UserContinues, UserAborts,
               UserCommits, UserResets, SaveResigned, SaveProgress, SaveStop
      <4>3. QED
        BY <1>3, <2>2, <3>2, <4>1, <4>2 DEF StopPassed
    <3>3. QED
      BY <3>1, <3>2
  <2>3. CASE Resign \/ CleanMessage
    <3>1. Grown(branch, branch') /\ (IsPrefix(rec.onto, branch) => Len(rec.onto) < Len(branch))
      BY <1>1, <2>3, Amending
    <3>2. IsPrefix(rec.onto, branch) /\ rec.onto \in Branch /\ branch \in Branch
      BY <2>0, TypeParts DEF RecordHolds
    <3>3. branch # rec.onto
      BY <3>1, <3>2, PastTheStop
    <3>4. QED
      BY <1>1, <1>3, <2>0, <3>1, <3>3, StopGrows
  <2>4. CASE (Pick /\ ~Landed(Head(todo), branch)) \/ UserContinues \/ UserCommits
    <3>1. Grown(branch, branch') /\ Len(branch') = Len(branch) + 1
      BY <2>4, Adds
    <3>2. QED
      BY <1>1, <1>3, <2>0, <3>1, StopGrows
  <2>5. CASE UserResets
    BY <1>3, <2>5 DEF UserResets, StopPassed
  <2>6. QED
    BY <1>3, <2>1, <2>2, <2>3, <2>4, <2>5
       DEF Next, Merge, User, AcceptEmpty, Pick, PickConflicts, Verify, VerifyRefuses, Accept,
           Crash, AgentCommits, UserAborts
<1>4. QED
  BY <1>2, <1>3
     DEF Next, Merge, User, StartMerge, AcceptEmpty, Resign, Pick, CleanMessage, PickConflicts,
         Verify, VerifyRefuses, Accept, Crash, AgentCommits, UserContinues, UserAborts,
         UserCommits, UserResets
-------------------------------------------------------------------------------
(* Signatures *)

\* A reset leaves the branch a prefix of itself.
LEMMA ResetKeeps ==
  ASSUME TypeOK, UserResets
  PROVE  /\ Len(branch') < Len(branch)
         /\ \A i \in DOMAIN branch' : i \in DOMAIN branch /\ branch'[i] = branch[i]
<1>1. branch \in Branch
  BY TypeParts
<1>2. branch \in Seq(Entry) /\ Len(branch) \in Nat
  BY <1>1, BranchParts
<1>3. PICK n \in 0..(Len(branch) - 1) : branch' = SubSeq(branch, 1, n)
  BY DEF UserResets
<1>4. /\ branch' \in Seq(Entry) /\ Len(branch') = n /\ n < Len(branch)
      /\ \A i \in 1..n : branch'[i] = branch[i] /\ i \in 1..Len(branch)
  BY <1>2, <1>3
<1>5. QED
  BY <1>2, <1>4

LEMMA MadeSignedStep ==
  ASSUME TypeOK, Progresses, MadeSigned, [Next]_vars
  PROVE  MadeSigned'
<1>0. TypeOK' /\ Running
  BY TypeStep DEF Progresses
<1>1. /\ branch \in Branch /\ branch' \in Branch
      /\ branch \in Seq(Entry) /\ branch' \in Seq(Entry)
      /\ Len(branch) \in Nat /\ Len(branch') \in Nat
      /\ DOMAIN branch = 1..Len(branch) /\ DOMAIN branch' = 1..Len(branch')
  <2>1. branch \in Branch /\ branch' \in Branch
    BY <1>0 DEF TypeOK
  <2>2. QED
    BY <2>1, BranchParts
<1> USE DEF session, user, run, vars
<1>2. CASE branch' = branch
  BY <1>2 DEF MadeSigned
<1>3. CASE Resign \/ CleanMessage
  <2>1. /\ Len(branch') = Len(branch)
        /\ \A i \in DOMAIN branch : branch'[i].of = branch[i].of /\ branch'[i].hand = branch[i].hand
        /\ \A i \in DOMAIN branch : branch[i].signed => branch'[i].signed
    BY <1>0, <1>3, Amending DEF Grown
  <2>2. QED
    BY <1>1, <2>1 DEF MadeSigned
<1>4. CASE (Pick /\ ~Landed(Head(todo), branch)) \/ UserContinues \/ UserCommits
  <2>1. /\ Len(branch') = Len(branch) + 1
        /\ \A i \in DOMAIN branch : branch'[i] = branch[i]
    BY <1>4, Adds
  <2>2. \/ branch'[Len(branch')].of = 0
        \/ branch'[Len(branch')].hand
        \/ branch'[Len(branch')].signed
    BY <1>4, Adds
  <2>3. \A i \in DOMAIN branch' : i \in DOMAIN branch \/ i = Len(branch')
    BY <1>1, <2>1
  <2>4. QED
    BY <2>1, <2>2, <2>3 DEF MadeSigned
<1>5. CASE UserResets
  <2>1. \A i \in DOMAIN branch' : i \in DOMAIN branch /\ branch'[i] = branch[i]
    BY <1>5, ResetKeeps
  <2>2. QED
    BY <2>1 DEF MadeSigned
<1>6. QED
  BY <1>2, <1>3, <1>4, <1>5
     DEF Next, Merge, User, StartMerge, AcceptEmpty, SaveResigned, Pick, SaveProgress,
         PickConflicts, SaveStop, Verify, VerifyRefuses, Accept, Crash, AgentCommits, UserAborts

\* What has no entry by hand of the session's commits is signed.
LEMMA NoHandSigned ==
  ASSUME TypeOK, Progresses, MadeSigned, AnchorsSigned, StartMerge, ~RecordHolds, ~lost'
  PROVE  SignedIn(branch, tip)
<1>1. SUFFICES ASSUME NEW i \in DOMAIN branch, branch[i].of \in ToSet(tip)
               PROVE  branch[i].signed
  BY DEF SignedIn
<1>2. PICK j \in DOMAIN tip : branch[i].of = tip[j]
  BY <1>1 DEF ToSet
<1>3. /\ Before \in Nat /\ Before < Len(tip) /\ Len(Pending) = Len(tip) - Before
      /\ DOMAIN Pending = 1..Len(Pending)
      /\ \A k \in DOMAIN Pending : Pending[k] = tip[Before + k]
      /\ PriorHolds
  BY PendingIs DEF StartMerge, Progresses
<1>4. tip \in Seq(Commit) /\ DOMAIN tip = 1..Len(tip) /\ Len(tip) \in Nat /\ tip[j] # 0
  <2>1. tip \in Seq(Commit)
    BY TypeParts
  <2>2. tip[j] \in Commit
    BY <2>1
  <2>3. QED
    BY <2>1, <2>2 DEF Commit
<1>5. CASE j > Before
  <2>1. j - Before \in DOMAIN Pending /\ Before + (j - Before) = j
    BY <1>3, <1>4, <1>5
  <2>2. ~ByHand(Pending[j - Before], branch)
    BY <2>1 DEF StartMerge
  <2>3. ~branch[i].hand
    BY <1>2, <1>3, <2>1, <2>2 DEF ByHand
  <2>4. QED
    BY <1>2, <1>4, <2>3 DEF MadeSigned
<1>6. CASE ~(j > Before)
  <2>1. j \in 1..Before
    BY <1>3, <1>4, <1>6
  <2>2. accepted.made /\ Before = Len(accepted.tip)
    BY <1>3, <2>1 DEF Before
  <2>3. branch = accepted.head /\ IsPrefix(accepted.tip, tip)
    BY <1>3, <2>2 DEF PriorHolds
  <2>4. accepted.tip \in Seq(Commit)
    BY TypeParts
  <2>5. accepted.tip[j] = tip[j] /\ j \in DOMAIN accepted.tip
    BY <1>4, <2>1, <2>2, <2>3, <2>4, PrefixPoints
  <2>6. branch[i].of \in ToSet(accepted.tip)
    BY <1>2, <2>5 DEF ToSet
  <2>7. QED
    BY <2>3, <2>6 DEF AnchorsSigned, SignedIn
<1>7. QED
  BY <1>5, <1>6

\* What was verified is signed, and so is what the anchor had.
LEMMA VerifiedSigned ==
  ASSUME NEW b \in Branch, NEW h \in Branch, NEW t, SignedIn(b, t), Verified(b, h)
  PROVE  SignedIn(h, t)
<1>1. SUFFICES ASSUME NEW i \in DOMAIN h, h[i].of \in ToSet(t)
               PROVE  h[i].signed
  BY DEF SignedIn
<1>2. /\ b \in Seq(Entry) /\ h \in Seq(Entry) /\ Len(b) \in Nat /\ Len(h) \in Nat
      /\ DOMAIN b = 1..Len(b) /\ DOMAIN h = 1..Len(h)
  BY BranchParts
<1>3. CASE i \in Since(b, h)
  BY <1>3 DEF Verified
<1>4. CASE i <= Len(b) /\ SubSeq(b, 1, i) = SubSeq(h, 1, i)
  <2>1. i \in 1..i /\ i \in DOMAIN b
    BY <1>2, <1>4
  <2>2. SubSeq(b, 1, i)[i] = b[i] /\ SubSeq(h, 1, i)[i] = h[i]
    BY <1>2, <1>4, <2>1
  <2>3. b[i] = h[i]
    BY <1>4, <2>2
  <2>4. QED
    BY <1>1, <2>1, <2>3 DEF SignedIn
<1>5. QED
  BY <1>3, <1>4 DEF Since

LEMMA AnchorsSignedStep ==
  ASSUME TypeOK, Progresses, MadeSigned, ~lost /\ ~raced => AnchorsSigned, [Next]_vars,
         ~lost', ~raced'
  PROVE  AnchorsSigned'
<1> USE DEF session, user, run, vars
<1>1. ~lost /\ ~raced
  BY TypeParts
     DEF Next, Merge, User, StartMerge, AcceptEmpty, Resign, SaveResigned, Pick, CleanMessage,
         SaveProgress, PickConflicts, SaveStop, Verify, VerifyRefuses, Accept, Crash,
         AgentCommits, UserContinues, UserAborts, UserCommits, UserResets
<1>2. AnchorsSigned
  BY <1>1
<1>3. CASE StartMerge
  <2>1. UNCHANGED <<accepted, rec, branch>> /\ pc' # "accept" /\ ref' = tip
    BY <1>3 DEF StartMerge
  <2>2. CASE RecordHolds
    <3>1. base' = rec.base /\ rec.ref = tip
      BY <1>3, <2>2, StartMeans DEF RecordHolds
    <3>2. QED
      BY <1>2, <2>1, <3>1 DEF AnchorsSigned
  <2>3. CASE ~RecordHolds
    <3>1. base' = branch
      BY <1>3, <2>3, StartMeans
    <3>2. SignedIn(branch, tip)
      BY <1>2, <1>3, <2>3, NoHandSigned
    <3>3. QED
      BY <1>2, <2>1, <3>1, <3>2 DEF AnchorsSigned
  <2>4. QED
    BY <2>2, <2>3
<1>4. CASE AcceptEmpty
  <2>1. /\ accepted'.tip = <<>> /\ pc' = "idle" /\ rec' = rec
    BY <1>4 DEF AcceptEmpty
  <2>2. SignedIn(accepted'.head, accepted'.tip)
    BY <2>1 DEF SignedIn, ToSet
  <2>3. QED
    BY <1>2, <2>1, <2>2 DEF AnchorsSigned
<1>5. CASE SaveResigned \/ SaveProgress \/ SaveStop
  <2>1. /\ rec'.ref = ref /\ rec'.base = base /\ UNCHANGED <<accepted, base, ref>>
        /\ pc # "idle" /\ pc' # "accept"
    BY <1>5 DEF SaveResigned, SaveProgress, SaveStop, Progress
  <2>2. QED
    BY <1>2, <2>1 DEF AnchorsSigned
<1>6. CASE Verify
  BY <1>2, <1>6 DEF Verify, AnchorsSigned
<1>7. CASE Accept
  <2>1. /\ pc = "accept" /\ pc' = "idle" /\ rec' = rec
        /\ accepted'.tip = ref /\ accepted'.head = branch
    BY <1>7 DEF Accept
  <2>2. base \in Branch /\ branch \in Branch
    BY TypeParts
  <2>3. SignedIn(branch, ref)
    BY <1>2, <2>1, <2>2, VerifiedSigned DEF AnchorsSigned
  <2>4. QED
    BY <1>2, <2>1, <2>3 DEF AnchorsSigned
<1>8. CASE /\ UNCHANGED <<accepted, rec, base, ref>> /\ (pc' # "idle" => pc # "idle")
           /\ pc' = "accept" => pc = "accept" /\ branch' = branch
  BY <1>2, <1>8 DEF AnchorsSigned
<1>9. CASE UserCommits
  <2>1. pc = "idle" /\ pc' = pc /\ UNCHANGED <<accepted, rec>>
    BY <1>9 DEF UserCommits
  <2>2. QED
    BY <1>2, <2>1 DEF AnchorsSigned
<1>10. QED
  BY <1>3, <1>4, <1>5, <1>6, <1>7, <1>8, <1>9
     DEF Next, Merge, User, Resign, Pick, CleanMessage, PickConflicts, VerifyRefuses, Crash,
         AgentCommits, UserContinues, UserAborts, UserResets
-------------------------------------------------------------------------------
(* What was resolved by hand *)

\* Only the user's going on with a cherry-pick makes a session's commit by hand.
LEMMA HandsKept ==
  ASSUME TypeOK, Progresses, [Next]_vars, NEW c, c # 0, ByHand(c, branch')
  PROVE  ByHand(c, branch) \/ (UserContinues /\ c = picking)
<1>0. TypeOK' /\ Running
  BY TypeStep DEF Progresses
<1>1. /\ Len(branch) \in Nat /\ Len(branch') \in Nat
      /\ DOMAIN branch = 1..Len(branch) /\ DOMAIN branch' = 1..Len(branch')
  <2>1. branch \in Branch /\ branch' \in Branch
    BY <1>0 DEF TypeOK
  <2>2. QED
    BY <2>1, BranchParts
<1>2. PICK i \in DOMAIN branch' : branch'[i].of = c /\ branch'[i].hand
  BY DEF ByHand
<1> USE DEF session, user, run, vars
<1>3. CASE branch' = branch
  BY <1>3
<1>4. CASE Resign \/ CleanMessage
  <2>1. /\ Len(branch') = Len(branch)
        /\ \A k \in DOMAIN branch : branch'[k].of = branch[k].of /\ branch'[k].hand = branch[k].hand
    BY <1>0, <1>4, Amending DEF Grown
  <2>2. QED
    BY <1>1, <1>2, <2>1 DEF ByHand
<1>5. CASE (Pick /\ ~Landed(Head(todo), branch)) \/ UserContinues \/ UserCommits
  <2>1. /\ Len(branch') = Len(branch) + 1
        /\ \A k \in DOMAIN branch : branch'[k] = branch[k]
        /\ Pick /\ ~Landed(Head(todo), branch) => ~branch'[Len(branch')].hand
        /\ UserContinues => branch'[Len(branch')].of = picking
        /\ UserCommits => branch'[Len(branch')].of = 0
    BY <1>5, Adds
  <2>2. i \in DOMAIN branch \/ i = Len(branch')
    BY <1>1, <2>1
  <2>3. i \in DOMAIN branch => ByHand(c, branch)
    BY <1>2, <2>1 DEF ByHand
  <2>4. QED
    BY <1>2, <1>5, <2>1, <2>2, <2>3
<1>6. CASE UserResets
  BY <1>2, <1>6, ResetKeeps DEF ByHand
<1>7. QED
  BY <1>3, <1>4, <1>5, <1>6
     DEF Next, Merge, User, StartMerge, AcceptEmpty, SaveResigned, Pick, SaveProgress,
         PickConflicts, SaveStop, Verify, VerifyRefuses, Accept, Crash, AgentCommits, UserAborts

LEMMA LostStays ==
  ASSUME TypeOK, [Next]_vars, ~lost'
  PROVE  ~lost
BY TypeParts
   DEF session, user, run, vars, Next, Merge, User, StartMerge, AcceptEmpty, Resign, SaveResigned,
       Pick, CleanMessage, SaveProgress, PickConflicts, SaveStop, Verify, VerifyRefuses, Accept,
       Crash, AgentCommits, UserContinues, UserAborts, UserCommits, UserResets

LEMMA NoHandAheadStep ==
  ASSUME TypeOK, Progresses, NoHandAhead, RecordAhead, [Next]_vars, ~lost'
  PROVE  NoHandAhead'
<1>0. SUFFICES ASSUME pc' # "idle", NEW j \in DOMAIN todo'
               PROVE  ~ByHand(todo'[j], branch')
  BY DEF NoHandAhead
<1> USE DEF session, user, run, vars
<1>1. CASE StartMerge
  <2>1. /\ Before \in Nat /\ Len(tip) \in Nat /\ DOMAIN tip = 1..Len(tip)
        /\ Picked' \in Before..Len(tip) /\ DOMAIN todo' = 1..(Len(tip) - Picked')
        /\ todo'[j] = tip[Picked' + j]
        /\ ~RecordHolds => Picked' = Before
        /\ RecordHolds /\ LastDone = 0 => Picked' = Before
        /\ RecordHolds /\ LastDone # 0 => Picked' # Before /\ tip[Picked'] = LastDone
    BY <1>1, StartMeans
  <2>2. branch' = branch
    BY <1>1 DEF StartMerge
  <2>3. /\ Picked' + j \in DOMAIN tip /\ Picked' + j > Before /\ Picked' < Picked' + j
    BY <2>1
  <2>4. CASE RecordHolds
    <3>1. ASSUME LastDone # 0
          PROVE  \A i \in DOMAIN tip : tip[i] = LastDone => i < Picked' + j
      <4>1. Picked' \in DOMAIN tip /\ tip[Picked'] = LastDone
        BY <2>1, <2>4, <3>1
      <4>2. \A i, k \in DOMAIN tip : tip[i] = tip[k] => i = k
        BY TypeParts, OrderedPlaces DEF Progresses, Numbered
      <4>3. QED
        BY <2>3, <4>1, <4>2
    <3>2. QED
      BY <2>1, <2>2, <2>3, <2>4, <3>1 DEF RecordAhead
  <2>5. CASE ~RecordHolds
    <3>1. /\ Before < Len(tip) /\ Len(Pending) = Len(tip) - Before
          /\ DOMAIN Pending = 1..Len(Pending)
          /\ \A k \in DOMAIN Pending : Pending[k] = tip[Before + k]
      BY <1>1, PendingIs DEF StartMerge, Progresses
    <3>2. j \in DOMAIN Pending /\ Pending[j] = todo'[j]
      BY <2>1, <2>5, <3>1
    <3>3. QED
      BY <1>1, <2>2, <2>5, <3>2 DEF StartMerge
  <2>6. QED
    BY <2>4, <2>5
<1>2. CASE SaveProgress
  <2>1. /\ todo # <<>> /\ todo' = Tail(todo) /\ branch' = branch /\ pc # "idle"
    BY <1>2 DEF SaveProgress, Progresses, Running
  <2>2. todo \in Seq(Commit)
    BY TypeParts
  <2>3. j + 1 \in DOMAIN todo /\ todo'[j] = todo[j + 1]
    BY <2>1, <2>2, HeadTail
  <2>4. QED
    BY <2>1, <2>3 DEF NoHandAhead
<1>3. CASE ~StartMerge /\ ~SaveProgress
  <2>1. pc # "idle" /\ todo' = todo /\ ~UserContinues
    BY <1>0, <1>3
       DEF Next, Merge, User, AcceptEmpty, Resign, SaveResigned, Pick, CleanMessage, PickConflicts,
           SaveStop, Verify, VerifyRefuses, Accept, Crash, AgentCommits, UserContinues,
           UserAborts, UserCommits, UserResets
  <2>2. todo[j] # 0 /\ j \in DOMAIN todo
    <3>1. todo \in Seq(Commit) /\ j \in DOMAIN todo
      BY <2>1, TypeParts
    <3>2. todo[j] \in Commit
      BY <3>1
    <3>3. QED
      BY <3>1, <3>2 DEF Commit
  <2>3. ~ByHand(todo[j], branch)
    BY <2>1, <2>2 DEF NoHandAhead
  <2>4. QED
    BY <2>1, <2>2, <2>3, HandsKept
<1>4. QED
  BY <1>1, <1>2, <1>3

\* Where the conflict's commit is, once its tip is still to be accepted.
LEMMA StopPlace ==
  ASSUME TypeOK, Progresses, RecordHolds, rec.stopped # 0, ~(accepted.made /\ accepted.tip = tip)
  PROVE  \E p \in DOMAIN tip :
           /\ p \in Nat /\ p > Before
           /\ \A i \in DOMAIN tip : tip[i] = rec.stopped <=> i = p
           /\ rec.done = 0 => p = Before + 1
           /\ rec.done # 0 => \A i \in DOMAIN tip : tip[i] = rec.done <=> i = p - 1
           /\ rec.done # 0 => p - 1 \in DOMAIN tip
<1>1. PICK p \in DOMAIN tip :
        /\ p > Before /\ tip[p] = rec.stopped
        /\ IF rec.done = 0 THEN p = Before + 1 ELSE p > 1 /\ tip[p - 1] = rec.done
  BY DEF Progresses, RecordPlace
<1>2. /\ Len(tip) \in Nat /\ DOMAIN tip = 1..Len(tip)
      /\ \A i, k \in DOMAIN tip : tip[i] = tip[k] => i = k
  BY TypeParts, OrderedPlaces DEF Progresses, Numbered
<1>3. \A i \in DOMAIN tip : tip[i] = rec.stopped <=> i = p
  BY <1>1, <1>2
<1>4. rec.done # 0 => p - 1 \in DOMAIN tip /\ \A i \in DOMAIN tip : tip[i] = rec.done <=> i = p - 1
  <2>1. rec.done # 0 => p - 1 \in DOMAIN tip /\ tip[p - 1] = rec.done
    BY <1>1, <1>2
  <2>2. QED
    BY <1>2, <2>1
<1>5. p \in Nat
  BY <1>2
<1>6. QED
  BY <1>1, <1>3, <1>4, <1>5

\* The record stays: what it has last only moves over the conflict and back.
LEMMA RecordAheadKept ==
  ASSUME TypeOK, Progresses, RecordAhead, StopOpen, StopFresh, [Next]_vars,
         rec' = rec, RecordHolds'
  PROVE  RecordAhead'
<1>1. RecordHolds /\ tip' = tip /\ Running
  BY HoldsKept DEF Progresses
<1>2. SUFFICES ASSUME NEW j \in DOMAIN tip, j > Before',
                      LastDone' # 0 => \A i \in DOMAIN tip : tip[i] = LastDone' => i < j,
                      ByHand(tip[j], branch')
               PROVE  FALSE
  BY <1>1 DEF RecordAhead
<1>3. /\ Len(tip) \in Nat /\ DOMAIN tip = 1..Len(tip) /\ tip[j] # 0 /\ j \in Nat
      /\ accepted.tip \in Seq(Commit)
  BY TypeParts, OrderedPlaces DEF Progresses, Numbered
<1> USE DEF session, user, run, vars
<1>4. accepted' = accepted
  <2>1. ~AcceptEmpty
    BY <1>2, <1>3 DEF AcceptEmpty
  <2>2. ASSUME Accept
        PROVE  FALSE
    <3>1. ref = tip
      BY <1>1, <2>2 DEF Accept, Progresses, Numbered, RecordHolds
    <3>2. Before' = Len(tip)
      BY <2>2, <3>1 DEF Accept, Before
    <3>3. QED
      BY <1>2, <1>3, <3>2
  <2>3. QED
    BY <2>1, <2>2
       DEF Next, Merge, User, StartMerge, Resign, SaveResigned, Pick, CleanMessage, SaveProgress,
           PickConflicts, SaveStop, Verify, VerifyRefuses, Crash, AgentCommits, UserContinues,
           UserAborts, UserCommits, UserResets
<1>5. Before' = Before /\ Before \in Nat
  BY <1>3, <1>4 DEF Before
<1>6. ~(accepted.made /\ accepted.tip = tip)
  BY <1>2, <1>3, <1>5 DEF Before
<1>7. CASE UserContinues /\ tip[j] = picking
  <2>1. rec.stopped = picking /\ rec.onto = branch /\ picking # 0 /\ Len(branch') = Len(branch) + 1
    BY <1>7, Adds DEF UserContinues, StopOpen
  <2>2. branch \in Branch
    BY TypeParts
  <2>3. Len(branch) \in Nat
    BY <2>2, BranchParts
  <2>4. branch' # branch
    BY <2>1, <2>3
  <2>5. LastDone' = tip[j]
    BY <1>7, <2>1, <2>4 DEF LastDone, UserContinues
  <2>6. QED
    BY <1>2, <1>3, <2>5
<1>8. CASE ByHand(tip[j], branch)
  <2>1. LastDone # 0 /\ \E i \in DOMAIN tip : tip[i] = LastDone /\ ~(i < j)
    BY <1>1, <1>2, <1>5, <1>8 DEF RecordAhead
  <2>2. PICK i \in DOMAIN tip : tip[i] = LastDone /\ ~(i < j)
    BY <2>1
  <2>3. LastDone' # LastDone
    BY <1>2, <2>1, <2>2
  <2>4. \/ branch = rec.onto /\ branch' # rec.onto
        \/ branch # rec.onto /\ branch' = rec.onto
    BY <2>3 DEF LastDone
  <2>5. rec.stopped # 0
    BY <2>3 DEF LastDone
  <2>6. PICK p \in DOMAIN tip :
          /\ p \in Nat /\ p > Before
          /\ \A k \in DOMAIN tip : tip[k] = rec.stopped <=> k = p
          /\ rec.done = 0 => p = Before + 1
          /\ rec.done # 0 => \A k \in DOMAIN tip : tip[k] = rec.done <=> k = p - 1
          /\ rec.done # 0 => p - 1 \in DOMAIN tip
    BY <1>1, <1>6, <2>5, StopPlace
  <2>7. CASE branch = rec.onto /\ branch' # rec.onto
    <3>1. LastDone = rec.done /\ LastDone' = rec.stopped
      BY <2>5, <2>7 DEF LastDone
    <3>2. p < j
      BY <1>2, <2>5, <2>6, <3>1
    <3>3. i = p - 1
      BY <2>1, <2>2, <2>6, <3>1
    <3>4. QED
      BY <1>3, <2>2, <2>6, <3>2, <3>3
  <2>8. CASE branch # rec.onto /\ branch' = rec.onto
    <3>1. LastDone' = rec.done /\ LastDone = rec.stopped
      BY <2>5, <2>8 DEF LastDone
    <3>2. i = p
      BY <2>2, <2>6, <3>1
    <3>3. j <= p /\ j > Before
      BY <1>2, <1>3, <1>5, <2>2, <2>6, <3>2
    <3>4. rec.done # 0 => p - 1 < j
      BY <1>2, <2>6, <3>1
    <3>5. j = p
      BY <1>3, <1>5, <2>6, <3>3, <3>4
    <3>6. ByHand(rec.stopped, rec.onto)
      BY <1>2, <2>6, <2>8, <3>5
    <3>7. Landed(rec.stopped, rec.onto)
      BY <3>6 DEF ByHand, Landed
    <3>8. QED
      BY <2>5, <3>7 DEF StopFresh
  <2>9. QED
    BY <2>4, <2>7, <2>8
<1>9. QED
  BY <1>2, <1>3, <1>7, <1>8, HandsKept

\* The record is written: it has what the run has behind it.
LEMMA RecordAheadSaved ==
  ASSUME TypeOK, Progresses, NoHandAhead, SaveResigned \/ SaveProgress \/ SaveStop, RecordHolds'
  PROVE  RecordAhead'
<1>1. /\ Before' = Before /\ rec'.ref = ref /\ rec'.onto = branch' /\ branch' = branch /\ tip' = ref
  BY SavedPlaces DEF RecordHolds
<1>2. LastDone' = rec'.done
  BY <1>1 DEF LastDone
<1>3. pc # "idle" /\ Running /\ Numbered /\ (pc = "save" => todo # <<>>)
  BY DEF SaveResigned, SaveProgress, SaveStop, Progresses, Running
<1>4. /\ Picked \in Nat /\ Before \in Nat /\ Before <= Picked /\ Picked <= Len(ref)
      /\ DOMAIN ref = 1..Len(ref) /\ Len(ref) \in Nat /\ Len(todo) = Len(ref) - Picked
      /\ \A i \in DOMAIN ref : ref[i] # 0
      /\ todo # <<>> => Picked + 1 \in DOMAIN ref /\ Head(todo) = ref[Picked + 1]
  BY <1>3, RunPlaces
<1>5. SUFFICES ASSUME NEW j \in DOMAIN ref, j > Before,
                      rec'.done # 0 => \A i \in DOMAIN ref : ref[i] = rec'.done => i < j
               PROVE  ~ByHand(ref[j], branch)
  BY <1>1, <1>2 DEF RecordAhead
<1>6. j > Picked
  <2>1. CASE SaveProgress
    <3>1. todo # <<>> /\ rec'.done = Head(todo)
      BY <1>3, <2>1 DEF SaveProgress, Progress
    <3>2. Picked + 1 < j
      BY <1>4, <1>5, <3>1
    <3>3. QED
      BY <1>4, <3>2
  <2>2. CASE SaveResigned \/ SaveStop
    <3>1. rec'.done = done
      BY <2>2 DEF SaveResigned, SaveStop, Progress
    <3>2. CASE Picked = Before
      BY <1>5, <3>2
    <3>3. CASE Picked # Before
      <4>1. Picked \in DOMAIN ref /\ done = ref[Picked]
        BY <1>3, <1>4, <3>3 DEF Running, Behind
      <4>2. QED
        BY <1>4, <1>5, <3>1, <4>1
    <3>4. QED
      BY <3>2, <3>3
  <2>3. QED
    BY <2>1, <2>2
<1>7. j - Picked \in DOMAIN todo /\ Picked + (j - Picked) = j
  <2>1. todo \in Seq(Commit)
    BY TypeParts
  <2>2. DOMAIN todo = 1..Len(todo)
    BY <2>1
  <2>3. QED
    BY <1>4, <1>6, <2>2
<1>8. todo[j - Picked] = ref[j]
  BY <1>3, <1>7 DEF Running, Behind
<1>9. QED
  BY <1>3, <1>7, <1>8 DEF NoHandAhead

LEMMA RecordAheadStep ==
  ASSUME TypeOK, Progresses, NoHandAhead, RecordAhead, StopOpen, StopFresh, [Next]_vars
  PROVE  RecordAhead'
<1>1. CASE ~RecordHolds'
  BY <1>1 DEF RecordAhead
<1>2. CASE RecordHolds' /\ (SaveResigned \/ SaveProgress \/ SaveStop)
  BY <1>2, RecordAheadSaved
<1>3. CASE RecordHolds' /\ rec' = rec
  BY <1>3, RecordAheadKept
<1>4. QED
  BY <1>1, <1>2, <1>3
     DEF session, user, run, vars, Next, Merge, User, StartMerge, AcceptEmpty, Resign, Pick,
         CleanMessage, PickConflicts, Verify, VerifyRefuses, Accept, Crash, AgentCommits,
         UserContinues, UserAborts, UserCommits, UserResets

LEMMA StopOpenStep ==
  ASSUME TypeOK, Progresses, StopOpen, [Next]_vars, ~lost'
  PROVE  StopOpen'
<1>0. SUFFICES ASSUME picking' # 0, pc' = "idle"
               PROVE  rec'.stopped = picking' /\ rec'.onto = branch'
  BY DEF StopOpen
<1> USE DEF session, user, run, vars
<1>1. CASE SaveStop
  BY <1>0, <1>1 DEF SaveStop, Progress, Progresses, Running
<1>2. CASE UNCHANGED <<picking, pc, rec, branch>>
  BY <1>0, <1>2 DEF StopOpen
<1>3. ~(Crash /\ pc = "stopped") /\ ~VerifyRefuses /\ ~Accept /\ ~(Crash /\ pc # "stopped")
  BY <1>0 DEF Crash, VerifyRefuses, Accept, TypeOK
<1>4. QED
  BY <1>0, <1>1, <1>2, <1>3
     DEF Next, Merge, User, StartMerge, AcceptEmpty, Resign, SaveResigned, Pick, CleanMessage,
         SaveProgress, PickConflicts, Verify, AgentCommits, UserContinues, UserAborts,
         UserCommits, UserResets

LEMMA StopFreshStep ==
  ASSUME TypeOK, Progresses, NoHandAhead, StopFresh, [Next]_vars
  PROVE  StopFresh'
<1> USE DEF session, user, run, vars
<1>1. CASE PickConflicts
  <2>1. todo # <<>> /\ pc = "pick" /\ pc' = "stopped" /\ UNCHANGED <<todo, branch, rec>>
        /\ (Landed(Head(todo), branch) => ByHand(Head(todo), branch))
    BY <1>1 DEF PickConflicts
  <2>2. todo \in Seq(Commit)
    BY TypeParts
  <2>3. 1 \in DOMAIN todo /\ todo[1] = Head(todo)
    BY <2>1, <2>2, HeadTail
  <2>4. ~ByHand(Head(todo), branch)
    BY <2>1, <2>3 DEF NoHandAhead
  <2>5. QED
    BY <2>1, <2>4 DEF StopFresh
<1>2. CASE SaveStop
  <2>1. /\ pc = "stopped" /\ pc' = "idle" /\ rec'.stopped = Head(todo) /\ rec'.onto = branch
    BY <1>2 DEF SaveStop, Progress, Progresses, Running
  <2>2. QED
    BY <2>1 DEF StopFresh
<1>3. CASE SaveResigned \/ SaveProgress
  BY <1>3 DEF SaveResigned, SaveProgress, Progress, StopFresh
<1>4. CASE rec' = rec /\ pc' # "stopped"
  BY <1>4 DEF StopFresh
<1>5. CASE UNCHANGED <<rec, pc, todo, branch>>
  BY <1>5 DEF StopFresh
<1>6. CASE UserCommits /\ pc = "stopped"
  <2>1. picking = 0 /\ picking = Head(todo) /\ todo # <<>>
    BY <1>6 DEF UserCommits, Progresses, Running
  <2>2. todo \in Seq(Commit)
    BY TypeParts
  <2>3. Head(todo) \in Commit
    BY <2>1, <2>2, HeadTail
  <2>4. QED
    BY <2>1, <2>3 DEF Commit
<1>7. QED
  BY <1>1, <1>2, <1>3, <1>4, <1>5, <1>6
     DEF Next, Merge, User, StartMerge, AcceptEmpty, Resign, Pick, CleanMessage, Verify,
         VerifyRefuses, Accept, Crash, AgentCommits, UserContinues, UserAborts, UserCommits,
         UserResets

\* What is amended is a commit of the session.
LEMMA AmendsStep ==
  ASSUME TypeOK, Progresses, HandsDone, Amends, [Next]_vars
  PROVE  Amends'
<1>0. SUFFICES ASSUME ~lost', ~raced',
                      pc' = "clean" \/ (pc' = "resign" /\ Landed(rec'.stopped, branch'))
               PROVE  branch'[Len(branch')].of # 0
  BY DEF Amends
<1>1. ~lost
  BY <1>0, LostStays
<1> USE DEF session, user, run, vars
<1>2. CASE StartMerge
  <2>0. pc' = "resign" \/ pc' = "pick"
    BY <1>2 DEF StartMerge
  <2>1. RecordHolds /\ HandFinished /\ branch' = branch /\ Landed(rec.stopped, branch)
    BY <1>0, <1>2, <2>0, StartMeans DEF StartMerge
  <2>2. rec.stopped # 0 /\ ~Landed(rec.stopped, rec.onto)
    BY <1>1, <2>1 DEF HandFinished, HandsDone, StopFresh
  <2>3. rec.onto \in Branch /\ branch \in Branch /\ IsPrefix(rec.onto, branch)
    BY <2>1, TypeParts DEF RecordHolds
  <2>4. /\ Len(rec.onto) \in Nat /\ Len(branch) = Len(rec.onto) + 1 /\ DOMAIN branch = 1..Len(branch)
        /\ DOMAIN rec.onto = 1..Len(rec.onto) /\ branch # rec.onto
        /\ \A i \in DOMAIN rec.onto : branch[i] = rec.onto[i]
    BY <2>1, <2>3, PastTheStop DEF HandFinished
  <2>5. PICK i \in DOMAIN branch : branch[i].of = rec.stopped
    BY <2>1 DEF Landed
  <2>6. ~(i \in DOMAIN rec.onto)
    BY <2>2, <2>4, <2>5 DEF Landed
  <2>7. i = Len(branch)
    BY <2>4, <2>5, <2>6
  <2>8. QED
    BY <2>1, <2>2, <2>5, <2>7
<1>3. CASE Pick
  <2>1. ~Landed(Head(todo), branch)
    BY <1>0, <1>3 DEF Pick
  <2>2. branch'[Len(branch')].of = Head(todo) /\ Head(todo) \in Commit
    BY <1>3, <2>1, Adds
  <2>3. QED
    BY <2>2 DEF Commit
<1>4. CASE UNCHANGED <<branch, pc, raced, rec>>
  BY <1>0, <1>1, <1>4 DEF Amends
<1>5. QED
  BY <1>0, <1>2, <1>3, <1>4
     DEF Next, Merge, User, AcceptEmpty, Resign, SaveResigned, CleanMessage, SaveProgress,
         PickConflicts, SaveStop, Verify, VerifyRefuses, Accept, Crash, AgentCommits,
         UserContinues, UserAborts, UserCommits, UserResets
-------------------------------------------------------------------------------
(* The invariant, and what it gives *)

LEMMA IInvInit == Init => IInv
<1> SUFFICES ASSUME Init
             PROVE  IInv
  OBVIOUS
<1>1. TypeOK
  BY TypeInit
<1>2. /\ tip = <<>> /\ branch = <<>> /\ picking = 0 /\ gen = 0 /\ moves = 0 /\ pc = "idle"
      /\ rec = NoRecord /\ rec.ref = <<>> /\ rec.onto = <<>> /\ rec.base = <<>> /\ rec.stopped = 0
      /\ accepted.made = FALSE /\ accepted.tip = <<>> /\ accepted.head = <<>>
  BY DEF Init, NoRecord, NoAcceptance
<1>3. ~RecordHolds
  BY <1>2 DEF RecordHolds
<1>4. Numbered
  BY <1>2 DEF Numbered, Ordered
<1>5. Aged
  BY <1>2, TypeParts, <1>1, PrefixItself DEF Aged
<1>6. RecordMeans /\ RecordPlace /\ StopPassed /\ Running /\ NothingSkipped
  BY <1>2, <1>3 DEF RecordMeans, RecordPlace, StopPassed, Running, NothingSkipped
<1>7. Signing
  BY <1>2 DEF Signing, MadeSigned, AnchorsSigned, SignedIn
<1>8. HandsDone /\ Amends
  BY <1>2, <1>3 DEF HandsDone, NoHandAhead, RecordAhead, StopOpen, StopFresh, Amends
<1>9. QED
  BY <1>1, <1>4, <1>5, <1>6, <1>7, <1>8 DEF IInv, Progresses

LEMMA IInvStep == IInv /\ [Next]_vars => IInv'
<1> SUFFICES ASSUME IInv, [Next]_vars
             PROVE  IInv'
  OBVIOUS
<1> USE DEF IInv
<1>1. TypeOK'
  BY TypeStep DEF Progresses
<1>2. Progresses'
  BY NumberedStep, AgedStep, RecordMeansStep, RecordPlaceStep, StopPassedStep, RunningStep,
     NothingSkippedStep DEF Progresses
<1>3. Signing'
  BY MadeSignedStep, AnchorsSignedStep DEF Signing
<1>4. HandsDone'
  BY LostStays, NoHandAheadStep, RecordAheadStep, StopOpenStep, StopFreshStep DEF HandsDone
<1>5. Amends'
  BY AmendsStep
<1>6. QED
  BY <1>1, <1>2, <1>3, <1>4, <1>5

LEMMA IInvHolds == Spec => []IInv
  BY IInvInit, IInvStep, PTL DEF Spec

\* Every variable keeps its type whatever merges, crashes, conflicts and resets come.
THEOREM ReplayTypes == Spec => []TypeOK
  BY IInvHolds, PTL DEF IInv

\* An acceptance never leaves a commit of its tip behind, but one whose
\* cherry-pick the user gave up and committed past: where a replay resumes is
\* always past commits that are on the branch, or that one.
THEOREM AcceptanceIsWhole == Spec => []NothingSkipped
<1>1. IInv => NothingSkipped
  BY DEF IInv, Progresses
<1>2. QED
  BY <1>1, IInvHolds, PTL

\* As long as the record was told of every conflict, and the user did not commit
\* under a merge, every session commit that is accepted is signed.
THEOREM AcceptedWhileTracked == Spec => []SignedWhileTracked
<1>1. IInv => SignedWhileTracked
  BY DEF IInv, Signing, AnchorsSigned, SignedIn, SignedWhileTracked, SessionSigned
<1>2. QED
  BY <1>1, IInvHolds, PTL

\* As long as the record was told of every conflict, a replay never stops again
\* on what was resolved by hand.
THEOREM ConflictsMetOnce == Spec => ResolvedOnce
<1>1. IInv /\ [Next]_vars => [PickConflicts /\ ~lost => ~Landed(Head(todo), branch)]_vars
  <2> SUFFICES ASSUME IInv, PickConflicts, ~lost
               PROVE  ~Landed(Head(todo), branch)
    OBVIOUS
  <2>1. todo # <<>> /\ pc = "pick" /\ (Landed(Head(todo), branch) => ByHand(Head(todo), branch))
    BY DEF PickConflicts
  <2>2. todo \in Seq(Commit)
    BY TypeParts DEF IInv
  <2>3. 1 \in DOMAIN todo /\ todo[1] = Head(todo)
    BY <2>1, <2>2, HeadTail
  <2>4. QED
    BY <2>1, <2>3 DEF IInv, HandsDone, NoHandAhead
<1>2. QED
  BY <1>1, IInvHolds, PTL DEF Spec, ResolvedOnce

\* A merge neither drops nor rewrites a commit of the user's own, as long as the
\* record was told of every conflict and the user did not commit under the
\* merge: what it amends is the commit it picked or the one a resolution made,
\* or the one commit made where a cherry-pick had been given up.
THEOREM UsersCommitsStay == Spec => OwnCommitsKept
<1>1. ASSUME IInv, [Next]_vars, Merge, ~raced, ~lost,
             pc = "resign" => Landed(rec.stopped, branch), NEW i \in DOMAIN branch, branch[i].of = 0
      PROVE  i \in DOMAIN branch' /\ branch'[i] = branch[i]
  <2>1. TypeOK /\ Progresses /\ Amends /\ Running
    BY <1>1 DEF IInv, Progresses
  <2>2. CASE Resign \/ CleanMessage
    <3>1. /\ Grown(branch, branch') /\ Len(branch') = Len(branch)
          /\ \A k \in DOMAIN branch : k # Len(branch) => branch'[k] = branch[k]
      BY <2>1, <2>2, Amending
    <3>2. branch[Len(branch)].of # 0
      BY <1>1, <2>1, <2>2 DEF Amends, Resign, CleanMessage
    <3>3. branch \in Branch /\ branch' \in Branch
      BY <3>1 DEF Grown
    <3>4. DOMAIN branch = 1..Len(branch) /\ DOMAIN branch' = 1..Len(branch')
      BY <3>3, BranchParts
    <3>5. QED
      BY <1>1, <3>1, <3>2, <3>4
  <2>3. CASE Pick /\ ~Landed(Head(todo), branch)
    <3>1. /\ Grown(branch, branch') /\ Len(branch') = Len(branch) + 1
          /\ branch'[i] = branch[i]
      BY <1>1, <2>1, <2>3, Adds
    <3>2. branch \in Branch /\ branch' \in Branch
      BY <3>1 DEF Grown
    <3>3. DOMAIN branch = 1..Len(branch) /\ DOMAIN branch' = 1..Len(branch') /\ Len(branch) \in Nat
      BY <3>2, BranchParts
    <3>4. QED
      BY <1>1, <3>1, <3>3
  <2>4. CASE branch' = branch
    BY <1>1, <2>4
  <2>5. QED
    BY <1>1, <2>2, <2>3, <2>4
       DEF Merge, StartMerge, AcceptEmpty, SaveResigned, Pick, SaveProgress, PickConflicts,
           SaveStop, Verify, VerifyRefuses, Accept, Crash
<1>2. IInv /\ [Next]_vars =>
        [Merge /\ ~raced /\ ~lost /\ (pc = "resign" => Landed(rec.stopped, branch))
           => \A i \in DOMAIN branch : branch[i].of = 0 =>
                i \in DOMAIN branch' /\ branch'[i] = branch[i]]_vars
  BY <1>1
<1>3. QED
  BY <1>2, IInvHolds, PTL DEF Spec, OwnCommitsKept
===============================================================================
