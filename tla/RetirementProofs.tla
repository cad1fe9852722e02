--------------------------- MODULE RetirementProofs ---------------------------
(***************************************************************************)
(* Proofs about Retirement: its type invariant and the inductive invariant *)
(* behind AcceptanceSound and CheckoutKeepsWork, for every bound and every *)
(* set of operations.                                                      *)
(***************************************************************************)
EXTENDS Retirement, SequenceTheorems, TLAPS

LEMMA KeyType == \A i \in 1..LastEffect : EffectOrder[i] \in EffectKey
  BY DEF LastEffect, EffectOrder, EffectKey

\* appendAcceptance keeps a list of acceptances one, never leaves it empty, and
\* puts nothing in it but what was there and the new evidence.
LEMMA AppendAcceptanceType ==
  ASSUME NEW list \in Seq(Acceptance), NEW a \in Acceptance,
         NEW new, new = AppendAcceptance(list, a)
  PROVE  /\ new \in Seq(Acceptance) /\ new # <<>>
         /\ \A i \in 1..Len(new) :
              new[i] = a \/ (i \in 1..Len(list) /\ new[i] = list[i])
<1>1. CASE \E i \in 1..Len(list) : SameTip(list[i], a)
  <2>1. new = [i \in 1..Len(list) |-> IF SameTip(list[i], a) THEN a ELSE list[i]]
    BY <1>1 DEF AppendAcceptance
  <2>2. Len(list) \in Nat /\ \A i \in 1..Len(list) : list[i] \in Acceptance
    OBVIOUS
  <2>3. new \in [1..Len(list) -> Acceptance]
    BY <2>1, <2>2
  <2>4. new \in Seq(Acceptance) /\ Len(new) = Len(list)
    BY <2>2, <2>3
  <2>5. new # <<>>
    BY <1>1, <2>4
  <2>6. QED
    BY <2>1, <2>4, <2>5
<1>2. CASE ~\E i \in 1..Len(list) : SameTip(list[i], a)
  <2>1. new = Append(list, a)
    BY <1>2 DEF AppendAcceptance
  <2>2. QED
    BY <2>1
<1>3. QED
  BY <1>1, <1>2

-------------------------------------------------------------------------------
(* Types. Activate hands its loop counter to the layout that follows, so the *)
(* range of the counter in each loop is part of the inductive invariant.     *)

LoopOK ==
  /\ pc \in {"closing", "closed", "create", "save", "rename", "activate"} => k \in Attachment
  /\ pc \in {"apply", "applied"} => k \in 1..LastEffect

TypeInv == TypeOK /\ LoopOK

LEMMA TypeInit == Init => TypeInv
<1> SUFFICES ASSUME Init PROVE TypeInv
  OBVIOUS
<1>1. head \in DestHead
  BY BoundsAssumption DEF Init, DestHead
<1>2. layout \in [id : 0..MaxAttachments, read : BOOLEAN]
  BY BoundsAssumption DEF Init, NoLayout
<1>3. made \in 0..MaxCommits /\ dirty \in 0..MaxCommits /\ picking \in 0..MaxCommits
      /\ wtDirty \in 0..MaxCommits /\ skip \in 0..MaxCommits
      /\ faults \in 0..MaxFaults /\ stopped \in Stop
  BY BoundsAssumption DEF Init, NoStop, Stop
<1>4. accepted \in Seq(Acceptance)
  BY DEF Init
<1>5. /\ fx \in [EffectKey -> Status] /\ herdrFx \in [Attachment -> Status]
      /\ att \in [Attachment -> [phase : {"none", "creating", "active", "closed"},
                                 handle : BOOLEAN]]
      /\ present \in [EffectKey -> BOOLEAN]
      /\ ws \in [Attachment -> {"absent", "intent", "named"}]
      /\ pane \in [Attachment -> BOOLEAN]
  BY DEF Init, Status
<1>6. k \in Nat \ {0}
  BY DEF Init
<1>7. QED
  BY <1>1, <1>2, <1>3, <1>4, <1>5, <1>6 DEF Init, TypeInv, TypeOK, LoopOK, PCs

\* Changing one field of one attachment leaves the attachments typed.
LEMMA AttachmentFieldType ==
  ASSUME NEW f \in [Attachment -> [phase : {"none", "creating", "active", "closed"},
                                   handle : BOOLEAN]],
         NEW a \in Attachment,
         NEW p \in {"none", "creating", "active", "closed"}
  PROVE  /\ [f EXCEPT ![a].phase = p] \in [Attachment -> [phase : {"none", "creating", "active", "closed"},
                                                        handle : BOOLEAN]]
         /\ [f EXCEPT ![a].handle = TRUE] \in [Attachment -> [phase : {"none", "creating", "active", "closed"},
                                                            handle : BOOLEAN]]
<1>1. /\ [f[a] EXCEPT !.phase = p] \in [phase : {"none", "creating", "active", "closed"},
                                       handle : BOOLEAN]
      /\ [f[a] EXCEPT !.handle = TRUE] \in [phase : {"none", "creating", "active", "closed"},
                                           handle : BOOLEAN]
  OBVIOUS
<1>2. QED
  BY <1>1

LEMMA NoStopType == NoStop \in Stop
  BY BoundsAssumption DEF NoStop, Stop

LEMMA OperationType ==
  ASSUME NEW r \in Operations
  PROVE  r[1] \in {"merge", "delete"} /\ r[2] \in BOOLEAN
<1>1. r \in {<<"merge", FALSE>>, <<"delete", FALSE>>, <<"delete", TRUE>>}
  BY OperationsAssumption
<1>2. CASE r = <<"merge", FALSE>>
  BY <1>2
<1>3. CASE r = <<"delete", FALSE>>
  BY <1>3
<1>4. CASE r = <<"delete", TRUE>>
  BY <1>4
<1>5. QED
  BY <1>1, <1>2, <1>3, <1>4

\* A command starts at one of three places.
LEMMA EntryType == \A ph : Entry(ph) \in {"check", "close", "validate"}
  BY DEF Entry

\* What Accept leaves is typed, and what it accepts is now the last evidence
\* or took the place of evidence for the same tip.
LEMMA AcceptType ==
  ASSUME TypeInv, NEW a \in Acceptance, Accept(a)
  PROVE  TypeInv'
<1>1. accepted' \in Seq(Acceptance)
  BY AppendAcceptanceType DEF TypeInv, TypeOK, Accept
<1>2. k' \in Nat \ {0}
  BY DEF Accept
<1>3. QED
  BY ZenonT(60), <1>1, <1>2 DEF TypeInv, TypeOK, LoopOK, PCs, Accept, record, source, dest, local, herdr

\* A forced delete goes on to the next effect, any other command pauses.
LEMMA NextOrPauseType ==
  ASSUME TypeOK, NextOrPause
  PROVE  /\ phase' = phase \/ phase' \in {"paused", "removing"}
         /\ failure' \in BOOLEAN /\ pc' \in {"effect", "idle"}
         /\ k' \in Nat \ {0} /\ failed' \in BOOLEAN
<1>1. CASE force
  <2>1. k' = k + 1
    BY <1>1 DEF NextOrPause
  <2>2. k' \in Nat \ {0}
    BY <2>1 DEF TypeOK
  <2>3. QED
    BY <1>1, <2>2 DEF TypeOK, NextOrPause
<1>2. CASE ~force
  BY <1>2 DEF TypeOK, NextOrPause, Pause
<1>3. QED
  BY <1>1, <1>2 DEF TypeOK

\* A pause that changes nothing else than what a failing call may have spent.
LEMMA PauseType ==
  ASSUME TypeInv, Pause, KeepEvidence, faults' \in 0..MaxFaults,
         UNCHANGED <<att, source, dest, local, present, herdr, loop, layout>>
  PROVE  TypeInv'
<1>1. phase' \in {"paused", "removing"} /\ failure' = TRUE /\ pc' = "idle"
  BY DEF Pause
<1>2. TypeOK'
  BY <1>1 DEF TypeInv, TypeOK, KeepEvidence, PCs, source, dest, local, herdr, loop
<1>3. QED
  BY <1>1, <1>2 DEF TypeInv, LoopOK

\* Every step keeps the types and the loop counters in range.
LEMMA TypeStep == TypeInv /\ [Next]_vars => TypeInv'
<1> SUFFICES ASSUME TypeInv, [Next]_vars PROVE TypeInv'
  OBVIOUS
<1> USE BoundsAssumption DEF TypeInv, TypeOK, LoopOK, PCs, record, source, dest, local,
                             herdr, loop
<1>1. CASE Begin
  <2>0. PICK r \in Operations : BeginIntent(r[1], r[2]) \/ BeginRaise(r[1], r[2])
                                 \/ BeginResume(r[1], r[2])
    BY <1>1 DEF Begin
  <2>r. r[1] \in {"merge", "delete"} /\ r[2] \in BOOLEAN
    BY <2>0, OperationType
  <2>k. ASSUME NEW ph, Enter(ph)
       PROVE  k' \in Nat \ {0} /\ skip' \in 0..MaxCommits /\ closed' \in BOOLEAN
    BY <2>k DEF Enter
  <2>1. CASE BeginIntent(r[1], r[2])
    <3>1. fx' \in [EffectKey -> Status] /\ herdrFx' \in [Attachment -> Status]
      BY <2>1 DEF BeginIntent, Status
    <3>2. accepted' \in Seq(Acceptance)
      BY <2>1 DEF BeginIntent
    <3>3. QED
      BY <2>1, <2>r, <2>k, <3>1, <3>2, EntryType DEF BeginIntent, Enter
  <2>2. CASE BeginRaise(r[1], r[2])
    BY <2>2, <2>r, <2>k, EntryType DEF BeginRaise, Enter
  <2>3. CASE BeginResume(r[1], r[2])
    BY ZenonT(60), <2>3, <2>r, <2>k, EntryType DEF BeginResume, Enter
  <2>4. QED
    BY <2>0, <2>1, <2>2, <2>3
<1>2. CASE Check
  <2>1. CASE Rescue
    BY <2>1 DEF Rescue, Commit
  <2>2. CASE StartReplay
    <3>1. skip' \in 0..MaxCommits
      BY <2>2 DEF StartReplay, Stop
    <3>2. QED
      BY <2>2, <3>1 DEF StartReplay
  <2>3. CASE Pick
    <3>1. head' \in DestHead
      <4>1. PICK c \in Commit : head' = [head EXCEPT !.landed = @ \cup {c}]
        BY <2>3 DEF Pick, Todo
      <4>2. QED
        BY <4>1 DEF DestHead
    <3>2. stopped' \in Stop
      BY <2>3, NoStopType DEF Pick
    <3>3. QED
      BY <2>3, <3>1, <3>2 DEF Pick
  <2>4. CASE AcceptMerge
    <3>1. [discard |-> FALSE, tip |-> ref, head |-> head] \in Acceptance
      BY DEF Acceptance
    <3>2. QED
      BY <2>4, <3>1, AcceptType DEF AcceptMerge
  <2>5. CASE AcceptDelete
    <3>1. [discard |-> FALSE, tip |-> ref, head |-> head] \in Acceptance
      BY DEF Acceptance
    <3>2. QED
      BY <2>5, <3>1, AcceptType DEF AcceptDelete
  <2>6. CASE AcceptDiscard
    <3>1. [discard |-> TRUE, tip |-> {}, head |-> head] \in Acceptance
      BY DEF Acceptance
    <3>2. QED
      BY <2>6, <3>1, AcceptType DEF AcceptDiscard
  <2>7. CASE CheckRefuses
    BY <2>7 DEF CheckRefuses, Pause, KeepEvidence
  <2>8. QED
    BY <1>2, <2>1, <2>2, <2>3, <2>4, <2>5, <2>6, <2>7 DEF Check
<1>3. CASE Close
  <2>1. CASE IntendClose
    <3>1. herdrFx' \in [Attachment -> Status]
      BY <2>1 DEF IntendClose, Status
    <3>2. k' \in Attachment /\ k' \in Nat \ {0}
      BY <2>1 DEF IntendClose, Attachment
    <3>3. QED
      BY <2>1, <3>1, <3>2 DEF IntendClose
  <2>2. CASE CloseWorkspace
    BY <2>2 DEF CloseWorkspace
  <2>3. CASE LeaveUnproven
    <3>1. CASE force
      BY <2>3, <3>1 DEF LeaveUnproven, KeepEvidence
    <3>2. CASE ~force
      BY <2>3, <3>2 DEF LeaveUnproven, Pause, KeepEvidence
    <3>3. QED
      BY <3>1, <3>2
  <2>4. CASE CompleteClose
    <3>1. att' \in [Attachment -> [phase : {"none", "creating", "active", "closed"}, handle : BOOLEAN]]
      BY SMTT(30), <2>4 DEF CompleteClose
    <3>2. herdrFx' \in [Attachment -> Status]
      BY <2>4 DEF CompleteClose, Status
    <3>3. QED
      BY <2>4, <3>1, <3>2 DEF CompleteClose, Status
  <2>5. CASE CloseRefusedByStore
    BY <2>5 DEF CloseRefusedByStore
  <2>6. CASE FinishClosing
    BY <2>6 DEF FinishClosing
  <2>7. QED
    BY <1>3, <2>1, <2>2, <2>3, <2>4, <2>5, <2>6 DEF Close
<1>4. CASE Remove
  <2>1. CASE Validate
    <3>1. k' \in Nat \ {0}
      BY <2>1 DEF Validate
    <3>2. pc' = "effect" /\ failed' = FALSE /\ k' = 1
      BY <2>1 DEF Validate
    <3>3. UNCHANGED <<record, att, source, dest, local, present, herdr, ref, skip, closed,
                      layout, faults>>
      BY <2>1 DEF Validate
    <3>4. LoopOK'
      BY <3>2
    <3>5. TypeOK'
      BY ZenonT(60), <3>1, <3>2, <3>3
    <3>6. QED
      BY <3>4, <3>5
  <2>2. CASE ValidateRefuses
    BY <2>2, PauseType DEF ValidateRefuses
  <2>3. CASE SkipDone
    BY <2>3 DEF SkipDone
  <2>4. CASE IntendEffect
    <3>1. fx' \in [EffectKey -> Status]
      BY <2>4 DEF IntendEffect, Status
    <3>2. QED
      BY <2>4, <3>1 DEF IntendEffect, Status, LastEffect
  <2>5. CASE ApplyEffect
    <3>1. present' \in [EffectKey -> BOOLEAN]
      BY <2>5 DEF ApplyEffect, AfterRemoval
    <3>2. QED
      BY <2>5, <3>1 DEF ApplyEffect, AfterRemoval
  <2>6. CASE ApplyRefuses
    BY <2>6, NextOrPauseType DEF ApplyRefuses, KeepEvidence
  <2>7. CASE CompleteEffect
    <3>1. fx' \in [EffectKey -> Status]
      BY <2>7 DEF CompleteEffect, Status
    <3>2. QED
      BY <2>7, <3>1 DEF CompleteEffect, Status
  <2>8. CASE EffectsPending
    BY <2>8, PauseType DEF EffectsPending
  <2>9. CASE CompleteRetirement
    <3>1. live' = FALSE /\ pc' = "idle"
      BY <2>9 DEF CompleteRetirement
    <3>2. UNCHANGED <<op, force, phase, failure, accepted, fx, herdrFx, att, source, dest,
                      local, present, herdr, loop, layout, faults>>
      BY <2>9 DEF CompleteRetirement
    <3>3. QED
      BY ZenonT(60), <3>1, <3>2
  <2>10. QED
    BY <1>4, <2>1, <2>2, <2>3, <2>4, <2>5, <2>6, <2>7, <2>8, <2>9 DEF Remove
<1>5. CASE Fails
  <2>1. CASE PickConflicts
    <3>1. PICK c \in Commit : /\ picking' = c
                              /\ stopped' = [commit |-> c, ref |-> ref, moved |-> FALSE]
      BY <2>1 DEF PickConflicts, Todo
    <3>2. picking' \in 0..MaxCommits /\ stopped' \in Stop
      BY <3>1 DEF Stop, Commit
    <3>3. QED
      BY <2>1, <3>2 DEF PickConflicts, Fault, Pause, KeepEvidence
  <2>2. CASE CheckFails
    BY <2>2, PauseType DEF CheckFails, Fault
  <2>3. CASE CloseFails
    BY <2>3 DEF CloseFails, Fault, Pause, KeepEvidence
  <2>4. CASE ApplyFails
    <3>1. present' \in [EffectKey -> BOOLEAN]
      BY <2>4 DEF ApplyFails, AfterRemoval
    <3>2. QED
      BY <2>4, <3>1, NextOrPauseType DEF ApplyFails, Fault, KeepEvidence
  <2>5. CASE Crash
    BY <2>5 DEF Crash, Fault
  <2>6. QED
    BY <1>5, <2>1, <2>2, <2>3, <2>4, <2>5 DEF Fails
<1>6. CASE Attach
  <2>1. CASE AttachNew
    <3>0. PICK a \in Attachment : att' = [att EXCEPT ![a].phase = "creating"]
      BY <2>1 DEF AttachNew
    <3>1. att' \in [Attachment -> [phase : {"none", "creating", "active", "closed"}, handle : BOOLEAN]]
      BY <3>0, AttachmentFieldType
    <3>2. fx' \in [EffectKey -> Status]
      BY <2>1 DEF AttachNew, Status
    <3>3. k' \in Attachment /\ k' \in Nat \ {0}
      BY <2>1 DEF AttachNew, Attachment
    <3>4. QED
      <4>1. CASE phase = "paused"
        BY <2>1, <3>1, <3>2, <3>3, <4>1 DEF AttachNew
      <4>2. CASE phase # "paused"
        BY <2>1, <3>1, <3>2, <3>3, <4>2 DEF AttachNew
      <4>3. QED
        BY <4>1, <4>2
  <2>2. CASE AttachAgain
    BY <2>2 DEF AttachAgain, Attachment
  <2>3. CASE CreateWorkspace
    BY <2>3 DEF CreateWorkspace
  <2>4. CASE SaveHandle
    <3>1. att' \in [Attachment -> [phase : {"none", "creating", "active", "closed"}, handle : BOOLEAN]]
      BY <2>4, AttachmentFieldType DEF SaveHandle
    <3>2. pane' \in [Attachment -> BOOLEAN]
      BY <2>4 DEF SaveHandle
    <3>3. QED
      BY <2>4, <3>1, <3>2 DEF SaveHandle
  <2>5. CASE RenameWorkspace
    BY <2>5 DEF RenameWorkspace
  <2>6. CASE RenameFails
    BY <2>6 DEF RenameFails
  <2>7. CASE Activate
    <3>1. att' \in [Attachment -> [phase : {"none", "creating", "active", "closed"}, handle : BOOLEAN]]
      BY <2>7, AttachmentFieldType DEF Activate
    <3>2. layout' \in [id : 0..MaxAttachments, read : BOOLEAN]
      BY <2>7 DEF Activate, Attachment
    <3>3. QED
      BY <2>7, <3>1, <3>2 DEF Activate, Attachment
  <2>8. CASE ReadPanes
    <3>a. NoLayout \in [id : 0..MaxAttachments, read : BOOLEAN]
      BY DEF NoLayout
    <3>b. [layout EXCEPT !.read = TRUE] \in [id : 0..MaxAttachments, read : BOOLEAN]
      OBVIOUS
    <3>1. layout' \in [id : 0..MaxAttachments, read : BOOLEAN]
      BY <2>8, <3>a, <3>b DEF ReadPanes
    <3>2. QED
      BY <2>8, <3>1 DEF ReadPanes, NoLayout
  <2>9. CASE RefreshWorkspaceProof
    <3>1. att' \in [Attachment -> [phase : {"none", "creating", "active", "closed"}, handle : BOOLEAN]]
      <4> DEFINE handed == [phase |-> "active", handle |-> TRUE]
      <4>1. handed \in [phase : {"none", "creating", "active", "closed"}, handle : BOOLEAN]
        OBVIOUS
      <4> HIDE DEF handed
      <4>2. [att EXCEPT ![layout.id] = handed]
              \in [Attachment -> [phase : {"none", "creating", "active", "closed"}, handle : BOOLEAN]]
        BY <4>1
      <4>3. att' = att \/ att' = [att EXCEPT ![layout.id] = handed]
        BY <2>9 DEF RefreshWorkspaceProof, handed
      <4>4. QED
        BY <4>2, <4>3
    <3>2. pane' \in [Attachment -> BOOLEAN]
      BY <2>9 DEF RefreshWorkspaceProof
    <3>3. layout' \in [id : 0..MaxAttachments, read : BOOLEAN]
      BY <2>9 DEF RefreshWorkspaceProof, NoLayout
    <3>4. QED
      BY <2>9, <3>1, <3>2, <3>3 DEF RefreshWorkspaceProof, NoLayout
  <2>10. CASE AttachActive
    <3>1. layout' \in [id : 0..MaxAttachments, read : BOOLEAN]
      BY <2>10 DEF AttachActive, Attachment
    <3>2. QED
      BY <2>10, <3>1 DEF AttachActive
  <2>11. QED
    BY <1>6, <2>1, <2>2, <2>3, <2>4, <2>5, <2>6, <2>7, <2>8, <2>9, <2>10 DEF Attach
<1>7. CASE Agent
  <2>1. CASE AgentEdits
    BY <2>1 DEF AgentEdits
  <2>2. CASE AgentCommits
    BY <2>2 DEF AgentCommits, Commit
  <2>3. CASE AgentRewrites
    BY <2>3 DEF AgentRewrites, Commit
  <2>4. QED
    BY <1>7, <2>1, <2>2, <2>3 DEF Agent
<1>8. CASE User
  <2>1. CASE UserEditsWorktree
    BY <2>1 DEF UserEditsWorktree
  <2>2. CASE UserCommitsWorktree
    BY <2>2 DEF UserCommitsWorktree, Commit
  <2>3. CASE UserCleansWorktree
    BY <2>3 DEF UserCleansWorktree
  <2>4. CASE UserContinues
    <3>1. head' \in DestHead
      <4>1. picking \in Commit
        BY <2>4 DEF UserContinues, Commit
      <4>2. head' = [head EXCEPT !.landed = @ \cup {picking}]
        BY <2>4 DEF UserContinues
      <4>3. QED
        BY <4>1, <4>2 DEF DestHead
    <3>2. stopped' \in Stop
      BY <2>4 DEF UserContinues, Stop
    <3>3. QED
      BY <2>4, <3>1, <3>2 DEF UserContinues
  <2>5. CASE UserAborts
    BY <2>5 DEF UserAborts
  <2>6. CASE UserCommits
    <3>1. head' \in DestHead
      <4>1. head.moves + 1 \in 0..MaxMoves
        BY <2>6 DEF UserCommits, DestHead
      <4>2. head' = [head EXCEPT !.moves = @ + 1]
        BY <2>6 DEF UserCommits
      <4>3. QED
        BY <4>1, <4>2 DEF DestHead
    <3>2. stopped' \in Stop
      BY <2>6 DEF UserCommits, Stop
    <3>3. QED
      BY <2>6, <3>1, <3>2 DEF UserCommits
  <2>7. CASE UserResets
    <3>1. head' \in DestHead
      BY <2>7 DEF UserResets, DestHead
    <3>2. stopped' \in Stop
      BY <2>7, NoStopType DEF UserResets, Stop
    <3>3. QED
      BY <2>7, <3>1, <3>2 DEF UserResets
  <2>8. CASE Pull
    BY <2>8 DEF Pull, Commit
  <2>9. ASSUME NEW a \in Attachment, UserClosesPane(a) PROVE TypeInv'
    BY <2>9 DEF UserClosesPane
  <2>10. ASSUME NEW a \in Attachment, UserClosesWorkspace(a) PROVE TypeInv'
    BY <2>10 DEF UserClosesWorkspace
  <2>11. QED
    BY <1>8, <2>1, <2>2, <2>3, <2>4, <2>5, <2>6, <2>7, <2>8, <2>9, <2>10 DEF User
<1>9. CASE UNCHANGED vars
  BY <1>9 DEF vars
<1>10. QED
  BY <1>1, <1>2, <1>3, <1>4, <1>5, <1>6, <1>7, <1>8, <1>9 DEF Next

\* Every variable keeps its type on every behaviour of the retirement and of
\* what it races, for every bound and every set of operations asked for.
THEOREM TypeCorrect == Spec => []TypeOK
<1>1. Spec => []TypeInv
  BY TypeInit, TypeStep, PTL DEF Spec
<1>2. TypeInv => TypeOK
  BY DEF TypeInv
<1>3. QED
  BY <1>1, <1>2, PTL
-------------------------------------------------------------------------------
(* Evidence. An acceptance is believed long after it was recorded: across a  *)
(* conflict, a crash, a replay of later commits, the closing of workspaces.  *)
(* What keeps it believable is that the destination is compared with it      *)
(* before a replay and again before removal, and that from either comparison *)
(* to the end of the command the destination only gains commits.             *)

AcceptedOK ==
  /\ \A i \in 1..Len(accepted) : /\ accepted[i].tip \subseteq accepted[i].head.landed
                                 /\ accepted[i].discard => accepted[i].tip = {}
  /\ pc = "pick" /\ HasAccepted => Last.tip \subseteq head.landed
  /\ phase = "removing" \/ pc \in {"validate", "effect", "apply", "applied"} => HasAccepted
  /\ pc \in {"effect", "apply", "applied"} => Last.tip \subseteq head.landed
  /\ op # "none" => phase # "none"

\* Where the user does not leave a stopped commit out, a commit the replay
\* takes to be resolved by hand is on the destination.
JournalOK ==
  /\ picking # 0 => stopped.commit = picking /\ pc \notin {"prior", "pick"}
  /\ stopped.moved => stopped.commit \in head.landed \cup {0}
  /\ pc = "pick" => skip \in head.landed \cup {0}

Evidence == AcceptedOK /\ JournalOK

LEMMA LastType ==
  ASSUME TypeInv, HasAccepted
  PROVE  /\ Len(accepted) \in 1..Len(accepted)
         /\ Last = accepted[Len(accepted)] /\ Last \in Acceptance
<1>1. accepted \in Seq(Acceptance) /\ accepted # <<>>
  BY DEF TypeInv, TypeOK, HasAccepted
<1>2. Len(accepted) \in Nat /\ Len(accepted) # 0
  BY <1>1
<1>3. Len(accepted) \in 1..Len(accepted) /\ accepted[Len(accepted)] \in Acceptance
  BY <1>1, <1>2
<1>4. QED
  BY <1>3 DEF Last

\* A step that adds no evidence, moves the destination forward if at all, and
\* enters neither a replay nor removal from outside.
LEMMA AcceptedKept ==
  ASSUME AcceptedOK, accepted' = accepted, head.landed \subseteq head'.landed,
         pc' = "pick" => pc = "pick",
         phase' = "removing" => phase = "removing",
         pc' = "validate" => pc = "validate" \/ phase = "removing",
         pc' \in {"effect", "apply", "applied"} => pc \in {"effect", "apply", "applied"},
         op' # "none" => phase' # "none"
  PROVE  AcceptedOK'
  BY DEF AcceptedOK, HasAccepted, Last

\* The same of a step that leaves the destination alone.
LEMMA EvidenceKept ==
  ASSUME Evidence, accepted' = accepted, UNCHANGED dest,
         pc' = "pick" => pc = "pick" /\ skip' = skip,
         pc' = "prior" => pc = "prior" \/ picking = 0,
         phase' = "removing" => phase = "removing",
         pc' = "validate" => pc = "validate" \/ phase = "removing",
         pc' \in {"effect", "apply", "applied"} => pc \in {"effect", "apply", "applied"},
         op' # "none" => phase' # "none"
  PROVE  Evidence'
<1>1. head' = head /\ picking' = picking /\ stopped' = stopped
  BY DEF dest
<1>2. AcceptedOK'
  BY <1>1, AcceptedKept DEF Evidence
<1>3. JournalOK'
  BY <1>1 DEF Evidence, JournalOK
<1>4. QED
  BY <1>2, <1>3 DEF Evidence

\* Each acceptance in the new list is the new one or one that was there.
LEMMA AppendedEvidence ==
  ASSUME accepted \in Seq(Acceptance), NEW a \in Acceptance,
         accepted' = AppendAcceptance(accepted, a), NEW i \in 1..Len(accepted')
  PROVE  accepted'[i] = a \/ (i \in 1..Len(accepted) /\ accepted'[i] = accepted[i])
  BY AppendAcceptanceType

\* Recording an acceptance of what is on the destination now.
LEMMA EvidenceAdded ==
  ASSUME TypeInv, Evidence, NEW a \in Acceptance, Accept(a),
         a.tip \subseteq a.head.landed, a.discard => a.tip = {}
  PROVE  Evidence'
<1>1. accepted \in Seq(Acceptance)
  BY DEF TypeInv, TypeOK
<1>2. accepted' = AppendAcceptance(accepted, a)
  BY DEF Accept
<1>3. accepted' # <<>>
  BY <1>1, <1>2, AppendAcceptanceType
<1>4. ASSUME NEW i \in 1..Len(accepted')
      PROVE  accepted'[i] = a \/ (i \in 1..Len(accepted) /\ accepted'[i] = accepted[i])
  BY <1>1, <1>2, <1>4, AppendedEvidence
<1>5. pc' \in {"validate", "close"} /\ phase' \in {"removing", "closing"}
  BY DEF Accept
<1>6. AcceptedOK'
  BY <1>3, <1>4, <1>5 DEF Evidence, AcceptedOK, HasAccepted
<1>7. JournalOK'
  BY <1>5 DEF Evidence, JournalOK, Accept, dest
<1>8. QED
  BY <1>6, <1>7 DEF Evidence

LEMMA EvidenceInit == Init => Evidence
  BY DEF Init, Evidence, AcceptedOK, JournalOK, HasAccepted, NoStop

LEMMA EvidenceStep ==
  ASSUME ~DropsStopped
  PROVE  TypeInv /\ Evidence /\ [Next]_vars => Evidence'
<1> SUFFICES ASSUME TypeInv, Evidence, [Next]_vars PROVE Evidence'
  OBVIOUS
<1>s. op # "none" => phase # "none"
  BY DEF Evidence, AcceptedOK
<1>1. CASE Begin
  <2>0. PICK r \in Operations : BeginIntent(r[1], r[2]) \/ BeginRaise(r[1], r[2])
                                 \/ BeginResume(r[1], r[2])
    BY <1>1 DEF Begin
  <2>r. r[1] \in {"merge", "delete"}
    BY <2>0, OperationType
  <2>1. CASE BeginIntent(r[1], r[2])
    <3>1. accepted' = <<>> /\ phase' = "checking" /\ pc' = "check"
      BY <2>1 DEF BeginIntent, Enter, Entry
    <3>2. QED
      BY <2>1, <3>1 DEF BeginIntent, Enter, Evidence, AcceptedOK, JournalOK, HasAccepted, dest
  <2>2. CASE BeginRaise(r[1], r[2])
    BY <1>s, <2>2, <2>r, EvidenceKept DEF BeginRaise, Enter, Entry, record, loop, TypeInv, TypeOK
  <2>3. CASE BeginResume(r[1], r[2])
    BY <1>s, <2>3, <2>r, EvidenceKept DEF BeginResume, Enter, Entry, record, loop, TypeInv, TypeOK
  <2>4. QED
    BY <2>0, <2>1, <2>2, <2>3
<1>2. CASE Check
  <2>1. CASE Rescue
    BY <1>s, <2>1, EvidenceKept DEF Rescue, RescueReady, record, loop
  <2>2. CASE StartReplay
    <3>1. HasAccepted => Last.tip \subseteq head.landed
      BY <2>2, LastType DEF StartReplay, PriorHolds, Evidence, AcceptedOK
    <3>2. AcceptedOK'
      BY <2>2, <3>1 DEF StartReplay, Evidence, AcceptedOK, HasAccepted, Last, record, dest
    <3>3. JournalOK'
      BY <2>2 DEF StartReplay, Evidence, JournalOK, dest
    <3>4. QED
      BY <3>2, <3>3 DEF Evidence
  <2>3. CASE Pick
    <3>1. head.landed \subseteq head'.landed
      BY <2>3 DEF Pick, TypeInv, TypeOK, DestHead
    <3>2. AcceptedOK'
      BY <1>s, <2>3, <3>1, AcceptedKept DEF Pick, Evidence, record
    <3>3. picking = 0
      BY <2>3 DEF Pick, Evidence, JournalOK
    <3>4. JournalOK'
      BY <2>3, <3>1, <3>3 DEF Pick, Evidence, JournalOK, NoStop, loop
    <3>5. QED
      BY <3>2, <3>4 DEF Evidence
  <2>4. CASE AcceptMerge
    <3> DEFINE new == [discard |-> FALSE, tip |-> ref, head |-> head]
    <3>1. new \in Acceptance
      BY DEF Acceptance, TypeInv, TypeOK
    <3>2. new.tip \subseteq new.head.landed
      BY <2>4 DEF AcceptMerge, Todo, Evidence, AcceptedOK, JournalOK, TypeInv, TypeOK, Commit
    <3>3. QED
      BY <2>4, <3>1, <3>2, EvidenceAdded DEF AcceptMerge
  <2>5. CASE AcceptDelete
    <3> DEFINE new == [discard |-> FALSE, tip |-> ref, head |-> head]
    <3>1. new \in Acceptance
      BY DEF Acceptance, TypeInv, TypeOK
    <3>2. new.tip \subseteq new.head.landed
      BY <2>5 DEF AcceptDelete, DeleteProved
    <3>3. QED
      BY <2>5, <3>1, <3>2, EvidenceAdded DEF AcceptDelete
  <2>6. CASE AcceptDiscard
    <3> DEFINE new == [discard |-> TRUE, tip |-> {}, head |-> head]
    <3>1. new \in Acceptance
      BY DEF Acceptance, TypeInv, TypeOK
    <3>2. new.tip \subseteq new.head.landed
      OBVIOUS
    <3>3. QED
      BY <2>6, <3>1, <3>2, EvidenceAdded DEF AcceptDiscard
  <2>7. CASE CheckRefuses
    BY <1>s, <2>7, EvidenceKept DEF CheckRefuses, Pause, KeepEvidence, record, loop
  <2>8. QED
    BY <1>2, <2>1, <2>2, <2>3, <2>4, <2>5, <2>6, <2>7 DEF Check
<1>3. CASE Close
  <2>1. CASE IntendClose
    BY <1>s, <2>1, EvidenceKept DEF IntendClose, record, loop
  <2>2. CASE CloseWorkspace
    BY <1>s, <2>2, EvidenceKept DEF CloseWorkspace, record, loop
  <2>3. CASE LeaveUnproven
    BY <1>s, <2>3, EvidenceKept DEF LeaveUnproven, Pause, KeepEvidence, record, loop
  <2>4. CASE CompleteClose
    BY <1>s, <2>4, EvidenceKept DEF CompleteClose, record, loop
  <2>5. CASE CloseRefusedByStore
    BY <1>s, <2>5, EvidenceKept DEF CloseRefusedByStore, record, loop
  <2>6. CASE FinishClosing
    BY <1>s, <2>6, EvidenceKept DEF FinishClosing, record, loop
  <2>7. QED
    BY <1>3, <2>1, <2>2, <2>3, <2>4, <2>5, <2>6 DEF Close
<1>4. CASE Remove
  <2>1. CASE Validate
    <3>1. HasAccepted
      BY <2>1 DEF Validate, Evidence, AcceptedOK
    <3>2. Last.tip \subseteq head.landed
      BY <2>1, <3>1, LastType DEF Validate, StillHolds, Evidence, AcceptedOK
    <3>3. AcceptedOK'
      BY <2>1, <3>1, <3>2 DEF Validate, Evidence, AcceptedOK, HasAccepted, Last, record, dest
    <3>4. JournalOK'
      BY <2>1 DEF Validate, Evidence, JournalOK, dest
    <3>5. QED
      BY <3>3, <3>4 DEF Evidence
  <2>2. CASE ValidateRefuses
    BY <1>s, <2>2, EvidenceKept DEF ValidateRefuses, Pause, KeepEvidence, record, loop
  <2>3. CASE SkipDone
    BY <1>s, <2>3, EvidenceKept DEF SkipDone, record, loop
  <2>4. CASE IntendEffect
    BY <1>s, <2>4, EvidenceKept DEF IntendEffect, record, loop
  <2>5. CASE ApplyEffect
    BY <1>s, <2>5, EvidenceKept DEF ApplyEffect, record, loop
  <2>6. CASE ApplyRefuses
    BY <1>s, <2>6, EvidenceKept DEF ApplyRefuses, NextOrPause, Pause, KeepEvidence, record, loop
  <2>7. CASE CompleteEffect
    BY <1>s, <2>7, EvidenceKept DEF CompleteEffect, record, loop
  <2>8. CASE EffectsPending
    BY <1>s, <2>8, EvidenceKept DEF EffectsPending, Pause, KeepEvidence, record, loop
  <2>9. CASE CompleteRetirement
    BY <1>s, <2>9, EvidenceKept DEF CompleteRetirement, record, loop
  <2>10. QED
    BY <1>4, <2>1, <2>2, <2>3, <2>4, <2>5, <2>6, <2>7, <2>8, <2>9 DEF Remove
<1>5. CASE Fails
  <2>1. CASE PickConflicts
    <3>1. head' = head /\ accepted' = accepted /\ pc' = "idle" /\ stopped'.commit = picking'
          /\ ~stopped'.moved
      BY <2>1 DEF PickConflicts, Pause, KeepEvidence
    <3>2. AcceptedOK'
      BY <1>s, <2>1, <3>1, AcceptedKept DEF PickConflicts, Pause, KeepEvidence, Evidence
    <3>3. JournalOK'
      BY <3>1 DEF JournalOK
    <3>4. QED
      BY <3>2, <3>3 DEF Evidence
  <2>2. CASE CheckFails
    BY <1>s, <2>2, EvidenceKept DEF CheckFails, Pause, KeepEvidence, record, loop
  <2>3. CASE CloseFails
    BY <1>s, <2>3, EvidenceKept DEF CloseFails, Pause, KeepEvidence, record, loop
  <2>4. CASE ApplyFails
    BY <1>s, <2>4, EvidenceKept DEF ApplyFails, NextOrPause, Pause, KeepEvidence, record, loop
  <2>5. CASE Crash
    BY <1>s, <2>5, EvidenceKept DEF Crash, record, loop
  <2>6. QED
    BY <1>5, <2>1, <2>2, <2>3, <2>4, <2>5 DEF Fails
<1>6. CASE Attach
  <2>1. CASE AttachNew
    BY <1>s, <2>1, EvidenceKept DEF AttachNew, record, loop
  <2>2. CASE AttachAgain
    BY <1>s, <2>2, EvidenceKept DEF AttachAgain, record, loop
  <2>3. CASE CreateWorkspace
    BY <1>s, <2>3, EvidenceKept DEF CreateWorkspace, record, loop
  <2>4. CASE SaveHandle
    BY <1>s, <2>4, EvidenceKept DEF SaveHandle, record, loop
  <2>5. CASE RenameWorkspace
    BY <1>s, <2>5, EvidenceKept DEF RenameWorkspace, record, loop
  <2>6. CASE RenameFails
    BY <1>s, <2>6, EvidenceKept DEF RenameFails, record, loop
  <2>7. CASE Activate
    BY <1>s, <2>7, EvidenceKept DEF Activate, record, loop
  <2>8. CASE ReadPanes
    BY <1>s, <2>8, EvidenceKept DEF ReadPanes, record, loop
  <2>9. CASE RefreshWorkspaceProof
    BY <1>s, <2>9, EvidenceKept DEF RefreshWorkspaceProof, record, loop
  <2>10. CASE AttachActive
    BY <1>s, <2>10, EvidenceKept DEF AttachActive, record, loop
  <2>11. QED
    BY <1>6, <2>1, <2>2, <2>3, <2>4, <2>5, <2>6, <2>7, <2>8, <2>9, <2>10 DEF Attach
<1>7. CASE Agent
  <2>1. CASE AgentEdits
    BY <1>s, <2>1, EvidenceKept DEF AgentEdits, record, loop
  <2>2. CASE AgentCommits
    BY <1>s, <2>2, EvidenceKept DEF AgentCommits, record, loop
  <2>3. CASE AgentRewrites
    BY <1>s, <2>3, EvidenceKept DEF AgentRewrites, record, loop
  <2>4. QED
    BY <1>7, <2>1, <2>2, <2>3 DEF Agent
<1>8. CASE User
  <2>1. CASE UserEditsWorktree
    BY <1>s, <2>1, EvidenceKept DEF UserEditsWorktree, record, loop
  <2>2. CASE UserCommitsWorktree
    BY <1>s, <2>2, EvidenceKept DEF UserCommitsWorktree, record, loop
  <2>3. CASE UserCleansWorktree
    BY <1>s, <2>3, EvidenceKept DEF UserCleansWorktree, record, loop
  <2>4. CASE UserContinues
    <3>1. head'.landed = head.landed \cup {picking} /\ stopped'.commit = stopped.commit
          /\ picking' = 0 /\ picking # 0
      BY <2>4 DEF UserContinues, TypeInv, TypeOK, DestHead, Stop
    <3>2. AcceptedOK'
      BY <1>s, <2>4, <3>1, AcceptedKept DEF UserContinues, Evidence, record
    <3>3. JournalOK'
      BY <2>4, <3>1 DEF UserContinues, Evidence, JournalOK
    <3>4. QED
      BY <3>2, <3>3 DEF Evidence
  <2>5. CASE UserAborts
    <3>1. AcceptedOK'
      BY <1>s, <2>5, AcceptedKept DEF UserAborts, Evidence, record
    <3>2. JournalOK'
      BY <2>5 DEF UserAborts, Evidence, JournalOK, loop
    <3>3. QED
      BY <3>1, <3>2 DEF Evidence
  <2>6. CASE UserCommits
    <3>1. head'.landed = head.landed /\ stopped'.commit = stopped.commit
      BY <2>6 DEF UserCommits, TypeInv, TypeOK, DestHead, Stop
    <3>2. AcceptedOK'
      BY <1>s, <2>6, <3>1, AcceptedKept DEF UserCommits, Evidence, record
    <3>3. JournalOK'
      BY <2>6, <3>1 DEF UserCommits, Evidence, JournalOK, loop
    <3>4. QED
      BY <3>2, <3>3 DEF Evidence
  <2>7. CASE UserResets
    <3>1. pc = "idle" /\ pc' = "idle" /\ picking = 0 /\ picking' = 0 /\ ~stopped'.moved
      BY <2>7 DEF UserResets, NoStop, TypeInv, TypeOK, Stop
    <3>2. accepted' = accepted /\ phase' = phase /\ op' = op
      BY <2>7 DEF UserResets, record
    <3>3. QED
      BY <3>1, <3>2 DEF Evidence, AcceptedOK, JournalOK, HasAccepted, Last
  <2>8. CASE Pull
    BY <1>s, <2>8, EvidenceKept DEF Pull, record, loop
  <2>9. ASSUME NEW a \in Attachment, UserClosesPane(a) \/ UserClosesWorkspace(a) PROVE Evidence'
    BY <1>s, <2>9, EvidenceKept DEF UserClosesPane, UserClosesWorkspace, record, loop
  <2>10. QED
    BY <1>8, <2>1, <2>2, <2>3, <2>4, <2>5, <2>6, <2>7, <2>8, <2>9 DEF User
<1>9. CASE UNCHANGED vars
  BY <1>s, <1>9, EvidenceKept DEF vars, record, loop
<1>10. QED
  BY <1>1, <1>2, <1>3, <1>4, <1>5, <1>6, <1>7, <1>8, <1>9 DEF Next

Invariant == TypeInv /\ Evidence

LEMMA InvariantHolds ==
  ASSUME ~DropsStopped
  PROVE  Spec => []Invariant
<1>1. Init => Invariant
  BY TypeInit, EvidenceInit DEF Invariant
<1>2. Invariant /\ [Next]_vars => Invariant'
  BY TypeStep, EvidenceStep DEF Invariant
<1>3. QED
  BY <1>1, <1>2, PTL DEF Spec

\* Every acceptance in the record is true of the head it names, whatever was
\* replayed, rewritten, crashed or replaced in between, if the user does not
\* commit over a cherry-pick they aborted.
THEOREM AcceptanceIsSound ==
  ASSUME ~DropsStopped
  PROVE  Spec => []AcceptanceSound
<1>1. Invariant => AcceptanceSound
  BY DEF Invariant, Evidence, AcceptedOK, AcceptanceSound
<1>2. QED
  BY <1>1, InvariantHolds, PTL

\* Without --force the instance checkout is only ever removed while all of its
\* work is on the user's branch, under the same condition.
THEOREM CheckoutIsSafe ==
  ASSUME ~DropsStopped
  PROVE  Spec => CheckoutKeepsWork
<1> DEFINE Safe == present["remote-checkout"] /\ ~present'["remote-checkout"] /\ ~force
                     => dirty = 0 /\ tip \subseteq head.landed
<1>1. ASSUME Invariant, [Next]_vars PROVE [Safe]_vars
  <2> SUFFICES ASSUME present["remote-checkout"], ~present'["remote-checkout"], ~force
               PROVE  dirty = 0 /\ tip \subseteq head.landed
    OBVIOUS
  <2>1. ApplyEffect \/ ApplyFails
    BY <1>1 DEF Next, vars, record, source, dest, local, herdr, loop, Enter, Accept,
      Begin, BeginIntent, BeginRaise, BeginResume,
      Check, Rescue, StartReplay, Pick, AcceptMerge, AcceptDelete, AcceptDiscard, CheckRefuses,
      Close, IntendClose, CloseWorkspace, LeaveUnproven, CompleteClose, CloseRefusedByStore,
      FinishClosing, Remove, Validate, ValidateRefuses, SkipDone, IntendEffect, ApplyRefuses,
      CompleteEffect, EffectsPending, CompleteRetirement, Fails, PickConflicts, CheckFails,
      CloseFails, Crash, Attach, AttachNew, AttachAgain, AttachActive, CreateWorkspace, SaveHandle,
      RenameWorkspace, RenameFails, Activate, ReadPanes, RefreshWorkspaceProof, Agent,
      AgentEdits, AgentCommits, AgentRewrites, User, UserEditsWorktree, UserCommitsWorktree,
      UserCleansWorktree, UserContinues, UserAborts, UserCommits, UserResets, Pull, UserClosesPane,
      UserClosesWorkspace
  <2>2. present' = AfterRemoval(Key) /\ (present[Key] => MayRemove(Key)) /\ pc = "apply"
    BY <2>1 DEF ApplyEffect, ApplyFails
  <2>3. Key = "remote-checkout"
    BY <1>1, <2>2 DEF AfterRemoval, Invariant, TypeInv, TypeOK
  <2>4. tip = Last.tip /\ dirty = 0
    BY <2>2, <2>3 DEF MayRemove, CheckoutMayGo
  <2>5. Last.tip \subseteq head.landed
    BY <1>1, <2>2 DEF Invariant, Evidence, AcceptedOK
  <2>6. QED
    BY <2>4, <2>5
<1>2. QED
  BY <1>1, InvariantHolds, PTL DEF Spec, CheckoutKeepsWork

-------------------------------------------------------------------------------
(* Order. What the intent protects, and removal as the last phase: which     *)
(* phase each step of a retirement runs in, and that a session without an    *)
(* intent has neither evidence nor effects. The destination plays no part,   *)
(* so nothing is assumed of the user here.                                   *)

CheckSteps == {"check", "prior", "pick", "proof"}
CloseSteps == {"close", "closing", "closed"}
RemoveSteps == {"validate", "effect", "apply", "applied"}

Fresh == op = "none" => phase = "none" /\ accepted = <<>> /\ NoEffects

PhaseOfStep ==
  /\ pc \in CheckSteps => phase \in {"checking", "paused", "final-check"} /\ op # "none"
  /\ pc \in CloseSteps => phase = "closing" /\ op # "none"
  /\ pc \in RemoveSteps => phase = "removing" /\ op # "none"
  /\ op # "none" => phase # "none"

Removing ==
  /\ phase = "removing" => HasAccepted /\ pc \in {"idle"} \cup RemoveSteps
  /\ (\E e \in EffectKey : ~present[e]) => phase = "removing"

Order == Fresh /\ PhaseOfStep /\ Removing

\* A step of somebody else, or one that ends a command, changes none of it.
LEMMA OrderKept ==
  ASSUME Order, UNCHANGED <<op, phase, accepted, fx, herdrFx, present>>,
         pc' = pc \/ pc' = "idle"
  PROVE  Order'
  BY DEF Order, Fresh, PhaseOfStep, Removing, CheckSteps, CloseSteps, RemoveSteps,
         HasAccepted, NoEffects

\* Nor does one that goes on to another step of the same part of a command.
LEMMA OrderWithin ==
  ASSUME Order, UNCHANGED <<op, phase, accepted, present>>,
         UNCHANGED <<fx, herdrFx>> \/ op # "none",
         \/ pc \in CheckSteps /\ pc' \in CheckSteps
         \/ pc \in CloseSteps /\ pc' \in CloseSteps
         \/ pc \in RemoveSteps /\ pc' \in RemoveSteps \cup {"idle"}
         \/ phase # "removing" /\ pc' \in {"create", "save", "rename", "activate"}
  PROVE  Order'
  BY DEF Order, Fresh, PhaseOfStep, Removing, CheckSteps, CloseSteps, RemoveSteps,
         HasAccepted, NoEffects

\* A pause leaves removal alone and gives every other phase the same name.
LEMMA OrderPaused ==
  ASSUME Order, Pause, KeepEvidence, UNCHANGED present,
         pc \in CheckSteps \cup CloseSteps \cup RemoveSteps
  PROVE  Order'
  BY DEF Order, Fresh, PhaseOfStep, Removing, CheckSteps, CloseSteps, RemoveSteps,
         HasAccepted, NoEffects, Pause, KeepEvidence

\* Evidence is never the empty list again, and the phase that follows it is the
\* one its next step runs in.
LEMMA OrderAccepted ==
  ASSUME TypeInv, Order, NEW a \in Acceptance, Accept(a), pc \in CheckSteps
  PROVE  Order'
<1>1. accepted' # <<>>
  BY AppendAcceptanceType DEF TypeInv, TypeOK, Accept
<1>2. \/ phase' = "removing" /\ pc' = "validate"
      \/ phase' = "closing" /\ pc' = "close"
  BY DEF Accept
<1>3. op' = op /\ op # "none" /\ UNCHANGED present /\ phase # "removing"
  BY DEF Accept, Order, PhaseOfStep, CheckSteps
<1>4. QED
  BY <1>1, <1>2, <1>3 DEF Order, Fresh, PhaseOfStep, Removing, CheckSteps, CloseSteps,
                          RemoveSteps, HasAccepted

LEMMA OrderInit == Init => Order
  BY DEF Init, Order, Fresh, PhaseOfStep, Removing, CheckSteps, CloseSteps, RemoveSteps,
         NoEffects, EffectKey

\* No step takes a command into a phase it does not belong to.
LEMMA OrderStep == TypeInv /\ Order /\ [Next]_vars => Order'
<1> SUFFICES ASSUME TypeInv, Order, [Next]_vars PROVE Order'
  OBVIOUS
<1> USE DEF record, source, dest, local, herdr, loop
<1>0. /\ pc \in CheckSteps => op # "none" /\ phase # "removing"
      /\ pc \in CloseSteps => op # "none" /\ phase = "closing"
      /\ pc \in RemoveSteps => op # "none" /\ phase = "removing"
      /\ op # "none" => phase # "none"
  BY DEF Order, PhaseOfStep
<1>1. CASE Begin
  <2>0. PICK r \in Operations : BeginIntent(r[1], r[2]) \/ BeginRaise(r[1], r[2])
                                 \/ BeginResume(r[1], r[2])
    BY <1>1 DEF Begin
  <2>1. CASE BeginIntent(r[1], r[2])
    <3>1. phase' = "checking" /\ pc' = "check" /\ op' # "none" /\ UNCHANGED present
      BY <2>1, OperationType DEF BeginIntent, Enter, Entry
    <3>2. phase # "removing"
      BY <2>1 DEF BeginIntent, Replaceable, Order, Fresh
    <3>3. QED
      BY <3>1, <3>2 DEF Order, Fresh, PhaseOfStep, Removing, CheckSteps, CloseSteps, RemoveSteps
  <2>2. ASSUME BeginRaise(r[1], r[2]) \/ BeginResume(r[1], r[2]) PROVE Order'
    <3>1. op # "none" /\ UNCHANGED <<op, phase, accepted, fx, herdrFx, present>>
          /\ pc' = Entry(phase)
      BY <2>2, OperationType DEF BeginRaise, BeginResume, Enter
    <3>2. \/ phase \in {"checking", "paused", "final-check"} /\ pc' = "check"
          \/ phase = "closing" /\ pc' = "close"
          \/ phase = "removing" /\ pc' = "validate"
      BY <1>0, <3>1 DEF Entry, TypeInv, TypeOK
    <3>3. QED
      BY <3>1, <3>2 DEF Order, Fresh, PhaseOfStep, Removing, CheckSteps, CloseSteps,
                        RemoveSteps, HasAccepted
  <2>3. QED
    BY <2>0, <2>1, <2>2
<1>2. CASE Check
  <2>1. CASE Rescue
    BY <2>1, OrderWithin DEF Rescue, CheckSteps
  <2>2. CASE StartReplay
    BY <2>2, OrderWithin DEF StartReplay, CheckSteps
  <2>3. CASE Pick
    BY <2>3, OrderKept DEF Pick
  <2>4. CASE AcceptMerge
    <3>1. [discard |-> FALSE, tip |-> ref, head |-> head] \in Acceptance
      BY DEF TypeInv, TypeOK, Acceptance
    <3>2. QED
      BY <2>4, <3>1, OrderAccepted DEF AcceptMerge, CheckSteps
  <2>5. CASE AcceptDelete
    <3>1. [discard |-> FALSE, tip |-> ref, head |-> head] \in Acceptance
      BY DEF TypeInv, TypeOK, Acceptance
    <3>2. QED
      BY <2>5, <3>1, OrderAccepted DEF AcceptDelete, CheckSteps
  <2>6. CASE AcceptDiscard
    <3>1. [discard |-> TRUE, tip |-> {}, head |-> head] \in Acceptance
      BY DEF TypeInv, TypeOK, Acceptance
    <3>2. QED
      BY <2>6, <3>1, OrderAccepted DEF AcceptDiscard, CheckSteps
  <2>7. CASE CheckRefuses
    BY <2>7, OrderPaused DEF CheckRefuses, CheckSteps
  <2>8. QED
    BY <1>2, <2>1, <2>2, <2>3, <2>4, <2>5, <2>6, <2>7 DEF Check
<1>3. CASE Close
  <2>1. CASE IntendClose
    BY <1>0, <2>1, OrderWithin DEF IntendClose, CloseSteps
  <2>2. CASE CloseWorkspace
    BY <2>2, OrderWithin DEF CloseWorkspace, CloseSteps
  <2>3. CASE LeaveUnproven
    <3>1. CASE force
      BY <2>3, <3>1, OrderWithin DEF LeaveUnproven, KeepEvidence, CloseSteps
    <3>2. CASE ~force
      BY <2>3, <3>2, OrderPaused DEF LeaveUnproven, CloseSteps
    <3>3. QED
      BY <3>1, <3>2
  <2>4. CASE CompleteClose
    BY <1>0, <2>4, OrderWithin DEF CompleteClose, CloseSteps
  <2>5. CASE CloseRefusedByStore
    BY <2>5, OrderKept DEF CloseRefusedByStore
  <2>6. CASE FinishClosing
    BY <1>0, <2>6 DEF FinishClosing, Order, Fresh, PhaseOfStep, Removing, CheckSteps,
                      CloseSteps, RemoveSteps
  <2>7. QED
    BY <1>3, <2>1, <2>2, <2>3, <2>4, <2>5, <2>6 DEF Close
<1>4. CASE Remove
  <2>1. CASE Validate
    BY <2>1, OrderWithin DEF Validate, RemoveSteps
  <2>2. CASE ValidateRefuses
    BY <2>2, OrderPaused DEF ValidateRefuses, RemoveSteps
  <2>3. CASE SkipDone
    BY <2>3, OrderKept DEF SkipDone
  <2>4. CASE IntendEffect
    BY <1>0, <2>4, OrderWithin DEF IntendEffect, RemoveSteps
  <2>5. CASE ApplyEffect
    BY <1>0, <2>5 DEF ApplyEffect, Order, Fresh, PhaseOfStep, Removing, CheckSteps,
                      CloseSteps, RemoveSteps, HasAccepted, NoEffects
  <2>6. CASE ApplyRefuses
    <3>1. CASE force
      BY <2>6, <3>1, OrderWithin DEF ApplyRefuses, NextOrPause, KeepEvidence, RemoveSteps
    <3>2. CASE ~force
      BY <2>6, <3>2, OrderPaused DEF ApplyRefuses, NextOrPause, RemoveSteps
    <3>3. QED
      BY <3>1, <3>2
  <2>7. CASE CompleteEffect
    BY <1>0, <2>7, OrderWithin DEF CompleteEffect, RemoveSteps
  <2>8. CASE EffectsPending
    BY <2>8, OrderPaused DEF EffectsPending, RemoveSteps
  <2>9. CASE CompleteRetirement
    BY <2>9, OrderKept DEF CompleteRetirement
  <2>10. QED
    BY <1>4, <2>1, <2>2, <2>3, <2>4, <2>5, <2>6, <2>7, <2>8, <2>9 DEF Remove
<1>5. CASE Fails
  <2>1. CASE PickConflicts
    BY <2>1, OrderPaused DEF PickConflicts, CheckSteps
  <2>2. CASE CheckFails
    BY <2>2, OrderPaused DEF CheckFails, CheckSteps, RemoveSteps
  <2>3. CASE CloseFails
    BY <2>3, OrderPaused DEF CloseFails, CloseSteps
  <2>4. CASE ApplyFails
    <3>1. phase = "removing" /\ phase' = phase /\ pc' \in {"effect", "idle"}
      BY <1>0, <2>4 DEF ApplyFails, NextOrPause, Pause, RemoveSteps
    <3>2. UNCHANGED <<op, accepted, fx, herdrFx>>
      BY <2>4 DEF ApplyFails, KeepEvidence
    <3>3. QED
      BY <3>1, <3>2 DEF Order, Fresh, PhaseOfStep, Removing, CheckSteps, CloseSteps,
                        RemoveSteps, HasAccepted, NoEffects
  <2>5. CASE Crash
    BY <2>5, OrderKept DEF Crash
  <2>6. QED
    BY <1>5, <2>1, <2>2, <2>3, <2>4, <2>5 DEF Fails
<1>6. CASE Attach
  <2>1. CASE AttachNew
    <3>1. /\ phase # "removing" /\ phase' \in {phase, "checking"} /\ (phase = "none" => phase' = phase)
          /\ pc' = "create" /\ UNCHANGED <<op, accepted, herdrFx, present>>
          /\ fx' = fx \/ \A e \in EffectKey : fx'[e] = "none"
      BY <2>1 DEF AttachNew, Attachable
    <3>2. QED
      BY <3>1 DEF Order, Fresh, PhaseOfStep, Removing, CheckSteps, CloseSteps, RemoveSteps,
                  NoEffects
  <2>2. CASE AttachAgain
    BY <2>2, OrderWithin DEF AttachAgain, Attachable
  <2>3. CASE AttachActive
    BY <2>3, OrderKept DEF AttachActive
  <2>4. CASE CreateWorkspace \/ SaveHandle \/ RenameWorkspace
    <3>1. phase # "removing"
      BY <2>4 DEF CreateWorkspace, SaveHandle, RenameWorkspace, Order, Removing, RemoveSteps
    <3>2. QED
      BY <2>4, <3>1, OrderWithin DEF CreateWorkspace, SaveHandle, RenameWorkspace
  <2>5. CASE RenameFails \/ Activate \/ ReadPanes \/ RefreshWorkspaceProof
    BY <2>5, OrderKept DEF RenameFails, Activate, ReadPanes, RefreshWorkspaceProof
  <2>6. QED
    BY <1>6, <2>1, <2>2, <2>3, <2>4, <2>5 DEF Attach
<1>7. CASE Agent
  BY <1>7, OrderKept DEF Agent, AgentEdits, AgentCommits, AgentRewrites
<1>8. CASE User
  BY <1>8, OrderKept DEF User, UserEditsWorktree, UserCommitsWorktree, UserCleansWorktree,
     UserContinues, UserAborts, UserCommits, UserResets, Pull, UserClosesPane, UserClosesWorkspace
<1>9. CASE UNCHANGED vars
  BY <1>9, OrderKept DEF vars
<1>10. QED
  BY <1>1, <1>2, <1>3, <1>4, <1>5, <1>6, <1>7, <1>8, <1>9 DEF Next

LEMMA OrderHolds == Spec => [](TypeInv /\ Order)
<1>1. Init => TypeInv /\ Order
  BY TypeInit, OrderInit
<1>2. TypeInv /\ Order /\ [Next]_vars => (TypeInv /\ Order)'
  BY TypeStep, OrderStep
<1>3. QED
  BY <1>1, <1>2, PTL DEF Spec

\* Once a thing of the session has been removed, the record says removing, on
\* evidence, to its end: no attach, pause or other command takes it back.
THEOREM RemovalStaysFinal == Spec => []RemovalIsFinal
<1>1. TypeInv /\ Order => RemovalIsFinal
  BY DEF Order, Removing, RemovalIsFinal
<1>2. QED
  BY <1>1, OrderHolds, PTL

\* An intent that protects evidence or effects keeps its operation, and gains
\* force only as a delete, before removal.
THEOREM IntentIsImmutable == Spec => IntentImmutable
<1> DEFINE Kept == HasAccepted \/ ~NoEffects
                     => /\ op' = op
                        /\ force' # force => op = "delete" /\ force' /\ phase # "removing"
<1>1. ASSUME TypeInv, Order, [Next]_vars PROVE [Kept]_vars
  <2> SUFFICES ASSUME HasAccepted \/ ~NoEffects
               PROVE  /\ op' = op
                      /\ force' # force => op = "delete" /\ force' /\ phase # "removing"
    OBVIOUS
  <2>1. CASE Begin
    <3>0. PICK r \in Operations : BeginIntent(r[1], r[2]) \/ BeginRaise(r[1], r[2])
                                   \/ BeginResume(r[1], r[2])
      BY <2>1 DEF Begin
    <3>1. ~BeginIntent(r[1], r[2])
      BY <1>1 DEF BeginIntent, Replaceable, Order, Fresh, HasAccepted
    <3>2. CASE BeginRaise(r[1], r[2])
      BY <3>2 DEF BeginRaise
    <3>3. CASE BeginResume(r[1], r[2])
      BY <3>3 DEF BeginResume, record
    <3>4. QED
      BY <3>0, <3>1, <3>2, <3>3
  <2>2. CASE ~Begin
    <3>1. op' = op /\ force' = force
      BY <1>1, <2>2 DEF Next, vars, record, Accept, Pause, KeepEvidence, NextOrPause,
        Check, Rescue, StartReplay, Pick, AcceptMerge, AcceptDelete, AcceptDiscard, CheckRefuses,
        Close, IntendClose, CloseWorkspace, LeaveUnproven, CompleteClose, CloseRefusedByStore,
        FinishClosing, Remove, Validate, ValidateRefuses, SkipDone, IntendEffect, ApplyEffect,
        ApplyRefuses, CompleteEffect, EffectsPending, CompleteRetirement, Fails, PickConflicts,
        CheckFails, CloseFails, ApplyFails, Crash, Attach, AttachNew, AttachAgain, AttachActive,
        CreateWorkspace, SaveHandle, RenameWorkspace, RenameFails, Activate, ReadPanes,
        RefreshWorkspaceProof, Agent, AgentEdits, AgentCommits, AgentRewrites, User,
        UserEditsWorktree, UserCommitsWorktree, UserCleansWorktree, UserContinues, UserAborts,
        UserCommits, UserResets, Pull, UserClosesPane, UserClosesWorkspace
    <3>2. QED
      BY <3>1
  <2>3. QED
    BY <2>1, <2>2
<1>2. QED
  BY <1>1, OrderHolds, PTL DEF Spec, IntentImmutable

===============================================================================
