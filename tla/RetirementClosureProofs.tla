------------------------ MODULE RetirementClosureProofs ------------------------
(***************************************************************************)
(* Proofs about Retirement: what the record says is closed or gone is so,  *)
(* nothing is removed while a workspace an attachment names is open, and   *)
(* one that none names comes only of an attach that died, a receipt leaves *)
(* nothing behind, and so the refinement of SessionLife. The types and the *)
(* order of the phases are those of RetirementProofs; like them, this      *)
(* assumes nothing of the user.                                            *)
(***************************************************************************)
EXTENDS RetirementProofs

-------------------------------------------------------------------------------
(* The inductive invariant *)

AttachSteps == {"create", "save", "rename", "activate"}

\* A workspace is closed, or force went past it.
Shut(a) == ws[a] # "absent" => force

\* What attach and a late proof leave behind: a handle on every attachment that
\* was ever active, and no workspace without an attachment that may still close.
Attachments ==
  /\ \A a \in Attachment : att[a].phase \in {"active", "closed"} => att[a].handle
  /\ \A a \in Attachment :
       ws[a] # "absent" => Open(a) \/ (att[a].phase = "closed" /\ force /\ HasAccepted)
  /\ layout.id # 0 => layout.id \in Attachment /\ att[layout.id].phase \in {"active", "closed"}
  /\ layout.read => layout.id # 0
  /\ pc \in AttachSteps => /\ att[k].phase = "creating"
                           /\ phase \notin {"closing", "final-check", "removing"}
  /\ pc \in {"rename", "activate"} => att[k].handle

\* The closing loop: everything below its counter is shut, and so is everything
\* once it has ended, or had nothing to do when the command began.
Closed ==
  /\ phase \in {"closing", "final-check", "removing"} => HasAccepted
  /\ phase \in {"final-check", "removing"} => \A a \in Attachment : Shut(a)
  /\ pc \in CheckSteps /\ closed => \A a \in Attachment : Shut(a)
  /\ pc \in CloseSteps => \A a \in Attachment : a < k => Shut(a)
  /\ pc = "closed" /\ att[k].handle => Shut(k)

\* The journal, the step before its entry, and the receipt.
Journal ==
  /\ \A e \in EffectKey : fx[e] = "done" => ~present[e]
  /\ pc = "applied" => ~present[Key]
  /\ \A a \in Attachment :
       herdrFx[a] = "done" => att[a].phase \in {"active", "closed"} /\ Shut(a)
  /\ ~live => pc = "idle" /\ phase = "removing" /\ \A e \in EffectKey : ~present[e]

Closure == Attachments /\ Closed /\ Journal

-------------------------------------------------------------------------------
(* Steps that leave the attachments, the journal or the order of phases alone *)

\* A step of somebody else, or one that ends a command.
LEMMA ClosureKept ==
  ASSUME Closure,
         UNCHANGED <<live, force, phase, accepted, fx, herdrFx, att, ws, present, layout, k, closed>>,
         pc' = pc \/ pc' = "idle"
  PROVE  Closure'
  BY DEF Closure, Attachments, Closed, Journal, Shut, Open, HasAccepted, Key,
         AttachSteps, CheckSteps, CloseSteps

\* A pause makes no claim that the phase it leaves did not make.
LEMMA ClosurePaused ==
  ASSUME Closure, Pause, KeepEvidence,
         UNCHANGED <<att, ws, present, layout, k, closed>>
  PROVE  Closure'
  BY DEF Closure, Attachments, Closed, Journal, Shut, Open, HasAccepted, Key,
         AttachSteps, CheckSteps, CloseSteps, Pause, KeepEvidence

\* A workspace that is closed, by us or by the user, disturbs nothing.
LEMMA ClosureGone ==
  ASSUME TypeInv, Closure, NEW a \in Attachment, ws' = [ws EXCEPT ![a] = "absent"],
         UNCHANGED <<live, force, phase, accepted, fx, herdrFx, att, present, layout, k, closed, pc>>
  PROVE  Closure'
<1>1. \A b \in Attachment : ws'[b] # "absent" => ws[b] # "absent"
  BY DEF TypeInv, TypeOK
<1>2. QED
  BY <1>1 DEF TypeInv, LoopOK, Closure, Attachments, Closed, Journal, Shut, Open, HasAccepted, Key,
         AttachSteps, CheckSteps, CloseSteps

\* Evidence never becomes the empty list: a force that closed stays excused.
LEMMA AcceptedStays ==
  ASSUME TypeInv, NEW a \in Acceptance, Accept(a)
  PROVE  HasAccepted'
  BY AppendAcceptanceType DEF TypeInv, TypeOK, Accept, HasAccepted

LEMMA ClosureInit == Init => Closure
  BY DEF Init, Closure, Attachments, Closed, Journal, Shut, Open, HasAccepted, NoLayout,
         AttachSteps, CheckSteps, CloseSteps

-------------------------------------------------------------------------------
\* Every step keeps the record true of the workspaces and of what is removed.
LEMMA ClosureStep == TypeInv /\ Order /\ Closure /\ [Next]_vars => Closure'
<1> SUFFICES ASSUME TypeInv, Order, Closure, [Next]_vars PROVE Closure'
  OBVIOUS
<1> USE DEF record, source, dest, local, herdr, loop
<1>0. /\ pc \in CheckSteps => phase \in {"checking", "paused", "final-check"}
      /\ pc \in CloseSteps => phase = "closing"
      /\ pc \in RemoveSteps => phase = "removing"
      /\ op # "none" => phase # "none"
      /\ phase = "removing" => HasAccepted
      /\ op = "none" => ~HasAccepted
  BY DEF Order, PhaseOfStep, Removing, Fresh, HasAccepted
<1>t. /\ k \in Nat /\ (pc \in {"closing", "closed"} \cup AttachSteps => k \in Attachment)
      /\ force \in BOOLEAN /\ closed \in BOOLEAN /\ live \in BOOLEAN
      /\ att \in [Attachment -> [phase : {"none", "creating", "active", "closed"}, handle : BOOLEAN]]
      /\ herdrFx \in [Attachment -> Status]
      /\ ws \in [Attachment -> {"absent", "intent", "named"}]
      /\ fx \in [EffectKey -> Status] /\ present \in [EffectKey -> BOOLEAN]
      /\ Attachment \subseteq Nat
  BY DEF TypeInv, TypeOK, LoopOK, AttachSteps, Attachment
<1>1. CASE Begin
  <2>0. PICK r \in Operations : BeginIntent(r[1], r[2]) \/ BeginRaise(r[1], r[2])
                                 \/ BeginResume(r[1], r[2])
    BY <1>1 DEF Begin
  <2>1. CASE BeginIntent(r[1], r[2])
    <3>1. ~HasAccepted /\ live
      BY <1>0, <2>1 DEF BeginIntent, Replaceable
    <3>2. /\ phase' = "checking" /\ pc' = "check" /\ closed' = FALSE
          /\ \A e \in EffectKey : fx'[e] = "none"
          /\ \A a \in Attachment : herdrFx'[a] = "none"
          /\ UNCHANGED <<live, att, ws, present, layout>>
      BY <2>1 DEF BeginIntent, Enter, Entry
    <3>3. QED
      BY <3>1, <3>2 DEF Closure, Attachments, Closed, Journal, Shut, Open, HasAccepted,
                        AttachSteps, CheckSteps, CloseSteps
  <2>2. ASSUME BeginRaise(r[1], r[2]) \/ BeginResume(r[1], r[2]) PROVE Closure'
    <3>1. /\ live /\ (force => force') /\ pc' = Entry(phase) /\ k' = 1
          /\ closed' = (accepted' # <<>> /\ \A a \in Attachment : ~Open(a))
          /\ UNCHANGED <<live, phase, accepted, fx, herdrFx, att, ws, present, layout>>
      BY <2>2, OperationType DEF BeginRaise, BeginResume, Enter
    <3>2. pc' \in {"check", "close", "validate"}
      BY <3>1 DEF Entry
    <3>3. \A a \in Attachment : ~(a < k')
      BY <3>1 DEF Attachment
    <3>4. closed' => \A a \in Attachment : Shut(a)'
      BY <3>1 DEF Closure, Attachments, Shut, Open
    <3>5. \A a \in Attachment : Shut(a) => Shut(a)'
      BY <3>1 DEF Shut
    <3>6. Attachments'
      BY <3>1, <3>2 DEF Closure, Attachments, Open, HasAccepted, AttachSteps
    <3>7. Closed'
      BY <3>1, <3>2, <3>3, <3>4, <3>5 DEF Closure, Closed, HasAccepted, CheckSteps, CloseSteps
    <3>8. Journal'
      BY <3>1, <3>2, <3>5 DEF Closure, Journal
    <3>9. QED
      BY <3>6, <3>7, <3>8 DEF Closure
  <2>3. QED
    BY <2>0, <2>1, <2>2
<1>2. CASE Check
  <2>1. ASSUME NEW a \in Acceptance, Accept(a), pc \in CheckSteps PROVE Closure'
    <3>1. HasAccepted'
      BY <2>1, AcceptedStays
    <3>2. /\ UNCHANGED <<live, force, fx, herdrFx, att, ws, present, layout, closed>>
          /\ k' = 1
          /\ \/ phase' = "removing" /\ pc' = "validate" /\ (phase = "final-check" \/ closed)
             \/ phase' = "closing" /\ pc' = "close"
      BY <2>1 DEF Accept
    <3>3. \A b \in Attachment : ~(b < k')
      BY <3>2 DEF Attachment
    <3>4. phase' = "removing" => \A b \in Attachment : Shut(b)
      BY <2>1, <3>2 DEF Closure, Closed
    <3>5. live
      BY <2>1 DEF Closure, Journal, CheckSteps
    <3>6. Attachments'
      BY <3>1, <3>2 DEF Closure, Attachments, Open, AttachSteps
    <3>7. Closed'
      BY <3>1, <3>2, <3>3, <3>4 DEF Closed, Shut, HasAccepted, CheckSteps, CloseSteps
    <3>8. Journal'
      BY <3>2, <3>5 DEF Closure, Journal, Shut
    <3>9. QED
      BY <3>6, <3>7, <3>8 DEF Closure
  <2>2. CASE Rescue \/ StartReplay \/ Pick
    BY <2>2 DEF Rescue, StartReplay, Pick, Closure, Attachments, Closed, Journal, Shut, Open,
                HasAccepted, Key, AttachSteps, CheckSteps, CloseSteps
  <2>3. CASE AcceptMerge
    <3>1. [discard |-> FALSE, tip |-> ref, head |-> head] \in Acceptance
      BY DEF TypeInv, TypeOK, Acceptance
    <3>2. QED
      BY <2>1, <2>3, <3>1 DEF AcceptMerge, CheckSteps
  <2>4. CASE AcceptDelete
    <3>1. [discard |-> FALSE, tip |-> ref, head |-> head] \in Acceptance
      BY DEF TypeInv, TypeOK, Acceptance
    <3>2. QED
      BY <2>1, <2>4, <3>1 DEF AcceptDelete, CheckSteps
  <2>5. CASE AcceptDiscard
    <3>1. [discard |-> TRUE, tip |-> {}, head |-> head] \in Acceptance
      BY DEF TypeInv, TypeOK, Acceptance
    <3>2. QED
      BY <2>1, <2>5, <3>1 DEF AcceptDiscard, CheckSteps
  <2>6. CASE CheckRefuses
    BY <2>6, ClosurePaused DEF CheckRefuses
  <2>7. QED
    BY <1>2, <2>2, <2>3, <2>4, <2>5, <2>6 DEF Check
<1>3. CASE Close
  <2>1. CASE IntendClose
    <3>1. PICK a \in Attachment :
            /\ NextOpen(a) /\ k' = a
            /\ herdrFx' = [herdrFx EXCEPT ![a] = IF @ = "done" THEN @ ELSE "intended"]
      BY <2>1 DEF IntendClose
    <3>2. /\ pc = "close" /\ pc' = "closing"
          /\ UNCHANGED <<live, force, phase, accepted, fx, att, ws, present, layout, closed>>
      BY <2>1 DEF IntendClose
    <3>3. \A b \in Attachment : b < a => Shut(b)
      <4> SUFFICES ASSUME NEW b \in Attachment, b < a PROVE Shut(b)
        OBVIOUS
      <4>1. CASE b < k
        BY <3>2, <4>1 DEF Closure, Closed, CloseSteps
      <4>2. CASE ~(b < k)
        <5>1. b \in k..(a - 1)
          BY <1>t, <4>2 DEF Attachment
        <5>2. ~Open(b)
          BY <3>1, <5>1 DEF NextOpen
        <5>3. QED
          BY <5>2 DEF Closure, Attachments, Shut
      <4>3. QED
        BY <4>1, <4>2
    <3>4. \A b \in Attachment : herdrFx'[b] = "done" => herdrFx[b] = "done"
      BY <1>t, <3>1
    <3>5. Attachments'
      BY <3>2 DEF Closure, Attachments, Open, HasAccepted, AttachSteps
    <3>6. Closed'
      BY <1>0, <3>1, <3>2, <3>3 DEF Closure, Closed, Shut, HasAccepted, CheckSteps, CloseSteps
    <3>7. Journal'
      BY <3>2, <3>4 DEF Closure, Journal, Shut
    <3>8. QED
      BY <3>5, <3>6, <3>7 DEF Closure
  <2>2. CASE CloseWorkspace
    <3>1. /\ pc = "closing" /\ pc' = "closed" /\ k \in Attachment
          /\ ws' = [ws EXCEPT ![k] = IF Found(k) THEN "absent" ELSE @]
          /\ UNCHANGED <<live, force, phase, accepted, fx, herdrFx, att, present, layout, k, closed>>
      BY <1>t, <2>2 DEF CloseWorkspace
    <3>2. \A b \in Attachment : ws'[b] # "absent" => ws[b] # "absent"
      BY <1>t, <3>1
    <3>3. att[k].handle => ws'[k] = "absent"
      BY <1>t, <3>1 DEF Found
    <3>4. Attachments'
      BY <3>1, <3>2 DEF Closure, Attachments, Open, HasAccepted, AttachSteps
    <3>5. Closed'
      BY <1>0, <3>1, <3>2, <3>3 DEF Closure, Closed, Shut, HasAccepted, CheckSteps, CloseSteps
    <3>6. Journal'
      BY <3>1, <3>2 DEF Closure, Journal, Shut
    <3>7. QED
      BY <3>4, <3>5, <3>6 DEF Closure
  <2>3. CASE LeaveUnproven
    <3>1. CASE force
      BY <2>3, <3>1 DEF LeaveUnproven, KeepEvidence, Closure, Attachments, Closed, Journal,
         Shut, Open, HasAccepted, AttachSteps, CheckSteps, CloseSteps
    <3>2. CASE ~force
      BY <2>3, <3>2, ClosurePaused DEF LeaveUnproven
    <3>3. QED
      BY <3>1, <3>2
  <2>4. CASE CompleteClose
    <3>1. /\ pc = "closed" /\ pc' = "close" /\ k \in Attachment /\ k' = k + 1 /\ att[k].handle
          /\ att' = [att EXCEPT ![k].phase = "closed"]
          /\ herdrFx' = [herdrFx EXCEPT ![k] = "done"]
          /\ UNCHANGED <<live, force, phase, accepted, fx, ws, present, layout, closed>>
      BY <1>t, <2>4 DEF CompleteClose
    <3>2. Shut(k) /\ phase = "closing"
      BY <1>0, <3>1 DEF Closure, Closed, CloseSteps
    <3>3. /\ att'[k].phase = "closed" /\ att'[k].handle
          /\ \A b \in Attachment : b # k => att'[b] = att[b]
      BY <1>t, <3>1
    <3>4. herdrFx'[k] = "done" /\ \A b \in Attachment : b # k => herdrFx'[b] = herdrFx[b]
      BY <1>t, <3>1
    <3>5. \A b \in Attachment : b < k' => b < k \/ b = k
      BY <3>1, BoundsAssumption DEF Attachment
    <3>6. ws[k] # "absent" => force /\ HasAccepted
      BY <3>2 DEF Closure, Closed, Shut
    <3>7. Attachments'
      BY <3>1, <3>2, <3>3, <3>6 DEF Closure, Attachments, Open, HasAccepted, AttachSteps
    <3>8. Closed'
      BY <3>1, <3>2, <3>5 DEF Closure, Closed, Shut, HasAccepted, CheckSteps, CloseSteps
    <3>9. Journal'
      BY <3>1, <3>2, <3>3, <3>4 DEF Closure, Journal, Shut
    <3>10. QED
      BY <3>7, <3>8, <3>9 DEF Closure
  <2>5. CASE CloseRefusedByStore
    BY <2>5, ClosureKept DEF CloseRefusedByStore
  <2>6. CASE FinishClosing
    <3>1. /\ pc = "close" /\ phase' = "final-check" /\ pc' = "check"
          /\ \A a \in Attachment : a >= k => ~Open(a)
          /\ UNCHANGED <<live, force, accepted, fx, herdrFx, att, ws, present, layout, k, closed>>
      BY <2>6 DEF FinishClosing
    <3>2. \A a \in Attachment : Shut(a)
      <4> SUFFICES ASSUME NEW a \in Attachment PROVE Shut(a)
        OBVIOUS
      <4>1. CASE a < k
        BY <3>1, <4>1 DEF Closure, Closed, CloseSteps
      <4>2. CASE ~(a < k)
        <5>1. ~Open(a)
          BY <1>t, <3>1, <4>2
        <5>2. QED
          BY <5>1 DEF Closure, Attachments, Shut
      <4>3. QED
        BY <4>1, <4>2
    <3>3. QED
      BY <1>0, <3>1, <3>2 DEF Closure, Attachments, Closed, Journal, Shut, Open, HasAccepted,
                              AttachSteps, CheckSteps, CloseSteps
  <2>7. QED
    BY <1>3, <2>1, <2>2, <2>3, <2>4, <2>5, <2>6 DEF Close
<1>4. CASE Remove
  <2>1. CASE Validate
    <3>1. pc = "validate" /\ pc' = "effect"
          /\ UNCHANGED <<live, force, phase, accepted, fx, herdrFx, att, ws, present, layout, closed>>
      BY <2>1 DEF Validate
    <3>2. QED
      BY <3>1 DEF Closure, Attachments, Closed, Journal, Shut, Open, HasAccepted,
                  AttachSteps, CheckSteps, CloseSteps
  <2>2. CASE ValidateRefuses
    BY <2>2, ClosurePaused DEF ValidateRefuses
  <2>3. CASE SkipDone
    <3>1. pc = "effect" /\ pc' = pc
          /\ UNCHANGED <<live, force, phase, accepted, fx, herdrFx, att, ws, present, layout, closed>>
      BY <2>3 DEF SkipDone
    <3>2. QED
      BY <3>1 DEF Closure, Attachments, Closed, Journal, Shut, Open, HasAccepted,
                  AttachSteps, CheckSteps, CloseSteps
  <2>4. CASE IntendEffect
    <3>1. /\ pc = "effect" /\ pc' = "apply"
          /\ \A e \in EffectKey : fx'[e] = "done" => fx[e] = "done"
          /\ UNCHANGED <<live, force, phase, accepted, herdrFx, att, ws, present, layout, closed>>
      BY <1>t, <2>4 DEF IntendEffect
    <3>2. QED
      BY <3>1 DEF Closure, Attachments, Closed, Journal, Shut, Open, HasAccepted,
                  AttachSteps, CheckSteps, CloseSteps
  <2>5. CASE ApplyEffect
    <3>1. /\ pc = "apply" /\ pc' = "applied" /\ Key \in EffectKey
          /\ present' = [present EXCEPT ![Key] = FALSE] /\ Key' = Key
          /\ UNCHANGED <<live, force, phase, accepted, fx, herdrFx, att, ws, layout, k, closed>>
      BY <2>5, KeyType DEF ApplyEffect, AfterRemoval, Key, TypeInv, LoopOK
    <3>2. \A e \in EffectKey : present'[e] => present[e]
      BY <1>t, <3>1
    <3>3. ~present'[Key]
      BY <1>t, <3>1
    <3>4. QED
      BY <3>1, <3>2, <3>3 DEF Closure, Attachments, Closed, Journal, Shut, Open, HasAccepted,
                              AttachSteps, CheckSteps, CloseSteps
  <2>6. CASE ApplyRefuses
    <3>1. CASE force
      <4>1. /\ pc = "apply" /\ pc' = "effect"
            /\ UNCHANGED <<live, force, phase, accepted, fx, herdrFx, att, ws, present, layout, closed>>
        BY <2>6, <3>1 DEF ApplyRefuses, NextOrPause, KeepEvidence
      <4>2. QED
        BY <4>1 DEF Closure, Attachments, Closed, Journal, Shut, Open, HasAccepted,
                    AttachSteps, CheckSteps, CloseSteps
    <3>2. CASE ~force
      BY <2>6, <3>2, ClosurePaused DEF ApplyRefuses, NextOrPause
    <3>3. QED
      BY <3>1, <3>2
  <2>7. CASE CompleteEffect
    <3>1. /\ pc = "applied" /\ pc' = "effect" /\ ~present[Key]
          /\ \A e \in EffectKey : fx'[e] = "done" => fx[e] = "done" \/ e = Key
          /\ UNCHANGED <<live, force, phase, accepted, herdrFx, att, ws, present, layout, closed>>
      BY <1>t, <2>7 DEF CompleteEffect, Closure, Journal
    <3>2. QED
      BY <3>1 DEF Closure, Attachments, Closed, Journal, Shut, Open, HasAccepted,
                  AttachSteps, CheckSteps, CloseSteps
  <2>8. CASE EffectsPending
    BY <2>8, ClosurePaused DEF EffectsPending
  <2>9. CASE CompleteRetirement
    <3>1. /\ pc = "effect" /\ pc' = "idle" /\ ~live' /\ EffectsDone
          /\ UNCHANGED <<force, phase, accepted, fx, herdrFx, att, ws, present, layout, k, closed>>
      BY <2>9 DEF CompleteRetirement
    <3>2. phase = "removing" /\ \A e \in EffectKey : ~present[e]
      BY <1>0, <3>1 DEF RemoveSteps, EffectsDone, Closure, Journal
    <3>3. QED
      BY <3>1, <3>2 DEF Closure, Attachments, Closed, Journal, Shut, Open, HasAccepted,
                        AttachSteps, CheckSteps, CloseSteps
  <2>10. QED
    BY <1>4, <2>1, <2>2, <2>3, <2>4, <2>5, <2>6, <2>7, <2>8, <2>9 DEF Remove
<1>5. CASE Fails
  <2>1. CASE PickConflicts
    BY <2>1, ClosurePaused DEF PickConflicts
  <2>2. CASE CheckFails
    BY <2>2, ClosurePaused DEF CheckFails
  <2>3. CASE CloseFails
    <3>1. CASE UNCHANGED ws
      BY <2>3, <3>1, ClosurePaused DEF CloseFails
    <3>2. CASE ~UNCHANGED ws
      <4>1. k \in Attachment /\ ws' = [ws EXCEPT ![k] = "absent"]
        BY <1>t, <2>3, <3>2 DEF CloseFails
      <4>2. \A b \in Attachment : ws'[b] # "absent" => ws[b] # "absent"
        BY <1>t, <4>1
      <4>3. /\ phase = "closing" /\ phase' = "paused" /\ pc' = "idle" /\ live
            /\ UNCHANGED <<live, force, accepted, fx, herdrFx, att, present, layout, k, closed>>
        BY <1>0, <2>3 DEF CloseFails, Pause, KeepEvidence, CloseSteps, Closure, Journal
      <4>4. QED
        BY <4>2, <4>3 DEF Closure, Attachments, Closed, Journal, Shut, Open, HasAccepted,
                          AttachSteps, CheckSteps, CloseSteps
    <3>3. QED
      BY <3>1, <3>2
  <2>4. CASE ApplyFails
    <3>1. /\ pc = "apply" /\ pc' \in {"effect", "idle"} /\ phase' = phase /\ phase = "removing"
          /\ UNCHANGED <<live, force, accepted, fx, herdrFx, att, ws, layout, closed>>
      BY <1>0, <2>4 DEF ApplyFails, NextOrPause, Pause, KeepEvidence, RemoveSteps
    <3>2. \A e \in EffectKey : present'[e] => present[e]
      BY <1>t, <2>4 DEF ApplyFails, AfterRemoval
    <3>3. QED
      BY <3>1, <3>2 DEF Closure, Attachments, Closed, Journal, Shut, Open, HasAccepted,
                        AttachSteps, CheckSteps, CloseSteps
  <2>5. CASE Crash
    BY <2>5, ClosureKept DEF Crash
  <2>6. QED
    BY <1>5, <2>1, <2>2, <2>3, <2>4, <2>5 DEF Fails
<1>6. CASE Attach
  <2>1. CASE AttachNew
    <3>1. PICK a \in Attachment :
            /\ att[a].phase = "none" /\ k' = a
            /\ att' = [att EXCEPT ![a].phase = "creating"]
      BY <2>1 DEF AttachNew
    <3>2. /\ att'[a].phase = "creating" /\ \A b \in Attachment : b # a => att'[b] = att[b]
      BY <1>t, <3>1
    <3>3. /\ pc' = "create" /\ live
          /\ phase' \notin {"closing", "final-check", "removing"}
          /\ \A e \in EffectKey : fx'[e] = "done" => fx[e] = "done"
          /\ UNCHANGED <<live, force, accepted, herdrFx, ws, present, layout, closed>>
      BY <2>1 DEF AttachNew, Attachable
    <3>4. Attachments'
      BY <3>1, <3>2, <3>3 DEF Closure, Attachments, Open, HasAccepted, AttachSteps
    <3>5. Closed'
      BY <3>3 DEF Closed, CheckSteps, CloseSteps
    <3>6. Journal'
      BY <3>1, <3>2, <3>3 DEF Closure, Journal, Shut
    <3>7. QED
      BY <3>4, <3>5, <3>6 DEF Closure
  <2>2. CASE AttachAgain
    <3>1. PICK a \in Attachment : att[a].phase = "creating" /\ k' = a
      BY <2>2 DEF AttachAgain
    <3>2. /\ pc' = "create" /\ live /\ phase \notin {"closing", "final-check", "removing"}
          /\ UNCHANGED <<live, force, phase, accepted, fx, herdrFx, att, ws, present, layout, closed>>
      BY <2>2 DEF AttachAgain, Attachable
    <3>3. QED
      BY <3>1, <3>2 DEF Closure, Attachments, Closed, Journal, Shut, Open, HasAccepted,
                        AttachSteps, CheckSteps, CloseSteps
  <2>3. CASE AttachActive
    <3>1. /\ layout'.id \in Attachment /\ att[layout'.id].phase = "active"
          /\ layout'.read = FALSE
          /\ UNCHANGED <<live, force, phase, accepted, fx, herdrFx, att, ws, present, k, closed, pc>>
      BY <2>3 DEF AttachActive
    <3>2. QED
      BY <3>1 DEF Closure, Attachments, Closed, Journal, Shut, Open, HasAccepted, Key,
                  AttachSteps, CheckSteps, CloseSteps
  <2>4. CASE CreateWorkspace \/ RenameWorkspace
    <3>1. /\ pc \in {"create", "rename"} /\ pc' \in {"save", "activate"}
          /\ (pc' = "activate" => pc = "rename")
          /\ k \in Attachment
          /\ UNCHANGED <<live, force, phase, accepted, fx, herdrFx, att, present, layout, k, closed>>
      BY <1>t, <2>4 DEF CreateWorkspace, RenameWorkspace, AttachSteps
    <3>2. \A b \in Attachment : b # k => ws'[b] = ws[b]
      BY <1>t, <2>4, <3>1 DEF CreateWorkspace, RenameWorkspace
    <3>3. /\ att[k].phase = "creating" /\ phase \notin {"closing", "final-check", "removing"}
          /\ (pc' = "activate" => att[k].handle)
      BY <3>1 DEF Closure, Attachments, AttachSteps
    <3>4. Attachments'
      BY <3>1, <3>2, <3>3 DEF Closure, Attachments, Open, HasAccepted, AttachSteps
    <3>5. Closed'
      BY <3>1, <3>3 DEF Closed, CheckSteps, CloseSteps
    <3>6. Journal'
      BY <3>1, <3>2, <3>3 DEF Closure, Journal, Shut
    <3>7. QED
      BY <3>4, <3>5, <3>6 DEF Closure
  <2>5. CASE SaveHandle
    <3>1. /\ pc = "save" /\ pc' = "rename" /\ k \in Attachment
          /\ att' = [att EXCEPT ![k].handle = TRUE]
          /\ UNCHANGED <<live, force, phase, accepted, fx, herdrFx, ws, present, layout, k, closed>>
      BY <1>t, <2>5 DEF SaveHandle, AttachSteps
    <3>2. /\ att'[k].handle /\ \A b \in Attachment : att'[b].phase = att[b].phase
          /\ \A b \in Attachment : att[b].handle => att'[b].handle
      BY <1>t, <3>1
    <3>3. att[k].phase = "creating" /\ phase \notin {"closing", "final-check", "removing"}
      BY <3>1 DEF Closure, Attachments, AttachSteps
    <3>4. Attachments'
      BY <3>1, <3>2, <3>3 DEF Closure, Attachments, Open, HasAccepted, AttachSteps
    <3>5. Closed'
      BY <3>1, <3>3 DEF Closed, CheckSteps, CloseSteps
    <3>6. Journal'
      BY <3>1, <3>2, <3>3 DEF Closure, Journal, Shut
    <3>7. QED
      BY <3>4, <3>5, <3>6 DEF Closure
  <2>6. CASE RenameFails
    BY <2>6, ClosureKept DEF RenameFails
  <2>7. CASE Activate
    <3>1. /\ pc = "activate" /\ pc' = "idle" /\ k \in Attachment /\ k # 0
          /\ att' = [att EXCEPT ![k].phase = "active"]
          /\ layout' = [id |-> k, read |-> FALSE]
          /\ UNCHANGED <<live, force, phase, accepted, fx, herdrFx, ws, present, k, closed>>
      BY <1>t, <2>7 DEF Activate, AttachSteps, Attachment
    <3>2. /\ att'[k].phase = "active" /\ att'[k].handle = att[k].handle
          /\ \A b \in Attachment : b # k => att'[b] = att[b]
      BY <1>t, <3>1
    <3>3. att[k].phase = "creating" /\ att[k].handle
          /\ phase \notin {"closing", "final-check", "removing"} /\ live
      BY <3>1 DEF Closure, Attachments, Journal, AttachSteps
    <3>4. layout'.id = k /\ layout'.read = FALSE
      BY <3>1
    <3>5. Attachments'
      BY <3>1, <3>2, <3>3, <3>4 DEF Closure, Attachments, Open, HasAccepted, AttachSteps
    <3>6. Closed'
      BY <3>1, <3>3 DEF Closed, CheckSteps, CloseSteps
    <3>7. Journal'
      BY <3>1, <3>2, <3>3 DEF Closure, Journal, Shut
    <3>8. QED
      BY <3>5, <3>6, <3>7 DEF Closure
  <2>8. CASE ReadPanes
    <3>1. /\ layout.id # 0 /\ layout'.id \in {layout.id, 0} /\ (layout'.read => layout'.id # 0)
          /\ UNCHANGED <<live, force, phase, accepted, fx, herdrFx, att, ws, present, k, closed, pc>>
      BY <2>8 DEF ReadPanes, NoLayout, TypeInv, TypeOK
    <3>2. QED
      BY <3>1 DEF Closure, Attachments, Closed, Journal, Shut, Open, HasAccepted, Key,
                  AttachSteps, CheckSteps, CloseSteps
  <2>9. CASE RefreshWorkspaceProof
    <3>1. /\ layout.id \in Attachment /\ att[layout.id].phase \in {"active", "closed"}
          /\ layout'.id = 0 /\ layout'.read = FALSE
          /\ UNCHANGED <<live, force, phase, accepted, fx, herdrFx, ws, present, k, closed, pc>>
      BY <2>9 DEF RefreshWorkspaceProof, NoLayout, Closure, Attachments
    <3>2. CASE ~live
      BY <2>9, <3>1, <3>2 DEF RefreshWorkspaceProof, Closure, Attachments, Closed, Journal, Shut,
        Open, HasAccepted, Key, AttachSteps, CheckSteps, CloseSteps
    <3>3. CASE live
      <4>1. att' = [att EXCEPT ![layout.id] = [phase |-> "active", handle |-> TRUE]]
        BY <2>9, <3>3 DEF RefreshWorkspaceProof
      <4>2. /\ att'[layout.id].phase = "active" /\ att'[layout.id].handle
            /\ \A b \in Attachment : b # layout.id => att'[b] = att[b]
        BY <1>t, <3>1, <4>1
      <4>3. \A b \in Attachment : att'[b].handle <=> att[b].handle
        <5>1. att[layout.id].handle
          BY <3>1 DEF Closure, Attachments
        <5>2. QED
          BY <4>2, <5>1
      <4>4. pc \in AttachSteps => k # layout.id
        BY <3>1 DEF Closure, Attachments
      <4>5. Attachments'
        <5>1. \A b \in Attachment : att'[b].phase \in {"active", "closed"} => att'[b].handle
          BY <4>2 DEF Closure, Attachments
        <5>2. \A b \in Attachment : ws'[b] # "absent" =>
                Open(b)' \/ (att'[b].phase = "closed" /\ force' /\ HasAccepted')
          BY <3>1, <4>2 DEF Closure, Attachments, Open, HasAccepted
        <5>3. pc' \in AttachSteps => /\ att'[k'].phase = "creating"
                                     /\ phase' \notin {"closing", "final-check", "removing"}
          BY <1>t, <3>1, <4>2, <4>4 DEF Closure, Attachments
        <5>4. pc' \in {"rename", "activate"} => att'[k'].handle
          BY <1>t, <3>1, <4>3 DEF Closure, Attachments, AttachSteps
        <5>5. QED
          BY <3>1, <5>1, <5>2, <5>3, <5>4 DEF Attachments, AttachSteps
      <4>6. Closed'
        BY <1>t, <3>1, <4>3 DEF Closure, Closed, Shut, HasAccepted, CheckSteps, CloseSteps
      <4>7. Journal'
        BY <3>1, <3>3, <4>2 DEF Closure, Journal, Shut, Key
      <4>8. QED
        BY <4>5, <4>6, <4>7 DEF Closure
    <3>4. QED
      BY <3>2, <3>3
  <2>10. QED
    BY <1>6, <2>1, <2>2, <2>3, <2>4, <2>5, <2>6, <2>7, <2>8, <2>9 DEF Attach
<1>7. CASE Agent
  BY <1>7, ClosureKept DEF Agent, AgentEdits, AgentCommits, AgentRewrites
<1>8. CASE User
  <2>1. CASE \E a \in Attachment : UserClosesWorkspace(a)
    BY <2>1, ClosureGone DEF UserClosesWorkspace
  <2>2. CASE ~\E a \in Attachment : UserClosesWorkspace(a)
    BY <1>8, <2>2, ClosureKept DEF User, UserEditsWorktree, UserCommitsWorktree,
       UserCleansWorktree, UserContinues, UserAborts, UserCommits, UserResets, Pull, UserClosesPane
  <2>3. QED
    BY <2>1, <2>2
<1>9. CASE UNCHANGED vars
  BY <1>9, ClosureKept DEF vars
<1>10. QED
  BY <1>1, <1>2, <1>3, <1>4, <1>5, <1>6, <1>7, <1>8, <1>9 DEF Next

-------------------------------------------------------------------------------
(* Workspaces that no attachment names *)

\* An attachment is still being created though its workspace bears the session's
\* name only between the rename and the record of it, or after a death there.
Strays ==
  /\ stray => slipped
  /\ \A a \in Attachment : att[a].phase = "creating" /\ ws[a] = "named" =>
       slipped \/ (pc = "activate" /\ k = a)

LEMMA StraysInit == Init => Strays
  BY DEF Init, Strays

\* No attachment begins to be created, no workspace is named, and the attach
\* that is about to record a name goes on being about to.
LEMMA StraysKept ==
  ASSUME Strays, stray' = stray, slipped => slipped',
         \A a \in Attachment : att'[a].phase = "creating" => att[a].phase = "creating",
         \A a \in Attachment : ws'[a] = "named" => ws[a] = "named",
         pc = "activate" => slipped' \/ (pc' = pc /\ k' = k)
  PROVE  Strays'
  BY DEF Strays

LEMMA StraysStep == TypeInv /\ Closure /\ Strays /\ [Next]_vars => Strays'
<1> SUFFICES ASSUME TypeInv, Closure, Strays, [Next]_vars PROVE Strays'
  OBVIOUS
<1> USE DEF record, source, dest, local, herdr, loop
<1>t. /\ k \in Nat /\ (pc \in {"closing", "closed"} \cup AttachSteps => k \in Attachment)
      /\ att \in [Attachment -> [phase : {"none", "creating", "active", "closed"}, handle : BOOLEAN]]
      /\ ws \in [Attachment -> {"absent", "intent", "named"}]
      /\ slipped \in BOOLEAN /\ stray \in BOOLEAN
  BY DEF TypeInv, TypeOK, LoopOK, AttachSteps, Attachment
<1>1. ASSUME pc # "activate", UNCHANGED <<att, ws, stray, slipped>> PROVE Strays'
  BY <1>1, StraysKept
<1>2. CASE Begin
  BY <1>1, <1>2 DEF Begin, BeginIntent, BeginRaise, BeginResume, Enter
<1>3. CASE Check
  BY <1>1, <1>3 DEF Check, Rescue, StartReplay, Pick, AcceptMerge, AcceptDelete, AcceptDiscard,
     Accept, CheckRefuses
<1>4. CASE Close
  <2>1. CASE CloseWorkspace
    <3>1. /\ pc # "activate" /\ UNCHANGED <<att, stray, slipped>> /\ k \in Attachment
          /\ ws' = [ws EXCEPT ![k] = IF Found(k) THEN "absent" ELSE @]
      BY <1>t, <2>1 DEF CloseWorkspace
    <3>2. \A a \in Attachment : ws'[a] = "named" => ws[a] = "named"
      BY <1>t, <3>1
    <3>3. QED
      BY <3>1, <3>2, StraysKept
  <2>2. CASE CompleteClose
    <3>1. /\ pc # "activate" /\ UNCHANGED <<ws, stray, slipped>> /\ k \in Attachment
          /\ att' = [att EXCEPT ![k].phase = "closed"]
      BY <1>t, <2>2 DEF CompleteClose
    <3>2. \A a \in Attachment : att'[a].phase = "creating" => att[a].phase = "creating"
      BY <1>t, <3>1
    <3>3. QED
      BY <3>1, <3>2, StraysKept
  <2>3. CASE IntendClose \/ LeaveUnproven \/ CloseRefusedByStore \/ FinishClosing
    BY <1>1, <2>3 DEF IntendClose, LeaveUnproven, CloseRefusedByStore, FinishClosing
  <2>4. QED
    BY <1>4, <2>1, <2>2, <2>3 DEF Close
<1>5. CASE Remove
  BY <1>1, <1>5 DEF Remove, Validate, ValidateRefuses, SkipDone, IntendEffect, ApplyEffect,
     ApplyRefuses, CompleteEffect, EffectsPending, CompleteRetirement
<1>6. CASE Fails
  <2>1. CASE CloseFails
    <3>1. pc # "activate" /\ UNCHANGED <<att, stray, slipped>> /\ k \in Attachment
      BY <1>t, <2>1 DEF CloseFails
    <3>2. ws' = ws \/ ws' = [ws EXCEPT ![k] = "absent"]
      BY <2>1 DEF CloseFails
    <3>3. \A a \in Attachment : ws'[a] = "named" => ws[a] = "named"
      BY <1>t, <3>1, <3>2
    <3>4. QED
      BY <3>1, <3>3, StraysKept
  <2>2. CASE Crash
    <3>1. /\ UNCHANGED <<att, ws, stray>> /\ slipped' = (slipped \/ pc = "activate")
      BY <2>2 DEF Crash
    <3>2. QED
      BY <3>1, StraysKept
  <2>3. CASE PickConflicts \/ CheckFails \/ ApplyFails
    BY <1>1, <2>3 DEF PickConflicts, CheckFails, ApplyFails
  <2>4. QED
    BY <1>6, <2>1, <2>2, <2>3 DEF Fails
<1>7. CASE Attach
  <2>1. CASE AttachNew
    <3>1. PICK a \in Attachment : /\ att[a].phase = "none" /\ k' = a
                                  /\ att' = [att EXCEPT ![a].phase = "creating"]
      BY <2>1 DEF AttachNew
    <3>2. pc = "idle" /\ UNCHANGED <<ws, stray, slipped>>
      BY <2>1 DEF AttachNew
    <3>3. \A b \in Attachment : b # a => att'[b] = att[b]
      BY <1>t, <3>1
    <3>4. ws[a] = "absent"
      BY <3>1 DEF Closure, Attachments, Open
    <3>5. QED
      BY <3>2, <3>3, <3>4 DEF Strays
  <2>2. CASE CreateWorkspace
    <3>1. /\ pc = "create" /\ pc' = "save" /\ k \in Attachment /\ k' = k
          /\ ws' = [ws EXCEPT ![k] = "intent"] /\ stray' = (stray \/ ws[k] = "named")
          /\ UNCHANGED <<att, slipped>>
      BY <1>t, <2>2 DEF CreateWorkspace, AttachSteps
    <3>2. att[k].phase = "creating"
      BY <3>1 DEF Closure, Attachments, AttachSteps
    <3>3. stray' => slipped'
      BY <3>1, <3>2 DEF Strays
    <3>4. \A a \in Attachment : ws'[a] = "named" => ws[a] = "named"
      BY <1>t, <3>1
    <3>5. QED
      BY <3>1, <3>3, <3>4 DEF Strays
  <2>3. CASE RenameWorkspace
    <3>1. /\ pc = "rename" /\ pc' = "activate" /\ k \in Attachment /\ k' = k
          /\ ws' = [ws EXCEPT ![k] = "named"] /\ UNCHANGED <<att, stray, slipped>>
      BY <1>t, <2>3 DEF RenameWorkspace, AttachSteps
    <3>2. \A a \in Attachment : a # k => ws'[a] = ws[a]
      BY <1>t, <3>1
    <3>3. QED
      BY <3>1, <3>2 DEF Strays
  <2>4. CASE SaveHandle
    <3>1. /\ pc # "activate" /\ UNCHANGED <<ws, stray, slipped>> /\ k \in Attachment
          /\ att' = [att EXCEPT ![k].handle = TRUE]
      BY <1>t, <2>4 DEF SaveHandle, AttachSteps
    <3>2. \A a \in Attachment : att'[a].phase = att[a].phase
      BY <1>t, <3>1
    <3>3. QED
      BY <3>1, <3>2, StraysKept
  <2>5. CASE Activate
    <3>1. /\ UNCHANGED <<ws, stray, slipped>> /\ k \in Attachment /\ pc = "activate"
          /\ att' = [att EXCEPT ![k].phase = "active"]
      BY <1>t, <2>5 DEF Activate, AttachSteps
    <3>2. /\ att'[k].phase = "active" /\ \A a \in Attachment : a # k => att'[a] = att[a]
      BY <1>t, <3>1
    <3>3. QED
      BY <3>1, <3>2 DEF Strays
  <2>6. CASE RefreshWorkspaceProof
    <3>1. /\ UNCHANGED <<ws, stray, slipped, pc, k>>
          /\ \/ att' = att
             \/ att' = [att EXCEPT ![layout.id] = [phase |-> "active", handle |-> TRUE]]
      BY <2>6 DEF RefreshWorkspaceProof
    <3>2. \A a \in Attachment : att'[a].phase = "creating" => att[a].phase = "creating"
      BY <1>t, <3>1
    <3>3. QED
      BY <3>1, <3>2, StraysKept
  <2>7. CASE AttachAgain \/ AttachActive \/ RenameFails
    BY <1>1, <2>7 DEF AttachAgain, AttachActive, RenameFails
  <2>8. CASE ReadPanes
    BY <2>8, StraysKept DEF ReadPanes
  <2>9. QED
    BY <1>7, <2>1, <2>2, <2>3, <2>4, <2>5, <2>6, <2>7, <2>8 DEF Attach
<1>8. CASE Agent
  BY <1>8, StraysKept DEF Agent, AgentEdits, AgentCommits, AgentRewrites
<1>9. CASE User
  <2>1. ASSUME NEW a \in Attachment, UserClosesWorkspace(a) PROVE Strays'
    <3>1. /\ UNCHANGED <<att, stray, slipped, pc, k>> /\ ws' = [ws EXCEPT ![a] = "absent"]
      BY <2>1 DEF UserClosesWorkspace
    <3>2. \A b \in Attachment : ws'[b] = "named" => ws[b] = "named"
      BY <1>t, <3>1
    <3>3. QED
      BY <3>1, <3>2, StraysKept
  <2>2. ASSUME UNCHANGED <<att, ws, stray, slipped, pc, k>> PROVE Strays'
    BY <2>2, StraysKept
  <2>3. QED
    BY <1>9, <2>1, <2>2 DEF User, UserEditsWorktree, UserCommitsWorktree, UserCleansWorktree,
       UserContinues, UserAborts, UserCommits, UserResets, Pull, UserClosesPane
<1>10. CASE UNCHANGED vars
  BY <1>10, StraysKept DEF vars
<1>11. QED
  BY <1>2, <1>3, <1>4, <1>5, <1>6, <1>7, <1>8, <1>9, <1>10 DEF Next

LEMMA ClosureHolds == Spec => [](TypeInv /\ Order /\ Closure /\ Strays)
<1>1. Init => Closure /\ Strays
  BY ClosureInit, StraysInit
<1>2. Spec => [](TypeInv /\ Order)
  BY OrderHolds
<1>3. QED
  BY <1>1, <1>2, ClosureStep, StraysStep, PTL DEF Spec

-------------------------------------------------------------------------------
\* What the effect journal calls done is gone, and a workspace it calls done is
\* closed unless force went past it, for every number of attachments and faults.
THEOREM JournalIsTruthful == Spec => []JournalTruthful
<1>1. Closure => JournalTruthful
  BY DEF Closure, Journal, Shut, JournalTruthful
<1>2. QED
  BY <1>1, ClosureHolds, PTL

\* Removal never begins while a workspace that an attachment names is open,
\* however an attach raced the retirement, unless force went past it; and one
\* that no attachment names is left only by an attach that died between naming
\* its workspace and recording that.
THEOREM ClosedFirst == Spec => []ClosedBeforeRemoval
<1>1. Order /\ Closure /\ Strays => ClosedBeforeRemoval
  BY DEF Order, Removing, Closure, Closed, Shut, Strays, AllClosed, ClosedBeforeRemoval
<1>2. QED
  BY <1>1, ClosureHolds, PTL

\* A receipt stands for a session of which nothing is left: none of the six
\* things, and without force no workspace that an attachment names, nor one that
\* none names unless an attach died between naming and recording it.
THEOREM ReceiptIsComplete == Spec => []ReceiptComplete
<1>1. Closure /\ Strays => ReceiptComplete
  BY DEF Closure, Closed, Journal, Shut, Strays, AllClosed, ReceiptComplete
<1>2. QED
  BY <1>1, ClosureHolds, PTL

-------------------------------------------------------------------------------
(***************************************************************************)
(* Retirement implements SessionLife: under the refinement mapping of      *)
(* Retirement every step is one of SessionLife's or changes nothing of it. *)
(* What the mapping needs of the reachable states is proved above and in   *)
(* RetirementProofs: the phase of each step (Order), that workspaces are   *)
(* closed when removal begins and things gone when it ends (Closure), and  *)
(* that an acceptance still holds when the checkout goes (Evidence).       *)
(***************************************************************************)

Left == {e \in EffectKey : present[e]}
Held == {e \in EffectKey : present[e] /\ Holds(e)}
OpenNow == {a \in Attachment : ws[a] # "absent"}

Mapped == TypeInv /\ Evidence /\ Order /\ Closure

-------------------------------------------------------------------------------
(* The kinds of step *)

\* A step that moves neither the stage nor the things nor the workspaces may
\* still have put work somewhere or brought it home.
LEMMA StepWorks ==
  ASSUME UNCHANGED <<live, force, present>>, OpenNow' = OpenNow,
         phase' = "removing" <=> phase = "removing"
  PROVE  Life!Next
<1>1. Stage' = Stage
  BY DEF Stage
<1>2. Held' \subseteq Left /\ Left' = Left
  BY DEF Held, Left
<1>3. Life!Works
  BY <1>1, <1>2 DEF Life!Works, Held, Left, OpenNow
<1>4. QED
  BY <1>3 DEF Life!Next

\* The same with ws itself unchanged, the case of almost every step.
LEMMA StepOutside ==
  ASSUME UNCHANGED <<live, force, present, ws>>,
         phase' = "removing" <=> phase = "removing"
  PROVE  Life!Next
<1>1. OpenNow' = OpenNow
  BY DEF OpenNow
<1>2. QED
  BY <1>1, StepWorks

\* A pause keeps the stage.
LEMMA StepPauses ==
  ASSUME Pause, KeepEvidence, UNCHANGED <<present, ws>>
  PROVE  Life!Next
  BY StepOutside DEF Pause, KeepEvidence

\* Work stays where it is.
LEMMA HeldKept ==
  ASSUME UNCHANGED <<present, tip, dirty, head, wtDirty>>
  PROVE  Held' = Held /\ Left' = Left
  BY DEF Held, Left, Holds

LEMMA StepCloses ==
  ASSUME TypeInv, NEW a \in Attachment, ws' = [ws EXCEPT ![a] = "absent"],
         UNCHANGED <<live, force, present, tip, dirty, head, wtDirty>>,
         phase' = "removing" <=> phase = "removing"
  PROVE  Life!Next
<1>1. Stage' = Stage
  BY DEF Stage
<1>2. OpenNow' = OpenNow \ {a}
  BY DEF OpenNow, TypeInv, TypeOK
<1>3. Life!Closes(a)
  BY <1>1, <1>2, HeldKept DEF Life!Closes, Held, Left, OpenNow
<1>4. QED
  BY <1>3 DEF Life!Next

LEMMA StepOpens ==
  ASSUME TypeInv, NEW a \in Attachment, ws' = [ws EXCEPT ![a] = "intent"],
         live, phase # "removing",
         UNCHANGED <<live, phase, force, present, tip, dirty, head, wtDirty>>
  PROVE  Life!Next
<1>1. Stage = "active" /\ Stage' = Stage
  BY DEF Stage
<1>2. OpenNow' = OpenNow \cup {a}
  BY DEF OpenNow, TypeInv, TypeOK
<1>3. Life!Opens(a)
  BY <1>1, <1>2, HeldKept DEF Life!Opens, Held, Left, OpenNow
<1>4. QED
  BY <1>3 DEF Life!Next

\* The intent, or force raised on one.
LEMMA StepDecides ==
  ASSUME live, phase # "removing", phase' # "removing", force' \in BOOLEAN,
         UNCHANGED <<live, present, ws, tip, dirty, head, wtDirty>>
  PROVE  Life!Next
<1>1. Stage = "active" /\ Stage' = "active"
  BY DEF Stage
<1>2. OpenNow' = OpenNow
  BY DEF OpenNow
<1>3. Life!Decides
  BY <1>1, <1>2, HeldKept DEF Life!Decides, Held, Left, OpenNow
<1>4. QED
  BY <1>3 DEF Life!Next

\* An acceptance leads to removal only when its command found every workspace
\* closed, at its start or by closing them.
LEMMA StepAccepts ==
  ASSUME Mapped, NEW a \in Acceptance, Accept(a), pc \in CheckSteps
  PROVE  Life!Next
<1>1. /\ live /\ phase # "removing"
      /\ UNCHANGED <<live, force, present, ws, tip, dirty, head, wtDirty>>
  BY DEF Accept, source, dest, local, herdr, Mapped, Closure, Journal, Order, PhaseOfStep,
         CheckSteps
<1>2. CASE phase' = "removing"
  <2>1. phase = "final-check" \/ closed
    BY <1>2 DEF Accept
  <2>2. \A b \in Attachment : Shut(b)
    BY <2>1 DEF Mapped, Closure, Closed
  <2>3. OpenNow = {} \/ force
    BY <2>2 DEF Shut, OpenNow
  <2>4. Stage = "active" /\ Stage' = "removing"
    BY <1>1, <1>2 DEF Stage
  <2>5. OpenNow' = OpenNow
    BY <1>1 DEF OpenNow
  <2>6. Life!BeginsRemoval
    BY <1>1, <2>3, <2>4, <2>5, HeldKept DEF Life!BeginsRemoval, Held, Left, OpenNow
  <2>7. QED
    BY <2>6 DEF Life!Next
<1>3. CASE phase' # "removing"
  BY <1>1, <1>3, StepOutside
<1>4. QED
  BY <1>2, <1>3

\* What the next cleanup effect takes away holds nothing, or force is set.
LEMMA StepRemoves ==
  ASSUME Mapped, pc = "apply", present[Key] => MayRemove(Key), present' = AfterRemoval(Key),
         wtDirty' = IF Key = "local-worktree" THEN 0 ELSE wtDirty,
         phase' = "removing" <=> phase = "removing",
         UNCHANGED <<live, force, ws, tip, dirty, head>>
  PROVE  Life!Next
<1>1. live /\ phase = "removing" /\ Key \in EffectKey
  BY KeyType DEF Mapped, Closure, Journal, Order, PhaseOfStep, RemoveSteps, TypeInv, LoopOK, Key
<1>k. PICK t \in EffectKey : t = Key
  BY <1>1
<1>2. Stage = "removing" /\ Stage' = "removing"
  BY <1>1 DEF Stage
<1>3. t \notin Held \/ force
  <2> SUFFICES ASSUME present[t], Holds(t), ~force PROVE FALSE
    BY DEF Held
  <2>1. Last.tip \subseteq head.landed
    BY DEF Mapped, Evidence, AcceptedOK
  <2>2. CASE t = "remote-checkout"
    BY <1>k, <2>1, <2>2 DEF MayRemove, CheckoutMayGo, Holds
  <2>3. CASE t = "local-worktree"
    BY <1>k, <2>3 DEF MayRemove, Holds
  <2>4. QED
    BY <2>2, <2>3 DEF Holds
<1>4. \A e \in EffectKey : present'[e] <=> present[e] /\ e # t
  BY <1>k DEF AfterRemoval, Mapped, TypeInv, TypeOK
<1>5. Left' = Left \ {t}
  BY <1>4 DEF Left
<1>6. \A e \in EffectKey : e # t => (Holds(e)' <=> Holds(e))
  BY <1>k DEF Holds
<1>7. Held' = Held \ {t}
  BY <1>4, <1>6 DEF Held
<1>8. OpenNow' = OpenNow
  BY DEF OpenNow
<1>9. Life!Removes(t)
  BY <1>2, <1>3, <1>5, <1>7, <1>8 DEF Life!Removes, Held, Left, OpenNow
<1>10. QED
  BY <1>9 DEF Life!Next

-------------------------------------------------------------------------------
(* Every step *)

LEMMA StepMaps == Mapped /\ [Next]_vars => Life!Next
<1> SUFFICES ASSUME Mapped, [Next]_vars PROVE Life!Next
  OBVIOUS
<1> USE DEF record, source, dest, local, herdr, loop
<1>0. /\ TypeInv /\ force \in BOOLEAN
      /\ pc \in CheckSteps => phase \in {"checking", "paused", "final-check"}
      /\ pc \in CloseSteps => phase = "closing"
      /\ pc \in AttachSteps => phase \notin {"closing", "final-check", "removing"}
      /\ pc # "idle" => live
      /\ op = "none" => phase = "none"
  BY DEF Mapped, TypeInv, TypeOK, Order, Fresh, PhaseOfStep, Closure, Attachments, Journal
<1>1. CASE Begin
  <2>0. PICK r \in Operations : BeginIntent(r[1], r[2]) \/ BeginRaise(r[1], r[2])
                                 \/ BeginResume(r[1], r[2])
    BY <1>1 DEF Begin
  <2>1. CASE BeginIntent(r[1], r[2])
    <3>1. live /\ phase # "removing" /\ phase' = "checking" /\ force' \in BOOLEAN
      BY <1>0, <2>1, OperationType DEF BeginIntent, Replaceable
    <3>2. QED
      BY <2>1, <3>1, StepDecides DEF BeginIntent, Enter
  <2>2. CASE BeginRaise(r[1], r[2])
    BY <2>2, StepDecides DEF BeginRaise, Enter
  <2>3. CASE BeginResume(r[1], r[2])
    BY <2>3, StepOutside DEF BeginResume, Enter
  <2>4. QED
    BY <2>0, <2>1, <2>2, <2>3
<1>2. CASE Check
  <2>1. CASE Rescue \/ StartReplay \/ Pick
    BY <2>1, StepOutside DEF Rescue, StartReplay, Pick
  <2>2. CASE AcceptMerge \/ AcceptDelete
    <3>1. [discard |-> FALSE, tip |-> ref, head |-> head] \in Acceptance
      BY <1>0 DEF TypeInv, TypeOK, Acceptance
    <3>2. QED
      BY <2>2, <3>1, StepAccepts DEF AcceptMerge, AcceptDelete, CheckSteps
  <2>3. CASE AcceptDiscard
    <3>1. [discard |-> TRUE, tip |-> {}, head |-> head] \in Acceptance
      BY <1>0 DEF TypeInv, TypeOK, Acceptance
    <3>2. QED
      BY <2>3, <3>1, StepAccepts DEF AcceptDiscard, CheckSteps
  <2>4. CASE CheckRefuses
    BY <2>4, StepPauses DEF CheckRefuses
  <2>5. QED
    BY <1>2, <2>1, <2>2, <2>3, <2>4 DEF Check
<1>3. CASE Close
  <2>1. CASE IntendClose \/ CompleteClose \/ CloseRefusedByStore
    BY <2>1, StepOutside DEF IntendClose, CompleteClose, CloseRefusedByStore
  <2>2. CASE CloseWorkspace
    <3>1. k \in Attachment /\ ws \in [Attachment -> {"absent", "intent", "named"}]
      BY <1>0, <2>2 DEF CloseWorkspace, TypeInv, TypeOK, LoopOK
    <3>2. ws' = [ws EXCEPT ![k] = "absent"] \/ ws' = ws
      BY <2>2, <3>1 DEF CloseWorkspace
    <3>3. QED
      BY <1>0, <2>2, <3>1, <3>2, StepCloses, StepOutside DEF CloseWorkspace
  <2>3. CASE LeaveUnproven
    <3>1. CASE force
      BY <2>3, <3>1, StepOutside DEF LeaveUnproven, KeepEvidence
    <3>2. CASE ~force
      BY <2>3, <3>2, StepPauses DEF LeaveUnproven
    <3>3. QED
      BY <3>1, <3>2
  <2>4. CASE FinishClosing
    <3>1. phase = "closing"
      BY <1>0, <2>4 DEF FinishClosing, CloseSteps
    <3>2. QED
      BY <2>4, <3>1, StepOutside DEF FinishClosing
  <2>5. QED
    BY <1>3, <2>1, <2>2, <2>3, <2>4 DEF Close
<1>4. CASE Remove
  <2>1. CASE Validate \/ SkipDone \/ IntendEffect \/ CompleteEffect
    BY <2>1, StepOutside DEF Validate, SkipDone, IntendEffect, CompleteEffect
  <2>2. CASE ValidateRefuses \/ EffectsPending
    BY <2>2, StepPauses DEF ValidateRefuses, EffectsPending
  <2>3. CASE ApplyEffect
    BY <2>3, StepRemoves DEF ApplyEffect
  <2>4. CASE ApplyRefuses
    <3>1. phase' = "removing" <=> phase = "removing"
      BY <2>4 DEF ApplyRefuses, NextOrPause, Pause
    <3>2. QED
      BY <2>4, <3>1, StepOutside DEF ApplyRefuses, KeepEvidence
  <2>5. CASE CompleteRetirement
    <3>1. live /\ phase = "removing" /\ Left = {}
      BY <2>5 DEF CompleteRetirement, EffectsDone, Mapped, Order, PhaseOfStep, RemoveSteps,
                  Closure, Journal, Left
    <3>2. Stage = "removing" /\ Stage' = "retired"
      BY <2>5, <3>1 DEF Stage, CompleteRetirement
    <3>3. OpenNow' = OpenNow
      BY <2>5 DEF CompleteRetirement, OpenNow
    <3>4. Life!Retires
      BY <2>5, <3>1, <3>2, <3>3, HeldKept DEF CompleteRetirement, Life!Retires, Held, Left, OpenNow
    <3>5. QED
      BY <3>4 DEF Life!Next
  <2>6. QED
    BY <1>4, <2>1, <2>2, <2>3, <2>4, <2>5 DEF Remove
<1>5. CASE Fails
  <2>1. CASE PickConflicts \/ CheckFails
    BY <2>1, StepPauses DEF PickConflicts, CheckFails
  <2>2. CASE CloseFails
    <3>1. k \in Attachment /\ (ws' = [ws EXCEPT ![k] = "absent"] \/ ws' = ws)
      BY <1>0, <2>2 DEF CloseFails, TypeInv, LoopOK
    <3>2. phase' = "removing" <=> phase = "removing"
      BY <2>2 DEF CloseFails, Pause
    <3>3. QED
      BY <1>0, <2>2, <3>1, <3>2, StepCloses, StepOutside DEF CloseFails, KeepEvidence
  <2>3. CASE ApplyFails
    <3>1. phase' = "removing" <=> phase = "removing"
      BY <2>3 DEF ApplyFails, NextOrPause, Pause
    <3>2. CASE UNCHANGED <<present, wtDirty>>
      BY <2>3, <3>1, <3>2, StepOutside DEF ApplyFails, KeepEvidence
    <3>3. CASE ~UNCHANGED <<present, wtDirty>>
      BY <2>3, <3>1, <3>3, StepRemoves DEF ApplyFails, KeepEvidence
    <3>4. QED
      BY <3>2, <3>3
  <2>4. CASE Crash
    BY <2>4, StepOutside DEF Crash
  <2>5. QED
    BY <1>5, <2>1, <2>2, <2>3, <2>4 DEF Fails
<1>6. CASE Attach
  <2>1. CASE AttachNew
    BY <2>1, StepOutside DEF AttachNew, Attachable
  <2>2. CASE \/ AttachAgain \/ AttachActive \/ SaveHandle \/ RenameFails \/ Activate
             \/ ReadPanes \/ RefreshWorkspaceProof
    BY <2>2, StepOutside DEF AttachAgain, AttachActive, SaveHandle, RenameFails, Activate,
                             ReadPanes, RefreshWorkspaceProof
  <2>3. CASE CreateWorkspace
    <3>1. k \in Attachment /\ live /\ phase # "removing"
      BY <1>0, <2>3 DEF CreateWorkspace, TypeInv, LoopOK, AttachSteps
    <3>2. QED
      BY <1>0, <2>3, <3>1, StepOpens DEF CreateWorkspace
  <2>4. CASE RenameWorkspace
    <3>1. OpenNow' = OpenNow
      BY <1>0, <2>4 DEF RenameWorkspace, OpenNow, TypeInv, TypeOK, LoopOK
    <3>2. QED
      BY <2>4, <3>1, StepWorks DEF RenameWorkspace
  <2>5. QED
    BY <1>6, <2>1, <2>2, <2>3, <2>4 DEF Attach
<1>7. CASE Agent
  BY <1>7, StepOutside DEF Agent, AgentEdits, AgentCommits, AgentRewrites
<1>8. CASE User
  <2>1. CASE \E a \in Attachment : UserClosesWorkspace(a)
    BY <1>0, <2>1, StepCloses DEF UserClosesWorkspace
  <2>2. CASE \E a \in Attachment : UserClosesPane(a)
    BY <2>2, StepOutside DEF UserClosesPane
  <2>3. CASE \/ UserEditsWorktree \/ UserCommitsWorktree \/ UserCleansWorktree
             \/ UserContinues \/ UserAborts \/ UserCommits \/ UserResets \/ Pull
    BY <2>3, StepOutside DEF UserEditsWorktree, UserCommitsWorktree, UserCleansWorktree,
       UserContinues, UserAborts, UserCommits, UserResets, Pull
  <2>4. QED
    BY <1>8, <2>1, <2>2, <2>3 DEF User
<1>9. CASE UNCHANGED vars
  BY <1>9, StepOutside DEF vars
<1>10. QED
  BY <1>1, <1>2, <1>3, <1>4, <1>5, <1>6, <1>7, <1>8, <1>9 DEF Next

LEMMA InitMaps == Init => Life!Init
<1> SUFFICES ASSUME Init PROVE Life!Init
  OBVIOUS
<1>1. Stage = "active" /\ Left = EffectKey /\ Held = {} /\ OpenNow = {}
  BY DEF Init, Stage, Left, Held, Holds, OpenNow
<1>2. QED
  BY <1>1 DEF Init, Life!Init, Left, Held, OpenNow

\* Retirement keeps what SessionLife promises, for every number of commits,
\* attachments, faults and moves and every set of operations, if the user does
\* not commit over a cherry-pick they aborted.
THEOREM RetirementIsSessionLife ==
  ASSUME ~DropsStopped
  PROVE  Spec => KeepsItsPromise
<1>1. Spec => []Mapped
  <2>1. Spec => [](TypeInv /\ Order /\ Closure)
    BY ClosureHolds, PTL
  <2>2. Spec => []Invariant
    BY InvariantHolds
  <2>3. TypeInv /\ Order /\ Closure /\ Invariant => Mapped
    BY DEF Mapped, Invariant
  <2>4. QED
    BY <2>1, <2>2, <2>3, PTL
<1>2. Mapped /\ [Next]_vars => [Life!Next]_(Life!vars)
  BY StepMaps
<1>3. QED
  BY <1>1, <1>2, InitMaps, PTL DEF Spec, KeepsItsPromise, Life!Spec

===============================================================================
