-------------------------------- MODULE Sidebar --------------------------------
(***************************************************************************)
(* The saved machines of the user's Herdr client and the workspaces of an  *)
(* instance's Herdr server (internal/lifecycle/herdrownership.go,          *)
(* herdrprofile.go, herdrworkspace.go): attaching to the sessions of an    *)
(* instance from several terminals at a time, and down, which forgets the  *)
(* machine. The catalog of machines has no lock, and the user edits it.    *)
(* How a retirement closes a workspace is in Retirement.                   *)
(***************************************************************************)
EXTENDS Integers, FiniteSets

CONSTANTS
  Process,     \* the terminals a command runs in
  Session,     \* the sessions of the instance
  MaxProfiles, \* bound: machines ever saved
  MaxSpaces,   \* bound: workspaces ever made
  MaxUps,      \* bound: times the instance is made
  MaxEdits,    \* bound: edits of the catalog by the user
  MaxFaults    \* bound: crashes and failed calls

SidebarAssumption ==
  {MaxProfiles, MaxSpaces, MaxUps, MaxEdits, MaxFaults} \subseteq Nat

Nobody == "nobody"
NobodyAssumption == Nobody \notin Process

VARIABLES
  machines, \* the catalog, by id: [target, label, enabled]
  record,   \* Record.HerdrMachineID (0: none), whether there is a record, and its instance
  attached, \* each session's attachment
  spaces,   \* the workspaces on the instance, by id: [session, label]
  shared, alone, held, \* the locks of the instance and of each session
  at,       \* where each process is
  slipped,  \* sessions whose workspace was renamed by a process that then stopped
  saved, made, ups, edits, faults

locks == <<shared, alone, held>>
counts == <<saved, made, ups, edits, faults>>
vars == <<machines, record, attached, spaces, locks, at, slipped, counts>>

NoAttachment == [phase |-> "none", machine |-> 0, handle |-> 0]
Idle == [pc |-> "idle", session |-> Nobody, id |-> 0]

Init ==
  /\ machines = [i \in {} |-> 0] /\ record = [id |-> 0, live |-> TRUE, runs |-> TRUE]
  /\ attached = [s \in Session |-> NoAttachment] /\ spaces = [i \in {} |-> 0]
  /\ shared = {} /\ alone = Nobody /\ held = [s \in Session |-> Nobody]
  /\ at = [p \in Process |-> Idle] /\ slipped = {}
  /\ saved = 0 /\ made = 0 /\ ups = 1 /\ edits = 0 /\ faults = 0

At(p, pc) == at[p].pc = pc
Goto(p, pc) == at' = [at EXCEPT ![p].pc = pc]
Found(p, id, pc) == at' = [at EXCEPT ![p].id = id, ![p].pc = pc]
My(p) == at[p].session
Fault == faults < MaxFaults /\ faults' = faults + 1

Ends(p) ==
  /\ at' = [at EXCEPT ![p] = Idle]
  /\ shared' = shared \ {p} /\ alone' = IF alone = p THEN Nobody ELSE alone
  /\ held' = [s \in Session |-> IF held[s] = p THEN Nobody ELSE held[s]]

With(f, x, v) == [i \in DOMAIN f \cup {x} |-> IF i = x THEN v ELSE f[i]]
Without(f, x) == [i \in DOMAIN f \ {x} |-> f[i]]
First(S) == CHOOSE i \in S : \A j \in S : i <= j

Targeting == {i \in DOMAIN machines : machines[i].target = "ours"}
Labelled == {i \in DOMAIN machines : machines[i].label = "instance"}
Intended(s) == {i \in DOMAIN spaces : spaces[i] = [session |-> s, label |-> "intent"]}

-------------------------------------------------------------------------------
(* EnsureSessionAttachment, up to the machine *)

\* The instance shared, the session alone; the record is read once, now.
Attaches(p, s) ==
  /\ At(p, "idle") /\ alone = Nobody /\ held[s] = Nobody /\ record.live
  /\ shared' = shared \cup {p} /\ held' = [held EXCEPT ![s] = p]
  /\ at' = [at EXCEPT ![p] = [Idle EXCEPT !.session = s, !.id = record.id,
              !.pc = IF attached[s].phase = "none" THEN "list" ELSE "verify"]]
  /\ UNCHANGED <<machines, record, attached, spaces, alone, slipped, counts>>

\* EnsureMachine: the recorded id; else the target under the instance's name, else
\* the one that has the target; several of those are not guessed about.
Candidates(recorded) ==
  IF recorded \in DOMAIN machines THEN {recorded}
  ELSE IF Targeting \cap Labelled # {} THEN {First(Targeting \cap Labelled)}
  ELSE Targeting
Lists(p) ==
  /\ At(p, "list")
  /\ LET found == Candidates(at[p].id) IN
     IF found = {} THEN Goto(p, "add") /\ UNCHANGED locks
     ELSE IF Cardinality(found) > 1 THEN Ends(p)
     ELSE LET i == First(found) IN
          /\ Found(p, i, IF machines[i].enabled THEN "record" ELSE "enable") /\ UNCHANGED locks
  /\ UNCHANGED <<machines, record, attached, spaces, slipped, counts>>

Enables(p) ==
  /\ At(p, "enable")
  /\ IF at[p].id \in DOMAIN machines
     THEN machines' = [machines EXCEPT ![at[p].id].enabled = TRUE] /\ Goto(p, "record") /\ UNCHANGED locks
     ELSE Ends(p) /\ UNCHANGED machines
  /\ UNCHANGED <<record, attached, spaces, slipped, counts>>

\* herdr machine add does not look for a duplicate.
Adds(p) ==
  /\ At(p, "add") /\ saved < MaxProfiles /\ saved' = saved + 1
  /\ machines' = With(machines, saved', [target |-> "ours", label |-> "instance", enabled |-> TRUE])
  /\ Goto(p, "read back")
  /\ UNCHANGED <<record, attached, spaces, locks, slipped, made, ups, edits, faults>>

ReadBack(S) == First(S)

\* By the label alone; if that is another target, it is an error.
ReadsBack(p) ==
  /\ At(p, "read back")
  /\ IF Labelled # {} /\ ReadBack(Labelled) \in Targeting
     THEN Found(p, ReadBack(Labelled), "record") /\ UNCHANGED locks
     ELSE Ends(p)
  /\ UNCHANGED <<machines, record, attached, spaces, slipped, counts>>

\* The attachment is on record before its workspace is made.
Records(p) ==
  /\ At(p, "record")
  /\ record' = [record EXCEPT !.id = at[p].id]
  /\ attached' = [attached EXCEPT ![My(p)] = [phase |-> "creating", machine |-> at[p].id, handle |-> 0]]
  /\ Goto(p, "verify")
  /\ UNCHANGED <<machines, spaces, locks, slipped, counts>>

-------------------------------------------------------------------------------
(* ensureWorkspaceAttachment *)

\* verifyMachineAddress, by the record as it was read (or what was just recorded),
\* and of an active attachment verifyWorkspaceOwnership.
Verified(p) == attached[My(p)].machine = at[p].id /\ at[p].id \in DOMAIN machines
Verifies(p) ==
  /\ At(p, "verify")
  /\ IF Verified(p) /\ attached[My(p)].phase = "creating"
     THEN Goto(p, "recover") /\ UNCHANGED locks ELSE Ends(p)
  /\ UNCHANGED <<machines, record, attached, spaces, slipped, counts>>

\* Mutant of Recover: what an earlier attach left is not looked for.
NeverRecover(p) == Goto(p, "create")
\* recoverIntendedWorkspace: by the label that only this attachment gives.
Recover(p) == IF Intended(My(p)) = {} THEN Goto(p, "create")
              ELSE Found(p, First(Intended(My(p))), "prove")
Recovers(p) ==
  /\ At(p, "recover") /\ record.runs /\ Recover(p)
  /\ UNCHANGED <<machines, record, attached, spaces, locks, slipped, counts>>

Creates(p) ==
  /\ At(p, "create") /\ made < MaxSpaces /\ made' = made + 1
  /\ spaces' = With(spaces, made', [session |-> My(p), label |-> "intent"])
  /\ \/ Found(p, made', "prove") /\ UNCHANGED faults
     \/ Fault /\ Goto(p, "recover once")
  /\ UNCHANGED <<machines, record, attached, locks, slipped, saved, ups, edits>>

CreateFails(p) ==
  /\ At(p, "create") /\ Fault /\ Goto(p, "recover once")
  /\ UNCHANGED <<machines, record, attached, spaces, locks, slipped, saved, made, ups, edits>>

\* Once more before an uncertain answer is an error.
RecoversOnce(p) ==
  /\ At(p, "recover once")
  /\ IF Intended(My(p)) = {} THEN Ends(p)
     ELSE Found(p, First(Intended(My(p))), "prove") /\ UNCHANGED locks
  /\ UNCHANGED <<machines, record, attached, spaces, slipped, counts>>

Proves(p) ==
  /\ At(p, "prove") /\ attached' = [attached EXCEPT ![My(p)].handle = at[p].id] /\ Goto(p, "rename")
  /\ UNCHANGED <<machines, record, spaces, locks, slipped, counts>>

Renames(p) ==
  /\ At(p, "rename")
  /\ IF at[p].id \in DOMAIN spaces
     THEN spaces' = [spaces EXCEPT ![at[p].id].label = "session"] /\ Goto(p, "mark") /\ UNCHANGED locks
     ELSE Ends(p) /\ UNCHANGED spaces
  /\ UNCHANGED <<machines, record, attached, slipped, counts>>

Marks(p) ==
  /\ At(p, "mark") /\ attached' = [attached EXCEPT ![My(p)].phase = "active"] /\ Ends(p)
  /\ UNCHANGED <<machines, record, spaces, slipped, counts>>

-------------------------------------------------------------------------------
(* down, and up again under the same name *)

Locks(p) ==
  /\ At(p, "idle") /\ alone = Nobody /\ shared = {} /\ record.live
  /\ alone' = p /\ Goto(p, "forget")
  /\ UNCHANGED <<machines, record, attached, spaces, shared, held, slipped, counts>>

\* The machine is destroyed by then, and what ran on it. RemoveMachine goes by the
\* recorded id; one that fails is a warning.
Forgets(p) ==
  /\ At(p, "forget") /\ Goto(p, "delete")
  /\ record' = [record EXCEPT !.runs = FALSE] /\ spaces' = [i \in {} |-> 0]
  /\ \/ machines' = Without(machines, record.id) /\ UNCHANGED faults
     \/ Fault /\ UNCHANGED machines
  /\ UNCHANGED <<attached, locks, slipped, saved, made, ups, edits>>

Deletes(p) ==
  /\ At(p, "delete") /\ Ends(p) /\ record' = [id |-> 0, live |-> FALSE, runs |-> FALSE]
  /\ attached' = [s \in Session |-> NoAttachment] /\ slipped' = {}
  /\ UNCHANGED <<machines, spaces, counts>>

Ups == /\ ~record.live /\ ups < MaxUps /\ ups' = ups + 1 /\ record' = [id |-> 0, live |-> TRUE, runs |-> TRUE]
       /\ UNCHANGED <<machines, attached, spaces, locks, at, slipped, saved, made, edits, faults>>

-------------------------------------------------------------------------------
\* An instance that a down destroyed, and then failed, answers nobody.
NoAnswer(p) ==
  /\ At(p, "recover") /\ ~record.runs /\ Ends(p)
  /\ UNCHANGED <<machines, record, attached, spaces, slipped, counts>>

\* The process dies, or a call that changes nothing fails.
Stops(p) ==
  /\ ~At(p, "idle") /\ Fault /\ Ends(p)
  /\ slipped' = IF At(p, "mark") THEN slipped \cup {My(p)} ELSE slipped
  /\ UNCHANGED <<machines, record, attached, spaces, saved, made, ups, edits>>

\* In the sidebar the user saves a machine, renames, disables or removes one.
UserEdits ==
  /\ edits < MaxEdits /\ edits' = edits + 1
  /\ \/ /\ saved < MaxProfiles /\ saved' = saved + 1
        /\ \E target \in {"ours", "other"}, label \in {"instance", "user"} :
             machines' = With(machines, saved', [target |-> target, label |-> label, enabled |-> TRUE])
     \/ /\ UNCHANGED saved
        /\ \E i \in DOMAIN machines : \/ machines' = Without(machines, i)
                                      \/ machines' = [machines EXCEPT ![i].label = "user"]
                                      \/ machines' = [machines EXCEPT ![i].enabled = FALSE]
  /\ UNCHANGED <<record, attached, spaces, locks, at, slipped, made, ups, faults>>

Next ==
  \/ Ups \/ UserEdits
  \/ \E p \in Process :
       \/ \E s \in Session : Attaches(p, s)
       \/ Lists(p) \/ Enables(p) \/ Adds(p) \/ ReadsBack(p) \/ Records(p)
       \/ Verifies(p) \/ Recovers(p) \/ Creates(p) \/ CreateFails(p) \/ RecoversOnce(p) \/ Proves(p)
       \/ Renames(p) \/ Marks(p) \/ Locks(p) \/ Forgets(p) \/ Deletes(p) \/ NoAnswer(p) \/ Stops(p)

Spec == Init /\ [][Next]_vars

-------------------------------------------------------------------------------
(* Properties *)

\* A session has one workspace, whatever answers were lost and however often the
\* attach was begun again; but for a process that stopped between the rename and
\* the mark (a hazard of its own).
OneWorkspace ==
  \A s \in Session \ slipped : Cardinality({i \in DOMAIN spaces : spaces[i].session = s}) <= 1
===============================================================================
