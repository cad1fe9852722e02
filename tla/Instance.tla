------------------------------- MODULE Instance -------------------------------
(***************************************************************************)
(* One instance and the commands that run on it at the same time, each a   *)
(* process of its own on the user's machine: `up` (lifecycle.go), `down`   *)
(* (down.go), `session start` (cmd/run_session.go, start.go) and the       *)
(* retirement of a session (retirement.go, in outline; Retirement has it   *)
(* in full). They meet in the state file, whose every read and write is    *)
(* one step here (Store shows why it may be), and in the file locks of     *)
(* locking.go; the agent meanwhile works on the instance. `attach`, which  *)
(* changes a session's attachments but neither the machine nor the         *)
(* sessions there are, is in Retirement and Sidebar.                       *)
(***************************************************************************)
EXTENDS Integers, FiniteSets

CONSTANTS
  Process,      \* the commands' processes
  Session,      \* the session names in use
  MaxVMs,       \* bound: machines ever created
  MaxStarts,    \* bound: session generations ever made
  MaxCommands,  \* bound: commands ever begun
  MaxFaults     \* bound: crashes and failed calls

ASSUME InstanceBoundsAssumption ==
  /\ MaxVMs \in Nat /\ MaxStarts \in Nat /\ MaxCommands \in Nat /\ MaxFaults \in Nat
ASSUME NoneAssumption == "none" \notin Process \cup Session

VM == 1..MaxVMs

VARIABLES
  (* state.json and the SSH profile *)
  rec,        \* the instance's record, NoRecord when there is none
  profile,    \* the machine the instance's SSH profile points at (0: none)
  (* the provider and the machines *)
  vms,        \* machines that exist, and are billed
  created,    \* machines created so far
  seeded,     \* the sessions with a repository on each machine
  work,       \* of those, the ones with work that is nowhere else
  told,       \* machines the user was told to destroy by hand
  lost,       \* machines that left the record, or never reached it, in the
              \* ways that are known (README)
  (* locks *)
  shared, exclusive,  \* holders of the instance lock
  sess,               \* holder of each session lock
  (* processes *)
  at,         \* where each process is, and what it has read
  begun, gens, faults

store == <<rec, profile>>
cloud == <<vms, created, seeded, work, told, lost>>
locks == <<shared, exclusive, sess>>
vars == <<store, cloud, locks, at, begun, gens, faults>>

NoSession == [gen |-> 0, retiring |-> FALSE]
NoRecord == [vm |-> 0, sessions |-> [s \in Session |-> NoSession]]
Idle == [pc |-> "idle", session |-> "none", vm |-> 0, force |-> FALSE,
         left |-> {}, rescued |-> {}, failed |-> FALSE]

Tracked == rec # NoRecord
Active(s) == rec.sessions[s].gen # 0
Sessions == {s \in Session : Active(s)}
Fault == faults < MaxFaults /\ faults' = faults + 1

Init ==
  /\ rec = NoRecord /\ profile = 0
  /\ vms = {} /\ created = 0 /\ told = {} /\ lost = {}
  /\ seeded = [v \in VM |-> {}] /\ work = [v \in VM |-> {}]
  /\ shared = {} /\ exclusive = "none" /\ sess = [s \in Session |-> "none"]
  /\ at = [p \in Process |-> Idle]
  /\ begun = 0 /\ gens = 0 /\ faults = 0

-------------------------------------------------------------------------------
(* Processes and locks *)

At(p, pc) == at[p].pc = pc
Goto(p, pc) == at' = [at EXCEPT ![p].pc = pc]

\* Mutant of End: the session's lock is kept.
EndKeepingSession(p) ==
  /\ at' = [at EXCEPT ![p] = Idle]
  /\ shared' = shared \ {p}
  /\ exclusive' = IF exclusive = p THEN "none" ELSE exclusive
  /\ UNCHANGED sess

\* The end of a process, orderly or not, gives back its locks.
End(p) ==
  /\ at' = [at EXCEPT ![p] = Idle]
  /\ shared' = shared \ {p}
  /\ exclusive' = IF exclusive = p THEN "none" ELSE exclusive
  /\ sess' = [s \in Session |-> IF sess[s] = p THEN "none" ELSE sess[s]]

Begin(p, to) ==
  /\ At(p, "idle") /\ begun < MaxCommands
  /\ begun' = begun + 1
  /\ at' = [at EXCEPT ![p] = to]
  /\ UNCHANGED <<store, cloud, locks, gens, faults>>

\* Mutant of MayLockAlone: down does not wait for those who share the lock.
MayLockAnyway == exclusive = "none"
MayLockAlone == exclusive = "none" /\ shared = {}

-------------------------------------------------------------------------------
(* up: no lock; the record is looked up first and written when there is a
   machine *)

UpBegins(p) == ~Tracked /\ Begin(p, [Idle EXCEPT !.pc = "create"])

UpCreates(p) ==
  /\ At(p, "create") /\ created < MaxVMs
  /\ created' = created + 1 /\ vms' = vms \cup {created'}
  /\ at' = [at EXCEPT ![p].pc = "put", ![p].vm = created']
  /\ UNCHANGED <<store, seeded, work, told, lost, locks, begun, gens, faults>>

\* The provider turns the request down, or made the machine but never told
\* that it became active: Create returns no machine either way.
UpCreateFails(p) ==
  /\ At(p, "create") /\ Fault
  /\ \/ UNCHANGED cloud
     \/ /\ created < MaxVMs
        /\ created' = created + 1 /\ vms' = vms \cup {created'}
        /\ lost' = lost \cup {created'}
        /\ UNCHANGED <<seeded, work, told>>
  /\ End(p)
  /\ UNCHANGED <<store, begun, gens>>

\* The recorded machine, if it is not the writer's: up takes no lock, so its
\* write and that of a down can each take the other's machine off the record.
Unrecorded(v) == IF Tracked /\ rec.vm # v THEN {rec.vm} ELSE {}

\* Put replaces whatever is recorded under the name by now.
UpPuts(p) ==
  /\ At(p, "put")
  /\ rec' = [NoRecord EXCEPT !.vm = at[p].vm]
  /\ lost' = lost \cup Unrecorded(at[p].vm)
  /\ Goto(p, "profile")
  /\ UNCHANGED <<profile, vms, created, seeded, work, told, locks, begun, gens, faults>>

\* A record that cannot be written: the machine is destroyed again, and if that
\* fails too the user is told which one it is.
UpPutFails(p) ==
  /\ At(p, "put") /\ Fault
  /\ \/ vms' = vms \ {at[p].vm} /\ UNCHANGED told
     \/ told' = told \cup {at[p].vm} /\ UNCHANGED vms
  /\ End(p)
  /\ UNCHANGED <<store, created, seeded, work, lost, begun, gens>>

\* profiles.Upsert, then readiness and provisioning, which change nothing here.
UpInstallsProfile(p) ==
  /\ At(p, "profile")
  /\ profile' = at[p].vm
  /\ End(p)
  /\ UNCHANGED <<rec, cloud, begun, gens, faults>>

-------------------------------------------------------------------------------
(* down: alone on the instance *)

DownBegins(p, f) ==
  Tracked /\ Begin(p, [Idle EXCEPT !.pc = "lock alone", !.force = f])

DownLocks(p) ==
  /\ At(p, "lock alone") /\ MayLockAlone
  /\ exclusive' = p
  /\ Goto(p, "down")
  /\ UNCHANGED <<store, cloud, shared, sess, begun, gens, faults>>

\* The record read again under the lock; a session being retired stops it.
DownReads(p) ==
  /\ At(p, "down")
  /\ IF ~Tracked \/ (~at[p].force /\ \E s \in Session : rec.sessions[s].retiring)
     THEN End(p)
     ELSE /\ at' = [at EXCEPT ![p].pc = IF at[p].force THEN "destroy" ELSE "rescue",
                              ![p].vm = rec.vm, ![p].left = Sessions]
          /\ UNCHANGED locks
  /\ UNCHANGED <<store, cloud, begun, gens, faults>>

\* rescueBeforeDestroy: every session on record, one after the other.
DownRescues(p, s) ==
  /\ At(p, "rescue") /\ s \in at[p].left
  /\ at[p].vm \in vms /\ s \in seeded[at[p].vm]
  /\ work' = [work EXCEPT ![at[p].vm] = @ \ {s}]
  /\ at' = [at EXCEPT ![p].left = @ \ {s}, ![p].rescued = @ \cup {s}]
  /\ UNCHANGED <<store, vms, created, seeded, told, lost, locks, begun, gens, faults>>

\* One that cannot be rescued does not keep the rest from being rescued.
DownCannotRescue(p, s) ==
  /\ At(p, "rescue") /\ s \in at[p].left
  /\ \/ (at[p].vm \notin vms \/ s \notin seeded[at[p].vm]) /\ UNCHANGED faults
     \/ Fault
  /\ at' = [at EXCEPT ![p].left = @ \ {s}, ![p].failed = TRUE]
  /\ UNCHANGED <<store, cloud, locks, begun, gens>>

MayDestroy(p) == ~at[p].failed

DownDone(p) ==
  /\ At(p, "rescue") /\ at[p].left = {}
  /\ IF MayDestroy(p) THEN Goto(p, "destroy") /\ UNCHANGED locks ELSE End(p)
  /\ UNCHANGED <<store, cloud, begun, gens, faults>>

\* A machine that is already gone counts as destroyed.
DownDestroys(p) ==
  /\ At(p, "destroy")
  /\ vms' = vms \ {at[p].vm}
  /\ Goto(p, "remove profile")
  /\ UNCHANGED <<store, created, seeded, work, told, lost, locks, begun, gens, faults>>

\* Mutant of AfterFailedDestroy: the record goes, as a record without a
\* selected SSH identity still does.
RecordCleared == NoRecord
\* State and profile stay, for the retry.
AfterFailedDestroy == rec

\* The call fails, or succeeds with its answer lost.
DownDestroyFails(p) ==
  /\ At(p, "destroy") /\ Fault
  /\ vms' \in {vms, vms \ {at[p].vm}}
  /\ rec' = AfterFailedDestroy
  /\ End(p)
  /\ UNCHANGED <<profile, created, seeded, work, told, lost, begun, gens>>

\* A profile that cannot be removed is reported, and the record goes all the same.
DownRemovesProfile(p) ==
  /\ At(p, "remove profile")
  /\ \/ profile' = 0 /\ UNCHANGED faults
     \/ Fault /\ UNCHANGED profile
  /\ Goto(p, "delete")
  /\ UNCHANGED <<rec, cloud, locks, begun, gens>>

\* Store.Delete goes by the name, whichever machine it stands for by now.
DownDeletes(p) ==
  /\ At(p, "delete")
  /\ rec' = NoRecord
  /\ lost' = lost \cup Unrecorded(at[p].vm)
  /\ End(p)
  /\ UNCHANGED <<profile, vms, created, seeded, work, told, begun, gens, faults>>

-------------------------------------------------------------------------------
(* session start, and the retirement of a session: they share the instance and
   have the session to themselves *)

StartBegins(p, s) ==
  Tracked /\ Begin(p, [Idle EXCEPT !.pc = "share start", !.session = s])

RetireBegins(p, s, f) ==
  Tracked /\ Begin(p, [Idle EXCEPT !.pc = "share retire", !.session = s, !.force = f])

ShareInstance(p) ==
  /\ at[p].pc \in {"share start", "share retire"} /\ exclusive = "none"
  /\ shared' = shared \cup {p}
  /\ Goto(p, IF At(p, "share start") THEN "lock start" ELSE "lock retire")
  /\ UNCHANGED <<store, cloud, exclusive, sess, begun, gens, faults>>

LockSession(p) ==
  /\ at[p].pc \in {"lock start", "lock retire"} /\ sess[at[p].session] = "none"
  /\ sess' = [sess EXCEPT ![at[p].session] = p]
  /\ Goto(p, IF At(p, "lock start") THEN "start" ELSE "retire")
  /\ UNCHANGED <<store, cloud, shared, exclusive, begun, gens, faults>>

\* Mutant of StartPrepares: the repository is made before the record has it.
StartSeedsFirst(p) ==
  /\ At(p, "start") /\ Tracked
  /\ seeded' = [seeded EXCEPT ![rec.vm] = @ \cup {at[p].session}]
  /\ Goto(p, "track")
  /\ UNCHANGED <<store, vms, created, work, told, lost, locks, begun, gens, faults>>

\* The record is read again under the locks, and PrepareSessionStart puts the
\* session on it before anything is made on the instance. A session on record
\* keeps its generation.
StartPrepares(p) ==
  /\ At(p, "start") /\ Tracked /\ ~rec.sessions[at[p].session].retiring
  /\ IF Active(at[p].session)
     THEN UNCHANGED <<rec, gens>>
     ELSE /\ gens < MaxStarts /\ gens' = gens + 1
          /\ rec' = [rec EXCEPT !.sessions[at[p].session].gen = gens']
  /\ at' = [at EXCEPT ![p].pc = "seed", ![p].vm = rec.vm]
  /\ UNCHANGED <<profile, cloud, locks, begun, faults>>

\* The instance is gone from the state file, or the session is being retired.
StartRefused(p) ==
  /\ At(p, "start") /\ (~Tracked \/ rec.sessions[at[p].session].retiring)
  /\ End(p)
  /\ UNCHANGED <<store, cloud, begun, gens, faults>>

StartSeeds(p) ==
  /\ At(p, "seed") /\ at[p].vm \in vms
  /\ seeded' = [seeded EXCEPT ![at[p].vm] = @ \cup {at[p].session}]
  /\ Goto(p, "track")
  /\ UNCHANGED <<store, vms, created, work, told, lost, locks, begun, gens, faults>>

\* trackSession: only the user's machine; the command is over.
StartTracks(p) ==
  /\ At(p, "track")
  /\ End(p)
  /\ UNCHANGED <<store, cloud, begun, gens, faults>>

RetireIntends(p) ==
  /\ At(p, "retire") /\ Tracked /\ Active(at[p].session)
  /\ rec' = [rec EXCEPT !.sessions[at[p].session].retiring = TRUE]
  /\ at' = [at EXCEPT ![p].pc = IF at[p].force THEN "remove" ELSE "check",
                      ![p].vm = rec.vm]
  /\ UNCHANGED <<profile, cloud, locks, begun, gens, faults>>

\* No such session: answered from its receipt, or an error.
RetireFindsNone(p) ==
  /\ At(p, "retire") /\ ~(Tracked /\ Active(at[p].session))
  /\ End(p)
  /\ UNCHANGED <<store, cloud, begun, gens, faults>>

RetireChecks(p) ==
  /\ At(p, "check") /\ at[p].vm \in vms /\ at[p].session \in seeded[at[p].vm]
  /\ work' = [work EXCEPT ![at[p].vm] = @ \ {at[p].session}]
  /\ Goto(p, "remove")
  /\ UNCHANGED <<store, vms, created, seeded, told, lost, locks, begun, gens, faults>>

\* The instance compares before it removes; work that came late stops it.
RetireRemoves(p) ==
  /\ At(p, "remove") /\ at[p].vm \in vms /\ Active(at[p].session)
  /\ at[p].force \/ at[p].session \notin work[at[p].vm]
  /\ seeded' = [seeded EXCEPT ![at[p].vm] = @ \ {at[p].session}]
  /\ work' = [work EXCEPT ![at[p].vm] = @ \ {at[p].session}]
  /\ Goto(p, "complete")
  /\ UNCHANGED <<store, vms, created, told, lost, locks, begun, gens, faults>>

\* What the instance does not answer, or answers with no, ends the command, and
\* so does a session that is gone from the record.
Unreachable(p) ==
  /\ \/ at[p].pc \in {"seed", "check", "remove"} /\ at[p].vm \notin vms
     \/ At(p, "check") /\ at[p].session \notin seeded[at[p].vm]
     \/ At(p, "remove") /\ ~at[p].force /\ at[p].session \in work[at[p].vm]
     \/ At(p, "remove") /\ ~Active(at[p].session)
  /\ End(p)
  /\ UNCHANGED <<store, cloud, begun, gens, faults>>

\* Store.CompleteRetirement.
RetireCompletes(p) ==
  /\ At(p, "complete")
  /\ rec' = [rec EXCEPT !.sessions[at[p].session] = NoSession]
  /\ End(p)
  /\ UNCHANGED <<profile, cloud, begun, gens, faults>>

-------------------------------------------------------------------------------
\* The process dies, is interrupted while it waits, or a call of it fails.
Crash(p) ==
  /\ ~At(p, "idle") /\ Fault
  /\ lost' = IF At(p, "put") THEN lost \cup {at[p].vm} ELSE lost
  /\ End(p)
  /\ UNCHANGED <<store, vms, created, seeded, work, told, begun, gens>>

AgentWorks(v, s) ==
  /\ v \in vms /\ s \in seeded[v] \ work[v]
  /\ work' = [work EXCEPT ![v] = @ \cup {s}]
  /\ UNCHANGED <<store, vms, created, seeded, told, lost, locks, at, begun, gens, faults>>

-------------------------------------------------------------------------------
Begins(p) == \/ UpBegins(p)
             \/ \E f \in BOOLEAN : DownBegins(p, f)
             \/ \E s \in Session : StartBegins(p, s)
             \/ \E s \in Session, f \in BOOLEAN : RetireBegins(p, s, f)

Up(p) == UpCreates(p) \/ UpPuts(p) \/ UpInstallsProfile(p)

Down(p) == \/ DownLocks(p) \/ DownReads(p)
           \/ \E s \in Session : DownRescues(p, s) \/ DownCannotRescue(p, s)
           \/ DownDone(p) \/ DownDestroys(p) \/ DownRemovesProfile(p) \/ DownDeletes(p)

OnSession(p) == ShareInstance(p) \/ LockSession(p)
                \/ StartPrepares(p) \/ StartRefused(p) \/ StartSeeds(p) \/ StartTracks(p)
                \/ RetireIntends(p) \/ RetireFindsNone(p) \/ RetireChecks(p)
                \/ RetireRemoves(p) \/ Unreachable(p) \/ RetireCompletes(p)

Fails(p) == UpCreateFails(p) \/ UpPutFails(p) \/ DownDestroyFails(p) \/ Crash(p)

Command(p) == Up(p) \/ Down(p) \/ OnSession(p)

Next == \/ \E p \in Process : Begins(p) \/ Command(p) \/ Fails(p)
        \/ \E v \in VM, s \in Session : AgentWorks(v, s)

Spec == Init /\ [][Next]_vars

\* A command that can go on does; a lock is polled until it is free.
Fairness == \A p \in Process : WF_vars(Command(p))
FairSpec == Spec /\ Fairness

-------------------------------------------------------------------------------
(* Properties *)

States == {"idle", "create", "put", "profile", "lock alone", "down", "rescue", "destroy",
           "remove profile", "delete", "share start", "lock start", "start", "seed",
           "track", "share retire", "lock retire", "retire", "check", "remove", "complete"}

InDown == {"down", "rescue", "destroy", "remove profile", "delete"}
InSession == {"start", "seed", "track", "retire", "check", "remove", "complete"}
OnSessionAlone(p) == at[p].pc \in InSession

\* Every variable has its type, and each process the locks its step calls for.
TypeOK ==
  /\ rec \in [vm : 0..MaxVMs,
              sessions : [Session -> [gen : 0..MaxStarts, retiring : BOOLEAN]]]
  /\ profile \in 0..MaxVMs /\ vms \subseteq VM /\ created \in 0..MaxVMs
  /\ seeded \in [VM -> SUBSET Session] /\ work \in [VM -> SUBSET Session]
  /\ told \subseteq VM /\ lost \subseteq VM
  /\ shared \subseteq Process /\ exclusive \in Process \cup {"none"}
  /\ sess \in [Session -> Process \cup {"none"}]
  /\ at \in [Process -> [pc : States, session : Session \cup {"none"}, vm : 0..MaxVMs,
                         force : BOOLEAN, left : SUBSET Session,
                         rescued : SUBSET Session, failed : BOOLEAN]]
  /\ begun \in 0..MaxCommands /\ gens \in 0..MaxStarts /\ faults \in 0..MaxFaults
  /\ \A p \in Process :
       /\ exclusive = p <=> at[p].pc \in InDown
       /\ p \in shared <=> at[p].pc \in InSession \cup {"lock start", "lock retire"}
       /\ \A s \in Session : sess[s] = p <=> OnSessionAlone(p) /\ at[p].session = s

\* Work on the recorded machine belongs to a session on record: a session down
\* cannot see is a session down destroys.
WorkIsOnRecord ==
  \A s \in Session : Tracked /\ s \in work[rec.vm] => Active(s)

\* A plain down destroys a machine only when it has brought home every session
\* that is on it, whatever starts and retires at the same time.
DownRescuesAll ==
  [][\A p \in Process : DownDestroys(p) /\ ~at[p].force
       => seeded[at[p].vm] \subseteq at[p].rescued]_vars

\* A machine that is billed is on record, or a running up is about to record it,
\* or the user was told of it, or it was lost in a way that is known: a destroy
\* that fails, with or without its answer, is none of these.
MachineTracked ==
  \A v \in vms \ (told \cup lost) :
    rec.vm = v \/ \E p \in Process : At(p, "put") /\ at[p].vm = v

\* No command waits for ever: the two locks are taken in one order, and every
\* end of a process, a crash too, gives them back.
CommandsEnd == \A p \in Process : ~At(p, "idle") ~> At(p, "idle")

(* What a comment says and the code does not do; a run of its own *)

\* Up: "a created VM is tracked before readiness, profile publication or
\* provisioning, so later failures cannot leave an invisible billable machine".
NoInvisibleMachine ==
  \A v \in vms \ told :
    rec.vm = v \/ \E p \in Process : at[p].pc \in {"create", "put"}
===============================================================================
