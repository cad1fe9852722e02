----------------------------- MODULE InstanceProofs -----------------------------
(***************************************************************************)
(* Proofs about Instance, for every number of processes, sessions,         *)
(* machines, commands and faults: the types and who holds which lock, that *)
(* work is on record, that a billed machine is, that a plain down rescues  *)
(* all it destroys and that a session is changed by its holder alone.      *)
(***************************************************************************)
EXTENDS Instance, TLAPS

(* The inductive invariant *)

ProcessState ==
  [pc : States, session : Session \cup {"none"}, vm : 0..MaxVMs, force : BOOLEAN,
   left : SUBSET Session, rescued : SUBSET Session, failed : BOOLEAN]

Waiting == {"share start", "share retire", "lock start", "lock retire"}
WithMachine == {"put", "profile", "rescue", "destroy", "remove profile", "delete",
                "seed", "track", "check", "remove", "complete"}

\* A command has the session and the machine its step speaks of, and who has
\* the instance to itself shares it with nobody.
Named ==
  /\ \A p \in Process : /\ at[p].pc \in InSession \cup Waiting => at[p].session \in Session
                        /\ at[p].pc \in WithMachine => at[p].vm \in VM
  /\ rec.vm = 0 => rec = NoRecord
  /\ exclusive # "none" => shared = {}

\* What is on the machines: nothing on one that is not made yet, no work
\* without its repository, and on the recorded one sessions on record only.
Machines ==
  /\ rec.vm <= created
  /\ \A v \in VM : /\ v > created => v \notin vms /\ seeded[v] = {}
                   /\ work[v] \subseteq seeded[v]
  /\ rec.vm # 0 => seeded[rec.vm] \subseteq Sessions

\* What a command may rely on. up: nothing is on a machine it has not recorded.
\* start and retire: the session is on record, or about to leave it, while they
\* are at its repository. down: what is on the machine is rescued or still to
\* be, and behind it the machine is gone.
Holding(p) ==
  /\ at[p].vm <= created
  /\ at[p].pc = "put" => seeded[at[p].vm] = {} /\ rec.vm # at[p].vm
  /\ at[p].pc = "seed" /\ rec.vm = at[p].vm => Active(at[p].session)
  /\ at[p].pc \in {"check", "remove"} /\ Active(at[p].session) => rec.vm = at[p].vm
  /\ at[p].pc = "complete" /\ rec.vm # 0 => at[p].session \notin seeded[rec.vm]
  /\ at[p].pc = "rescue" /\ ~at[p].failed => seeded[at[p].vm] \subseteq at[p].left \cup at[p].rescued
  /\ at[p].pc = "destroy" /\ ~at[p].force => seeded[at[p].vm] \subseteq at[p].rescued
  /\ at[p].pc \in {"remove profile", "delete"} => at[p].vm \notin vms

\* A machine that is not recorded yet is known to its up alone.
PutAlone ==
  \A p \in Process : at[p].pc = "put" => \A q \in Process \ {p} : at[q].vm # at[p].vm

IInv == /\ TypeOK /\ Named /\ Machines /\ PutAlone /\ MachineTracked
        /\ \A p \in Process : Holding(p)

\* TypeOK in two parts: what every variable is, and who holds which lock.
Types ==
  /\ rec \in [vm : 0..MaxVMs,
              sessions : [Session -> [gen : 0..MaxStarts, retiring : BOOLEAN]]]
  /\ profile \in 0..MaxVMs /\ vms \subseteq VM /\ created \in 0..MaxVMs
  /\ seeded \in [VM -> SUBSET Session] /\ work \in [VM -> SUBSET Session]
  /\ told \subseteq VM /\ lost \subseteq VM
  /\ shared \subseteq Process /\ exclusive \in Process \cup {"none"}
  /\ sess \in [Session -> Process \cup {"none"}]
  /\ at \in [Process -> ProcessState]
  /\ begun \in 0..MaxCommands /\ gens \in 0..MaxStarts /\ faults \in 0..MaxFaults

Sharing == InSession \cup {"lock start", "lock retire"}

Locked ==
  \A p \in Process :
    /\ exclusive = p <=> at[p].pc \in InDown
    /\ p \in shared <=> at[p].pc \in Sharing
    /\ \A s \in Session : sess[s] = p <=> OnSessionAlone(p) /\ at[p].session = s

LEMMA TypeParts == TypeOK <=> Types /\ Locked
  BY DEF TypeOK, Types, Locked, ProcessState, Sharing

-------------------------------------------------------------------------------
(* How a process moves *)

Moved(p) == at' \in [Process -> ProcessState] /\ \A q \in Process \ {p} : at'[q] = at[q]

SameTask(p) ==
  /\ at'[p].session = at[p].session /\ at'[p].vm = at[p].vm /\ at'[p].force = at[p].force
  /\ at'[p].left = at[p].left /\ at'[p].rescued = at[p].rescued /\ at'[p].failed = at[p].failed

LEMMA StateMoves ==
  ASSUME Types, NEW p \in Process, NEW st \in ProcessState, at' = [at EXCEPT ![p] = st]
  PROVE  Moved(p) /\ at'[p] = st
  BY DEF Types, Moved

LEMMA GotoMoves ==
  ASSUME Types, NEW p \in Process, NEW x \in States, Goto(p, x)
  PROVE  Moved(p) /\ at'[p].pc = x /\ SameTask(p)
<1>0. at[p] \in ProcessState
  BY DEF Types
<1>1. [at[p] EXCEPT !.pc = x] \in ProcessState
  BY <1>0 DEF ProcessState
<1>2. at' = [at EXCEPT ![p] = [at[p] EXCEPT !.pc = x]]
  BY DEF Goto, Types
<1>3. Moved(p) /\ at'[p] = [at[p] EXCEPT !.pc = x]
  BY <1>1, <1>2, StateMoves
<1>4. QED
  BY <1>0, <1>3 DEF SameTask, ProcessState

LEMMA IdleType == Idle \in ProcessState
  BY InstanceBoundsAssumption DEF Idle, ProcessState, States

LEMMA EndMoves ==
  ASSUME Types, NEW p \in Process, End(p)
  PROVE  /\ Moved(p) /\ at'[p] = Idle
         /\ at'[p].pc = "idle" /\ at'[p].vm = 0
         /\ shared' \subseteq Process /\ exclusive' \in Process \cup {"none"}
         /\ sess' \in [Session -> Process \cup {"none"}]
<1>1. Moved(p) /\ at'[p] = Idle
  BY IdleType, StateMoves DEF End
<1>2. QED
  BY <1>1 DEF End, Types, Idle

-------------------------------------------------------------------------------
(* The locks *)

\* A step inside one part of a command takes and gives back none.
LEMMA LocksKept ==
  ASSUME Locked, NEW p \in Process, Moved(p), UNCHANGED locks,
         at'[p].session = at[p].session \/ at'[p].pc \notin InSession,
         at'[p].pc \in InDown <=> at[p].pc \in InDown,
         at'[p].pc \in Sharing <=> at[p].pc \in Sharing,
         at'[p].pc \in InSession <=> at[p].pc \in InSession
  PROVE  Locked'
<1>1. ASSUME NEW q \in Process
      PROVE  /\ at'[q].pc \in InDown <=> at[q].pc \in InDown
             /\ at'[q].pc \in Sharing <=> at[q].pc \in Sharing
             /\ at'[q].pc \in InSession <=> at[q].pc \in InSession
             /\ at'[q].session = at[q].session \/ at'[q].pc \notin InSession
  BY DEF Moved
<1>2. QED
  BY <1>1 DEF Locked, OnSessionAlone, locks

LEMMA LocksEnded ==
  ASSUME Types, Locked, NEW p \in Process, End(p)
  PROVE  Locked'
<1>1. /\ \A q \in Process \ {p} : at'[q] = at[q]
      /\ at'[p].pc = "idle"
  BY EndMoves DEF Moved
<1>2. "idle" \notin InDown /\ "idle" \notin Sharing /\ "idle" \notin InSession
  BY DEF InDown, Sharing, InSession
<1>3. exclusive' # p /\ p \notin shared' /\ \A s \in Session : sess'[s] # p
  BY NoneAssumption DEF End
<1>4. \A q \in Process \ {p} :
        /\ exclusive' = q <=> exclusive = q
        /\ q \in shared' <=> q \in shared
        /\ \A s \in Session : sess'[s] = q <=> sess[s] = q
  BY NoneAssumption DEF End
<1>5. QED
  BY <1>1, <1>2, <1>3, <1>4 DEF Locked, OnSessionAlone

-------------------------------------------------------------------------------
(* Types, locks and names *)

Basic == Types /\ Locked /\ Named

LEMMA NamedKept ==
  ASSUME Named, NEW p \in Process, Moved(p),
         at'[p].pc \in InSession \cup Waiting => at'[p].session \in Session,
         at'[p].pc \in WithMachine => at'[p].vm \in VM,
         rec'.vm = 0 => rec' = NoRecord,
         exclusive' # "none" => shared' = {}
  PROVE  Named'
  BY DEF Named, Moved

\* A step to another place of the same part of a command.
LEMMA BasicWithin ==
  ASSUME Basic, NEW p \in Process, Moved(p), Types', UNCHANGED locks,
         at'[p].session = at[p].session,
         at'[p].pc \in WithMachine => at'[p].vm \in VM,
         at'[p].pc \in InDown <=> at[p].pc \in InDown,
         at'[p].pc \in Sharing <=> at[p].pc \in Sharing,
         at'[p].pc \in InSession <=> at[p].pc \in InSession,
         at'[p].pc \notin Waiting,
         rec'.vm = 0 => rec' = NoRecord
  PROVE  Basic'
<1>1. Locked'
  BY LocksKept DEF Basic
<1>2. at'[p].pc \in InSession \cup Waiting => at'[p].session \in Session
  BY DEF Basic, Named
<1>3. exclusive' # "none" => shared' = {}
  BY DEF Basic, Named, locks
<1>4. Named'
  BY <1>2, <1>3, NamedKept DEF Basic
<1>5. QED
  BY <1>1, <1>4 DEF Basic

\* The end of a command, orderly or not.
LEMMA BasicEnded ==
  ASSUME Basic, NEW p \in Process, End(p), Types', rec'.vm = 0 => rec' = NoRecord
  PROVE  Basic'
<1>1. Locked'
  BY LocksEnded DEF Basic
<1>2. exclusive' # "none" => shared' = {}
  BY DEF Basic, Named, End
<1>3. "idle" \notin InSession \cup Waiting \cup WithMachine
  BY DEF InSession, Waiting, WithMachine
<1>4. Named'
  BY <1>2, <1>3, EndMoves, NamedKept DEF Basic
<1>5. QED
  BY <1>1, <1>4 DEF Basic

\* Where a command starts: it holds nothing, and knows the session it is for.
LEMMA BeginsAt ==
  ASSUME NEW p \in Process, Begins(p)
  PROVE  \E to \in ProcessState :
           /\ Begin(p, to) /\ to.vm = 0
           /\ to.pc \in {"create", "lock alone", "share start", "share retire"}
           /\ to.pc \in Waiting => to.session \in Session
<1>1. CASE UpBegins(p)
  <2>1. [Idle EXCEPT !.pc = "create"] \in ProcessState
    BY IdleType DEF ProcessState, States
  <2>2. QED
    BY <1>1, <2>1 DEF UpBegins, Waiting, Idle
<1>2. ASSUME NEW f \in BOOLEAN, DownBegins(p, f)
      PROVE  \E to \in ProcessState :
               /\ Begin(p, to) /\ to.vm = 0
               /\ to.pc \in {"create", "lock alone", "share start", "share retire"}
               /\ to.pc \in Waiting => to.session \in Session
  <2>1. [Idle EXCEPT !.pc = "lock alone", !.force = f] \in ProcessState
    BY IdleType DEF ProcessState, States
  <2>2. QED
    BY <1>2, <2>1 DEF DownBegins, Waiting, Idle
<1>3. ASSUME NEW s \in Session, StartBegins(p, s)
      PROVE  \E to \in ProcessState :
               /\ Begin(p, to) /\ to.vm = 0
               /\ to.pc \in {"create", "lock alone", "share start", "share retire"}
               /\ to.pc \in Waiting => to.session \in Session
  <2>1. [Idle EXCEPT !.pc = "share start", !.session = s] \in ProcessState
    BY IdleType DEF ProcessState, States
  <2>2. QED
    BY <1>3, <2>1 DEF StartBegins, Waiting, Idle
<1>4. ASSUME NEW s \in Session, NEW f \in BOOLEAN, RetireBegins(p, s, f)
      PROVE  \E to \in ProcessState :
               /\ Begin(p, to) /\ to.vm = 0
               /\ to.pc \in {"create", "lock alone", "share start", "share retire"}
               /\ to.pc \in Waiting => to.session \in Session
  <2>1. [Idle EXCEPT !.pc = "share retire", !.session = s, !.force = f] \in ProcessState
    BY IdleType DEF ProcessState, States
  <2>2. QED
    BY <1>4, <2>1 DEF RetireBegins, Waiting, Idle
<1>5. QED
  BY <1>1, <1>2, <1>3, <1>4 DEF Begins

LEMMA BasicBegins ==
  ASSUME Basic, NEW p \in Process, Begins(p)
  PROVE  Basic' /\ Moved(p) /\ at'[p].vm = 0 /\ UNCHANGED <<store, cloud, locks>>
         /\ at[p].pc = "idle" /\ at'[p].pc \in {"create"} \cup Waiting \cup {"lock alone"}
<1>1. PICK to \in ProcessState :
        /\ Begin(p, to) /\ to.vm = 0
        /\ to.pc \in {"create", "lock alone", "share start", "share retire"}
        /\ to.pc \in Waiting => to.session \in Session
  BY BeginsAt
<1>2. Moved(p) /\ at'[p] = to
  BY <1>1, StateMoves DEF Basic, Begin
<1>3. at[p].pc = "idle" /\ UNCHANGED <<store, cloud, locks, gens, faults>>
  BY <1>1 DEF Begin, At
<1>a. begun' \in 0..MaxCommands
  <2>1. begun \in 0..MaxCommands /\ begun < MaxCommands /\ begun' = begun + 1
    BY <1>1 DEF Basic, Types, Begin
  <2>2. QED
    BY <2>1, InstanceBoundsAssumption
<1>b. UNCHANGED <<rec, profile, vms, created, seeded, work, told, lost, shared, exclusive, sess, gens, faults>>
  BY <1>3 DEF store, cloud, locks
<1>c. at' \in [Process -> ProcessState]
  BY <1>2 DEF Moved
<1>4. Types'
  BY <1>a, <1>b, <1>c DEF Basic, Types
<1>5. {"create", "lock alone", "share start", "share retire", "idle"} \cap (InDown \cup Sharing \cup InSession) = {}
  BY DEF InDown, Sharing, InSession
<1>6. Locked'
  BY <1>1, <1>2, <1>3, <1>5, LocksKept DEF Basic
<1>7. {"create", "lock alone", "share start", "share retire"} \cap WithMachine = {}
  BY DEF WithMachine
<1>8. Named'
  BY <1>1, <1>2, <1>3, <1>5, <1>7, NamedKept DEF Basic, Named, store, locks
<1>9. QED
  BY <1>1, <1>2, <1>3, <1>4, <1>6, <1>8 DEF Basic, Waiting

-------------------------------------------------------------------------------
(* The rest of the invariant *)

Rest == Machines /\ PutAlone /\ MachineTracked /\ \A p \in Process : Holding(p)

LEMMA InvParts == IInv <=> Basic /\ Rest
  BY TypeParts DEF IInv, Basic, Rest

LEMMA InvAgain == Basic' /\ Rest' => IInv'
  BY InvParts, PTL

Relying == {"put", "seed", "check", "remove", "complete", "rescue", "destroy",
            "remove profile", "delete"}

\* Nothing that the other commands rely on changes.
LEMMA OthersHold ==
  ASSUME Rest, NEW p \in Process, Moved(p), UNCHANGED <<rec, created, seeded>>,
         vms' \subseteq vms
  PROVE  \A q \in Process \ {p} : Holding(q)'
<1>1. SUFFICES ASSUME NEW q \in Process \ {p}
               PROVE  Holding(q)'
  OBVIOUS
<1>2. Holding(q) /\ at'[q] = at[q]
  BY DEF Rest, Moved
<1>3. QED
  BY <1>2 DEF Holding, Active

\* A step that changes neither the record nor the repositories.
LEMMA QuietRest ==
  ASSUME Basic, Rest, NEW p \in Process, Moved(p), UNCHANGED <<rec, created, seeded>>,
         vms' \subseteq vms, told \subseteq told', lost \subseteq lost',
         \A v \in VM : work'[v] \subseteq seeded[v],
         at'[p].vm \in {0, at[p].vm, rec.vm}, at'[p].pc # "put",
         Holding(p)',
         at[p].pc = "put" => at[p].vm \notin vms' \ (told' \cup lost')
  PROVE  Rest'
<1>1. \A q \in Process : Holding(q)'
  BY OthersHold
<1>2. Machines'
  BY DEF Rest, Machines, Sessions, Active
<1>3. PutAlone'
  <2>1. \A q \in Process : at[q].pc = "put" => at[q].vm # 0 /\ rec.vm # at[q].vm
    <3>1. SUFFICES ASSUME NEW q \in Process, at[q].pc = "put"
                   PROVE  at[q].vm # 0 /\ rec.vm # at[q].vm
      OBVIOUS
    <3>2. at[q].vm \in VM /\ rec.vm # at[q].vm
      BY <3>1 DEF Basic, Named, WithMachine, Rest, Holding
    <3>3. QED
      BY <3>2, InstanceBoundsAssumption DEF VM
  <2>2. QED
    BY <2>1 DEF Rest, PutAlone, Moved
<1>4. MachineTracked'
  BY DEF Rest, MachineTracked, Moved, At
<1>5. QED
  BY <1>1, <1>2, <1>3, <1>4 DEF Rest

LEMMA PlainHolds ==
  ASSUME NEW p \in Process, at'[p].pc \notin Relying, at'[p].vm <= created'
  PROVE  Holding(p)'
  BY DEF Holding, Relying

LEMMA EndedRest ==
  ASSUME Basic, Rest, NEW p \in Process, End(p), UNCHANGED <<rec, created, seeded, work>>,
         vms' \subseteq vms, told \subseteq told', lost \subseteq lost',
         at[p].pc = "put" => at[p].vm \notin vms' \ (told' \cup lost')
  PROVE  Rest'
<1>1. Moved(p) /\ at'[p].pc = "idle" /\ at'[p].vm = 0
  BY EndMoves DEF Basic
<1>2. created \in Nat /\ created' = created
  BY InstanceBoundsAssumption DEF Basic, Types
<1>a. at'[p].pc \notin Relying /\ at'[p].vm <= created'
  BY <1>1, <1>2 DEF Relying
<1>3. Holding(p)'
  BY <1>a, PlainHolds
<1>4. \A v \in VM : work'[v] \subseteq seeded[v]
  BY DEF Rest, Machines
<1>5. QED
  BY <1>1, <1>3, <1>4, QuietRest

-------------------------------------------------------------------------------
(* The ends of a command *)

LEMMA Ended ==
  ASSUME IInv, NEW p \in Process, End(p), UNCHANGED <<rec, created, seeded, work, begun, gens>>,
         profile' \in 0..MaxVMs, faults' \in 0..MaxFaults, vms' \subseteq vms,
         told' \subseteq VM, told \subseteq told', lost' \subseteq VM, lost \subseteq lost',
         at[p].pc = "put" => at[p].vm \notin vms' \ (told' \cup lost')
  PROVE  IInv'
<1>1. Basic /\ Rest
  BY InvParts
<1>2. Types'
  BY <1>1, EndMoves DEF Basic, Types, Moved
<1>3. rec'.vm = 0 => rec' = NoRecord
  BY <1>1 DEF Basic, Named
<1>4. Basic'
  BY <1>1, <1>2, <1>3, BasicEnded
<1>5. Rest'
  BY <1>1, EndedRest
<1>6. QED
  BY <1>4, <1>5, InvAgain

LEMMA FaultCounts ==
  ASSUME IInv, Fault
  PROVE  faults' \in 0..MaxFaults
<1>1. faults \in 0..MaxFaults /\ faults < MaxFaults /\ faults' = faults + 1
  BY DEF IInv, TypeOK, Fault
<1>2. QED
  BY <1>1, InstanceBoundsAssumption

\* What every step relies on.
LEMMA Facts ==
  ASSUME IInv, NEW p \in Process
  PROVE  /\ Basic /\ Rest /\ Types /\ Locked
         /\ at[p] \in ProcessState
         /\ profile \in 0..MaxVMs /\ faults \in 0..MaxFaults
         /\ vms \subseteq VM /\ told \subseteq VM /\ lost \subseteq VM
         /\ created \in Nat /\ at[p].vm \in 0..MaxVMs
         /\ at[p].pc \in WithMachine => at[p].vm \in VM
  BY InvParts, InstanceBoundsAssumption DEF Basic, Named, Types, ProcessState

LEMMA EndsQuietly ==
  ASSUME IInv, NEW p \in Process, at[p].pc # "put", End(p),
         UNCHANGED <<store, cloud, begun, gens, faults>>
  PROVE  IInv'
  BY Facts, Ended DEF store, cloud

LEMMA UpInstallsProfileKeeps ==
  ASSUME IInv, NEW p \in Process, UpInstallsProfile(p)
  PROVE  IInv'
  BY Facts, Ended DEF UpInstallsProfile, At, cloud

LEMMA UpPutFailsKeeps ==
  ASSUME IInv, NEW p \in Process, UpPutFails(p)
  PROVE  IInv'
<1>1. at[p].vm \in VM
  BY Facts DEF UpPutFails, At, WithMachine
<1>2. faults' \in 0..MaxFaults
  BY FaultCounts DEF UpPutFails
<1>3. UNCHANGED <<rec, profile, created, seeded, work, lost, begun, gens>> /\ End(p)
  BY DEF UpPutFails, store
<1>4. CASE vms' = vms \ {at[p].vm} /\ UNCHANGED told
  BY <1>2, <1>3, <1>4, Facts, Ended
<1>5. CASE told' = told \cup {at[p].vm} /\ UNCHANGED vms
  BY <1>1, <1>2, <1>3, <1>5, Facts, Ended
<1>6. QED
  BY <1>4, <1>5 DEF UpPutFails

LEMMA DownDestroyFailsKeeps ==
  ASSUME IInv, NEW p \in Process, DownDestroyFails(p)
  PROVE  IInv'
<1>1. faults' \in 0..MaxFaults
  BY FaultCounts DEF DownDestroyFails
<1>2. UNCHANGED <<rec, profile, created, seeded, work, told, lost, begun, gens>> /\ End(p)
  BY DEF DownDestroyFails, AfterFailedDestroy
<1>3. vms' \subseteq vms /\ at[p].pc # "put"
  BY DEF DownDestroyFails, At
<1>4. QED
  BY <1>1, <1>2, <1>3, Facts, Ended

LEMMA CrashKeeps ==
  ASSUME IInv, NEW p \in Process, Crash(p)
  PROVE  IInv'
<1>1. faults' \in 0..MaxFaults
  BY FaultCounts DEF Crash
<1>2. UNCHANGED <<rec, profile, vms, created, seeded, work, told, begun, gens>> /\ End(p)
  BY DEF Crash, store
<1>3. CASE at[p].pc = "put"
  <2>1. at[p].vm \in VM /\ lost' = lost \cup {at[p].vm}
    BY <1>3, Facts DEF Crash, At, WithMachine
  <2>2. QED
    BY <1>1, <1>2, <2>1, Facts, Ended
<1>4. CASE at[p].pc # "put"
  <2>1. lost' = lost
    BY <1>4 DEF Crash, At
  <2>2. QED
    BY <1>1, <1>2, <1>4, <2>1, Facts, Ended
<1>5. QED
  BY <1>3, <1>4

LEMMA QuietEndsKeep ==
  ASSUME IInv, NEW p \in Process,
         StartRefused(p) \/ StartTracks(p) \/ RetireFindsNone(p) \/ Unreachable(p)
  PROVE  IInv'
<1>1. /\ at[p].pc # "put" /\ End(p) /\ UNCHANGED <<store, cloud, begun, gens, faults>>
  BY DEF StartRefused, StartTracks, RetireFindsNone, Unreachable, At
<1>2. QED
  BY <1>1, EndsQuietly

-------------------------------------------------------------------------------
(* Locks taken, and steps that change only what the command itself knows *)

LEMMA BeginsKeeps ==
  ASSUME IInv, NEW p \in Process, Begins(p)
  PROVE  IInv'
<1>1. Basic /\ Rest /\ created \in Nat
  BY Facts
<1>2. /\ Basic' /\ Moved(p) /\ at'[p].vm = 0 /\ UNCHANGED <<store, cloud, locks>>
      /\ at[p].pc = "idle" /\ at'[p].pc \in {"create"} \cup Waiting \cup {"lock alone"}
  BY <1>1, BasicBegins
<1>a. created' = created
  BY <1>2 DEF cloud
<1>b. at'[p].vm <= created'
  <2>1. at'[p].vm = 0
    BY <1>2
  <2>2. 0 <= created'
    BY <1>1, <1>a
  <2>3. QED
    BY <2>1, <2>2
<1>c. at'[p].pc \notin Relying /\ at'[p].pc # "put"
  BY <1>2 DEF Relying, Waiting
<1>3. at'[p].pc \notin Relying /\ at'[p].vm <= created' /\ at'[p].pc # "put"
  BY <1>b, <1>c
<1>4. Holding(p)'
  BY <1>3, PlainHolds
<1>5. \A v \in VM : work'[v] \subseteq seeded[v]
  BY <1>1, <1>2 DEF Rest, Machines, cloud
<1>6. Rest'
  BY <1>1, <1>2, <1>3, <1>4, <1>5, QuietRest DEF store, cloud
<1>7. QED
  BY <1>2, <1>6, InvAgain

LEMMA DownLocksKeeps ==
  ASSUME IInv, NEW p \in Process, DownLocks(p)
  PROVE  IInv'
<1>1. Basic /\ Rest /\ Types /\ Locked /\ created \in Nat
  BY Facts
<1>2. Moved(p) /\ at'[p].pc = "down" /\ SameTask(p)
  BY <1>1, GotoMoves DEF DownLocks, States
<1>3. /\ at[p].pc = "lock alone" /\ exclusive = "none" /\ shared = {} /\ exclusive' = p
      /\ UNCHANGED <<rec, profile, vms, created, seeded, work, told, lost, shared, sess,
                     begun, gens, faults>>
  BY DEF DownLocks, At, MayLockAlone, store, cloud
<1>4. Types'
  BY <1>1, <1>2, <1>3 DEF Types, Moved
<1>5. Locked'
  <2>1. \A q \in Process : at[q].pc \notin InDown
    BY <1>1, <1>3, NoneAssumption DEF Locked
  <2>a. \A q \in Process \ {p} : at'[q] = at[q]
    BY <1>2 DEF Moved
  <2>2. /\ "down" \in InDown /\ "down" \notin Sharing /\ "down" \notin InSession
        /\ "lock alone" \notin Sharing /\ "lock alone" \notin InSession
    BY DEF InDown, Sharing, InSession
  <2>3. QED
    <3>1. ASSUME NEW q \in Process
          PROVE  /\ exclusive' = q <=> at'[q].pc \in InDown
                 /\ at'[q].pc \in Sharing <=> at[q].pc \in Sharing
                 /\ at'[q].pc \in InSession <=> at[q].pc \in InSession
                 /\ at'[q].session = at[q].session
      BY <1>2, <1>3, <2>1, <2>2, <2>a DEF SameTask
    <3>2. QED
      <4>1. ASSUME NEW q \in Process
            PROVE  /\ exclusive' = q <=> at'[q].pc \in InDown
                   /\ q \in shared' <=> at'[q].pc \in Sharing
        BY <1>1, <1>3, <3>1 DEF Locked
      <4>2. ASSUME NEW q \in Process, NEW s \in Session
            PROVE  sess'[s] = q <=> at'[q].pc \in InSession /\ at'[q].session = s
        <5>1. sess[s] = q <=> at[q].pc \in InSession /\ at[q].session = s
          BY <1>1 DEF Locked, OnSessionAlone
        <5>2. QED
          BY <1>3, <3>1, <5>1
      <4>3. QED
        BY <4>1, <4>2 DEF Locked, OnSessionAlone
<1>6. Named'
  <2>1. "down" \notin InSession \cup Waiting \cup WithMachine
    BY DEF InSession, Waiting, WithMachine
  <2>2. QED
    BY <1>1, <1>2, <1>3, <2>1, NamedKept DEF Basic, Named
<1>7. Holding(p)'
  <2>1. at'[p].pc \notin Relying /\ at'[p].vm <= created'
    BY <1>1, <1>2, <1>3 DEF Relying, SameTask, Rest, Holding
  <2>2. QED
    BY <2>1, PlainHolds
<1>8. \A v \in VM : work'[v] \subseteq seeded[v]
  BY <1>1, <1>3 DEF Rest, Machines
<1>9. Rest'
  BY <1>1, <1>2, <1>3, <1>7, <1>8, QuietRest DEF SameTask
<1>10. QED
  BY <1>4, <1>5, <1>6, <1>9, InvAgain DEF Basic

LEMMA ShareInstanceKeeps ==
  ASSUME IInv, NEW p \in Process, ShareInstance(p)
  PROVE  IInv'
<1>1. Basic /\ Rest /\ Types /\ Locked /\ created \in Nat /\ at[p].vm \in 0..MaxVMs
  BY Facts
<1>2. PICK x \in {"lock start", "lock retire"} : Goto(p, x)
  BY DEF ShareInstance
<1>3. Moved(p) /\ at'[p].pc = x /\ SameTask(p)
  BY <1>1, <1>2, GotoMoves DEF States
<1>4. /\ at[p].pc \in {"share start", "share retire"} /\ exclusive = "none"
      /\ shared' = shared \cup {p}
      /\ UNCHANGED <<rec, profile, vms, created, seeded, work, told, lost, exclusive, sess,
                     begun, gens, faults>>
  BY DEF ShareInstance, store, cloud
<1>5. Types'
  BY <1>1, <1>3, <1>4 DEF Types, Moved
<1>6. Locked'
  <2>1. /\ x \in Sharing /\ x \notin InSession /\ x \notin InDown
        /\ at[p].pc \notin InSession /\ at[p].pc \notin InDown
    BY <1>4 DEF InDown, Sharing, InSession
  <2>2. \A q \in Process \ {p} : at'[q] = at[q]
    BY <1>3 DEF Moved
  <2>3. ASSUME NEW q \in Process
        PROVE  /\ exclusive' = q <=> at'[q].pc \in InDown
               /\ q \in shared' <=> at'[q].pc \in Sharing
    BY <1>1, <1>3, <1>4, <2>1, <2>2 DEF Locked
  <2>4. ASSUME NEW q \in Process, NEW s \in Session
        PROVE  sess'[s] = q <=> at'[q].pc \in InSession /\ at'[q].session = s
    <3>1. sess[s] = q <=> at[q].pc \in InSession /\ at[q].session = s
      BY <1>1 DEF Locked, OnSessionAlone
    <3>2. QED
      BY <1>3, <1>4, <2>1, <2>2, <3>1
  <2>5. QED
    BY <2>3, <2>4 DEF Locked, OnSessionAlone
<1>7. Named'
  <2>1. x \notin WithMachine /\ at[p].session \in Session
    BY <1>1, <1>4 DEF Basic, Named, Waiting, WithMachine
  <2>2. at'[p].session \in Session
    BY <1>3, <2>1 DEF SameTask
  <2>3. QED
    BY <1>1, <1>3, <1>4, <2>1, <2>2, NamedKept, NoneAssumption DEF Basic, Named
<1>8. Holding(p)'
  <2>1. at'[p].pc \notin Relying /\ at'[p].vm <= created'
    BY <1>1, <1>3, <1>4 DEF Relying, SameTask, Rest, Holding
  <2>2. QED
    BY <2>1, PlainHolds
<1>9. \A v \in VM : work'[v] \subseteq seeded[v]
  BY <1>1, <1>4 DEF Rest, Machines
<1>10. Rest'
  BY <1>1, <1>3, <1>4, <1>8, <1>9, QuietRest DEF SameTask
<1>11. QED
  BY <1>5, <1>6, <1>7, <1>10, InvAgain DEF Basic

LEMMA LockSessionKeeps ==
  ASSUME IInv, NEW p \in Process, LockSession(p)
  PROVE  IInv'
<1>1. /\ Basic /\ Rest /\ Types /\ Locked /\ created \in Nat
      /\ at[p].vm \in 0..MaxVMs /\ at[p] \in ProcessState
  BY Facts
<1>2. PICK x \in {"start", "retire"} : Goto(p, x)
  BY DEF LockSession
<1>3. Moved(p) /\ at'[p].pc = x /\ SameTask(p)
  BY <1>1, <1>2, GotoMoves DEF States
<1>4. /\ at[p].pc \in {"lock start", "lock retire"} /\ sess[at[p].session] = "none"
      /\ sess' = [sess EXCEPT ![at[p].session] = p]
      /\ UNCHANGED <<rec, profile, vms, created, seeded, work, told, lost, shared, exclusive,
                     begun, gens, faults>>
  BY DEF LockSession, store, cloud
<1>a. at[p].session \in Session
  BY <1>1, <1>4 DEF Basic, Named, Waiting
<1>b. sess \in [Session -> Process \cup {"none"}] /\ sess' \in [Session -> Process \cup {"none"}]
  BY <1>1, <1>4 DEF Types
<1>5. Types'
  BY <1>1, <1>3, <1>4, <1>b DEF Types, Moved
<1>6. Locked'
  <2>1. /\ x \in Sharing /\ x \in InSession /\ x \notin InDown
        /\ at[p].pc \in Sharing /\ at[p].pc \notin InSession /\ at[p].pc \notin InDown
    BY <1>4 DEF InDown, Sharing, InSession
  <2>2. \A q \in Process \ {p} : at'[q] = at[q]
    BY <1>3 DEF Moved
  <2>3. ASSUME NEW q \in Process
        PROVE  /\ exclusive' = q <=> at'[q].pc \in InDown
               /\ q \in shared' <=> at'[q].pc \in Sharing
    <3>1. /\ exclusive = q <=> at[q].pc \in InDown
          /\ q \in shared <=> at[q].pc \in Sharing
      BY <1>1 DEF Locked
    <3>2. QED
      BY <1>3, <1>4, <2>1, <2>2, <3>1
  <2>4. ASSUME NEW q \in Process, NEW s \in Session
        PROVE  sess'[s] = q <=> at'[q].pc \in InSession /\ at'[q].session = s
    <3>1. sess[s] = q <=> at[q].pc \in InSession /\ at[q].session = s
      BY <1>1 DEF Locked, OnSessionAlone
    <3>2. sess'[s] = IF s = at[p].session THEN p ELSE sess[s]
      BY <1>4, <1>b
    <3>3. CASE q = p
      BY <1>3, <2>1, <3>1, <3>2, <3>3 DEF SameTask
    <3>4. CASE q # p
      <4>1. sess'[s] = q <=> sess[s] = q
        BY <1>4, <3>2, <3>4, NoneAssumption
      <4>2. QED
        BY <2>2, <3>1, <3>4, <4>1
    <3>5. QED
      BY <3>3, <3>4
  <2>5. QED
    BY <2>3, <2>4 DEF Locked, OnSessionAlone
<1>7. Named'
  <2>1. x \notin WithMachine /\ at'[p].session \in Session
    BY <1>3, <1>a DEF SameTask, WithMachine
  <2>2. QED
    BY <1>1, <1>3, <1>4, <2>1, NamedKept DEF Basic, Named
<1>8. Holding(p)'
  <2>1. at'[p].pc \notin Relying /\ at'[p].vm <= created'
    BY <1>1, <1>3, <1>4 DEF Relying, SameTask, Rest, Holding
  <2>2. QED
    BY <2>1, PlainHolds
<1>9. \A v \in VM : work'[v] \subseteq seeded[v]
  BY <1>1, <1>4 DEF Rest, Machines
<1>10. Rest'
  BY <1>1, <1>3, <1>4, <1>8, <1>9, QuietRest DEF SameTask
<1>11. QED
  BY <1>5, <1>6, <1>7, <1>10, InvAgain DEF Basic

-------------------------------------------------------------------------------
(* Steps inside a part of a command that leave the record and the repositories *)

LEMMA Within ==
  ASSUME IInv, NEW p \in Process, Moved(p),
         UNCHANGED <<rec, created, seeded, told, lost, locks, begun, gens>>,
         profile' \in 0..MaxVMs, faults' \in 0..MaxFaults, vms' \subseteq vms,
         work' \in [VM -> SUBSET Session], \A v \in VM : work'[v] \subseteq seeded[v],
         at'[p].session = at[p].session, at'[p].vm \in {at[p].vm, rec.vm}, at'[p].vm \in VM,
         at'[p].pc \in InDown <=> at[p].pc \in InDown,
         at'[p].pc \in Sharing <=> at[p].pc \in Sharing,
         at'[p].pc \in InSession <=> at[p].pc \in InSession,
         at'[p].pc \notin Waiting, at'[p].pc # "put", at[p].pc # "put",
         Holding(p)'
  PROVE  IInv'
<1>1. Basic /\ Rest /\ Types
  BY Facts
<1>2. Types'
  BY <1>1 DEF Types, Moved, locks
<1>3. rec'.vm = 0 => rec' = NoRecord
  BY <1>1 DEF Basic, Named
<1>4. Basic'
  BY <1>1, <1>2, <1>3, BasicWithin
<1>5. Rest'
  BY <1>1, QuietRest
<1>6. QED
  BY <1>4, <1>5, InvAgain

LEMMA DownReadsKeeps ==
  ASSUME IInv, NEW p \in Process, DownReads(p)
  PROVE  IInv'
<1>1. CASE End(p)
  <2>1. at[p].pc # "put" /\ UNCHANGED <<store, cloud, begun, gens, faults>>
    BY DEF DownReads, At
  <2>2. QED
    BY <1>1, <2>1, EndsQuietly
<1>2. CASE ~End(p)
  <2>1. /\ Basic /\ Rest /\ Types /\ at[p] \in ProcessState /\ created \in Nat
        /\ profile \in 0..MaxVMs /\ faults \in 0..MaxFaults
    BY Facts
  <2>2. PICK x \in {"destroy", "rescue"} :
          /\ x = IF at[p].force THEN "destroy" ELSE "rescue"
          /\ at' = [at EXCEPT ![p] = [at[p] EXCEPT !.pc = x, !.vm = rec.vm, !.left = Sessions]]
    BY <1>2, <2>1 DEF DownReads, Types
  <2>3. /\ at[p].pc = "down" /\ Tracked /\ UNCHANGED locks
        /\ UNCHANGED <<rec, profile, vms, created, seeded, work, told, lost, begun, gens, faults>>
    BY <1>2 DEF DownReads, At, store, cloud
  <2>4. rec.vm \in 0..MaxVMs /\ rec.vm # 0
    BY <2>1, <2>3 DEF Types, Tracked, Basic, Named
  <2>5. [at[p] EXCEPT !.pc = x, !.vm = rec.vm, !.left = Sessions] \in ProcessState
    BY <2>1, <2>4 DEF ProcessState, States, Sessions
  <2>6. Moved(p) /\ at'[p] = [at[p] EXCEPT !.pc = x, !.vm = rec.vm, !.left = Sessions]
    BY <2>1, <2>2, <2>5, StateMoves
  <2>7. /\ at'[p].pc = x /\ at'[p].vm = rec.vm /\ at'[p].left = Sessions
        /\ at'[p].force = at[p].force /\ at'[p].session = at[p].session
    BY <2>1, <2>6 DEF ProcessState
  <2>8. rec.vm \in VM
    BY <2>4, InstanceBoundsAssumption DEF VM
  <2>9. Holding(p)'
    <3>1. seeded'[rec.vm] \subseteq Sessions /\ rec.vm <= created'
      BY <2>1, <2>3, <2>4 DEF Rest, Machines
    <3>2. x = "destroy" => at'[p].force
      BY <2>2, <2>7
    <3>3. QED
      BY <2>7, <3>1, <3>2 DEF Holding
  <2>10. \A v \in VM : work'[v] \subseteq seeded[v]
    BY <2>1, <2>3 DEF Rest, Machines
  <2>11. /\ x \in InDown /\ x \notin Sharing /\ x \notin InSession /\ x \notin Waiting
         /\ at[p].pc \in InDown /\ at[p].pc \notin Sharing /\ at[p].pc \notin InSession
    BY <2>3 DEF InDown, Sharing, InSession, Waiting
  <2>12. work' \in [VM -> SUBSET Session]
    BY <2>1, <2>3 DEF Types
  <2>13. QED
    BY <2>1, <2>3, <2>6, <2>7, <2>8, <2>9, <2>10, <2>11, <2>12, Within
<1>3. QED
  BY <1>1, <1>2

LEMMA DownPlaces ==
  ASSUME NEW x \in {"down", "rescue", "destroy", "remove profile", "delete"}
  PROVE  /\ x \in InDown /\ x \in States
         /\ x \notin Sharing /\ x \notin InSession /\ x \notin Waiting
  BY DEF InDown, Sharing, InSession, Waiting, States

LEMMA DownRescuesKeeps ==
  ASSUME IInv, NEW p \in Process, NEW s \in Session, DownRescues(p, s)
  PROVE  IInv'
<1>1. /\ Basic /\ Rest /\ Types /\ at[p] \in ProcessState /\ created \in Nat
      /\ profile \in 0..MaxVMs /\ faults \in 0..MaxFaults
  BY Facts
<1>2. /\ at[p].pc = "rescue" /\ s \in at[p].left
      /\ work' = [work EXCEPT ![at[p].vm] = @ \ {s}]
      /\ UNCHANGED <<rec, profile, vms, created, seeded, told, lost, locks, begun, gens, faults>>
  BY DEF DownRescues, At, store
<1>3. at' = [at EXCEPT ![p] = [at[p] EXCEPT !.left = at[p].left \ {s},
                                            !.rescued = at[p].rescued \cup {s}]]
  BY <1>1 DEF DownRescues, Types
<1>4. [at[p] EXCEPT !.left = at[p].left \ {s}, !.rescued = at[p].rescued \cup {s}] \in ProcessState
  BY <1>1 DEF ProcessState
<1>5. /\ Moved(p)
      /\ at'[p] = [at[p] EXCEPT !.left = at[p].left \ {s}, !.rescued = at[p].rescued \cup {s}]
  BY <1>1, <1>3, <1>4, StateMoves
<1>6. /\ at'[p].pc = "rescue" /\ at'[p].vm = at[p].vm /\ at'[p].session = at[p].session
      /\ at'[p].left = at[p].left \ {s} /\ at'[p].rescued = at[p].rescued \cup {s}
      /\ at'[p].failed = at[p].failed
  BY <1>1, <1>2, <1>5 DEF ProcessState
<1>7. at'[p].vm \in VM
  BY <1>2, <1>6, Facts DEF WithMachine
<1>8. Holding(p)'
  <2>1. at[p].vm <= created /\ (~at[p].failed => seeded[at[p].vm] \subseteq at[p].left \cup at[p].rescued)
    BY <1>1, <1>2 DEF Rest, Holding
  <2>2. at'[p].vm <= created' /\ (~at'[p].failed => seeded'[at'[p].vm] \subseteq at'[p].left \cup at'[p].rescued)
    BY <1>2, <1>6, <2>1
  <2>3. QED
    BY <1>6, <2>2 DEF Holding
<1>9. work' \in [VM -> SUBSET Session] /\ \A v \in VM : work'[v] \subseteq seeded[v]
  BY <1>1, <1>2 DEF Types, Rest, Machines
<1>10. QED
  BY <1>1, <1>2, <1>5, <1>6, <1>7, <1>8, <1>9, DownPlaces, Within

LEMMA DownCannotRescueKeeps ==
  ASSUME IInv, NEW p \in Process, NEW s \in Session, DownCannotRescue(p, s)
  PROVE  IInv'
<1>1. /\ Basic /\ Rest /\ Types /\ at[p] \in ProcessState /\ created \in Nat
      /\ profile \in 0..MaxVMs /\ faults \in 0..MaxFaults
  BY Facts
<1>2. /\ at[p].pc = "rescue"
      /\ UNCHANGED <<rec, profile, vms, created, seeded, work, told, lost, locks, begun, gens>>
  BY DEF DownCannotRescue, At, store, cloud
<1>3. faults' \in 0..MaxFaults
  BY <1>1, FaultCounts DEF DownCannotRescue
<1>4. at' = [at EXCEPT ![p] = [at[p] EXCEPT !.left = at[p].left \ {s}, !.failed = TRUE]]
  BY <1>1 DEF DownCannotRescue, Types
<1>5. [at[p] EXCEPT !.left = at[p].left \ {s}, !.failed = TRUE] \in ProcessState
  BY <1>1 DEF ProcessState
<1>6. Moved(p) /\ at'[p] = [at[p] EXCEPT !.left = at[p].left \ {s}, !.failed = TRUE]
  BY <1>1, <1>4, <1>5, StateMoves
<1>7. /\ at'[p].pc = "rescue" /\ at'[p].vm = at[p].vm /\ at'[p].session = at[p].session
      /\ at'[p].failed
  BY <1>1, <1>2, <1>6 DEF ProcessState
<1>8. at'[p].vm \in VM
  BY <1>2, <1>7, Facts DEF WithMachine
<1>9. Holding(p)'
  <2>1. at'[p].vm <= created'
    BY <1>1, <1>2, <1>7 DEF Rest, Holding
  <2>2. QED
    BY <1>7, <2>1 DEF Holding
<1>10. work' \in [VM -> SUBSET Session] /\ \A v \in VM : work'[v] \subseteq seeded[v]
  BY <1>1, <1>2 DEF Types, Rest, Machines
<1>11. QED
  BY <1>1, <1>2, <1>3, <1>6, <1>7, <1>8, <1>9, <1>10, DownPlaces, Within

\* A step to the next place of down that leaves what it has read.
LEMMA DownGoes ==
  ASSUME IInv, NEW p \in Process, NEW x \in {"destroy", "remove profile", "delete"},
         at[p].pc \in {"rescue", "destroy", "remove profile"}, Goto(p, x),
         UNCHANGED <<rec, created, seeded, work, told, lost, locks, begun, gens>>,
         profile' \in 0..MaxVMs, faults' \in 0..MaxFaults, vms' \subseteq vms,
         x = "destroy" /\ ~at[p].force => seeded[at[p].vm] \subseteq at[p].rescued,
         x # "destroy" => at[p].vm \notin vms'
  PROVE  IInv'
<1>1. Basic /\ Rest /\ Types /\ at[p].vm \in VM
  BY Facts DEF WithMachine
<1>2. Moved(p) /\ at'[p].pc = x /\ SameTask(p)
  BY <1>1, GotoMoves, DownPlaces
<1>3. Holding(p)'
  <2>1. at[p].vm <= created
    BY <1>1 DEF Rest, Holding
  <2>2. QED
    BY <1>2, <2>1 DEF Holding, SameTask
<1>4. work' \in [VM -> SUBSET Session] /\ \A v \in VM : work'[v] \subseteq seeded[v]
  BY <1>1 DEF Types, Rest, Machines
<1>5. QED
  BY <1>1, <1>2, <1>3, <1>4, DownPlaces, Within DEF SameTask

LEMMA DownDoneKeeps ==
  ASSUME IInv, NEW p \in Process, DownDone(p)
  PROVE  IInv'
<1>1. at[p].pc = "rescue" /\ at[p].left = {} /\ UNCHANGED <<store, cloud, begun, gens, faults>>
  BY DEF DownDone, At
<1>2. CASE MayDestroy(p)
  <2>1. Goto(p, "destroy") /\ UNCHANGED locks
    BY <1>2 DEF DownDone
  <2>2. seeded[at[p].vm] \subseteq at[p].rescued
    BY <1>1, <1>2, Facts DEF MayDestroy, Rest, Holding
  <2>3. QED
    BY <1>1, <2>1, <2>2, Facts, DownGoes DEF store, cloud
<1>3. CASE ~MayDestroy(p)
  BY <1>1, <1>3, EndsQuietly DEF DownDone
<1>4. QED
  BY <1>2, <1>3

LEMMA DownDestroysKeeps ==
  ASSUME IInv, NEW p \in Process, DownDestroys(p)
  PROVE  IInv'
<1>1. /\ at[p].pc = "destroy" /\ vms' = vms \ {at[p].vm} /\ Goto(p, "remove profile")
      /\ UNCHANGED <<rec, profile, created, seeded, work, told, lost, locks, begun, gens, faults>>
  BY DEF DownDestroys, At, store
<1>2. QED
  BY <1>1, Facts, DownGoes

LEMMA DownRemovesProfileKeeps ==
  ASSUME IInv, NEW p \in Process, DownRemovesProfile(p)
  PROVE  IInv'
<1>1. /\ at[p].pc = "remove profile" /\ Goto(p, "delete")
      /\ UNCHANGED <<rec, vms, created, seeded, work, told, lost, locks, begun, gens>>
  BY DEF DownRemovesProfile, At, cloud
<1>2. profile' \in 0..MaxVMs /\ faults' \in 0..MaxFaults
  <2>1. CASE profile' = 0 /\ UNCHANGED faults
    BY <2>1, Facts, InstanceBoundsAssumption
  <2>2. CASE Fault /\ UNCHANGED profile
    BY <2>2, Facts, FaultCounts
  <2>3. QED
    BY <2>1, <2>2 DEF DownRemovesProfile
<1>3. at[p].vm \notin vms
  BY <1>1, Facts DEF Rest, Holding
<1>4. QED
  BY <1>1, <1>2, <1>3, DownGoes

LEMMA RetireChecksKeeps ==
  ASSUME IInv, NEW p \in Process, RetireChecks(p)
  PROVE  IInv'
<1>1. Basic /\ Rest /\ Types /\ profile \in 0..MaxVMs /\ faults \in 0..MaxFaults
  BY Facts
<1>2. /\ at[p].pc = "check" /\ Goto(p, "remove")
      /\ work' = [work EXCEPT ![at[p].vm] = @ \ {at[p].session}]
      /\ UNCHANGED <<rec, profile, vms, created, seeded, told, lost, locks, begun, gens, faults>>
  BY DEF RetireChecks, At, store
<1>3. Moved(p) /\ at'[p].pc = "remove" /\ SameTask(p) /\ at[p].vm \in VM
  BY <1>1, <1>2, GotoMoves, Facts DEF States, WithMachine
<1>4. Holding(p)'
  BY <1>1, <1>2, <1>3 DEF Rest, Holding, SameTask, Active
<1>5. work' \in [VM -> SUBSET Session] /\ \A v \in VM : work'[v] \subseteq seeded[v]
  BY <1>1, <1>2 DEF Types, Rest, Machines
<1>6. \A x \in {"check", "remove"} : /\ x \notin InDown /\ x \in Sharing /\ x \in InSession
                                   /\ x \notin Waiting
  BY DEF InDown, Sharing, InSession, Waiting
<1>7. QED
  BY <1>1, <1>2, <1>3, <1>4, <1>5, <1>6, Within DEF SameTask

LEMMA AgentWorksKeeps ==
  ASSUME IInv, NEW v \in VM, NEW s \in Session, AgentWorks(v, s)
  PROVE  IInv'
<1>1. /\ s \in seeded[v] /\ work' = [work EXCEPT ![v] = @ \cup {s}]
      /\ UNCHANGED <<rec, profile, vms, created, seeded, told, lost, shared, exclusive, sess,
                     at, begun, gens, faults>>
  BY DEF AgentWorks, store, locks
<1>2. Basic /\ Rest
  BY InvParts
<1>3. /\ work' \in [VM -> SUBSET Session]
      /\ \A x \in VM : work'[x] = IF x = v THEN work[x] \cup {s} ELSE work[x]
  BY <1>1, <1>2 DEF Basic, Types
<1>4. Types' /\ Locked' /\ Named'
  BY <1>1, <1>2, <1>3 DEF Basic, Types, Locked, Named, OnSessionAlone
<1>5. Machines'
  BY <1>1, <1>2, <1>3 DEF Rest, Machines, Sessions, Active
<1>6. PutAlone' /\ MachineTracked'
  BY <1>1, <1>2 DEF Rest, PutAlone, MachineTracked, At
<1>7. \A p \in Process : Holding(p)'
  BY <1>1, <1>2 DEF Rest, Holding, Active
<1>8. QED
  BY <1>4, <1>5, <1>6, <1>7, InvAgain DEF Basic, Rest

LEMMA StuttersKeep ==
  ASSUME IInv, UNCHANGED vars
  PROVE  IInv'
<1>1. UNCHANGED <<rec, profile, vms, created, seeded, work, told, lost, shared, exclusive, sess,
                  at, begun, gens, faults>>
  BY DEF vars, store, cloud, locks
<1>2. Basic /\ Rest
  BY InvParts
<1>3. Types' /\ Locked' /\ Named'
  BY <1>1, <1>2 DEF Basic, Types, Locked, Named, OnSessionAlone
<1>4. Machines'
  BY <1>1, <1>2 DEF Rest, Machines, Sessions, Active
<1>5. PutAlone' /\ MachineTracked'
  BY <1>1, <1>2 DEF Rest, PutAlone, MachineTracked, At
<1>6. \A p \in Process : Holding(p)'
  BY <1>1, <1>2 DEF Rest, Holding, Active
<1>7. QED
  BY <1>3, <1>4, <1>5, <1>6, InvAgain DEF Basic, Rest

-------------------------------------------------------------------------------
(* up: machines made and recorded *)

\* A machine more: it has nothing on it and no command knows it.
LEMMA Creation ==
  ASSUME IInv, created < MaxVMs, created' = created + 1
  PROVE  /\ created' \in VM /\ created' \in 0..MaxVMs /\ seeded[created'] = {}
         /\ rec.vm < created' /\ \A q \in Process : at[q].vm < created'
         /\ \A v \in VM : v > created' => v > created
         /\ created' \notin vms
<1>1. /\ created \in 0..MaxVMs /\ rec.vm \in 0..MaxVMs /\ \A q \in Process : at[q].vm \in 0..MaxVMs
      /\ rec.vm <= created /\ \A q \in Process : at[q].vm <= created
  BY DEF IInv, TypeOK, Machines, Holding
<1>2. created' \in VM /\ created' > created
  BY <1>1, InstanceBoundsAssumption DEF VM
<1>3. seeded[created'] = {} /\ created' \notin vms
  BY <1>2 DEF IInv, Machines
<1>4. QED
  BY <1>1, <1>2, <1>3, InstanceBoundsAssumption DEF VM

\* What the other commands rely on, when there is a machine more.
LEMMA OthersSeeCreation ==
  ASSUME IInv, NEW p \in Process, Moved(p), created < MaxVMs, created' = created + 1,
         vms' = vms \cup {created'}, UNCHANGED <<rec, seeded>>
  PROVE  \A q \in Process \ {p} : Holding(q)'
<1>1. SUFFICES ASSUME NEW q \in Process \ {p}
               PROVE  Holding(q)'
  OBVIOUS
<1>2. at[q].vm <= created' /\ at[q].vm # created'
  <2>1. at[q].vm \in 0..MaxVMs /\ at[q].vm < created' /\ created' \in 0..MaxVMs
    BY Creation, Facts
  <2>2. QED
    BY <2>1, InstanceBoundsAssumption
<1>3. Holding(q) /\ at'[q] = at[q]
  BY DEF IInv, Moved
<1>4. QED
  BY <1>2, <1>3 DEF Holding, Active

LEMMA MachinesGrow ==
  ASSUME IInv, created < MaxVMs, created' = created + 1,
         vms' = vms \cup {created'}, UNCHANGED <<rec, seeded, work>>
  PROVE  Machines'
<1>1. rec.vm <= created'
  <2>1. rec.vm \in 0..MaxVMs /\ rec.vm < created' /\ created' \in 0..MaxVMs
    BY Creation DEF IInv, TypeOK
  <2>2. QED
    BY <2>1, InstanceBoundsAssumption
<1>2. ASSUME NEW v \in VM, v > created'
      PROVE  v \notin vms' /\ seeded'[v] = {}
  <2>1. v > created /\ v # created'
    BY <1>2, Creation, InstanceBoundsAssumption DEF VM
  <2>2. QED
    BY <2>1 DEF IInv, Machines
<1>3. QED
  BY <1>1, <1>2 DEF IInv, Machines, Sessions, Active

LEMMA UpCreatesKeeps ==
  ASSUME IInv, NEW p \in Process, UpCreates(p)
  PROVE  IInv'
<1>1. Basic /\ Rest /\ Types /\ at[p] \in ProcessState
  BY Facts
<1>2. /\ at[p].pc = "create" /\ created < MaxVMs /\ created' = created + 1
      /\ vms' = vms \cup {created'}
      /\ UNCHANGED <<rec, profile, seeded, work, told, lost, locks, begun, gens, faults>>
  BY DEF UpCreates, At, store
<1>3. /\ created' \in VM /\ created' \in 0..MaxVMs /\ seeded[created'] = {}
      /\ rec.vm < created' /\ \A q \in Process : at[q].vm < created'
  BY <1>2, Creation
<1>4. at' = [at EXCEPT ![p] = [at[p] EXCEPT !.pc = "put", !.vm = created']]
  BY <1>1 DEF UpCreates, Types
<1>5. [at[p] EXCEPT !.pc = "put", !.vm = created'] \in ProcessState
  BY <1>1, <1>3 DEF ProcessState, States
<1>6. Moved(p) /\ at'[p] = [at[p] EXCEPT !.pc = "put", !.vm = created']
  BY <1>1, <1>4, <1>5, StateMoves
<1>7. at'[p].pc = "put" /\ at'[p].vm = created' /\ at'[p].session = at[p].session
  BY <1>1, <1>6 DEF ProcessState
<1>8. Types'
  BY <1>1, <1>2, <1>3, <1>6 DEF Types, Moved, locks
<1>9. Basic'
  <2>1. \A x \in {"put", "create"} : x \notin InDown /\ x \notin Sharing /\ x \notin InSession
                                    /\ x \notin Waiting
    BY DEF InDown, Sharing, InSession, Waiting
  <2>2. rec'.vm = 0 => rec' = NoRecord
    BY <1>1, <1>2 DEF Basic, Named
  <2>3. QED
    BY <1>1, <1>2, <1>3, <1>6, <1>7, <1>8, <2>1, <2>2, BasicWithin
<1>10. \A q \in Process : rec.vm # created' /\ at[q].vm # created'
  BY <1>1, <1>3, InstanceBoundsAssumption DEF Types, ProcessState
<1>11. PutAlone'
  <2>1. \A q \in Process \ {p} : at'[q] = at[q] /\ at'[q].vm # at'[p].vm
    BY <1>6, <1>7, <1>10 DEF Moved
  <2>2. \A q \in Process : at[q].pc = "put" => \A r \in Process \ {q} : at[r].vm # at[q].vm
    BY <1>1 DEF Rest, PutAlone
  <2>3. QED
    BY <2>1, <2>2 DEF PutAlone
<1>12. Holding(p)'
  <2>1. at'[p].vm <= created'
    BY <1>3, <1>7, InstanceBoundsAssumption
  <2>2. QED
    BY <1>2, <1>3, <1>7, <1>10, <2>1 DEF Holding
<1>13. \A q \in Process : Holding(q)'
  BY <1>2, <1>6, <1>12, OthersSeeCreation
<1>14. MachineTracked'
  <2>1. \A q \in Process \ {p} : at'[q] = at[q]
    BY <1>6 DEF Moved
  <2>2. QED
    BY <1>1, <1>2, <1>7, <2>1 DEF Rest, MachineTracked, At
<1>15. Machines'
  BY <1>2, MachinesGrow
<1>16. QED
  BY <1>9, <1>11, <1>13, <1>14, <1>15, InvAgain DEF Rest

LEMMA UpCreateFailsKeeps ==
  ASSUME IInv, NEW p \in Process, UpCreateFails(p)
  PROVE  IInv'
<1>1. Basic /\ Rest /\ Types
  BY Facts
<1>2. /\ at[p].pc = "create" /\ End(p) /\ UNCHANGED <<rec, profile, begun, gens>>
      /\ faults' \in 0..MaxFaults
  BY FaultCounts DEF UpCreateFails, At, store
<1>3. CASE UNCHANGED cloud
  BY <1>2, <1>3, Facts, Ended DEF cloud
<1>4. CASE ~UNCHANGED cloud
  <2>1. /\ created < MaxVMs /\ created' = created + 1 /\ vms' = vms \cup {created'}
        /\ lost' = lost \cup {created'} /\ UNCHANGED <<seeded, work, told>>
    BY <1>4 DEF UpCreateFails
  <2>2. created' \in VM /\ created' \in 0..MaxVMs
    BY <2>1, Creation
  <2>3. Moved(p) /\ at'[p].pc = "idle" /\ at'[p].vm = 0
    BY <1>1, <1>2, EndMoves
  <2>4. Types'
    BY <1>1, <1>2, <2>1, <2>2, <2>3, EndMoves DEF Types, Moved
  <2>5. Basic'
    BY <1>1, <1>2, <2>4, BasicEnded DEF Basic, Named
  <2>6. Holding(p)'
    <3>1. at'[p].vm <= created' /\ at'[p].pc \notin Relying
      BY <2>2, <2>3, InstanceBoundsAssumption DEF Relying
    <3>2. QED
      BY <3>1, PlainHolds
  <2>7. \A q \in Process : Holding(q)'
    BY <1>2, <2>1, <2>3, <2>6, OthersSeeCreation
  <2>8. PutAlone'
    <3>1. \A q \in Process : at[q].pc = "put" => at[q].vm \in VM
      BY Facts DEF WithMachine
    <3>2. 0 \notin VM
      BY InstanceBoundsAssumption DEF VM
    <3>3. QED
      BY <1>1, <2>3, <3>1, <3>2 DEF Rest, PutAlone, Moved
  <2>9. MachineTracked'
    BY <1>1, <1>2, <2>1, <2>3 DEF Rest, MachineTracked, Moved, At
  <2>10. Machines'
    BY <1>2, <2>1, MachinesGrow
  <2>11. QED
    BY <2>5, <2>7, <2>8, <2>9, <2>10, InvAgain DEF Rest
<1>5. QED
  BY <1>3, <1>4

LEMMA UpPutsKeeps ==
  ASSUME IInv, NEW p \in Process, UpPuts(p)
  PROVE  IInv'
<1>1. Basic /\ Rest /\ Types /\ at[p] \in ProcessState /\ created \in Nat
  BY Facts
<1>2. /\ at[p].pc = "put" /\ rec' = [NoRecord EXCEPT !.vm = at[p].vm]
      /\ lost' = lost \cup Unrecorded(at[p].vm) /\ Goto(p, "profile")
      /\ UNCHANGED <<profile, vms, created, seeded, work, told, locks, begun, gens, faults>>
  BY DEF UpPuts, At
<1>a. Moved(p) /\ at'[p].pc = "profile" /\ SameTask(p)
  BY <1>1, <1>2, GotoMoves DEF States
<1>b. at[p].vm \in VM
  BY <1>2, Facts DEF WithMachine
<1>c. 0 \notin VM /\ VM \subseteq 0..MaxVMs
  BY InstanceBoundsAssumption DEF VM
<1>3. Moved(p) /\ at'[p].pc = "profile" /\ SameTask(p) /\ at[p].vm \in VM /\ at[p].vm # 0
  BY <1>a, <1>b, <1>c
<1>4. rec'.vm = at[p].vm /\ rec'.sessions = [s \in Session |-> NoSession]
  BY <1>2 DEF NoRecord
<1>5. rec' \in [vm : 0..MaxVMs, sessions : [Session -> [gen : 0..MaxStarts, retiring : BOOLEAN]]]
  <2>1. rec' = [vm |-> at[p].vm, sessions |-> [s \in Session |-> NoSession]]
    BY <1>2 DEF NoRecord
  <2>2. NoSession \in [gen : 0..MaxStarts, retiring : BOOLEAN]
    BY InstanceBoundsAssumption DEF NoSession
  <2>3. QED
    BY <1>3, <1>c, <2>1, <2>2
<1>6. Unrecorded(at[p].vm) \subseteq VM
  <2>1. Tracked => rec.vm \in VM
    BY <1>1, InstanceBoundsAssumption DEF Tracked, Basic, Named, Types, VM
  <2>2. QED
    BY <2>1 DEF Unrecorded
<1>7. Types'
  BY <1>1, <1>2, <1>3, <1>5, <1>6 DEF Types, Moved, locks
<1>8. Basic'
  <2>1. /\ "put" \notin InDown /\ "put" \notin Sharing /\ "put" \notin InSession
        /\ "profile" \notin InDown /\ "profile" \notin Sharing /\ "profile" \notin InSession
        /\ "profile" \notin Waiting
    BY DEF InDown, Sharing, InSession, Waiting, WithMachine
  <2>2. QED
    BY <1>1, <1>2, <1>3, <1>4, <1>7, <2>1, BasicWithin DEF SameTask
<1>9. seeded[at[p].vm] = {} /\ at[p].vm <= created
  BY <1>1, <1>2 DEF Rest, Holding
<1>10. Machines'
  BY <1>1, <1>2, <1>4, <1>9 DEF Rest, Machines
<1>11. \A q \in Process \ {p} : at'[q] = at[q] /\ at[q].vm # at[p].vm
  BY <1>1, <1>2, <1>3 DEF Rest, PutAlone, Moved
<1>12. PutAlone'
  BY <1>1, <1>3, <1>11 DEF Rest, PutAlone, SameTask
<1>13. \A s \in Session : ~Active(s)'
  BY <1>4 DEF Active, NoSession
<1>14. ASSUME NEW q \in Process \ {p}
       PROVE  Holding(q)'
  <2>1. Holding(q) /\ at'[q] = at[q] /\ at[q].vm # at[p].vm
    BY <1>1, <1>11 DEF Rest
  <2>2. at[q].pc \in {"check", "remove"} => at[q].session \in Session
    BY <1>1 DEF Basic, Named, InSession
  <2>3. QED
    BY <1>2, <1>4, <1>9, <1>13, <2>1, <2>2 DEF Holding
<1>15. Holding(p)'
  <2>1. at'[p].pc \notin Relying /\ at'[p].vm <= created'
    BY <1>2, <1>3, <1>9 DEF Relying, SameTask
  <2>2. QED
    BY <2>1, PlainHolds
<1>16. MachineTracked'
  <2>1. SUFFICES ASSUME NEW v \in vms' \ (told' \cup lost')
                 PROVE  rec'.vm = v \/ \E q \in Process : at'[q].pc = "put" /\ at'[q].vm = v
    BY DEF MachineTracked, At
  <2>2. v \in vms \ (told \cup lost) /\ v \notin Unrecorded(at[p].vm)
    BY <1>2
  <2>3. rec.vm = v \/ \E q \in Process : at[q].pc = "put" /\ at[q].vm = v
    BY <1>1, <2>2 DEF Rest, MachineTracked, At
  <2>4. CASE rec.vm = v
    <3>1. v # 0
      BY <1>1, <2>2, InstanceBoundsAssumption DEF Types, VM
    <3>2. Tracked
      BY <2>4, <3>1 DEF Tracked, NoRecord
    <3>3. QED
      BY <1>4, <2>2, <2>4, <3>2 DEF Unrecorded
  <2>5. CASE \E q \in Process : at[q].pc = "put" /\ at[q].vm = v
    BY <1>4, <1>11, <2>5
  <2>6. QED
    BY <2>3, <2>4, <2>5
<1>17. QED
  BY <1>8, <1>10, <1>12, <1>14, <1>15, <1>16, InvAgain DEF Rest

-------------------------------------------------------------------------------
(* The record is deleted, and sessions come and go on it *)

LEMMA DownDeletesKeeps ==
  ASSUME IInv, NEW p \in Process, DownDeletes(p)
  PROVE  IInv'
<1>1. Basic /\ Rest /\ Types /\ created \in Nat
  BY Facts
<1>2. /\ at[p].pc = "delete" /\ rec' = NoRecord /\ End(p)
      /\ lost' = lost \cup Unrecorded(at[p].vm)
      /\ UNCHANGED <<profile, vms, created, seeded, work, told, begun, gens, faults>>
  BY DEF DownDeletes, At
<1>3. Moved(p) /\ at'[p].pc = "idle" /\ at'[p].vm = 0
  BY <1>1, <1>2, EndMoves
<1>4. rec'.vm = 0 /\ \A s \in Session : ~Active(s)'
  BY <1>2 DEF NoRecord, NoSession, Active
<1>5. 0 \notin VM /\ VM \subseteq 0..MaxVMs
  BY InstanceBoundsAssumption DEF VM
<1>6. rec' \in [vm : 0..MaxVMs, sessions : [Session -> [gen : 0..MaxStarts, retiring : BOOLEAN]]]
  <2>1. NoSession \in [gen : 0..MaxStarts, retiring : BOOLEAN] /\ 0 \in 0..MaxVMs
    BY InstanceBoundsAssumption DEF NoSession
  <2>2. QED
    BY <1>2, <2>1 DEF NoRecord
<1>7. Tracked => rec.vm \in VM
  BY <1>1, InstanceBoundsAssumption DEF Tracked, Basic, Named, Types, VM
<1>8. Types'
  <2>1. lost' \subseteq VM
    BY <1>1, <1>2, <1>7 DEF Types, Unrecorded
  <2>2. QED
    BY <1>1, <1>2, <1>3, <1>6, <2>1, EndMoves DEF Types, Moved
<1>9. Basic'
  BY <1>1, <1>2, <1>8, BasicEnded
<1>10. Machines'
  BY <1>1, <1>2, <1>4 DEF Rest, Machines
<1>11. PutAlone'
  <2>1. \A q \in Process : at[q].pc = "put" => at[q].vm # 0
    BY <1>5, Facts DEF WithMachine
  <2>2. QED
    BY <1>1, <1>3, <2>1 DEF Rest, PutAlone, Moved
<1>12. ASSUME NEW q \in Process \ {p}
       PROVE  Holding(q)'
  <2>1. Holding(q) /\ at'[q] = at[q] /\ (at[q].pc \in {"put", "seed"} => at[q].vm # 0)
    BY <1>1, <1>3, <1>5, Facts DEF Rest, Moved, WithMachine
  <2>2. at[q].pc \in {"check", "remove"} => at[q].session \in Session
    BY <1>1 DEF Basic, Named, InSession
  <2>3. QED
    <3>1. at[q].pc \in {"check", "remove"} => rec'.sessions[at'[q].session].gen = 0
      BY <1>2, <2>1, <2>2 DEF NoRecord, NoSession
    <3>2. QED
      BY <1>2, <1>4, <2>1, <3>1 DEF Holding, Active
<1>13. Holding(p)'
  <2>1. at'[p].pc \notin Relying
    BY <1>3 DEF Relying
  <2>2. at'[p].vm <= created'
    <3>1. 0 <= created'
      BY <1>1, <1>2
    <3>2. QED
      BY <1>3, <3>1
  <2>3. QED
    BY <2>1, <2>2, PlainHolds
<1>14. MachineTracked'
  <2>1. SUFFICES ASSUME NEW v \in vms' \ (told' \cup lost')
                 PROVE  \E q \in Process : at'[q].pc = "put" /\ at'[q].vm = v
    BY DEF MachineTracked, At
  <2>2. v \in vms \ (told \cup lost) /\ v \notin Unrecorded(at[p].vm)
    BY <1>2
  <2>3. rec.vm = v \/ \E q \in Process : at[q].pc = "put" /\ at[q].vm = v
    BY <1>1, <2>2 DEF Rest, MachineTracked, At
  <2>4. CASE rec.vm = v
    <3>1. v # 0 /\ at[p].vm # v
      BY <1>1, <1>2, <1>5, <2>2 DEF Types, Rest, Holding
    <3>2. Tracked
      BY <2>4, <3>1 DEF Tracked, NoRecord
    <3>3. QED
      BY <2>2, <2>4, <3>1, <3>2 DEF Unrecorded
  <2>5. CASE \E q \in Process : at[q].pc = "put" /\ at[q].vm = v
    BY <1>2, <1>3, <2>5 DEF Moved
  <2>6. QED
    BY <2>3, <2>4, <2>5
<1>15. QED
  BY <1>9, <1>10, <1>11, <1>12, <1>13, <1>14, InvAgain DEF Rest

\* Two commands are never on the same session, and none is on one during down.
LEMMA AloneOnSession ==
  ASSUME IInv, NEW p \in Process, at[p].pc \in InSession, NEW q \in Process \ {p}
  PROVE  /\ at[p].session \in Session
         /\ at[q].pc \in InSession => at[q].session \in Session /\ at[q].session # at[p].session
         /\ at[q].pc \notin InDown
<1>1. Basic /\ Locked
  BY Facts
<1>2. at[p].session \in Session /\ (at[q].pc \in InSession => at[q].session \in Session)
  BY <1>1 DEF Basic, Named
<1>3. sess[at[p].session] = p
  BY <1>1, <1>2 DEF Locked, OnSessionAlone
<1>4. at[q].pc \in InSession => sess[at[q].session] = q
  BY <1>1, <1>2 DEF Locked, OnSessionAlone
<1>5. p \in shared
  BY <1>1 DEF Locked, Sharing
<1>6. exclusive = "none"
  BY <1>1, <1>5 DEF Basic, Named
<1>7. at[q].pc \notin InDown
  BY <1>1, <1>6, NoneAssumption DEF Locked
<1>8. QED
  BY <1>2, <1>3, <1>4, <1>7

SessionRecord == [gen : 0..MaxStarts, retiring : BOOLEAN]
Record == [vm : 0..MaxVMs, sessions : [Session -> SessionRecord]]

\* One session changed on the record.
LEMMA SessionChanges ==
  ASSUME Types, NEW s \in Session, NEW to \in SessionRecord,
         rec' = [rec EXCEPT !.sessions[s] = to]
  PROVE  /\ rec' \in Record /\ rec'.vm = rec.vm
         /\ rec'.sessions[s] = to
         /\ \A x \in Session \ {s} : rec'.sessions[x] = rec.sessions[x]
<1>1. rec \in Record
  BY DEF Types, Record, SessionRecord
<1>2. [rec.sessions EXCEPT ![s] = to] \in [Session -> SessionRecord]
  BY <1>1 DEF Record
<1>3. rec' = [rec EXCEPT !.sessions = [rec.sessions EXCEPT ![s] = to]]
  OBVIOUS
<1>4. QED
  BY <1>1, <1>2, <1>3 DEF Record

LEMMA SessionPlaces ==
  ASSUME NEW x \in {"start", "seed", "track", "retire", "check", "remove", "complete"}
  PROVE  /\ x \in InSession /\ x \in Sharing /\ x \in States
         /\ x \notin InDown /\ x \notin Waiting /\ x # "put"
  BY DEF InDown, Sharing, InSession, Waiting, States

\* The record changes in the session of the command that is on it, and the
\* command goes on to another step of its part, about the recorded machine.
LEMMA OnRecord ==
  ASSUME IInv, NEW p \in Process, at[p].pc \in InSession, Tracked,
         Moved(p), at'[p].pc \in {"seed", "check", "remove"},
         at'[p].session = at[p].session, at'[p].vm = rec.vm,
         NEW to \in SessionRecord, to.gen # 0,
         rec' = [rec EXCEPT !.sessions[at[p].session] = to],
         gens' \in 0..MaxStarts,
         UNCHANGED <<profile, cloud, locks, begun, faults>>
  PROVE  IInv'
<1>1. Basic /\ Rest /\ Types
  BY Facts
<1>2. UNCHANGED <<vms, created, seeded, work, told, lost, shared, exclusive, sess>>
  BY DEF cloud, locks
<1>3. at[p].session \in Session
  BY <1>1 DEF Basic, Named
<1>4. /\ rec' \in Record /\ rec'.vm = rec.vm /\ rec'.sessions[at[p].session] = to
      /\ \A x \in Session \ {at[p].session} : rec'.sessions[x] = rec.sessions[x]
  BY <1>1, <1>3, SessionChanges
<1>5. rec.vm \in VM /\ rec.vm # 0
  BY <1>1, InstanceBoundsAssumption DEF Tracked, Basic, Named, Types, VM
<1>6. Types'
  BY <1>1, <1>2, <1>4 DEF Types, Moved, Record, SessionRecord
<1>7. Basic'
  <2>1. /\ at[p].pc \in Sharing /\ at[p].pc \notin InDown
        /\ at'[p].pc \in InSession /\ at'[p].pc \in Sharing
        /\ at'[p].pc \notin InDown /\ at'[p].pc \notin Waiting
    BY SessionPlaces DEF InSession
  <2>2. QED
    BY <1>1, <1>4, <1>5, <1>6, <2>1, BasicWithin
<1>8. \A x \in Session : Active(x)' <=> Active(x) \/ x = at[p].session
  BY <1>1, <1>3, <1>4 DEF Active, Types
<1>9. Machines'
  BY <1>1, <1>2, <1>4, <1>8 DEF Rest, Machines, Sessions
<1>10. \A q \in Process \ {p} : at'[q] = at[q]
  BY DEF Moved
<1>11. PutAlone'
  <2>1. \A q \in Process : at[q].pc = "put" => rec.vm # at[q].vm
    BY <1>1 DEF Rest, Holding
  <2>2. QED
    BY <1>1, <1>10, <2>1 DEF Rest, PutAlone
<1>12. ASSUME NEW q \in Process \ {p}
       PROVE  Holding(q)'
  <2>1. Holding(q) /\ at'[q] = at[q]
    BY <1>1, <1>10 DEF Rest
  <2>2. at[q].pc \in {"seed", "check", "remove"} =>
          at[q].session \in Session /\ at[q].session # at[p].session
    BY AloneOnSession DEF InSession
  <2>3. at[q].pc \in {"seed", "check", "remove"} =>
          rec'.sessions[at[q].session] = rec.sessions[at[q].session]
    BY <1>4, <2>2
  <2>4. QED
    BY <1>2, <1>4, <2>1, <2>3 DEF Holding, Active
<1>13. Holding(p)'
  <2>1. rec.vm <= created'
    BY <1>1, <1>2, <1>5 DEF Rest, Machines
  <2>2. rec'.sessions[at'[p].session].gen # 0
    BY <1>4
  <2>3. QED
    BY <1>4, <2>1, <2>2 DEF Holding, Active
<1>14. MachineTracked'
  <2>1. at[p].pc # "put"
    BY SessionPlaces DEF InSession
  <2>2. QED
    BY <1>1, <1>2, <1>4, <1>10, <2>1 DEF Rest, MachineTracked, At
<1>15. QED
  BY <1>7, <1>9, <1>11, <1>12, <1>13, <1>14, InvAgain DEF Rest

LEMMA StartPreparesKeeps ==
  ASSUME IInv, NEW p \in Process, StartPrepares(p)
  PROVE  IInv'
<1>1. /\ Basic /\ Rest /\ Types /\ at[p] \in ProcessState
      /\ profile \in 0..MaxVMs /\ faults \in 0..MaxFaults
  BY Facts
<1>2. /\ at[p].pc = "start" /\ Tracked /\ at[p].pc \in InSession
      /\ UNCHANGED <<profile, cloud, locks, begun, faults>>
  BY DEF StartPrepares, At, InSession
<1>3. at[p].session \in Session
  BY <1>1, <1>2 DEF Basic, Named
<1>4. at' = [at EXCEPT ![p] = [at[p] EXCEPT !.pc = "seed", !.vm = rec.vm]]
  BY <1>1 DEF StartPrepares, Types
<1>5. [at[p] EXCEPT !.pc = "seed", !.vm = rec.vm] \in ProcessState
  BY <1>1 DEF ProcessState, States, Types
<1>6. Moved(p) /\ at'[p] = [at[p] EXCEPT !.pc = "seed", !.vm = rec.vm]
  BY <1>1, <1>4, <1>5, StateMoves
<1>7. at'[p].pc = "seed" /\ at'[p].vm = rec.vm /\ at'[p].session = at[p].session
  BY <1>1, <1>6 DEF ProcessState
<1>8. gens \in 0..MaxStarts /\ rec \in Record
  BY <1>1 DEF Types, Record, SessionRecord
<1>9. CASE Active(at[p].session)
  <2>1. UNCHANGED <<rec, gens>>
    BY <1>9 DEF StartPrepares
  <2>2. rec.sessions[at[p].session] \in SessionRecord /\ rec.sessions[at[p].session].gen # 0
    BY <1>3, <1>8, <1>9 DEF Record, Active
  <2>3. rec' = [rec EXCEPT !.sessions[at[p].session] = rec.sessions[at[p].session]]
    BY <1>3, <1>8, <2>1 DEF Record
  <2>4. QED
    BY <1>2, <1>6, <1>7, <1>8, <2>1, <2>2, <2>3, OnRecord
<1>10. CASE ~Active(at[p].session)
  <2>1. /\ gens < MaxStarts /\ gens' = gens + 1
        /\ rec' = [rec EXCEPT !.sessions[at[p].session].gen = gens']
    BY <1>10 DEF StartPrepares
  <2>2. gens' \in 0..MaxStarts /\ gens' # 0
    BY <1>8, <2>1, InstanceBoundsAssumption
  <2>3. rec.sessions[at[p].session] \in SessionRecord
    BY <1>3, <1>8 DEF Record
  <2>4. PICK to \in SessionRecord : to = [rec.sessions[at[p].session] EXCEPT !.gen = gens']
    BY <2>2, <2>3 DEF SessionRecord
  <2>5. to.gen = gens'
    BY <2>3, <2>4 DEF SessionRecord
  <2>6. rec' = [rec EXCEPT !.sessions[at[p].session] = to]
    BY <1>3, <1>8, <2>1, <2>4 DEF Record
  <2>7. QED
    BY <1>2, <1>6, <1>7, <2>2, <2>5, <2>6, OnRecord
<1>11. QED
  BY <1>9, <1>10

LEMMA RetireIntendsKeeps ==
  ASSUME IInv, NEW p \in Process, RetireIntends(p)
  PROVE  IInv'
<1>1. /\ Basic /\ Rest /\ Types /\ at[p] \in ProcessState
      /\ profile \in 0..MaxVMs /\ faults \in 0..MaxFaults
  BY Facts
<1>2. /\ at[p].pc = "retire" /\ Tracked /\ Active(at[p].session) /\ at[p].pc \in InSession
      /\ rec' = [rec EXCEPT !.sessions[at[p].session].retiring = TRUE]
      /\ UNCHANGED <<profile, cloud, locks, begun, gens, faults>>
  BY DEF RetireIntends, At, InSession
<1>3. at[p].session \in Session
  BY <1>1, <1>2 DEF Basic, Named
<1>4. PICK x \in {"remove", "check"} :
        at' = [at EXCEPT ![p] = [at[p] EXCEPT !.pc = x, !.vm = rec.vm]]
  BY <1>1 DEF RetireIntends, Types
<1>5. [at[p] EXCEPT !.pc = x, !.vm = rec.vm] \in ProcessState
  BY <1>1 DEF ProcessState, States, Types
<1>6. Moved(p) /\ at'[p] = [at[p] EXCEPT !.pc = x, !.vm = rec.vm]
  BY <1>1, <1>4, <1>5, StateMoves
<1>7. at'[p].pc = x /\ at'[p].vm = rec.vm /\ at'[p].session = at[p].session
  BY <1>1, <1>6 DEF ProcessState
<1>8. gens' \in 0..MaxStarts /\ rec \in Record
  BY <1>1, <1>2 DEF Types, Record, SessionRecord
<1>9. rec.sessions[at[p].session] \in SessionRecord /\ rec.sessions[at[p].session].gen # 0
  BY <1>2, <1>3, <1>8 DEF Record, Active
<1>10. PICK to \in SessionRecord : to = [rec.sessions[at[p].session] EXCEPT !.retiring = TRUE]
  BY <1>9 DEF SessionRecord
<1>11. to.gen # 0
  BY <1>9, <1>10 DEF SessionRecord
<1>12. rec' = [rec EXCEPT !.sessions[at[p].session] = to]
  BY <1>2, <1>3, <1>8, <1>10 DEF Record
<1>13. QED
  BY <1>2, <1>6, <1>7, <1>8, <1>11, <1>12, OnRecord

\* The repositories on the command's machine change in the command's session.
LEMMA OnRepository ==
  ASSUME IInv, NEW p \in Process, NEW x \in {"track", "complete"}, Goto(p, x),
         at[p].pc \in {"seed", "remove"},
         at[p].vm \in vms, NEW here \in SUBSET Session,
         \/ x = "track" /\ here = seeded[at[p].vm] \cup {at[p].session}
         \/ x = "complete" /\ here = seeded[at[p].vm] \ {at[p].session} /\ Active(at[p].session),
         seeded' = [seeded EXCEPT ![at[p].vm] = here],
         work' \in [VM -> SUBSET Session], \A v \in VM : work'[v] \subseteq seeded'[v],
         at[p].pc = "remove" <=> x = "complete",
         UNCHANGED <<store, vms, created, told, lost, locks, begun, gens, faults>>
  PROVE  IInv'
<1>1. Basic /\ Rest /\ Types /\ Holding(p)
  BY Facts DEF Rest
<1>2. Moved(p) /\ at'[p].pc = x /\ SameTask(p) /\ at[p].vm \in VM
  BY <1>1, GotoMoves, SessionPlaces, Facts DEF WithMachine
<1>3. UNCHANGED <<rec, profile, vms, created, told, lost, begun, gens, faults>> /\ UNCHANGED locks
  BY DEF store
<1>4. /\ seeded' \in [VM -> SUBSET Session] /\ seeded'[at[p].vm] = here
      /\ \A v \in VM \ {at[p].vm} : seeded'[v] = seeded[v]
  BY <1>1, <1>2 DEF Types
<1>5. Types'
  BY <1>1, <1>2, <1>3, <1>4 DEF Types, Moved, locks
<1>6. Basic'
  <2>1. rec'.vm = 0 => rec' = NoRecord
    BY <1>1, <1>3 DEF Basic, Named
  <2>2. QED
    BY <1>1, <1>2, <1>3, <1>5, <2>1, SessionPlaces, BasicWithin DEF SameTask
<1>7. at[p].vm <= created /\ rec.vm \in 0..MaxVMs
  BY <1>1 DEF Holding, Types
<1>8. rec.vm = at[p].vm => Active(at[p].session)
  BY <1>1 DEF Holding
<1>9. at[p].session \in Session
  BY <1>1 DEF Basic, Named, InSession
<1>10. rec'.vm # 0 => seeded'[rec'.vm] \subseteq Sessions'
  <2>1. Sessions' = Sessions
    BY <1>3 DEF Sessions, Active
  <2>2. rec.vm # 0 => rec.vm \in VM /\ seeded[rec.vm] \subseteq Sessions
    BY <1>1, <1>7, InstanceBoundsAssumption DEF Rest, Machines, VM
  <2>3. CASE rec.vm = at[p].vm
    BY <1>3, <1>4, <1>8, <1>9, <2>1, <2>2, <2>3 DEF Sessions
  <2>4. CASE rec.vm # at[p].vm
    BY <1>3, <1>4, <2>1, <2>2, <2>4
  <2>5. QED
    BY <2>3, <2>4
<1>11. Machines'
  <2>1. ASSUME NEW v \in VM, v > created'
        PROVE  v \notin vms' /\ seeded'[v] = {}
    BY <1>1, <1>3, <1>4, <2>1 DEF Rest, Machines
  <2>2. QED
    BY <1>1, <1>3, <1>10, <2>1 DEF Rest, Machines
<1>12. \A q \in Process \ {p} : at'[q] = at[q]
  BY <1>2 DEF Moved
<1>13. PutAlone'
  BY <1>1, <1>2, <1>12 DEF Rest, PutAlone, SameTask
<1>14. ASSUME NEW q \in Process \ {p}
       PROVE  Holding(q)'
  <2>1. Holding(q) /\ at'[q] = at[q]
    BY <1>1, <1>12 DEF Rest
  <2>2. at[q].pc \notin {"rescue", "destroy", "remove profile", "delete"}
    BY AloneOnSession DEF InSession, InDown
  <2>3. at[q].pc = "put" => at[q].vm # at[p].vm /\ at[q].vm \in VM
    BY <1>1, Facts DEF Rest, PutAlone, WithMachine
  <2>4. at[q].pc = "complete" => at[q].session # at[p].session
    BY AloneOnSession DEF InSession
  <2>5. at[q].pc = "put" => seeded'[at[q].vm] = seeded[at[q].vm]
    BY <1>4, <2>3
  <2>6. at[q].pc = "complete" /\ rec.vm # 0 => at[q].session \notin seeded'[rec.vm]
    <3>1. rec.vm # 0 => rec.vm \in VM
      BY <1>7, InstanceBoundsAssumption DEF VM
    <3>2. at[q].pc = "complete" /\ rec.vm # 0 => at[q].session \notin seeded[rec.vm]
      BY <2>1 DEF Holding
    <3>3. QED
      BY <1>4, <2>4, <3>1, <3>2
  <2>7. QED
    BY <1>3, <2>1, <2>2, <2>5, <2>6 DEF Holding, Active
<1>15. Holding(p)'
  <2>1. at'[p].vm <= created' /\ at'[p].session = at[p].session
    BY <1>2, <1>3, <1>7 DEF SameTask
  <2>2. x = "complete" => rec.vm = at[p].vm
    BY <1>1 DEF Holding
  <2>3. x = "complete" => at[p].session \notin seeded'[rec'.vm]
    BY <1>3, <1>4, <2>2
  <2>4. QED
    BY <1>2, <2>1, <2>3 DEF Holding
<1>16. MachineTracked'
  BY <1>1, <1>2, <1>3, <1>12 DEF Rest, MachineTracked, At
<1>17. QED
  BY <1>6, <1>11, <1>13, <1>14, <1>15, <1>16, InvAgain DEF Rest

LEMMA StartSeedsKeeps ==
  ASSUME IInv, NEW p \in Process, StartSeeds(p)
  PROVE  IInv'
<1>1. Types /\ Rest /\ Basic
  BY Facts
<1>2. /\ at[p].pc = "seed" /\ at[p].vm \in vms /\ Goto(p, "track")
      /\ seeded' = [seeded EXCEPT ![at[p].vm] = @ \cup {at[p].session}]
      /\ UNCHANGED <<store, vms, created, work, told, lost, locks, begun, gens, faults>>
  BY DEF StartSeeds, At
<1>3. at[p].session \in Session /\ at[p].vm \in VM
  BY <1>1, <1>2, Facts DEF Basic, Named, InSession, WithMachine
<1>4. PICK here \in SUBSET Session : here = seeded[at[p].vm] \cup {at[p].session}
  BY <1>1, <1>3 DEF Types
<1>5. seeded' = [seeded EXCEPT ![at[p].vm] = here]
  BY <1>1, <1>2, <1>4 DEF Types
<1>6. work' \in [VM -> SUBSET Session] /\ \A v \in VM : work'[v] \subseteq seeded'[v]
  <2>1. \A v \in VM : seeded[v] \subseteq seeded'[v]
    BY <1>1, <1>4, <1>5 DEF Types
  <2>2. QED
    BY <1>1, <1>2, <2>1 DEF Types, Rest, Machines
<1>7. QED
  BY <1>2, <1>4, <1>5, <1>6, OnRepository

LEMMA RetireRemovesKeeps ==
  ASSUME IInv, NEW p \in Process, RetireRemoves(p)
  PROVE  IInv'
<1>1. Types /\ Rest /\ Basic
  BY Facts
<1>2. /\ at[p].pc = "remove" /\ at[p].vm \in vms /\ Active(at[p].session)
      /\ Goto(p, "complete")
      /\ seeded' = [seeded EXCEPT ![at[p].vm] = @ \ {at[p].session}]
      /\ work' = [work EXCEPT ![at[p].vm] = @ \ {at[p].session}]
      /\ UNCHANGED <<store, vms, created, told, lost, locks, begun, gens, faults>>
  BY DEF RetireRemoves, At
<1>3. at[p].vm \in VM
  BY <1>2, Facts DEF WithMachine
<1>4. PICK here \in SUBSET Session : here = seeded[at[p].vm] \ {at[p].session}
  BY <1>1, <1>3 DEF Types
<1>5. seeded' = [seeded EXCEPT ![at[p].vm] = here]
  BY <1>1, <1>2, <1>4 DEF Types
<1>6. work' \in [VM -> SUBSET Session]
  BY <1>1, <1>2 DEF Types
<1>7. \A v \in VM : work'[v] \subseteq seeded'[v]
  BY <1>1, <1>2 DEF Types, Rest, Machines
<1>8. QED
  BY <1>2, <1>4, <1>5, <1>6, <1>7, OnRepository

LEMMA RetireCompletesKeeps ==
  ASSUME IInv, NEW p \in Process, RetireCompletes(p)
  PROVE  IInv'
<1>1. Basic /\ Rest /\ Types /\ created \in Nat
  BY Facts
<1>2. /\ at[p].pc = "complete" /\ at[p].pc \in InSession /\ End(p)
      /\ rec' = [rec EXCEPT !.sessions[at[p].session] = NoSession]
      /\ UNCHANGED <<profile, vms, created, seeded, work, told, lost, begun, gens, faults>>
  BY DEF RetireCompletes, At, InSession, cloud
<1>3. at[p].session \in Session
  BY <1>1, <1>2 DEF Basic, Named
<1>4. NoSession \in SessionRecord
  BY InstanceBoundsAssumption DEF NoSession, SessionRecord
<1>5. /\ rec' \in Record /\ rec'.vm = rec.vm /\ rec'.sessions[at[p].session] = NoSession
      /\ \A x \in Session \ {at[p].session} : rec'.sessions[x] = rec.sessions[x]
  BY <1>1, <1>2, <1>3, <1>4, SessionChanges
<1>6. Moved(p) /\ at'[p].pc = "idle" /\ at'[p].vm = 0
  BY <1>1, <1>2, EndMoves
<1>7. Types'
  BY <1>1, <1>2, <1>5, <1>6, EndMoves DEF Types, Moved, Record, SessionRecord
<1>8. Basic'
  <2>1. ASSUME rec'.vm = 0
        PROVE  rec' = NoRecord
    <3>1. rec = NoRecord
      BY <1>1, <1>5, <2>1 DEF Basic, Named
    <3>2. QED
      BY <1>2, <1>3, <3>1 DEF NoRecord
  <2>2. QED
    BY <1>1, <1>2, <1>7, <2>1, BasicEnded
<1>9. Machines'
  <2>1. rec.vm # 0 => seeded[rec.vm] \subseteq Sessions /\ at[p].session \notin seeded[rec.vm]
    BY <1>1, <1>2 DEF Rest, Machines, Holding
  <2>2. rec'.vm # 0 => seeded'[rec'.vm] \subseteq Sessions'
    BY <1>2, <1>5, <2>1 DEF Sessions, Active
  <2>3. QED
    BY <1>1, <1>2, <1>5, <2>2 DEF Rest, Machines
<1>10. \A q \in Process \ {p} : at'[q] = at[q]
  BY <1>6 DEF Moved
<1>11. PutAlone'
  <2>a. 0 \notin VM
    BY InstanceBoundsAssumption DEF VM
  <2>1. \A q \in Process : at[q].pc = "put" => at[q].vm # 0
    BY <2>a, Facts DEF WithMachine
  <2>2. QED
    BY <1>1, <1>6, <1>10, <2>1 DEF Rest, PutAlone
<1>12. ASSUME NEW q \in Process \ {p}
       PROVE  Holding(q)'
  <2>1. Holding(q) /\ at'[q] = at[q]
    BY <1>1, <1>10 DEF Rest
  <2>2. at[q].pc \in {"seed", "check", "remove"} =>
          at[q].session \in Session /\ at[q].session # at[p].session
    BY <1>2, AloneOnSession DEF InSession
  <2>3. at[q].pc \in {"seed", "check", "remove"} =>
          rec'.sessions[at[q].session] = rec.sessions[at[q].session]
    BY <1>5, <2>2
  <2>4. QED
    BY <1>2, <1>5, <2>1, <2>3 DEF Holding, Active
<1>13. Holding(p)'
  <2>1. at'[p].pc \notin Relying
    BY <1>6 DEF Relying
  <2>2. at'[p].vm <= created'
    <3>1. 0 <= created'
      BY <1>1, <1>2
    <3>2. QED
      BY <1>6, <3>1
  <2>3. QED
    BY <2>1, <2>2, PlainHolds
<1>14. MachineTracked'
  BY <1>1, <1>2, <1>5, <1>10 DEF Rest, MachineTracked, At
<1>15. QED
  BY <1>8, <1>9, <1>11, <1>12, <1>13, <1>14, InvAgain DEF Rest

-------------------------------------------------------------------------------
(* The theorems *)

LEMMA InvHoldsAtFirst == Init => IInv
<1>1. SUFFICES ASSUME Init
               PROVE  IInv
  OBVIOUS
<1>2. NoSession \in [gen : 0..MaxStarts, retiring : BOOLEAN] /\ 0 \in 0..MaxVMs
  BY InstanceBoundsAssumption DEF NoSession
<1>3. /\ rec = NoRecord /\ rec.vm = 0 /\ created = 0 /\ vms = {}
      /\ \A p \in Process : /\ at[p] = Idle /\ at[p].pc = "idle" /\ at[p].vm = 0
                            /\ at[p].session = "none"
  <2>1. \A p \in Process : at[p] = Idle
    BY <1>1 DEF Init
  <2>2. Idle.pc = "idle" /\ Idle.vm = 0 /\ Idle.session = "none"
    BY DEF Idle
  <2>3. rec = NoRecord /\ rec.vm = 0 /\ created = 0 /\ vms = {}
    BY <1>1 DEF Init, NoRecord
  <2>4. QED
    BY <2>1, <2>2, <2>3
<1>4. Types
  <2>1. rec \in [vm : 0..MaxVMs,
                 sessions : [Session -> [gen : 0..MaxStarts, retiring : BOOLEAN]]]
    BY <1>2, <1>3 DEF NoRecord
  <2>2. at \in [Process -> ProcessState]
    BY <1>1, IdleType DEF Init
  <2>3. QED
    BY <1>1, <2>1, <2>2, InstanceBoundsAssumption DEF Init, Types
<1>5. Locked
  <2>1. "idle" \notin InDown /\ "idle" \notin Sharing /\ "idle" \notin InSession
    BY DEF InDown, Sharing, InSession
  <2>2. QED
    BY <1>1, <1>3, <2>1, NoneAssumption DEF Init, Locked, OnSessionAlone
<1>6. Named
  <2>1. "idle" \notin InSession \cup Waiting \cup WithMachine
    BY DEF InSession, Waiting, WithMachine
  <2>2. QED
    BY <1>1, <1>3, <2>1 DEF Init, Named
<1>7. Machines /\ PutAlone /\ MachineTracked
  BY <1>1, <1>3 DEF Init, Machines, PutAlone, MachineTracked
<1>8. \A p \in Process : Holding(p)
  BY <1>3 DEF Holding
<1>9. QED
  BY <1>4, <1>5, <1>6, <1>7, <1>8, TypeParts DEF IInv

LEMMA StepKeeps ==
  ASSUME IInv, [Next]_vars
  PROVE  IInv'
<1>1. ASSUME NEW p \in Process, Up(p)
      PROVE  IInv'
  BY <1>1, UpCreatesKeeps, UpPutsKeeps, UpInstallsProfileKeeps DEF Up
<1>2. ASSUME NEW p \in Process, Down(p)
      PROVE  IInv'
  BY <1>2, DownLocksKeeps, DownReadsKeeps, DownRescuesKeeps, DownCannotRescueKeeps,
     DownDoneKeeps, DownDestroysKeeps, DownRemovesProfileKeeps, DownDeletesKeeps DEF Down
<1>3. ASSUME NEW p \in Process, OnSession(p)
      PROVE  IInv'
  BY <1>3, ShareInstanceKeeps, LockSessionKeeps, StartPreparesKeeps, StartSeedsKeeps,
     RetireIntendsKeeps, RetireChecksKeeps, RetireRemovesKeeps, RetireCompletesKeeps,
     QuietEndsKeep DEF OnSession
<1>4. ASSUME NEW p \in Process, Fails(p)
      PROVE  IInv'
  BY <1>4, UpCreateFailsKeeps, UpPutFailsKeeps, DownDestroyFailsKeeps, CrashKeeps DEF Fails
<1>5. ASSUME NEW p \in Process, Begins(p)
      PROVE  IInv'
  BY <1>5, BeginsKeeps
<1>6. CASE Next
  BY <1>1, <1>2, <1>3, <1>4, <1>5, <1>6, AgentWorksKeeps DEF Next, Command
<1>7. CASE UNCHANGED vars
  BY <1>7, StuttersKeep
<1>8. QED
  BY <1>6, <1>7

LEMMA InvAlwaysHolds == Spec => []IInv
  BY InvHoldsAtFirst, StepKeeps, PTL DEF Spec

\* Every variable keeps its type, and a command has exactly the locks its step
\* calls for (locking.go): down the instance alone, start and retire a share of
\* it and their session, up none.
THEOREM LocksAreHeld == Spec => []TypeOK
<1>1. IInv => TypeOK
  BY DEF IInv
<1>2. QED
  BY <1>1, InvAlwaysHolds, PTL

\* Work that is on the recorded machine and nowhere else belongs to a session on
\* record, which a down will rescue (start.go, retirement.go, down.go).
THEOREM WorkStaysOnRecord == Spec => []WorkIsOnRecord
<1>1. IInv => WorkIsOnRecord
  <2>1. SUFFICES ASSUME IInv, NEW s \in Session, Tracked, s \in work[rec.vm]
                 PROVE  Active(s)
    BY DEF WorkIsOnRecord
  <2>2. rec.vm \in VM /\ rec.vm # 0
    <3>1. rec.vm \in 0..MaxVMs /\ rec.vm # 0
      BY <2>1 DEF IInv, TypeOK, Tracked, Named
    <3>2. QED
      BY <3>1, InstanceBoundsAssumption DEF VM
  <2>3. QED
    BY <2>1, <2>2 DEF IInv, Machines, Sessions
<1>2. QED
  BY <1>1, InvAlwaysHolds, PTL

\* A machine that is billed is recorded, about to be, named to the user, or lost
\* in one of the ways that are known (lifecycle.go, down.go).
THEOREM BilledIsTracked == Spec => []MachineTracked
<1>1. IInv => MachineTracked
  BY DEF IInv
<1>2. QED
  BY <1>1, InvAlwaysHolds, PTL

\* A plain down destroys only what it has rescued (down.go), whatever the other
\* commands do meanwhile.
THEOREM DestroysOnlyRescued == Spec => DownRescuesAll
<1>1. IInv => (\A p \in Process : DownDestroys(p) /\ ~at[p].force
                 => seeded[at[p].vm] \subseteq at[p].rescued)
  BY DEF IInv, Holding, DownDestroys, At
<1>2. QED
  BY <1>1, InvAlwaysHolds, PTL DEF DownRescuesAll
===============================================================================
