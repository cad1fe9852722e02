------------------------------- MODULE Provision -------------------------------
(***************************************************************************)
(* `bivouac provision` and the provisioning step of `bivouac up`           *)
(* (internal/reconcile): the config is resolved on the user's machine,     *)
(* the flake it renders is shipped to the instance, and home-manager       *)
(* switches to it -- in a systemd unit that outlives the connection        *)
(* (detached.go) or, for a config that needs the forwarded agent, inside   *)
(* the SSH session. Nothing locks the instance against a second run, and   *)
(* a run that loses its connection, or dies, leaves its unit running.      *)
(***************************************************************************)
EXTENDS Integers, Sequences, FiniteSets, SequencesExt

CONSTANTS
  Run,            \* the provisioning processes
  Version,        \* the versions bivouac.pkl goes through, 1..n
  Rendered,       \* those that need a rendered flake (NeedsRender)
  ViaAgent,       \* those that fetch over SSH (needsAgent)
  OtherShell,     \* those that name another login shell than the record, or do not
                  \* resolve
  Secret,         \* of "dolt" and "gh", the credentials that can be decrypted
  MaxInvocations, \* bound: times the unit is ever started
  MaxLines,       \* bound: lines a unit writes
  MaxRuns,        \* bound: provisions ever begun
  MaxFaults       \* bound: lost answers, failures, reboots and crashes

ProvisionAssumption ==
  /\ Version \subseteq Nat \ {0} /\ 1 \in Version
  /\ Rendered \subseteq Version /\ ViaAgent \subseteq Version /\ OtherShell \subseteq Version
  /\ Secret \subseteq {"dolt", "gh"}
  /\ {MaxInvocations, MaxLines, MaxRuns, MaxFaults} \subseteq Nat

VARIABLES
  (* the user's machine *)
  config,   \* the version bivouac.pkl has now
  at,       \* where each process is, and what it holds
  (* the instance *)
  flake,    \* the version of the flake that was shipped (0: none)
  unit,     \* the unit bivouac-provision, as systemd shows it
  started,  \* times it was started: its invocations are 1..started
  journal,  \* the invocation each journal line is of
  inside,   \* the processes whose switch runs in their SSH session
  env,      \* the version the environment is of (0: none)
  built,    \* the invocations whose switch succeeded
  tmpfs,    \* the credential files in the runtime directory
  link,     \* what ~/.dolt and ~/.config/gh are
  begun, faults

system == <<unit, started, journal, env, built>>
credentials == <<tmpfs, link>>
vars == <<config, at, flake, system, inside, credentials, begun, faults>>

\* A unit that is not loaded shows as dead, and its result as success.
NoUnit == [inv |-> 0, sub |-> "dead", result |-> "success", builds |-> 0, by |-> {}]
Idle == [pc |-> "idle", want |-> 0, saw |-> 0, inv |-> 0, cursor |-> 0, out |-> <<>>,
         ok |-> FALSE, mine |-> FALSE]

At(p, pc) == at[p].pc = pc
Goto(p, pc) == at' = [at EXCEPT ![p].pc = pc]
Ends(p) == at' = [at EXCEPT ![p] = Idle]
Fault == faults < MaxFaults /\ faults' = faults + 1

Init ==
  /\ config = 1 /\ at = [p \in Run |-> Idle]
  /\ flake = 0 /\ unit = NoUnit /\ started = 0 /\ journal = <<>>
  /\ inside = {} /\ env = 0 /\ built = {}
  /\ tmpfs = {} /\ link \in [{"dolt", "gh"} -> {"none", "foreign"}]
  /\ begun = 0 /\ faults = 0

-------------------------------------------------------------------------------
(* Reconcile up to the switch *)

needsAgent(v) == v \in ViaAgent
checkLoginShell(v) == v \notin OtherShell

\* config.Resolve and checkLoginShell: what is wanted is what the file says now.
Begins(p) ==
  /\ At(p, "idle") /\ begun < MaxRuns
  /\ begun' = begun + 1
  /\ IF checkLoginShell(config)
     THEN at' = [at EXCEPT ![p].pc = "ship", ![p].want = config, ![p].mine = TRUE]
     ELSE UNCHANGED at
  /\ UNCHANGED <<config, flake, system, inside, credentials, faults>>

\* Connect, the agents' instructions and Validate are behind it; a config that
\* needs no flake of its own names its template on the command line. Whoever
\* ships can change what a switch that was not evaluated yet builds: from here
\* on no other run's switch is sure to be its own.
Ships(p) ==
  /\ At(p, "ship")
  /\ flake' = IF at[p].want \in Rendered THEN at[p].want ELSE flake
  /\ at' = [q \in Run |->
              IF q = p THEN [at[p] EXCEPT !.pc = IF needsAgent(at[p].want) THEN "inside" ELSE "status"]
                       ELSE [at[q] EXCEPT !.mine = FALSE]]
  /\ UNCHANGED <<config, system, inside, credentials, begun, faults>>

\* What the switch of version v is going to build: the command's own argument,
\* or whatever the flake holds when nix evaluates it (0).
Argument(v) == IF v \in Rendered THEN 0 ELSE v

-------------------------------------------------------------------------------
(* The switch inside the session (RunStreaming) *)

InsideStarts(p) ==
  /\ At(p, "inside") /\ p \notin inside
  /\ inside' = inside \cup {p}
  /\ UNCHANGED <<config, at, flake, system, credentials, begun, faults>>

InsideEnds(p) ==
  /\ At(p, "inside") /\ p \in inside
  /\ inside' = inside \ {p}
  /\ env' = IF at[p].want \in Rendered THEN flake ELSE at[p].want
  /\ Goto(p, "dolt")
  /\ UNCHANGED <<config, flake, unit, started, journal, built, credentials, begun, faults>>

-------------------------------------------------------------------------------
(* The switch in a unit of its own (detachedRun) *)

MayAttach == unit.sub = "running"

\* ensureStarted. An answer that does not come is asked for again on a new
\* connection, which leaves no trace.
Status(p) ==
  /\ At(p, "status")
  /\ at' = IF MayAttach
           THEN [at EXCEPT ![p].pc = "look", ![p].mine = FALSE]
           ELSE [at EXCEPT ![p].pc = "stop", ![p].saw = started]
  /\ UNCHANGED <<config, flake, system, inside, credentials, begun, faults>>

\* systemctl stop; systemctl reset-failed: a unit that was running is killed.
Stops(p) ==
  /\ At(p, "stop")
  /\ unit' = NoUnit
  /\ Goto(p, "start")
  /\ UNCHANGED <<config, flake, started, journal, env, built, inside, credentials, begun, faults>>

Starting(p) ==
  /\ started < MaxInvocations /\ started' = started + 1
  /\ unit' = [inv |-> started', sub |-> "running", result |-> "success",
              builds |-> Argument(at[p].want), by |-> {p}]

\* systemd-run: a loaded unit refuses a second start, which is an error.
Starts(p) ==
  /\ At(p, "start")
  /\ IF unit = NoUnit
     THEN Starting(p) /\ Goto(p, "look")
     ELSE Ends(p) /\ UNCHANGED <<unit, started>>
  /\ UNCHANGED <<config, flake, journal, env, built, inside, credentials, begun, faults>>

\* Mutant of AfterLostStart: the start is sent again without looking.
StartAgain == "stop"
AfterLostStart == "status"

\* The connection dies under the command, which got as far as it got.
LosesStart(p) ==
  /\ at[p].pc \in {"stop", "start"} /\ Fault
  /\ \/ UNCHANGED <<unit, started>>
     \/ unit' = NoUnit /\ UNCHANGED started
     \/ (At(p, "stop") \/ unit = NoUnit) /\ Starting(p)
  /\ Goto(p, AfterLostStart)
  /\ UNCHANGED <<config, flake, journal, env, built, inside, credentials, begun>>

Vanished == unit = NoUnit

\* The status right after the start names the invocation to follow.
Looks(p) ==
  /\ At(p, "look")
  /\ IF Vanished THEN Ends(p)
     ELSE at' = [at EXCEPT ![p].pc = "drain", ![p].inv = unit.inv,
                           ![p].mine = @ /\ unit.inv = started]
  /\ UNCHANGED <<config, flake, system, inside, credentials, begun, faults>>

Lines(i) == {n \in DOMAIN journal : journal[n] = i}
After(p) == {n \in Lines(at[p].inv) : n > at[p].cursor}

\* All of S, in the order of the journal.
InOrder(S) ==
  {s \in [1..Cardinality(S) -> S] : ToSet(s) = S /\ \A i, j \in DOMAIN s : i < j => s[i] < s[j]}

\* drain: lines and cursor of an answer that came; one that was lost leaves both.
Read(p) ==
  {[at[p] EXCEPT !.out = @ \o new, !.cursor = IF new = <<>> THEN @ ELSE Last(new)] :
     new \in InOrder(After(p))}

Drains(p) ==
  /\ At(p, "drain")
  /\ \E r \in Read(p) : at' = [at EXCEPT ![p] = [r EXCEPT !.pc = "poll"]]
  /\ UNCHANGED <<config, flake, system, inside, credentials, begun, faults>>

\* Mutant of Finished: whatever does not run is finished.
NotRunning == unit.sub # "running"
\* Mutant of Finished: only a success ends a run.
OnlySuccess == unit.sub = "exited"
Finished == unit.sub \in {"exited", "failed"}

Polls(p) ==
  /\ At(p, "poll")
  /\ at' = IF Finished
           THEN [at EXCEPT ![p].pc = "last", ![p].ok = unit.result = "success"]
           ELSE [at EXCEPT ![p].pc = "drain"]
  /\ UNCHANGED <<config, flake, system, inside, credentials, begun, faults>>

\* Mutant of LastRead: the lines since the last read are not fetched.
NoLastRead(p) == {at[p]}
LastRead(p) == Read(p)

\* What the unit wrote between the last read and its end; then its result.
DrainsLast(p) ==
  /\ At(p, "last")
  /\ \E r \in LastRead(p) :
       at' = [at EXCEPT ![p] = [r EXCEPT !.pc = IF at[p].ok THEN "dolt" ELSE "failed"]]
  /\ UNCHANGED <<config, flake, system, inside, credentials, begun, faults>>

Fails(p) ==
  /\ At(p, "failed") /\ Ends(p)
  /\ UNCHANGED <<config, flake, system, inside, credentials, begun, faults>>

-------------------------------------------------------------------------------
(* The credentials, after a switch that succeeded: they go to tmpfs, and a
   failure of any step of it is a warning *)

\* symlinkPrepareScript leaves alone what is not bivouac's link.
Prepared(c) == link[c] # "foreign"

\* Mutant of DoltFiles: the config that names the credential comes first.
ConfigFirst == <<"config", "jwk">>
DoltFiles == <<"jwk", "config">>
Files(c) == IF c = "dolt" THEN DoltFiles ELSE <<"hosts">>

\* The link is made, and n of the files are written.
Places(p, c, n) ==
  /\ IF c \in Secret /\ Prepared(c)
     THEN /\ link' = [link EXCEPT ![c] = "ours"]
          /\ n \in 0..Len(Files(c))
          /\ tmpfs' = tmpfs \cup {Files(c)[i] : i \in 1..n}
          /\ IF n = Len(Files(c)) THEN UNCHANGED faults ELSE Fault
     ELSE n = 0 /\ UNCHANGED <<credentials, faults>>

PlacesDolt(p) ==
  /\ At(p, "dolt") /\ \E n \in 0..2 : Places(p, "dolt", n)
  /\ Goto(p, "gh")
  /\ UNCHANGED <<config, flake, system, inside, begun>>

PlacesGitHub(p) ==
  /\ At(p, "gh") /\ \E n \in 0..1 : Places(p, "gh", n)
  /\ Ends(p)
  /\ UNCHANGED <<config, flake, system, inside, begun>>

-------------------------------------------------------------------------------
\* Out of contact for longer than giveUp, interrupted, killed, or refused by a
\* step before the switch. A switch inside the session ends with it; a unit
\* does not.
Stop(p) ==
  /\ ~At(p, "idle") /\ Fault
  /\ Ends(p) /\ inside' = inside \ {p}
  /\ UNCHANGED <<config, flake, system, credentials, begun>>

(* The instance and the user *)

\* nix evaluates the flake that is there by then.
UnitEvaluates ==
  /\ unit.sub = "running" /\ unit.builds = 0 /\ flake # 0
  /\ unit' = [unit EXCEPT !.builds = flake]
  /\ UNCHANGED <<config, at, flake, started, journal, env, built, inside, credentials, begun, faults>>

UnitWrites ==
  /\ unit.sub = "running" /\ Cardinality(Lines(unit.inv)) < MaxLines
  /\ journal' = Append(journal, unit.inv)
  /\ UNCHANGED <<config, at, flake, unit, started, env, built, inside, credentials, begun, faults>>

UnitSucceeds ==
  /\ unit.sub = "running" /\ unit.builds # 0
  /\ unit' = [unit EXCEPT !.sub = "exited"]
  /\ env' = unit.builds /\ built' = built \cup {unit.inv}
  /\ UNCHANGED <<config, at, flake, started, journal, inside, credentials, begun, faults>>

UnitFails ==
  /\ unit.sub = "running" /\ Fault
  /\ unit' = [unit EXCEPT !.sub = "failed", !.result = "exit-code"]
  /\ UNCHANGED <<config, at, flake, started, journal, env, built, inside, credentials, begun>>

\* The journal and the flake are on disk; units, sessions and tmpfs are not.
Reboot ==
  /\ Fault /\ unit' = NoUnit /\ tmpfs' = {}
  /\ inside' = {} /\ at' = [p \in Run |-> IF At(p, "inside") THEN Idle ELSE at[p]]
  /\ UNCHANGED <<config, flake, started, journal, env, built, link, begun>>

UserEdits ==
  /\ config + 1 \in Version /\ config' = config + 1
  /\ UNCHANGED <<at, flake, system, inside, credentials, begun, faults>>

-------------------------------------------------------------------------------
Follows(p) == Looks(p) \/ Drains(p) \/ Polls(p) \/ DrainsLast(p) \/ Fails(p)

Continues(p) == \/ Ships(p) \/ InsideStarts(p) \/ InsideEnds(p)
                \/ Status(p) \/ Stops(p) \/ Starts(p)
                \/ Follows(p) \/ PlacesDolt(p) \/ PlacesGitHub(p)

UnitRuns == UnitEvaluates \/ UnitSucceeds

Next == \/ \E p \in Run : Begins(p) \/ Continues(p) \/ LosesStart(p) \/ Stop(p)
        \/ UnitRuns \/ UnitWrites \/ UnitFails \/ Reboot \/ UserEdits

Spec == Init /\ [][Next]_vars

\* A process that can go on does, and a switch comes to an end.
Fairness == WF_vars(UnitRuns) /\ \A p \in Run : WF_vars(Continues(p))
FairSpec == Spec /\ Fairness

-------------------------------------------------------------------------------
(* Properties *)

Following == {"drain", "poll", "last", "failed"}

\* What a run has shown is what the invocation it follows wrote up to its
\* cursor, each line once and in order, through every lost answer; and when it
\* is over, all of it.
OutputExact ==
  \A p \in Run : at[p].inv # 0 =>
    /\ at[p].out \in InOrder({n \in Lines(at[p].inv) : n <= at[p].cursor})
    /\ at[p].pc \in {"dolt", "gh", "failed"} => ToSet(at[p].out) = Lines(at[p].inv)

\* A run that reports success saw the end of a switch that did succeed, its own
\* or a later one: never a unit that is gone, or one that failed.
SuccessIsReal ==
  \A p \in Run : at[p].inv # 0 /\ at[p].pc \in {"dolt", "gh"} =>
    \E i \in built : i >= at[p].inv

\* The only switch a run ever cuts off is one another run started after this one
\* had looked: never its own, whose start it only heard nothing of.
Stopping ==
  \A p \in Run : Stops(p) /\ unit.sub = "running" =>
    unit.inv > at[p].saw /\ p \notin unit.by

\* dolt is never told of a credential that is not there, whichever write fails.
CredentialsComplete == "config" \in tmpfs => "jwk" \in tmpfs

\* A run that follows a switch ends, unless the unit is taken away from it.
FollowingEnds ==
  \A p \in Run : at[p].pc \in Following ~> at[p].pc \notin Following \/ unit = NoUnit
================================================================================
