-------------------------------- MODULE MCLive --------------------------------
(***************************************************************************)
(* What must come to an end, of three parts that share no state, checked   *)
(* in one run: the initial state picks a part, and only that part moves.   *)
(* The others stay where they start, where none of the steps that must     *)
(* happen is enabled, so that their fairness asks for nothing.             *)
(***************************************************************************)
EXTENDS MCRetirement

CONSTANTS
  Process, Session, MaxVMs, MaxStarts, MaxCommands,                 \* Instance
  Run, Version, Rendered, ViaAgent, MaxInvocations, MaxLines, MaxRuns  \* Provision

VARIABLES
  part,
  rec, profile, vms, created, seeded, work, told, missed, shared, exclusive, sess, at, begun, gens,
  troubles,
  config, step, flake, unit, started, journal, inside, env, built, tmpfs, link, runs, mishaps

I == INSTANCE Instance WITH lost <- missed, faults <- troubles, MaxFaults <- 1
P == INSTANCE Provision WITH
       OtherShell <- {}, Secret <- {"dolt"}, MaxFaults <- 1,
       at <- step, begun <- runs, faults <- mishaps

ASSUME PartsAssumption == P!ProvisionAssumption

instance == <<rec, profile, vms, created, seeded, work, told, missed, shared, exclusive, sess, at,
              begun, gens, troubles>>
provision == <<config, step, flake, unit, started, journal, inside, env, built, tmpfs, link, runs,
               mishaps>>
all == <<vars, part, instance, provision>>

LiveInit ==
  /\ Init /\ I!Init /\ P!Init /\ link = [c \in {"dolt", "gh"} |-> "none"]
  /\ part \in {"retirement", "instance", "provision"}

LiveSpec ==
  /\ LiveInit
  /\ [][/\ \/ part = "retirement" /\ Next /\ UNCHANGED <<instance, provision>>
           \/ part = "instance" /\ I!Next /\ UNCHANGED <<vars, provision>>
           \/ part = "provision" /\ P!Next /\ UNCHANGED <<vars, instance>>
        /\ UNCHANGED part]_all
  /\ Fairness /\ I!Fairness /\ P!Fairness

-------------------------------------------------------------------------------
(* Properties of the other parts, seen from here *)

\* No command waits for ever: the two locks are taken in one order, and every
\* end of a process, a crash too, gives them back.
CommandsEnd == I!CommandsEnd

\* A run that follows a switch ends, unless the unit is taken away from it.
FollowingEnds == P!FollowingEnds
===============================================================================
