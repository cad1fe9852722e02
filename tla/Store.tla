-------------------------------- MODULE Store ---------------------------------
(***************************************************************************)
(* state.json, the one file all instances are recorded in                  *)
(* (internal/state/state.go), as the commands that use it at the same time *)
(* see it. Get and List read the whole file; Put, Update and Delete read   *)
(* it and save all of it again, with their own change made. The lock       *)
(* beside the file is what keeps one command's change out of the way of    *)
(* another's: the session and instance locks do not, for commands on other *)
(* instances, an up and the refresh of a workspace's proof                 *)
(* (herdrownership.go) write without them.                                 *)
(*                                                                         *)
(* A record is the set of the changes it shows, empty when there is none.  *)
(***************************************************************************)
EXTENDS Integers

CONSTANTS
  Process,     \* the commands' processes
  Name,        \* the instances
  MaxChanges,  \* bound: changes ever saved
  MaxFaults    \* bound: crashes and failed calls

StoreAssumption ==
  MaxChanges \in Nat /\ MaxFaults \in Nat /\ "none" \notin Process

VARIABLES
  file,               \* state.json
  shared, exclusive,  \* holders of the lock beside it
  at,                 \* where each process is, on what, and the file it has read
  changes, faults

vars == <<file, shared, exclusive, at, changes, faults>>

NoFile == [n \in Name |-> {}]
Operation == {"get", "put", "update", "delete"}
Idle == [pc |-> "idle", op |-> "get", name |-> "none", read |-> NoFile]

Init ==
  /\ file = NoFile
  /\ shared = {} /\ exclusive = "none"
  /\ at = [p \in Process |-> Idle]
  /\ changes = 0 /\ faults = 0

At(p, pc) == at[p].pc = pc

\* However a call ends, the lock is given back: by its defer, or by the system
\* when the process is gone.
End(p) ==
  /\ at' = [at EXCEPT ![p] = Idle]
  /\ shared' = shared \ {p}
  /\ exclusive' = IF exclusive = p THEN "none" ELSE exclusive

\* Mutant of Alone: the commands that write share the lock, as those that read.
NeverAlone(op) == FALSE
\* What a command asks of the lock (its operation is to be the only one).
Alone(op) == op # "get"

\* The lock is polled for until it is free.
Takes(p, op, n) ==
  /\ At(p, "idle") /\ exclusive = "none" /\ (Alone(op) => shared = {})
  /\ at' = [at EXCEPT ![p].pc = "read", ![p].op = op, ![p].name = n]
  /\ IF Alone(op)
     THEN exclusive' = p /\ UNCHANGED shared
     ELSE shared' = shared \cup {p} /\ UNCHANGED exclusive
  /\ UNCHANGED <<file, changes, faults>>

\* Get is done when it has read.
Reads(p) ==
  /\ At(p, "read")
  /\ IF at[p].op = "get"
     THEN End(p)
     ELSE /\ at' = [at EXCEPT ![p].pc = "save", ![p].read = file]
          /\ UNCHANGED <<shared, exclusive>>
  /\ UNCHANGED <<file, changes, faults>>

\* Update has no record to change, or its change turns out to be impossible:
\* the generation is not active any more, or what came of it does not validate.
Refuses(p) ==
  /\ At(p, "save") /\ at[p].op # "delete"
  /\ End(p)
  /\ UNCHANGED <<file, changes, faults>>

\* What a command makes of the record it has read.
Changed(p, c) ==
  CASE at[p].op = "put"    -> {c}
    [] at[p].op = "update" -> at[p].read[at[p].name] \cup {c}
    [] at[p].op = "delete" -> {}

\* The whole file is written beside the old one and renamed over it. (When only
\* the sync of its directory fails, the command is told that it could not save.)
Saves(p) ==
  /\ At(p, "save") /\ changes < MaxChanges
  /\ at[p].op = "update" => at[p].read[at[p].name] # {}
  /\ changes' = changes + 1
  /\ file' = [at[p].read EXCEPT ![at[p].name] = Changed(p, changes')]
  /\ End(p)
  /\ UNCHANGED faults

\* A crash, or a call that fails before the rename: the file is as it was.
Fails(p) ==
  /\ ~At(p, "idle") /\ faults < MaxFaults
  /\ faults' = faults + 1
  /\ End(p)
  /\ UNCHANGED <<file, changes>>

Next ==
  \E p \in Process :
    \/ \E op \in Operation, n \in Name : Takes(p, op, n)
    \/ Reads(p) \/ Refuses(p) \/ Saves(p) \/ Fails(p)

-------------------------------------------------------------------------------
(* Properties *)

\* No command undoes another's change, though each saves the whole file as it
\* was when it read it: a record changes only by a command on that instance, and
\* an update of it, which must find it there, keeps all that it shows by then.
Undisturbed ==
  \A n \in Name : file'[n] # file[n] =>
    \E p \in Process :
      /\ Saves(p) /\ at[p].name = n
      /\ at[p].op = "update" => file[n] # {} /\ file[n] \subseteq file'[n]
===============================================================================
