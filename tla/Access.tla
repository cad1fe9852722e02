--------------------------------- MODULE Access ---------------------------------
(***************************************************************************)
(* The ways to a machine kept on the user's side: the connection in the    *)
(* state record (internal/lifecycle/transport.go, lifecycle.go) and the    *)
(* OpenSSH profile made from it, in an index, a generated file and an      *)
(* include line of the user's own configuration                            *)
(* (internal/sshidentity/profiles.go). up, provision, the commands that    *)
(* learn a tailnet address and down all write them, in processes of their  *)
(* own; only the profile files have a lock.                                *)
(***************************************************************************)
EXTENDS Integers, FiniteSets

CONSTANTS
  Name,      \* machine names
  Process,   \* bivouac processes
  MaxGen,    \* bound: machines created under a name
  MaxFaults  \* bound: processes killed, changes of the network and of the user's file

AccessAssumption == {MaxGen, MaxFaults} \subseteq Nat

VARIABLES
  made,    \* machines created under each name so far: the last one's generation
  alive,   \* names whose last machine still runs
  joined,  \* names whose last machine has joined the tailnet
  tailnet, \* the tailnet can be reached from here
  record,  \* the state file's record: which machine it is about, and its connection
  index,   \* profiles.json: the connection of each name, or none
  config,  \* the generated OpenSSH file
  include, \* the user's configuration includes it
  clash,   \* names whose profile the user's own lines contradict
  lock,    \* who holds the profile lock
  cmd,     \* the state of each process
  faults

vars == <<made, alive, joined, tailnet, record, index, config, include, clash, lock, cmd, faults>>
cloud == <<made, alive, joined>>
files == <<index, config, include>>
world == <<tailnet, clash>>

None == [gen |-> 0, host |-> "none"]
Untracked == [gen |-> 0, conn |-> None]
Public(c) == [c EXCEPT !.host = "public"]

\* op: up, down, or a visit to a machine that is there; vm, conn: the machine and the
\* connection it works with; want: the profile it publishes; got: the index as it read
\* it; then: where it goes on afterwards.
Idle == [pc |-> "idle", op |-> "none", name |-> "none", vm |-> 0, conn |-> None, want |-> None,
         got |-> [n \in Name |-> None], then |-> "idle"]

Init ==
  /\ made = [n \in Name |-> 0] /\ alive = {} /\ joined = {} /\ tailnet = TRUE
  /\ record = [n \in Name |-> Untracked]
  /\ index = [n \in Name |-> None] /\ config = index /\ include = FALSE /\ clash = {}
  /\ lock = {} /\ cmd = [p \in Process |-> Idle] /\ faults = 0

At(p, pc) == cmd[p].pc = pc
My(p) == cmd[p].name
Goto(p, pc) == cmd' = [cmd EXCEPT ![p].pc = pc]
Ends(p) == cmd' = [cmd EXCEPT ![p] = Idle] /\ lock' = lock \ {p}
Fault == faults < MaxFaults /\ faults' = faults + 1

\* The tailnet address if it answers, else the public one.
Reachable(c) == IF c.host = "tailnet" /\ ~tailnet THEN Public(c) ELSE c

\* A profile to publish, and where to go on when it is there.
Publishes(p, c, then) ==
  cmd' = [cmd EXCEPT ![p].conn = c, ![p].want = Reachable(c), ![p].pc = "check", ![p].then = then]

-------------------------------------------------------------------------------
(* ProfileStore.Upsert and Remove *)

\* Outside the lock: a conflict is found before anything waits.
Checks(p) ==
  /\ At(p, "check") /\ My(p) \notin clash /\ Goto(p, "lock")
  /\ UNCHANGED <<cloud, world, record, files, lock, faults>>

Free(p) == lock = {}

Locks(p) ==
  /\ cmd[p].pc \in {"lock", "unpublish"} /\ Free(p)
  /\ lock' = lock \cup {p}
  /\ Goto(p, IF At(p, "lock") THEN "read" ELSE "drop")
  /\ UNCHANGED <<cloud, world, record, files, faults>>

\* Mutant of ToPublish: an entry that is already in the index needs no writing.
OnlyNew(p) == index[My(p)] # cmd[p].want
ToPublish(p) == TRUE

Reads(p) ==
  /\ At(p, "read") /\ My(p) \notin clash
  /\ cmd' = [cmd EXCEPT ![p].got = [index EXCEPT ![My(p)] = cmd[p].want],
                        ![p].pc = IF ToPublish(p) THEN "index" ELSE "include"]
  /\ UNCHANGED <<cloud, world, record, files, lock, faults>>

Drops(p) ==
  /\ At(p, "drop")
  /\ cmd' = [cmd EXCEPT ![p].got = [index EXCEPT ![My(p)] = None], ![p].pc = "index"]
  /\ UNCHANGED <<cloud, world, record, files, lock, faults>>

PublishesIndex(p) ==
  /\ At(p, "index") /\ index' = cmd[p].got /\ Goto(p, "config")
  /\ UNCHANGED <<cloud, world, record, config, include, lock, faults>>

PublishesConfig(p) ==
  /\ At(p, "config") /\ config' = cmd[p].got
  /\ Goto(p, IF cmd[p].op = "down" THEN "unlock" ELSE "include")
  /\ UNCHANGED <<cloud, world, record, index, include, lock, faults>>

Includes(p) ==
  /\ At(p, "include") /\ include' = TRUE /\ Goto(p, "unlock")
  /\ UNCHANGED <<cloud, world, record, index, config, lock, faults>>

Unlocks(p) ==
  /\ At(p, "unlock")
  /\ lock' = lock \ {p}
  /\ cmd' = [cmd EXCEPT ![p].pc = cmd[p].then, ![p].want = None, ![p].got = Idle.got]
  /\ UNCHANGED <<cloud, world, record, files, faults>>

\* The user's own lines contradict the profile: the command ends there.
Conflicts(p) ==
  /\ cmd[p].pc \in {"check", "read"} /\ My(p) \in clash /\ Ends(p)
  /\ UNCHANGED <<cloud, world, record, files, faults>>

-------------------------------------------------------------------------------
(* Commands *)

Begins(p, op, n, pc) ==
  cmd' = [cmd EXCEPT ![p].op = op, ![p].name = n, ![p].conn = record[n].conn, ![p].vm = record[n].gen,
                     ![p].pc = pc]

\* up refuses a name that has a record, and checks the profile it is going to need.
Ups(p) ==
  /\ At(p, "idle")
  /\ \E n \in Name \ clash : record[n] = Untracked /\ Begins(p, "up", n, "create")
  /\ UNCHANGED <<cloud, world, record, files, lock, faults>>

Creates(p) ==
  /\ At(p, "create") /\ My(p) \notin alive /\ made[My(p)] < MaxGen
  /\ made' = [made EXCEPT ![My(p)] = @ + 1]
  /\ alive' = alive \cup {My(p)} /\ joined' = joined \ {My(p)}
  /\ cmd' = [cmd EXCEPT ![p].pc = "put", ![p].conn = [gen |-> made'[My(p)], host |-> "public"]]
  /\ UNCHANGED <<world, record, files, lock, faults>>

Puts(p) ==
  /\ At(p, "put")
  /\ record' = [record EXCEPT ![My(p)] = [gen |-> cmd[p].conn.gen, conn |-> cmd[p].conn]]
  /\ Publishes(p, cmd[p].conn, "repair")
  /\ UNCHANGED <<cloud, world, files, lock, faults>>

\* Reconcile reads the record again and repairs the profile; provision is only that.
Provisions(p) ==
  /\ At(p, "idle") /\ \E n \in Name : record[n] # Untracked /\ Begins(p, "visit", n, "repair")
  /\ UNCHANGED <<cloud, world, record, files, lock, faults>>

Repairs(p) ==
  /\ At(p, "repair") /\ record[My(p)] # Untracked
  /\ Publishes(p, record[My(p)].conn, IF cmd[p].op = "up" THEN "join" ELSE "end")
  /\ UNCHANGED <<cloud, world, record, files, lock, faults>>

\* Only over a connection to the machine it knows.
Reaches(p) == My(p) \in alive /\ made[My(p)] = cmd[p].conn.gen

\* A config without tailscale ends here.
Joins(p) ==
  /\ At(p, "join") /\ Reaches(p)
  /\ \/ joined' = joined \cup {My(p)} /\ Goto(p, "ask")
     \/ Goto(p, "end") /\ UNCHANGED joined
  /\ UNCHANGED <<made, alive, world, record, files, lock, faults>>

\* git, rsync and ssh of a session publish the profile once more, of the connection
\* the command began with; git only if an address of it answers (Fails).
TransferBegins(p) ==
  /\ At(p, "idle") /\ \E n \in Name : record[n] # Untracked /\ Begins(p, "visit", n, "transfer")
  /\ UNCHANGED <<cloud, world, record, files, lock, faults>>

Transfers(p) ==
  /\ At(p, "transfer") /\ Publishes(p, cmd[p].conn, "end")
  /\ UNCHANGED <<cloud, world, record, files, lock, faults>>

\* connect and session attach learn the tailnet address on their way.
Connects(p) ==
  /\ At(p, "idle") /\ \E n \in Name : record[n] # Untracked /\ Begins(p, "visit", n, "ask")
  /\ UNCHANGED <<cloud, world, record, files, lock, faults>>

Asks(p) ==
  /\ At(p, "ask") /\ Reaches(p)
  /\ Goto(p, IF My(p) \in joined /\ cmd[p].conn.host # "tailnet" THEN "remember" ELSE "end")
  /\ UNCHANGED <<cloud, world, record, files, lock, faults>>

\* rememberPreferredHost: what it compares is the alias, which is the name's.
Remembers(p) ==
  /\ At(p, "remember") /\ My(p) \notin clash /\ record[My(p)] # Untracked
  /\ record' = [record EXCEPT ![My(p)].conn = [cmd[p].conn EXCEPT !.host = "tailnet"]]
  /\ Publishes(p, [cmd[p].conn EXCEPT !.host = "tailnet"], "end")
  /\ UNCHANGED <<cloud, world, files, lock, faults>>

\* down: the machine, then its profile, then its record.
Downs(p) ==
  /\ At(p, "idle") /\ \E n \in Name : record[n] # Untracked /\ Begins(p, "down", n, "destroy")
  /\ UNCHANGED <<cloud, world, record, files, lock, faults>>

Destroys(p) ==
  /\ At(p, "destroy")
  /\ alive' = IF made[My(p)] = cmd[p].vm THEN alive \ {My(p)} ELSE alive
  /\ cmd' = [cmd EXCEPT ![p].pc = "unpublish", ![p].then = "forget"]
  /\ UNCHANGED <<made, joined, world, record, files, lock, faults>>

Forgets(p) ==
  /\ At(p, "forget") /\ record' = [record EXCEPT ![My(p)] = Untracked] /\ Ends(p)
  /\ UNCHANGED <<cloud, world, files, faults>>

Finishes(p) ==
  /\ At(p, "end") /\ Ends(p)
  /\ UNCHANGED <<cloud, world, record, files, faults>>

\* No record any more, no machine that answers, another one in its place.
Fails(p) ==
  /\ \/ cmd[p].pc \in {"join", "ask", "transfer"} /\ ~Reaches(p)
     \/ cmd[p].pc \in {"repair", "remember"} /\ record[My(p)] = Untracked
     \/ At(p, "remember") /\ My(p) \in clash
     \/ At(p, "create") /\ (My(p) \in alive \/ made[My(p)] = MaxGen)
  /\ Ends(p)
  /\ UNCHANGED <<cloud, world, record, files, faults>>

-------------------------------------------------------------------------------
(* The world *)

\* The kernel drops the lock of a process that dies.
Dies(p) ==
  /\ ~At(p, "idle") /\ Fault /\ Ends(p)
  /\ UNCHANGED <<cloud, world, record, files>>

TailnetComesAndGoes ==
  /\ Fault /\ tailnet' = ~tailnet
  /\ UNCHANGED <<cloud, clash, record, files, lock, cmd>>

UserEdits ==
  /\ Fault
  /\ \E n \in Name : clash' = (clash \cup {n}) \ (clash \cap {n})
  /\ include' \in {include, FALSE}
  /\ UNCHANGED <<cloud, tailnet, record, index, config, lock, cmd>>

Step(p) == \/ Checks(p) \/ Locks(p) \/ Reads(p) \/ Drops(p) \/ PublishesIndex(p)
           \/ PublishesConfig(p) \/ Includes(p) \/ Unlocks(p) \/ Conflicts(p)
           \/ Ups(p) \/ Creates(p) \/ Puts(p) \/ Provisions(p) \/ Repairs(p) \/ Joins(p)
           \/ TransferBegins(p) \/ Transfers(p) \/ Connects(p) \/ Asks(p) \/ Remembers(p) \/ Downs(p) \/ Destroys(p) \/ Forgets(p)
           \/ Finishes(p) \/ Fails(p) \/ Dies(p)

Next == (\E p \in Process : Step(p)) \/ TailnetComesAndGoes \/ UserEdits

Spec == Init /\ [][Next]_vars

-------------------------------------------------------------------------------
(* Properties *)

\* A publication that ends well leaves both files whole, also the profiles that an
\* earlier one, of any machine, was interrupted in.
Success ==
  \A p \in Process : Unlocks(p) => config = index
================================================================================
