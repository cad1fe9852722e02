------------------------------- MODULE IssueGate -------------------------------
(***************************************************************************)
(* A session's issues (internal/beads, internal/lifecycle/beads.go and     *)
(* issues.go): the database seeded into the session's repository when the  *)
(* session starts, the agent's edits of it, the pulls that bring them      *)
(* home, and the gates that merge, delete and down put before the          *)
(* instance's copy goes. bd on the user's machine may be missing for a     *)
(* while, and any of the calls may fail or be the last of its process.     *)
(***************************************************************************)
EXTENDS Integers, Sequences, FiniteSets

CONSTANTS
  Issue,     \* the issues of the repository
  Old,       \* those that are there before the session
  Process,   \* the processes that run a command
  MaxEdits,  \* bound: edits, of the agent and of the user
  MaxFaults  \* bound: calls that fail, interrupts, and losses of bd

ASSUME IssueAssumption == Old \subseteq Issue /\ {MaxEdits, MaxFaults} \subseteq Nat

VARIABLES
  db,     \* the session's database on the instance: none yet, made, or gone for good
  base,   \* the issues it was seeded with
  log,    \* its commits: [issue, removed, time]
  lost,   \* its history has been rewritten: the start commit resolves no more
  pushed, \* how much of it the session's repository has
  has,    \* how much of it the user's machine has merged
  local,  \* the local database: when each issue of it was last updated
  wired,  \* the session's dolt remote is registered here
  start,  \* the commit the state file has for the session's start, or none
  bd,     \* bd answers on the user's machine
  panes,  \* the session's workspaces are open: the agent works
  lock,   \* the command that has the session to itself
  cmd,    \* the state of each process
  faults

vars == <<db, base, log, lost, pushed, has, local, wired, start, bd, panes, lock, cmd, faults>>
instance == <<db, base, log, lost, pushed>>
machine == <<has, local, wired, start>>

NoStart == -1
\* accept: the user allows a gap; took: the last check needed that.
Idle == [pc |-> "idle", op |-> "none", pin |-> 0, seen |-> 0, final |-> FALSE, gated |-> FALSE,
         accept |-> FALSE, took |-> FALSE, pulls |-> TRUE]
Ops == {"start", "pull", "merge", "delete", "down"}

Init ==
  /\ db = "none" /\ base = {} /\ log = <<>> /\ lost = FALSE /\ pushed = 0
  /\ has = 0 /\ local = [i \in Old |-> 0] /\ wired = FALSE /\ start = NoStart
  /\ bd = TRUE /\ panes = TRUE /\ lock = {} /\ cmd = [p \in Process |-> Idle] /\ faults = 0

At(p, pc) == cmd[p].pc = pc
Goto(p, pc) == cmd' = [cmd EXCEPT ![p].pc = pc] /\ UNCHANGED lock
Ends(p) == cmd' = [cmd EXCEPT ![p] = Idle] /\ lock' = lock \ {p}
Fault == faults < MaxFaults /\ faults' = faults + 1

-------------------------------------------------------------------------------
(* Commands begin; all but pull exclude each other: down has the instance's
   lock to itself, the others share it and have the session's *)

Begins(p, op) ==
  /\ At(p, "idle") /\ panes /\ db # "gone"
  /\ op = "start" => log = <<>>
  /\ IF op = "pull" THEN UNCHANGED lock ELSE lock = {} /\ lock' = {p}
  /\ \E accept \in {FALSE, op = "merge"} :
       cmd' = [cmd EXCEPT ![p] = [Idle EXCEPT !.op = op, !.accept = accept,
                                   !.pc = IF op = "start" THEN "forget" ELSE "check"]]
  /\ UNCHANGED <<instance, machine, bd, panes, faults>>

-------------------------------------------------------------------------------
(* seedBeads: nothing of it fails a session *)

\* Seed drops a stale remote first.
Forgets(p) ==
  /\ At(p, "forget")
  /\ IF bd THEN wired' = FALSE /\ Goto(p, "register") ELSE Ends(p) /\ UNCHANGED wired
  /\ UNCHANGED <<instance, has, local, start, bd, panes, faults>>

Registers(p) ==
  /\ At(p, "register") /\ wired' = TRUE /\ Goto(p, "seed")
  /\ UNCHANGED <<instance, has, local, start, bd, panes, faults>>

Seeds(p) ==
  /\ At(p, "seed") /\ db # "gone" /\ Goto(p, "init")
  /\ base' = IF db = "none" THEN DOMAIN local ELSE base
  /\ UNCHANGED <<db, log, lost, pushed, machine, bd, panes, faults>>

\* bd init on the instance clones what was pushed, unless it has a database.
Inits(p) ==
  /\ At(p, "init") /\ db # "gone" /\ db' = "made" /\ Goto(p, "record")
  /\ UNCHANGED <<base, log, lost, pushed, machine, bd, panes, faults>>

\* Without a database there the remote goes again.
InitFails(p) ==
  /\ At(p, "init") /\ db # "made" /\ wired' = FALSE /\ Ends(p)
  /\ IF db = "none" THEN Fault ELSE UNCHANGED faults
  /\ UNCHANGED <<instance, has, local, start, bd, panes>>

\* A session that cannot record where it starts counts as an old one.
Records(p) ==
  /\ At(p, "record") /\ Ends(p)
  /\ start' = IF wired /\ bd /\ db = "made" THEN Len(log) ELSE start
  /\ UNCHANGED <<instance, has, local, wired, bd, panes, faults>>

-------------------------------------------------------------------------------
(* Bringing the issues home *)

Wired == wired /\ bd

\* Mutant of MustAsk: the test that merge had before sessions kept a record.
OnlyWired(p) == Wired
\* A record is proof enough for merge, whatever bd can say today.
MustAsk(p) == Wired \/ (cmd[p].op = "merge" /\ start # NoStart)

AfterCheck(p) == IF cmd[p].op = "pull" THEN "done"
                 ELSE IF cmd[p].final \/ cmd[p].op = "down" THEN "remove" ELSE "close"

Checks(p) ==
  /\ At(p, "check") /\ UNCHANGED lock
  /\ cmd' = [cmd EXCEPT ![p].gated = MustAsk(p),
                        ![p].seen = IF cmd[p].op = "pull" THEN 0 ELSE Len(log),
                        ![p].pc = IF MustAsk(p) THEN "pin" ELSE AfterCheck(p)]
  /\ UNCHANGED <<instance, machine, bd, panes, faults>>

HasRecord(p) == cmd[p].op = "merge" /\ start # NoStart

\* The instance's commit is read before it is pushed; without a database both fail.
\* A merge with a record and no bd here only compares; only it uses the pin.
Pins(p) ==
  /\ At(p, "pin")
  /\ IF db # "made" THEN Ends(p)
     ELSE /\ cmd' = [cmd EXCEPT ![p].pin = IF HasRecord(p) THEN Len(log) ELSE 0,
                               ![p].pulls = bd,
                               ![p].pc = IF bd \/ ~HasRecord(p) THEN "push" ELSE "verify"]
          /\ UNCHANGED lock
  /\ UNCHANGED <<instance, machine, bd, panes, faults>>

Pushes(p) ==
  /\ At(p, "push") /\ db = "made" /\ pushed' = Len(log) /\ Goto(p, "fetch")
  /\ UNCHANGED <<db, base, log, lost, machine, bd, panes, faults>>

Last(i, n) == CHOOSE k \in 1..n : log[k].issue = i /\ \A l \in k + 1..n : log[l].issue # i
Edited(m, n) == {log[k].issue : k \in m + 1..n}
Later(s, t) == IF s < t THEN t ELSE s

\* bd dolt pull merges what is new: an issue comes, goes or is brought up to date.
Merged ==
  LET new  == Edited(has, pushed)
      kept == (DOMAIN local \ new) \cup {i \in new : ~log[Last(i, pushed)].removed}
  IN  [i \in kept |-> IF i \notin new THEN local[i]
                      ELSE IF i \in DOMAIN local THEN Later(local[i], log[Last(i, pushed)].time)
                      ELSE log[Last(i, pushed)].time]

\* Without a start record nothing is compared, and pull only reports.
Fetches(p) ==
  /\ At(p, "fetch") /\ bd /\ wired
  /\ has' = pushed /\ local' = Merged
  /\ Goto(p, IF HasRecord(p) THEN "verify" ELSE AfterCheck(p))
  /\ UNCHANGED <<instance, wired, start, bd, panes, faults>>

\* SessionChanges: the net effect, so an issue that came and went is none.
Exists(i, n) == IF i \in Edited(0, n) THEN ~log[Last(i, n)].removed ELSE i \in base
Changes(m, n) == {i \in Edited(m, n) : Exists(i, m) \/ Exists(i, n)}

\* CheckSynced: removed ones are gone, the others at least as new.
Landed(i, n) == IF log[Last(i, n)].removed THEN i \notin DOMAIN local
                ELSE i \in DOMAIN local /\ log[Last(i, n)].time <= local[i]

\* gateIssues: a gap and a rewritten history can be accepted, nothing else; without
\* bd, at the pin or now, every answer is unknown, and so a gap.
Verified(p) == /\ ~lost
               /\ \A i \in Changes(start, cmd[p].pin) :
                    cmd[p].pulls /\ bd /\ Landed(i, cmd[p].pin)

Verifies(p) ==
  /\ At(p, "verify")
  /\ IF Verified(p) \/ cmd[p].accept
     THEN cmd' = [cmd EXCEPT ![p].pc = AfterCheck(p), ![p].took = ~Verified(p)] /\ UNCHANGED lock
     ELSE Ends(p)
  /\ UNCHANGED <<instance, machine, bd, panes, faults>>

Done(p) == /\ At(p, "done") /\ Ends(p) /\ UNCHANGED <<instance, machine, bd, panes, faults>>

-------------------------------------------------------------------------------
(* What the gates are for *)

\* Retirement closes the session's workspaces and checks all over again.
Closes(p) ==
  /\ At(p, "close") /\ panes' = FALSE /\ UNCHANGED lock
  /\ cmd' = [cmd EXCEPT ![p].pc = "check", ![p].final = TRUE, ![p].gated = FALSE,
                        ![p].took = FALSE]
  /\ UNCHANGED <<instance, machine, bd, faults>>

\* The repository goes, and the session's dolt remote with it.
Removes(p) ==
  /\ At(p, "remove") /\ Ends(p)
  /\ db' = "gone" /\ wired' = (wired /\ ~bd) /\ panes' = FALSE
  /\ UNCHANGED <<base, log, lost, pushed, has, local, start, bd, faults>>

\* A step that fails or is interrupted: a failed seeding ends seeding, a failed
\* pull pauses the command.
Fails(p) ==
  /\ cmd[p].pc \in {"register", "seed", "record", "pin", "push", "fetch", "verify", "close"}
  /\ Fault \/ (UNCHANGED faults /\ (db = "gone" \/ ~bd \/ ~wired))
  /\ Ends(p)
  /\ UNCHANGED <<instance, machine, bd, panes>>

Reopens ==
  /\ ~panes /\ db # "gone" /\ lock = {} /\ panes' = TRUE
  /\ UNCHANGED <<instance, machine, bd, lock, cmd, faults>>

-------------------------------------------------------------------------------
(* The agent, the user, and bd on this machine *)

Now == 1 + (CHOOSE t \in 0..MaxEdits : /\ \A k \in DOMAIN log : log[k].time <= t
                                       /\ \A i \in DOMAIN local : local[i] <= t
                                       /\ t = 0 \/ (\E k \in DOMAIN log : log[k].time = t)
                                                \/ (\E i \in DOMAIN local : local[i] = t))

\* The agent is started when the session is ready.
AgentEdits ==
  /\ db = "made" /\ panes /\ \A p \in Process : cmd[p].op # "start" /\ Now <= MaxEdits
  /\ \E i \in Issue, removed \in BOOLEAN :
       /\ removed => Exists(i, Len(log))
       /\ log' = Append(log, [issue |-> i, removed |-> removed, time |-> Now])
  /\ UNCHANGED <<db, base, lost, pushed, machine, bd, panes, lock, cmd, faults>>

\* bd compact, flatten or gc.
AgentCompacts ==
  /\ db = "made" /\ panes /\ start # NoStart /\ ~lost /\ Fault /\ lost' = TRUE
  /\ UNCHANGED <<db, base, log, pushed, machine, bd, panes, lock, cmd>>

UserEdits ==
  /\ bd /\ Now <= MaxEdits
  /\ \E i \in DOMAIN local : \/ local' = [local EXCEPT ![i] = Now]
                             \/ local' = [j \in DOMAIN local \ {i} |-> local[j]]
  /\ UNCHANGED <<instance, has, wired, start, bd, panes, lock, cmd, faults>>

BdComesAndGoes ==
  /\ IF bd THEN Fault ELSE UNCHANGED faults
  /\ bd' = ~bd
  /\ UNCHANGED <<instance, machine, panes, lock, cmd>>

Step(p) == \/ \E op \in Ops : Begins(p, op)
           \/ Forgets(p) \/ Registers(p) \/ Seeds(p) \/ Inits(p) \/ InitFails(p) \/ Records(p)
           \/ Checks(p) \/ Pins(p) \/ Pushes(p) \/ Fetches(p) \/ Verifies(p) \/ Done(p)
           \/ Closes(p) \/ Removes(p) \/ Fails(p)

Next == (\E p \in Process : Step(p)) \/ AgentEdits \/ AgentCompacts \/ UserEdits
        \/ BdComesAndGoes \/ Reopens

Spec == Init /\ [][Next]_vars

-------------------------------------------------------------------------------
(* Properties *)

\* A merge of a session with a start record, and any command that found the
\* session wired, removes the repository only when every edit the agent had made
\* by its last check is merged here, or the user accepted the gap.
NoIssueLost ==
  [][\A p \in Process :
       Removes(p) /\ db = "made" /\ (cmd[p].gated \/ (cmd[p].op = "merge" /\ start # NoStart))
         => \/ cmd[p].seen <= has \/ cmd[p].took
            \/ start # NoStart /\ Changes(start, cmd[p].seen) = {}]_vars
================================================================================
