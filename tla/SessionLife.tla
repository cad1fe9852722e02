------------------------------ MODULE SessionLife ------------------------------
(***************************************************************************)
(* What retiring a session promises whoever uses it, without saying how:   *)
(* the session stays usable until its removal begins, removal begins when  *)
(* its workspaces are closed, never turns back, takes nothing that holds   *)
(* work found nowhere else, and leaves nothing behind. `--force` is        *)
(* allowed to go past open workspaces and to destroy work, and nothing     *)
(* else. Retirement implements it (retirement.go, retirement_effects.go,   *)
(* herdrownership.go).                                                     *)
(***************************************************************************)
CONSTANTS
  Thing,      \* what a session has: a checkout, a worktree, remotes, a branch
  Workspace   \* the workspaces it may be shown in

VARIABLES
  stage,   \* "active", then "removing", then "retired"
  forced,  \* the user asked for it with --force
  things,  \* what has not been removed
  held,    \* of these, the ones with work that is nowhere else
  open     \* the workspaces that are open

vars == <<stage, forced, things, held, open>>

Init ==
  /\ stage = "active" /\ forced = FALSE
  /\ things = Thing /\ held = {} /\ open = {}

\* The agent and the user work, commit, reset, and make work redundant.
Works ==
  /\ held' \subseteq things
  /\ UNCHANGED <<stage, forced, things, open>>

Opens(w) ==
  /\ stage = "active" /\ open' = open \cup {w}
  /\ UNCHANGED <<stage, forced, things, held>>

\* By the retirement or by the user, whatever the stage.
Closes(w) ==
  /\ open' = open \ {w}
  /\ UNCHANGED <<stage, forced, things, held>>

\* force is settled before the removal begins.
Decides ==
  /\ stage = "active" /\ forced' \in BOOLEAN
  /\ UNCHANGED <<stage, things, held, open>>

BeginsRemoval ==
  /\ stage = "active" /\ (open = {} \/ forced)
  /\ stage' = "removing"
  /\ UNCHANGED <<forced, things, held, open>>

Removes(t) ==
  /\ stage = "removing" /\ (t \notin held \/ forced)
  /\ things' = things \ {t} /\ held' = held \ {t}
  /\ UNCHANGED <<stage, forced, open>>

Retires ==
  /\ stage = "removing" /\ things = {}
  /\ stage' = "retired"
  /\ UNCHANGED <<forced, things, held, open>>

Next ==
  \/ Works \/ Decides \/ BeginsRemoval \/ Retires
  \/ \E w \in Workspace : Opens(w) \/ Closes(w)
  \/ \E t \in Thing : Removes(t)

Spec == Init /\ [][Next]_vars
===============================================================================
