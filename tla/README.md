# bivouac in TLA+

bivouac rents a machine from a cloud provider, provisions it with Nix, and runs
coding agents on it in *sessions*: a clone of the user's repository, seeded onto
the machine, that an agent commits to. The user later pulls, merges (every
commit replayed and signed) or deletes the session, and takes the machine down.
The code is Go and runs on the user's machine, one short-lived process per
command; several commands may run at once and meet in one state file, in file
locks, in the user's git checkout, on the instance, in a provider account, and on
Herdr servers (terminal workspaces).

What makes this hard is that nothing is ever rolled back: a command is a list of
effects on five different systems, each of which may fail, be applied with its
answer lost, or be cut short by a crash, while the agent keeps committing and
the user keeps using the checkout. What one command reads may be out of date when
it acts, since most of these systems know of no lock. The modules here are about
that: when is a record believed, when may something be destroyed on its word, and
does repeating a command always get somewhere.

Contents: [inventory](#inventory), [modules](#modules), [runs](#runs),
[findings](#findings), [proofs](#proofs),
[abstractions and what is left out](#abstractions-and-what-is-left-out),
[how to run](#how-to-run).

## Inventory

Paths are under `src/`. "Modelled by" names the module; `components` in
PROJECT.json says of each what is left out, and `hazards` lists what is hard to
test, line by line.

| Component | State it keeps | Operations | Hard behaviour | What makes it correct | Modelled by |
|---|---|---|---|---|---|
| Session retirement, `internal/lifecycle/retirement*.go`, `internal/state/session_lifecycle.go` | the retirement record: operation, force, phase, accepted evidence, effect journal, attachments, receipts | `session merge`, `session delete [--force]`, and the same again | crash or failure at every step; agent and user work on both ends meanwhile; force raised half-way | work is never removed before it is on the user's branch; journal and receipt are true; repeating ends | Retirement, implementing SessionLife |
| Signed replay, `merge.go`, `replayprogress.go`, `trailers.go` | the progress record of a replay; the destination branch | replay a range, stop on a conflict, resume | conflicts, crashes between pick and record, resets, a session that grows between runs | nothing skipped, nothing accepted unsigned, the user's commits untouched | Replay (Retirement has its outline) |
| Herdr attachment ownership, `herdrownership.go`, `herdrworkspace.go` | attachments of a session: intent, handle, proof, phase; workspaces on the server | attach, recover an intended workspace, refresh the proof, close | a create or close whose answer is lost; a proof that went stale; layout outside the locks | a workspace is closed only when shown to be ours; closed before removal; one per session | Retirement, Sidebar |
| Herdr machines, `herdrprofile.go`, `herdrattach.go` | the catalog of the user's Herdr client, the id on record | save, enable, find again, forget | a catalog without a lock that the user edits | down forgets the machine it recorded and no other | Sidebar |
| Tabs and layout, `herdrtabs.go` | tabs and panes of a workspace | lay out what the configuration asks for | the user changes the workspace meanwhile; calls fail one by one | what is not reported as failed is there | Layout |
| Instance up and down, `lifecycle.go`, `up_plan.go`, `down.go` | the instance record, the SSH profile; machines at the provider | `up`, `down [--force]` | create or destroy that fails half-way; sessions that start meanwhile | a billed machine is on record; down destroys only what it rescued | Instance; Cloud and GCloud have what up asks of the provider |
| State store and locks, `internal/state/{state,locking,atomic}.go` | `state.json`; instance and session locks | Get, Put, Update, Delete, CompleteRetirement, LockInstance, LockSession | two processes at once | no change undone by another command's; a lock order without deadlock; locks freed by a crash | Store (the file), Instance (the other locks) |
| Session start, rescue and pull, `start.go`, `rescue.go`, `pull.go`, `cmd/run_session.go` | the repository on the instance, the remote, the local branch and worktree | `session start`, `session pull` | a start that dies between any two commands; a pull of what is half made | no work is lost, none invented, pull brings home what it found | Seeding (Instance has the locks around them) |
| Issues gate, `beads.go`, `issues.go`, `internal/beads` | an issue database on each side, the commit a session started at | seed, pull, gate before removal | each side knows issues the other does not; bd is missing for a while | no issue is lost with the session | IssueGate |
| Reconcile and detached runs, `internal/reconcile` | a systemd unit on the instance, a read cursor, credentials in tmpfs | ship, start or attach, follow, reconnect, place credentials | a connection that dies, a reboot, two provisions at once | success is the unit's; output neither lost nor repeated | Provision |
| Images and retention, `internal/image`, `cmd/image*.go` | images at the provider and their tags | build, resolve, prune, tag | concurrent builds; a stale plan; pages that shift while they are read | too few newer images never remain | Cloud, GCloud |
| Key plan, `internal/keyplan`, `internal/sshkeys` | keys registered at the provider | plan, register | a competing creator; files that change after the plan | the machine admits what was approved | Cloud |
| Providers, `internal/provider` | machines, images, keys (external) | create, wait, destroy, lists, labels | operations that take a while; a wait that fails after the machine exists | up and down can tell what happened | Account, Cloud, GCloud |
| SSH profiles, `internal/sshidentity`, `transport.go` | an index, a rendered ssh config, the user's include, the preferred address | Check, Upsert, Remove, which address a transfer takes | a crash between two files; addresses that come and go | after a success both files are whole | Access |
| Connect, serve and tailscale, `connect.go`, `serve.go`, `listeners.go`, `tailscale.go` | served ports on the instance, an auth key | connect, serve, unserve, join | ports that are taken between the look and the use | the address printed is ours | Serving |
| Configuration, presets, wizard, `internal/{config,preset,wizard}`, `cmd/init*.go` | base.pkl, a bivouac.pkl per project, presets | init, up's questions, preset edit, delete | an interrupt between two writes; what nobody was asked about | what is moved out of one file is in the other | Setup |
| Agent context, `internal/agentcontext` | a managed block in the agents' instruction files | render, splice, write | several writers, writes cut short, lines of others | the block a reader finds is the one written | AgentContext |
| Session information, provisioning templates, secrets and helpers, test environment | none | reads, rendering, wrappers | - | - | - |

How they interact. Every command looks the instance's record up, takes its locks
(`session` commands share the instance and have their session to themselves;
`down` has the instance to itself; `up`, `provision` and `pull` take none), reads
the record again, and does its work through `internal/lifecycle`. State is
written by `Store.Put`, `Update` and `Delete`, which read the file, change one
record and save all of it again under a lock of the file's own. `Store` shows that
no command undoes another's change that way; the other modules rest on it and take
each of these as one step. A record is not written by the holder of its locks
alone: `up`, `provision` and the late refresh of a workspace's proof hold
none. The instance is reached over ssh, the provider over HTTP, Herdr through its CLI; none of the three knows of the locks. `attach` releases
its locks before it lays out tabs, so that its last write races everything.

## Modules

| Module | What it is |
|---|---|
| `SessionLife` | what retiring a session promises: six kinds of step on the session's things, work and workspaces |
| `Retirement` | one session's retirement, with attach, the agent and the user around it; implements `SessionLife` |
| `Replay` | the signed replay and its progress record, in the detail Retirement leaves out |
| `Instance` | the commands on one instance as processes: up, down, start, retire; locks, provider, profile |
| `Store` | the file instances are recorded in, under the commands that each save all of it |
| `Provision` | provisions of one instance as processes, the unit they start or follow, the credentials |
| `Account` | a DigitalOcean account behind its API: droplets, images, keys, pages |
| `Cloud` | image build, prune, tag, key registration and `up` on one `Account` |
| `GCloud` | machines by name, operations and labels on Google Cloud or its fake |
| `Seeding` | session start and pull, command by command |
| `IssueGate` | a session's issues and the gates before they go |
| `AgentContext` | the managed block of an instructions file |
| `Access` | the record's connection and the OpenSSH profile made from it |
| `Layout` | laying out one workspace's tabs and panes |
| `Setup` | base.pkl, bivouac.pkl, a preset and the commands that write them |
| `Serving` | connect, serve, unserve and the join of a tailnet |
| `Sidebar` | the catalog of Herdr machines and the workspaces of an instance |
| `RetirementProofs`, `RetirementClosureProofs` | theorems about `Retirement`: types, evidence and order; attachments, journal, receipt and the refinement |
| `InstanceProofs`, `ReplayProofs` | theorems about `Instance` and about `Replay` |
| `ProvisionProofs`, `CloudProofs` | the inductive invariants of `Provision` and of `Cloud`, each of its own specification |
| `MachinesProofs` | theorems about `MCMachines`: what the two say there, and what holds of `GCloud` and `Store` |
| `SessionsProofs` | theorems about `MCSessions`, with an inductive invariant for each of its eight parts |
| `MCRetirement`, `MCReplay`, `MCInstance` | the sets and symmetry the runs of these modules use |
| `MCMachines`, `MCSessions`, `MCLive` | runs of several independent modules at once |

The last three put modules that share no state side by side. Their initial state
picks one `part`, and only that part moves; the others stay where they start. So
a behaviour is one of exactly one part, and a run checks every part in its full
state space, one after the other rather than multiplied. `MCMachines` has
`Instance`, `Store`, `Provision`, `Cloud` and `GCloud`; `MCSessions` has `IssueGate`,
`Seeding`, `AgentContext`, `Layout`, `Access`, `Setup`, `Serving` and `Sidebar`;
`MCLive` has `Retirement`, `Instance` and `Provision` under their fairness. The
variables `v1` ... `v14` are those of whichever part was picked.

### Retirement

One program counter `pc` stands for the one command that holds the session's
exclusive lock (retire, attach, pull); everybody who needs no lock (agent, user,
layout of an attach) moves between any two of its steps.

| State | Code |
|---|---|
| `live`, `op`, `force`, `phase`, `failure`, `accepted`, `fx`, `herdrFx` | `state.Session.Retirement` and, once `~live`, the receipt (`session_lifecycle.go:94-152`) |
| `att`, `ws`, `pane`, `stray` | `state.HerdrAttachment`; the workspace on the server, whether the recorded proof still matches it, and one no record names |
| `slipped` | no state of the code: an attach has died between naming its workspace and recording it as active |
| `tip`, `dirty`, `made` | the session branch on the instance, uncommitted work there |
| `head`, `picking`, `stopped` | HEAD of the destination checkout, an open cherry-pick, the replay journal |
| `branch`, `wtDirty` | the local session branch and worktree |
| `present` | which of the six things cleanup removes still exist |
| `ref`, `skip`, `closed`, `k`, `failed` | locals of `RetireSession` and the checks |

| Actions | Code |
|---|---|
| `BeginIntent`, `BeginRaise`, `BeginResume` | `RetireSession` up to the stored intent |
| `Rescue`, `StartReplay`, `Pick`, `AcceptMerge`, `AcceptDelete`, `AcceptDiscard`, `CheckRefuses` | `checkMerge`, `checkDelete`; acceptance and the phase move are one `Store.Update` |
| `IntendClose` ... `FinishClosing` | the closing loop with `CloseSessionAttachment`; `CloseRefusedByStore` is the store's own validation |
| `Validate` ... `CompleteRetirement` | `retirement_effects.go`, one effect = intent, application, done; then the receipt |
| `PickConflicts`, `CheckFails`, `CloseFails`, `ApplyFails`, `Crash` | every error return; close and removal may have happened with the answer lost |
| `AttachNew` ... `RefreshWorkspaceProof` | `EnsureSessionAttachment`; layout and the proof's refresh after the lock is gone |
| `Agent*`, `User*`, `Pull` | the surroundings |

A workspace is found again by the label its intent gave it, until it is marked
active. An attach that dies after it gave the workspace the session's name and
before it marks it makes the next attach create a second one over its handle; the
first is `stray` from then on, open and on no record, and a retirement removes
everything with it open (run `StrayWorkspace`). `ClosedBeforeRemoval` and
`ReceiptComplete` are about every workspace of the session, `stray` included, and
except it only when this has happened: `AllClosed` asks that no attachment's
workspace is open, and that there is no stray one unless `slipped`.

### SessionLife

The abstract specification has no commands, phases or journals: a session is
active, being removed, or retired; it has things, of which some hold work that is
nowhere else, and open workspaces. Removal begins only with every workspace
closed, takes nothing that holds work, and retirement comes when nothing is left;
a user who forces it may go past open workspaces and destroy work. Nothing that
has begun to be removed becomes active again, and no workspace is opened then.

`Retirement` instantiates it at its end (`Life`). The mapping is the reading of
the record: `stage` from the phase and the receipt, `forced` is `force`, `things`
what is `present`, `held` the instance's checkout while its work is not all on
the destination and the session worktree while it has changes, `open` the
attachments whose workspace is not absent (so a stray one is no part of the
promise). The local session branch never holds
work in this sense: merge deletes it without looking at it. `KeepsItsPromise` is
`Life!Spec`, checked by `RetirementClose` and proved in
`RetirementClosureProofs`.

### Replay

A destination commit is the sequence of entries leading to it, so git's
`base..head` and "is an ancestor" are prefix questions, and amending or resetting
makes another commit. `rec` is the progress record (`replayProgress`), `ResumeAt`
is `resumeAt` with its three ways of starting over, `Resign`/`SaveResigned`,
`Pick`/`CleanMessage`/`SaveProgress` and `PickConflicts`/`SaveStop` are the
pairs of git call and record write of `replaySignedRange`, each with a crash
between them. `lost` and `raced` are history variables: `lost` says that a
hand-resolved conflict is not in the record (a crash kept it out, or a run
started over past it), `raced` that the user committed to the destination while a
merge was running. A third, `passed`, has the commits a run took for resolved
although the user had aborted their cherry-pick and committed something else
(`Abandoned`): `resumeAt` sees a HEAD that moved, skips the commit it had stopped
on, and amends the user's as its resolution (`replayprogress.go:205-211`). The
properties exclude exactly these. Signatures and the user's commits: after `lost` a
commit the user resolved may conflict again and what stands in its place may be
amended; under `raced` a commit made between reading HEAD and amending is amended.
The user's commits, too: the one made over an aborted pick. `NothingSkipped`: a
commit in `passed`. What `lost` costs is shown by the run `UnsignedMerge`, what
`passed` costs by `AbortedPick`.

### Instance

Each process is a command: `at[p]` holds its step and what it has read. `up`
checks that there is no record, asks the provider, puts the record, installs the
profile. `down` looks the record up, waits to be alone, reads again, rescues each
session, destroys, removes the profile, deletes the record. `session start` and
the retirement (in outline: intent, check, removal, completion; `Retirement` has
it in full) share the instance lock and then take the session lock. `work[v]`
are the sessions with work on machine `v` that is nowhere else.

`told` and `lost` are history variables for machines that no record names. The
user was told to destroy a machine by hand (`told`) when neither its record could
be written nor the machine be destroyed. A machine is `lost` in the known ways:
the provider made it and the wait for it failed (run `InvisibleMachine`); `up`
died between creation and record; or, because `up` takes no lock, its `Put`
replaced the record another `up` wrote meanwhile, or a `down` that began on the
previous machine deleted, by name, the record of the new one. `MachineTracked`
says that there is no other way: a `down` whose destroy fails, with or without
its answer, keeps the record.

### Store

`file` is state.json: for every instance the changes its record shows. `Takes`,
`Reads` and `Saves` are the three things `Get`, `Put`, `Update` and `Delete` of
`state.go` do, each a step of its own, with the copy a command has read in `at`;
`Refuses` is a record that is not there or a change that does not validate, `Fails` a
crash or an error before the rename that replaces the file. A failed sync of the
directory comes after it: the caller is told of an error and the change is there,
which is a `Saves` here. `Undisturbed` says that a record changes only by a command
on its instance and that an update keeps all that the record shows by then, which
needs the command's read to be the last before its save.

### Provision

A run is a process: `at[p]` has its step, the version of the configuration it
resolved, the invocation it follows, its cursor and what it has shown. The unit
is what `systemctl show` would say of it; `journal` is one sequence of lines, each
of an invocation, so that the filter and the cursor of `drain` are what they are in
the code. `Begins` and the steps of "Reconcile up to the switch" are
`reconcile.go` and `ship`; `RunStreaming` the switch inside the session
(`inside`); `ensureStarted`, `status`, `drain` the unit, each answer of which may be
lost (`LosesStart`: the start took, or did not); the last section places the
credentials (`dolt.go`, `github.go`). `UnitRuns`, `UnitWrites`, `UnitFails`,
`Reboot`, `UserEdits` are the surroundings. `Stopping` says which switch a run
may cut off: one that another run started between its look and its stop.

### Account, Cloud, GCloud

`Account` has the requests of the API, one step each: pages that are computed
when they are asked for (so that a listing in several requests may miss what moved
meanwhile), snapshots that are pending for some reads, keys. `Cloud` has the
commands on top, each with the copies it works from: `build` (droplet, snapshot,
tags, verification, retention), `prune` (list, plan, confirm, re-read each
candidate, delete), `tagger`, `setup` (registering a selected key) and `up`
(resolve, plan, approve, register, create). `cast` keeps the two halves, which
meet in `up` only, from being multiplied: either images change or keys do.
`touched` marks images edited or removed by hand, for which retention makes no
promise. `GCloud` has the other provider where it differs: a machine is its name,
a request begins an operation in `pending` that ends later, labels are changed
under a fingerprint. `strict` chooses between the service and the fake of the
tests, so what holds holds of both.

### Seeding

`repo` is the session's repository on the instance, `mirror` the remote, its
ref, the worktree and the branch in the user's repository. A start goes through
`start.go` command by command, may die between any two, and is repeated with the
same base; a pull is `RescueSession` and the fast-forward of the worktree, takes
no lock and may run into a start. `repo.invented` becomes true when a commit is
made there before git knows an author.

### IssueGate

`log` is the history of the session's database; `pushed` and `has` are how much
of it the session's repository and the user's machine have. The commands are
those of `internal/lifecycle/beads.go` and `issues.go` around
`internal/beads`: seeding with its three outcomes, the start commit, `pullBeads`,
`verifyIssues` and `gateIssues` of merge, `requireBeadsLanded` of delete and
down. `cmd[p].seen` is what the last check had seen; the agent edits between any
two steps until its workspaces are closed.

### AgentContext

The file is a sequence of lines, two of which are the markers; `Render`, `Splice`
and `lineIndex` are operators on such sequences, translated from the code, and
`Delivery` compares what a reader finds with what the writer rendered. A write may
be cut short anywhere (`WritesPart`), two writers may work from the same read, and
a person adds lines, markers quoted in them too.

### Access, Serving

`Access` has the record's connection, the index, the rendered file and the
include, with the profile lock around `Upsert` and `Remove` only. Every command
that publishes a connection is there: up, provision, the join of a tailnet, a
transfer that learns which address answers, down. `Serving` has what each command
chose and when: `connect` picks a listener, looks for a free local port and runs
ssh, which fails if the port is taken by then; `serve`, `unserve` and the join
likewise. Services, the tailnet and local ports change between any two steps.

### Layout, Sidebar

`Layout` is `LayOutTabs` call by call, from listings (`seenTabs`, `seenPanes`)
that age while it works; each call may fail, and then the tab is `missed` and the
next one begins. `Sidebar` is everything before it: the catalog of machines
(`EnsureMachine`: list, enable, add, read back), the record of the id, the
attachment and its workspace (`ensureWorkspaceAttachment` with its recovery), and
`forgetHerdrMachines` of down, from several terminals.

### Setup

A file is the set of fields it declares with their values, or nothing; a command
holds the values it has read and collected while it asks. `Moves`, `Settles`,
`WritesBase`, `AsksProject`, `WritesProject`, `ReadsBack` are init's flow;
`Ensures` and `ChoosesKeys` up's; the preset's commands follow. `Interrupted` may
come at any question.

## Runs

All bounds are constants of the modules and appear as guards: commits, faults
(crashes, failed calls, conflicts), moves of the destination by hand, attachments,
machines, starts, commands, edits. Deadlock is not checked in any run because
these bounds let every actor stop.

| Run | Bounds | Checks | Shows |
|---|---|---|---|
| `RetirementWork` | 3 commits, 2 faults, 1 move, no attachment, all operations; 4.8 M states | `AcceptanceSound`, `CheckoutKeepsWork`, `IntentImmutable` | evidence is true when taken and no plain retirement removes work that is not on the user's branch, through conflicts, late and rewritten work |
| `RetirementClose` | 1 commit, 2 attachments, 2 faults; 1.9 M | `TypeOK`, `JournalTruthful`, `ClosedBeforeRemoval`, `ReceiptComplete`, `RemovalIsFinal`, `KeepsItsPromise` | the effect journal never lies and workspaces are closed before anything is removed (but for a `stray` one of an attach that `slipped`), with attach and its late proof racing; the whole implements `SessionLife` |
| `ReplayProgress` | 3 commits, 3 faults, 2 moves; 4.7 M | `TypeOK`, `NothingSkipped`, `SignedWhileTracked`, `ResolvedOnce`, `OwnCommitsKept` | the progress record carries a replay across conflicts and crashes |
| `Machines` | see below; 1.2 M | of `Instance`: `TypeOK`, `WorkIsOnRecord`, `MachineTracked`, `DownRescuesAll`; of `Store`: `NoChangeUndone`; of `Provision`: `OutputExact`, `SuccessIsReal`, `CredentialsComplete`, `StopsNoOldSwitch`; of `Cloud`: `MachineIsApproved`, `NewestStay`; of `GCloud`: `ClearedIsGone` | an instance's machine, from the account to the last line of its provisioning |
| `Sessions` | see below; 1.4 M | `NoInventedAuthor`, `WorkIsKept`, `PullIsComplete`; `NoIssueLost`; `Delivered`; `LaidOut`; `SuccessIsWhole`; `MovedIsKept`; `ForwardIsOurs`; `OneWorkspace` | a session's surroundings, part by part in the order of `MCSessions` |
| `Liveness` | the smallest in which each can fail, fair | `MergeRetires`, `ForceRetires`, `CommandsEnd`, `FollowingEnds` | a repeated retirement ends in a receipt or in a named state it cannot leave; no lock is waited for for ever; following a switch ends |
| `LateConflict`, `HandlelessClose`, `AbortedPick`, `UnsignedMerge`, `InvisibleMachine`, `StrayWorkspace` | the smallest that show it, or those of the passing run | one property each, violated | see findings |

Why the bounds are enough to see the interesting cases. Three commits give one
accepted before, one that conflicts and one that comes late or replaces another;
two faults give a conflict and a crash, or a lost answer and a crash during the
repair. Two attachments are the closed one and the one created over it after a
pause. In `Replay` three faults let a resumed replay fail and conflict again, two
moves a reset followed by a commit.

In `Machines`: three processes are a down, a session command and an up; four
commands are an up, two starts and a down, or an instance that is taken down and
made again under a session; two machines are the one replaced and the other. In `Store`
three commands are two that write and one that reads, on two records; four changes are a
record made, changed, deleted and made again, and one fault is a command that dies while
another waits. Two provisions and two
invocations are one that runs and one that another run starts over it, and two
lines of each are one that is read before the other; three
versions are one that is rendered, one that needs the agent, one with another
shell. Three images in pages of two, with none kept but the newest, make a listing
take two requests and a prune stale by one build; two keys make one approved and
one not. Two labels are two tags that race for one image.

In `Sessions`: two processes everywhere except in `Setup`, where one terminal runs
two commands, one after the other. In `Setup` and `Layout` commands do not
overlap (`Overlap`): neither takes a lock, and two at once undo each other's work
(two attaches with different layouts take each other's tab, two inits write over
each other), which the constant set to TRUE lets TLC show. Two of the layouts' tabs
share their panes' labels (`TabA`, `TabC`), so that a pane of an earlier layout can be
taken for one of a later. One fault is enough where a repeat follows it: a start dies and is repeated while a pull runs.

Every property has a mutant of the code that TLC finds within these bounds
(`mutants` in PROJECT.json): the runs reach what they are meant to.

Fairness. `Retirement!Fairness`: a started command goes on until it ends (weak);
the user repeats the pending command again and again (strong, because other
commands take the lock in between), finishes or aborts an open cherry-pick, deals
with a dirty worktree, and closes a workspace that could not be shown to be ours:
each is what the refusal message asks for. There is no fairness on faults, agent
or attach's beginning. `Instance!Fairness`: a process that can go on does (weak);
locks are polled (`locking.go:52`), and weak fairness is enough for them because
the number of commands is bounded, so that a lock is not taken by others for ever.
With unbounded commands a `down` can wait for ever behind overlapping session
commands; the polling code promises nothing else. `Provision!Fairness`: the unit's
switch ends, one way or the other, and a run that can go on does; nothing is asked
of the connection, whose losses are bounded.

`Stuck` in `Retirement` names what repeating a merge cannot leave, and
`MergeRetires` says there is nothing else: an attachment with no handle
(`HandleMissing`), a destination that moved off the accepted head, a session
branch rewritten below the accepted tip, and work that reached the instance after
the final check (`LateForRemoval`: removal never checks again, the user has to
turn to `delete --force` or undo the work). `HandleMissing` is the only one that
`--force` cannot get past either. `FollowingEnds` has one exception as well: a
unit that is gone while it is followed (a reboot after the first look) is neither
exited nor failed, and the loop polls on.

## Findings

1. `HandlelessClose`: an attach that dies between recording its intent and the
   handle leaves an attachment that a later retirement cannot mark closed (the
   store refuses a closed attachment with no handle), so the retirement stays in
   `closing` for good, against `docs/architecture.md:424-425`.
2. `LateConflict`: a conflict among commits made after the first acceptance,
   resolved as the message says, moves HEAD past the accepted head, and every
   later merge refuses.
3. `AbortedPick`: `git cherry-pick --abort` followed by any commit of the user's
   own passes for the resolution; the commit that was stopped on is dropped and
   the instance's checkout removed with it. The theorems about work are therefore
   proved for a user who does not do that (`~DropsStopped`).
4. `UnsignedMerge`: a hand-finished commit is never signed if the session grows
   before the next merge, since the replay then starts over from the new HEAD.
5. `InvisibleMachine`: the provider makes the machine, the wait for it fails, and
   `up` records nothing.
6. `StrayWorkspace`: an attach that dies between renaming its workspace
   (`herdrownership.go:206-212`) and marking it active (213-216) is not recovered: the
   next one creates another, and the first stays open on no record.
   `EnsureSessionAttachment` "creates or recovers the owned workspace" (66-67).

`findings` in PROJECT.json quotes the lines. Other places where a comment says
more than the code does, met while modelling; the models have the code's
behaviour, and no run is kept for them:

- `herdrtabs.go:242-243` and `docs/config.md:342-344`: only a workspace this attach made
  is `fresh`, since tab 1 of another may be the one the user works in;
  `cmd/run_attach.go:151` passes TRUE always. So a tab that an earlier attach left passes
  for pristine when it is the only one, has one pane, and no configured tab has its
  label. It is renamed, and a command typed into whatever runs there: the shell of a user
  whose first attach had no tabs configured, too. If an earlier attach had laid that tab
  out, its pane is renamed, the listing still has the old name, and a configured pane of
  that name counts as there: it is neither made nor reported. `LaidOut` excepts an attach
  that did this (`Renames`). Without the exception TLC finds the missing pane: `TabC` cut
  short after its first pane, then `TabA`.
- `config/read.go:10-12` and `write_test.go:175-178`: what is read is what is declared,
  and survives a rewrite. `KnownField` accepts `provider`, `digitalocean`, `gcloud`,
  `shell` and `herdrTabs`, which `fieldValue` and `fieldOrder` do not know, so `init`
  reads a bivouac.pkl that declares one and writes it back without. `MovedIsKept`
  excepts it (`provider` stands for the five).
- `provider.go:132`: Destroy returns ErrNotFound for a machine that is gone;
  Google Cloud's (`gcloud.go:203-217`) returns the service's error instead, so
  that `down.go:99` never gets past it.
- `down.go:165-166`: down removes "every saved machine this instance's sessions
  registered"; of two profiles that two attaches saved at once, it knows one.
- `transport.go` (`rememberPreferredHost`): "changed selected instance" is told by
  the alias, which a new machine under the old name has too; an address learned
  of the old machine is then written to the record of the new.
- `beads.go:238`: delete and down treat an unknown as unsafe; a session whose
  remote registration is gone passes as one that never had issues.
- `beads.go:92-94`: a failed setup becomes "a known nothing"; when the removal of
  the remote fails too, it does not.
- `image/resolve.go:28-30`: the newest eligible image is picked from a listing of
  several requests; an image that moves between pages is missed.
- `docs/superpowers/specs/2026-10-18-detached-provision-design.md:52-53`: a unit
  that vanished "is an error"; it is one only right after the start (see
  `FollowingEnds`).
- `cmd/init.go:199-201` and the question itself (229): "Resolves to the same config
  either way". The values that are moved replace those of base.pkl (267), lists too: with
  k2 in base.pkl and k1 in the project it resolves to both before and to k1 after.
  `MovedIsKept` says what does hold, that the project's value is in base.pkl, for keys as
  for a size; every other project loses what was there.

## Proofs

Proved for every value of the constants (commits, attachments, faults, moves,
operations; processes, sessions, machines, commands; runs, invocations, lines,
credentials; builds, images, kept builds, pages, key files; tags, operations; issues,
edits, instructions, layouts, ports, project files and answers):

| Theorem | States | Assumes |
|---|---|---|
| `TypeCorrect` | `Spec => []TypeOK` of `Retirement` | |
| `AcceptanceIsSound` | `Spec => []AcceptanceSound` | `~DropsStopped` |
| `CheckoutIsSafe` | `Spec => CheckoutKeepsWork` | `~DropsStopped` |
| `RemovalStaysFinal` | `Spec => []RemovalIsFinal` | |
| `IntentIsImmutable` | `Spec => IntentImmutable` | |
| `JournalIsTruthful` | `Spec => []JournalTruthful` | |
| `ClosedFirst` | `Spec => []ClosedBeforeRemoval` | |
| `ReceiptIsComplete` | `Spec => []ReceiptComplete` | |
| `RetirementIsSessionLife` | `Spec => KeepsItsPromise` (that is, `Life!Spec`) | `~DropsStopped` |
| `LocksAreHeld` | `Spec => []TypeOK` of `Instance` | |
| `WorkStaysOnRecord` | `Spec => []WorkIsOnRecord` | |
| `BilledIsTracked` | `Spec => []MachineTracked` | |
| `DestroysOnlyRescued` | `Spec => DownRescuesAll` | |
| `ReplayTypes` | `Spec => []TypeOK` of `Replay` | |
| `AcceptanceIsWhole` | `Spec => []NothingSkipped` | |
| `AcceptedWhileTracked` | `Spec => []SignedWhileTracked` | |
| `ConflictsMetOnce` | `Spec => ResolvedOnce` | |
| `UsersCommitsStay` | `Spec => OwnCommitsKept` | |
| `ProvisionInvariant` | `Spec => []PInv` of `Provision` | |
| `ChangesAreKept` | `MachinesSpec => NoChangeUndone` | |
| `OutputIsExact` | `MachinesSpec => []OutputExact` | |
| `SuccessesAreReal` | `MachinesSpec => []SuccessIsReal` | |
| `CredentialsAreComplete` | `MachinesSpec => []CredentialsComplete` | |
| `StopsOnlyNewer` | `MachinesSpec => StopsNoOldSwitch` | |
| `CloudInvariant` | `Spec => []CInv` of `Cloud` | |
| `MachinesAreApproved` | `MachinesSpec => []MachineIsApproved` | |
| `TheNewestStay` | `MachinesSpec => NewestStay` | |
| `ClearedIsGoneAlways` | `MachinesSpec => []ClearedIsGone` | |
| `NobodyIsInvented` | `SessionsSpec => []NoInventedAuthor` | |
| `WorkStays` | `SessionsSpec => WorkIsKept` | |
| `PullsAreComplete` | `SessionsSpec => PullIsComplete` | |
| `NoIssueIsLost` | `SessionsSpec => NoIssueLost` | |
| `BlocksAreDelivered` | `SessionsSpec => Delivered` | |
| `TabsAreLaidOut` | `SessionsSpec => LaidOut` | one attach after the other |
| `PublicationsAreWhole` | `SessionsSpec => SuccessIsWhole` | |
| `MovedSettingsAreKept` | `SessionsSpec => MovedIsKept` | one terminal |
| `ForwardsAreOurs` | `SessionsSpec => []ForwardIsOurs` | |
| `WorkspacesAreSingle` | `SessionsSpec => []OneWorkspace` | |

These are all the safety properties the passing runs check. The constants'
assumptions are those the modules state, which the runs evaluate. Four of them say
more than that a bound is a number: of `Serving`, that no process goes by the name of
a free port or of the user; of `AgentContext`, that instructions are sequences of
lines; of `Setup`, that a project's file that is not there declares nothing, and one
that is declares only fields of `Config.pkl`, which it amends; of `Layout`, that tabs
and panes have labels (`Config.pkl:118-133`) and none twice (`herdrtabs.go:212-217`
and `364-369` skip one that is repeated). "One after the other" and "one terminal" are
what `MCSessions` instantiates (`Overlap <- FALSE`, `Process <- {Terminal}`): without
it both properties are false.

`~DropsStopped` is not a convenience: run `AbortedPick` has
`DropsStopped = TRUE` and TLC violates `CheckoutKeepsWork` there.

Some properties carry their exceptions in themselves, and so do the theorems.
`AcceptanceIsWhole` excepts commits of an aborted pick that was committed over
(`passed`); `UsersCommitsStay` the commit made over one, and both it and
`AcceptedWhileTracked` what is `lost` or `raced`. `ClosedFirst`, `ReceiptIsComplete`
and `WorkspacesAreSingle` except the workspace of an attach that died between naming and marking it (`slipped`).
`BilledIsTracked` excepts machines that are `lost` in the ways the model names.

`RetirementProofs`. `TypeOK` is not inductive: the closing loop and attach index
by `k`, so `TypeInv` adds `LoopOK`, which range `k` has at each step.
`AcceptanceSound` is not either. The evidence in an acceptance is used long after
it was taken, and what keeps it true is a chain of facts about the running command
(`AcceptedOK`): a discard names no tip; once the replay has started, the
previously accepted tip is still on HEAD, because `PriorHolds` compared it and
from there HEAD only gains commits (the user resets only between commands); the
same from the comparison in `Validate` to the last effect; and removal is never
entered without evidence. `JournalOK` adds what makes the replay's shortcut
right: the commit it takes to be resolved by hand is on the destination, because
a journal that says "moved" speaks of a commit that has landed, which is where
`~DropsStopped` is needed. `Evidence` is the conjunction;
`EvidenceStep` has one step per group of actions, and the lemmas `AcceptedKept`,
`EvidenceKept`, `EvidenceAdded` say once what an action that leaves the evidence
alone, or adds to it, preserves. `CheckoutIsSafe` then needs only that the
checkout is removed by `ApplyEffect` or `ApplyFails`, that the instance compared
the tip with the accepted one and looked for uncommitted work in the same
command, and `AcceptedOK`.

`Order` is the second invariant. None of the order properties is inductive,
because a step says nothing of the phase it runs in: `PhaseOfStep` ties each
step of a retirement to its phase, `Fresh` says that a record without intent has
neither evidence nor effects (so that replacing an intent is the same as making
the first), and `Removing` that removal has evidence and is left only by the
receipt. `RemovalIsFinal` and `IntentImmutable` follow.

`RetirementClosureProofs`. `Closure`, on top of `Order`, is about attachments. A
closed attachment may come back to active when an attach that laid out tabs
without the lock writes its proof late, so "closed" cannot be what the argument
rests on; it rests on the workspace: every workspace that is open has an
attachment the loop will still look at, or was left open by force, on evidence
(`Attachments`); below the loop's counter, and everywhere once it has ended,
workspaces are shut, whatever their records say by then (`Closed`); and what the
journal calls done is gone (`Journal`). `Strays` says how a workspace can come to be on
no record at all: an attach makes one only where its recovery found none of its label,
and it finds the one its attachment has unless that was named and not marked.
"On evidence" matters: only a record
without evidence may be replaced by one without force. The closing loop's
invariant also shows why a command that began with no attachment open may skip it.

The refinement, in the same module. Each action of `Retirement` is one action of `SessionLife`
or leaves its five variables alone. What is needed of the state for that is what
the three invariants above say: no workspace is opened while things are removed
(`Order`), none is open when removal begins (`Closure`), and the checkout that is
removed holds no work (`Evidence`), so the refinement says at once, and in the
words of the promise, what the single theorems say one by one.

`InstanceProofs`. The inductive invariant `IInv` is `TypeOK`, which has who holds
which lock; `Named`, that a command has the session and the machine its step
speaks of; `Machines`, what may be on a machine at all; `PutAlone`, that two
commands do not record one machine; `MachineTracked`; and `Holding(p)` for every
process, what the command in progress may rely on: a start, that its session is on
record while it seeds; a retirement, that its record is there until it completes
it; a down, that whatever is on its machine is rescued or still to be. No single
property is inductive without `Holding`, since each rests on what a command read
several steps ago, and it is the locks (`TypeOK`) that keep others from making that
untrue. `up`, which has no lock, is why `Machines` speaks of machines that are
not recorded yet.

`ReplayProofs`. Nothing here is an induction over sequences: a destination is the
sequence of entries that leads to it, and what is needed of it is which prefix a
record or an anchor names, and whether a commit is in it. `IInv` is `TypeOK` with
four parts. `Progresses`, for `NothingSkipped`: a commit has one number for ever
(`Numbered`), and after a reset what is made is younger than what it took, so that
a record never names by accident a commit that took its place (`Aged`); everything
before the commit a record calls done is on the branch it names (`RecordMeans`),
which is among the commits to replay (`RecordPlace`); a branch that has moved past
a recorded stop has that commit or was committed to over an aborted pick
(`StopPassed`, `Abandoned`); and a run has on the branch whatever it has behind it
(`Running`), but for what it took for resolved that way (`Reached`, `PassedStays`).
`Signing`, for `SignedWhileTracked`: of what a
run made only a commit resolved by hand is unsigned, and no anchor has one of
those. `HandsDone`, for `ResolvedOnce`: while no conflict is lost, what was
resolved by hand is behind the record and never ahead of a run. `Amends`, for
`OwnCommitsKept`: the commit that is amended is one of the replay's. A crash may
come between each git call and the write that records it, which is why these speak
of the branch and of the record, and never take the one for the other.

`ProvisionProofs`. `PInv` is `Types`, `UnitShown`, `CredentialsComplete` and
`Follow` for every run. `Shown` says that what a run has shown are the lines of
the invocation it follows, in order, up to its cursor, whatever the journal has of
others in between: `InOrder` picks a set of places of the journal in order, and its lemmas
(`InOrderEmpty`, `InOrderSeq`, `InOrderJoins`, `InOrderLast`) say that what is read
in pieces is what would be read at once. `EndSeen`, that a run about to report
success has seen an end that the unit had. `StopsSeen`, which switch a stop may
cut off. A lost answer to a start makes the run follow whatever it then sees, so
the facts are about the invocation a run follows and never about its own.

`CloudProofs`. Nothing locks the account, so a property that is about the moment
of a delete has to follow from a list made long before. What is true of an image
when it is planned for deletion and stays true is `Safe`: enough others stand
behind it (`Guards`), newer builds of the region, or images changed by hand, for
which retention promises nothing. A newer build may itself be deleted in between,
but only as the entry of another plan, so it was `Safe`, and what stood behind it
stands behind the older one as well (`SafeStays`, the heart of the argument).
The same holds for what a listing in several requests has seen of its pages and
that is gone when the last one is read (`SeenStands`, `PlanIsSafe`); that an image may
slip off the pages altogether only makes a plan smaller. `ImagesGoOn` says what any
step may do to the images, and `Retained` is kept by every step that is one.
`Approved` is about the machine of `up`: between approval and creation it gathers
key numbers, one entry after the other in the order of the files (`TakesInTurn`:
the numbers taken and the entries whose turn has been correspond one to one), and a
number means a key of the entry's on the account as listed, on the account as it is
and on any later one (`KeysAgree`, `Means`), because a number is given out once.
That there is always an entry whose turn it is, is a counting argument
(`SomeonesTurn`).

`MachinesProofs` carries both invariants to `MachinesSpec`, where the other parts
leave their variables alone. `MCMachines` and the proof modules instantiate
`Provision` and `Cloud` twice, and `Same...` says of each action that the two are
one formula. `GCloud` is small enough to be proved there as it stands in
`MCMachines`, and so is `Store`. `NoChangeUndone` needs that a command that is to save
holds the file's lock alone and that the file is still what it has read (`FInv`), which
no other command can make untrue, since its own save would need the lock.
`ClearedIsGone` needs that an operation under way is about the
machine it was asked for (`GOperations`, `GNamed`, `GNumbers`), and that a down
clears its record after an operation that has ended (`GDeletes`).

`SessionsProofs` has an inductive invariant for each part of `MCSessions`; the others
leave the part's variables alone, so that what holds of a part holds of the whole.

- `Access`: `AccessInv` follows the profile lock. Only its holder is between reading
  the index and the include, and of what it has written so far the index is what it
  read with its own change, and the configuration is the index. Nothing is said of
  the files while nobody holds the lock, since a crash may have left anything.
- `Serving`: `ServingInv` is the property with the types, which say that what ssh
  holds a port with is its own process and neither nobody nor another program.
- `Seeding`: `SeedingInv` says that there is a checkout only after the identity, and
  uncommitted work only in a checkout; and of a pull, which has no lock, that what it
  found is in a commit by the time it reads the tip (`CommandKnows`) and in the
  user's repository from the fetch on.
- `AgentContext`: `AgentTypes` keeps the file a sequence of lines. The argument is
  about the operators: what `Splice` makes of any file has the rendered block where a
  reader finds the first begin marker (`SpliceDelivers`).
- `Sidebar`: `SidebarInv`. Who attaches a session holds its lock, and down has the
  instance to itself (`SidebarLocks`); how far the record of the attachment has come
  says what the terminal is at (`SidebarPhases`), and one that is about to create
  has found no workspace of the session. It would have found one: a workspace that
  is not marked yet has the label its attachment gave it (`SidebarSpaces`).
- `IssueGate`: `IssueInv` says that every command but a pull excludes the others, that
  after a final check the panes are closed and what it saw is the whole log, that what
  is fetched is at least that, and so that a command at the removal has what it needs
  (`Covered`). `log` only grows, which is what lets a count stand for its prefix.
- `Setup`: `SetupInv` says where a setting of the project's file is while init runs:
  still among what it will write back, or in the values it holds, then in those it is
  to write to base.pkl, then in base.pkl (`Held`), with the project's value, for keys as for a size (`Brought`);
  the project's file is written last.
- `Layout`: `LayoutInv` says of a running attach, while the user leaves the workspace
  alone, that the tabs before the one it is at are there with their panes or have
  failed (`LayoutTab`), the panes of this tab before the one it is at are there
  (`LayoutPane`), its listings are right about where things are (`LayoutSeen`), and
  the default tab it may take or close has no configured label (`LayoutSpare`). A pane
  counts as there by the label it has or had when the attach listed it (`Shown`). The
  two differ only when the attach renames a pane, which `LaidOut` excepts.

Only model-checked: liveness (`MergeRetires`, `ForceRetires`, `CommandsEnd`,
`FollowingEnds`), which is out of the prover's reach.

## Abstractions and what is left out

- Commits are numbers, a branch in `Retirement` is the set of commits on it, and
  rewriting replaces one by another. Patch identity is identity of the number:
  a commit on the destination under whatever hash counts as landed.
- The comparison and the `rm` on the instance are one shell command in the code
  and one step here. A lost answer may follow it.
- In `Retirement` and `Instance` `RescueSession` (checkpoint, fetch, verify) is one
  step, and a failure of it, or of the issues gate, is `CheckFails`; `Seeding` and
  `IssueGate` have the two command by command.
- In `Retirement` the replay journal has only what decides where a re-run starts;
  signatures, anchors and amended commits are `Replay`'s.
- The user resets the destination only while no command runs; commits of the
  user's own come at any time. This is an assumption about the user, not about
  the code: HEAD is compared before removal begins and not at each effect, so a
  reset between the two is not noticed, and `CheckoutKeepsWork` says nothing of
  it. In `Replay` the user acts on an open cherry-pick only between runs.
- `Replay` has conflicts on commits that have not landed, or that landed by hand
  in the user's wording. Conflicts with the user's own unrelated commits are not
  told apart from these.
- `Instance` has records with a selected SSH identity (every record a current
  `up` writes); older records without one, and the removal of a node from the
  tailnet, are left out. Machines destroyed outside bivouac are not in it (`GCloud`
  has them), machines that are already gone when `down` comes are. Work the agent
  commits between `down`'s rescue and its `Destroy` is lost in the code and in the
  model; `DownRescuesAll` is about which sessions were brought home, not about
  their last commit.
- The parts of `MCMachines` and `MCSessions` are checked apart. Where one depends
  on another it has the other in outline: `Seeding` the session lock, `Sidebar` the
  instance's and the session's locks, `Access` the record, `Provision` the record's
  login shell.
- A page, a listing, a file or a journal has the order that decides something and
  nothing else; a credential, a field's value, an address is one of a few values.
- External programs (git, bd, dolt, systemd, ssh, tailscale, Herdr, Packer, the two
  clouds' services) are modelled as the code meets them; their definitions are
  marked `external` in PROJECT.json. For the clouds the fakes of the repository's
  tests are the source.

Not modelled, and why:

- `MergeSession` and what only it calls in `merge.go`: no command calls it any more.
- Decoding and migration of the state file. `Store` has the operations step by step; the
  modules that share one record take each of them as one step. A save that is made and
  reported as failed (the sync of the directory fails) is in `Store` and is not carried
  into what the commands of `Instance` do next.
- Named-session attachments: recorded and closed as workspaces are, without the
  lost answers and the proofs that make those hard.
- Receipts across repositories: see the hazard at `retirement.go:87`.
- Host-key trust, keepalive and authentication of the SSH client; what OpenSSH
  makes of a user's own configuration beyond whether it contradicts a profile.
- Packer's process, manifest and bundle; droplet actions, sizes, regions and tags
  as resources in the fake servers, which only Packer uses; disks on Google Cloud.
- Session information and its resolution, templates and their validation, Pkl's
  evaluation, prompts, flags, secrets, quoting, test support: rendering, reading
  and wrappers, which keep no state that another step relies on.

## How to run

    tlc -workers 2 -config RetirementWork.cfg MCRetirement
    tlc -workers 2 -config Sessions.cfg MCSessions
    tlapm RetirementProofs.tla
    tlapm RetirementClosureProofs.tla
    tlapm InstanceProofs.tla
    tlapm ReplayProofs.tla
    tlapm ProvisionProofs.tla
    tlapm CloudProofs.tla
    tlapm MachinesProofs.tla
    tlapm SessionsProofs.tla

The module and configuration of every run are listed under `runs` in
PROJECT.json. The passing runs take one to three minutes each with two workers.
