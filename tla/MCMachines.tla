------------------------------ MODULE MCMachines ------------------------------
(***************************************************************************)
(* The machine of an instance: its commands (Instance), its provisioning,  *)
(* the two clouds and the file it is recorded in (Store), checked in one   *)
(* run. The initial state picks one part, and only that part then moves:   *)
(* they share no state that a part does not already have a variable for.   *)
(* Instance stays where it starts when another is picked; the others take  *)
(* turns in v1..v14.                                                       *)
(***************************************************************************)
EXTENDS MCInstance

CONSTANTS
  Pair,                        \* two processes or keys, alike as the sessions are
  Version, Rendered, ViaAgent, OtherShell, Secret,                  \* Provision
  MaxInvocations, MaxLines, MaxRuns,
  Kind, Wanted, Builder, Path, PageSize, Pending, Keep, MaxImages,  \* Cloud
  MaxMachines, MaxTroubles,
  Image, UserTag, MaxTags,                                          \* GCloud
  MaxChanges                                                        \* Store

VARIABLES part, v1, v2, v3, v4, v5, v6, v7, v8, v9, v10, v11, v12, v13, v14

P == INSTANCE Provision WITH
       Run <- Pair, MaxFaults <- 1,
       config <- v1, at <- v2, flake <- v3, unit <- v4, started <- v5, journal <- v6,
       inside <- v7, env <- v8, built <- v9, tmpfs <- v10, link <- v11, begun <- v12,
       faults <- v13
C == INSTANCE Cloud WITH
       Fp <- Pair,
       images <- v1, droplets <- v2, keys <- v3, made <- v4, build <- v5, prune <- v6,
       tagger <- v7, up <- v8, setup <- v9, file <- v10, ref <- v11, touched <- v12,
       cast <- v13, troubles <- v14
G == INSTANCE GCloud WITH
       Process <- Pair, Name <- {"bivouac"},
       strict <- v1, external <- v2, nat <- v3, instance <- v4, pending <- v5, record <- v6,
       image <- v7, at <- v8, made <- v9, faults <- v10
F == INSTANCE Store WITH
       Name <- Pair, MaxFaults <- 1,
       file <- v1, shared <- v2, exclusive <- v3, at <- v4, changes <- v5, faults <- v6

ASSUME PartsAssumption ==
  P!ProvisionAssumption /\ C!CloudAssumption /\ G!GCloudAssumption /\ G!LabelsAssumption
  /\ F!StoreAssumption

\* The variables a part with thirteen or ten of its own leaves alone.
rest10 == <<v11, v12, v13, v14>>
all == <<vars, part, v1, v2, v3, v4, v5, v6, v7, v8, v9, v10, rest10>>

Unused10 == v11 = 0 /\ v12 = 0 /\ v13 = 0 /\ v14 = 0

\* Bound: the user has put nothing, or something, in the place of both links.
PartInit ==
  /\ Init
  /\ \/ /\ part = "instance" /\ Unused10
        /\ v1 = 0 /\ v2 = 0 /\ v3 = 0 /\ v4 = 0 /\ v5 = 0 /\ v6 = 0 /\ v7 = 0 /\ v8 = 0
        /\ v9 = 0 /\ v10 = 0
     \/ part = "provision" /\ P!Init /\ v11["dolt"] = v11["gh"] /\ v14 = 0
     \/ part = "digitalocean" /\ C!Init
     \/ part = "gcloud" /\ G!Init /\ Unused10
     \/ /\ part = "store" /\ F!Init /\ Unused10
        /\ v7 = 0 /\ v8 = 0 /\ v9 = 0 /\ v10 = 0

InstanceMoves ==
  part = "instance" /\ Next /\ UNCHANGED <<v1, v2, v3, v4, v5, v6, v7, v8, v9, v10, rest10>>
ProvisionMoves == part = "provision" /\ P!Next /\ UNCHANGED <<vars, v14>>
CloudMoves == part = "digitalocean" /\ C!Next /\ UNCHANGED vars
GCloudMoves == part = "gcloud" /\ G!Next /\ UNCHANGED <<vars, rest10>>
StoreMoves == part = "store" /\ F!Next /\ UNCHANGED <<vars, v7, v8, v9, v10, rest10>>

MachinesSpec ==
  /\ PartInit
  /\ [][/\ InstanceMoves \/ ProvisionMoves \/ CloudMoves \/ GCloudMoves \/ StoreMoves
        /\ UNCHANGED part]_all

\* The image asked for and one with another login shell.
MCWanted == [region |-> 1, shell |-> "fish", disk |-> 1]
MCKind == {MCWanted, [region |-> 1, shell |-> "zsh", disk |-> 1]}

-------------------------------------------------------------------------------
(* Properties of the parts, each of its own behaviours *)

\* Provision: a run has shown exactly what the unit wrote, up to its cursor.
OutputExact == part = "provision" => P!OutputExact

\* Provision: a run that reports success saw the end of a switch that succeeded.
SuccessIsReal == part = "provision" => P!SuccessIsReal

\* Provision: dolt is never told of a credential that is not there.
CredentialsComplete == part = "provision" => P!CredentialsComplete

\* Provision: the only switch a run cuts off is one another run started after
\* this one had looked, never its own.
StopsNoOldSwitch == [][part = "provision" => P!Stopping]_all

\* Cloud: retention never takes an image while too few newer ones are there.
NewestStay == [][part = "digitalocean" => C!Pruned]_all

\* Cloud: a machine boots the image that was shown and admits the keys approved.
MachineIsApproved == part = "digitalocean" => C!MachineIsApproved

\* GCloud: down clears the record only of a machine that no longer runs.
ClearedIsGone == part = "gcloud" => G!ClearedIsGone

\* Store: no command undoes what another has changed in the file.
NoChangeUndone == [][part = "store" => F!Undisturbed]_all
===============================================================================
