---------------------------- MODULE MachinesProofs -----------------------------
(***************************************************************************)
(* The properties of MCMachines, proved of its own specification: what is  *)
(* proved of a part (ProvisionProofs) holds of it among the others, which  *)
(* leave its variables alone.                                              *)
(***************************************************************************)
EXTENDS MCMachines, TLAPS

PP == INSTANCE ProvisionProofs WITH
        Run <- Pair, MaxFaults <- 1,
        config <- v1, at <- v2, flake <- v3, unit <- v4, started <- v5, journal <- v6,
        inside <- v7, env <- v8, built <- v9, tmpfs <- v10, link <- v11, begun <- v12,
        faults <- v13

CC == INSTANCE CloudProofs WITH
        Fp <- Pair,
        images <- v1, droplets <- v2, keys <- v3, made <- v4, build <- v5, prune <- v6,
        tagger <- v7, up <- v8, setup <- v9, file <- v10, ref <- v11, touched <- v12,
        cast <- v13, troubles <- v14

-------------------------------------------------------------------------------
(* Provision as MCMachines and as its proofs instantiate it: the same *)

LEMMA SameAssumption == PP!ProvisionAssumption
  BY Zenon, PartsAssumption DEF P!ProvisionAssumption, PP!ProvisionAssumption

LEMMA SameInit == P!Init => PP!Init
  BY Zenon DEF P!Init, PP!Init, P!Idle, PP!Idle, P!NoUnit, PP!NoUnit

LEMMA SameBegins == \A p : P!Begins(p) <=> PP!Begins(p)
  BY Zenon DEF P!Begins, PP!Begins, P!At, PP!At, P!checkLoginShell, PP!checkLoginShell,
     P!system, PP!system, P!credentials, PP!credentials

LEMMA SameShips == \A p : P!Ships(p) <=> PP!Ships(p)
  BY Zenon DEF P!Ships, PP!Ships, P!At, PP!At, P!needsAgent, PP!needsAgent, P!system,
     PP!system, P!credentials, PP!credentials

LEMMA SameInsideStarts == \A p : P!InsideStarts(p) <=> PP!InsideStarts(p)
  BY Zenon DEF P!InsideStarts, PP!InsideStarts, P!At, PP!At, P!system, PP!system,
     P!credentials, PP!credentials

LEMMA SameInsideEnds == \A p : P!InsideEnds(p) <=> PP!InsideEnds(p)
  BY Zenon DEF P!InsideEnds, PP!InsideEnds, P!At, PP!At, P!Goto, PP!Goto, P!credentials,
     PP!credentials

LEMMA SameStatus == \A p : P!Status(p) <=> PP!Status(p)
  BY Zenon DEF P!Status, PP!Status, P!At, PP!At, P!MayAttach, PP!MayAttach, P!system,
     PP!system, P!credentials, PP!credentials

LEMMA SameStops == \A p : P!Stops(p) <=> PP!Stops(p)
  BY Zenon DEF P!Stops, PP!Stops, P!At, PP!At, P!Goto, PP!Goto, P!NoUnit, PP!NoUnit,
     P!credentials, PP!credentials

LEMMA SameStarts == \A p : P!Starts(p) <=> PP!Starts(p)
  BY Zenon DEF P!Starts, PP!Starts, P!At, PP!At, P!Goto, PP!Goto, P!NoUnit, PP!NoUnit,
     P!Starting, PP!Starting, P!Argument, PP!Argument, P!Ends, PP!Ends, P!Idle, PP!Idle,
     P!credentials, PP!credentials

LEMMA SameLosesStart == \A p : P!LosesStart(p) <=> PP!LosesStart(p)
  BY Zenon DEF P!LosesStart, PP!LosesStart, P!At, PP!At, P!Goto, PP!Goto, P!NoUnit,
     PP!NoUnit, P!Starting, PP!Starting, P!Argument, PP!Argument, P!Fault, PP!Fault,
     P!AfterLostStart, PP!AfterLostStart, P!credentials, PP!credentials

LEMMA SameLooks == \A p : P!Looks(p) <=> PP!Looks(p)
  BY Zenon DEF P!Looks, PP!Looks, P!At, PP!At, P!Vanished, PP!Vanished, P!NoUnit,
     PP!NoUnit, P!Ends, PP!Ends, P!Idle, PP!Idle, P!system, PP!system, P!credentials,
     PP!credentials

LEMMA SamePolls == \A p : P!Polls(p) <=> PP!Polls(p)
  BY Zenon DEF P!Polls, PP!Polls, P!At, PP!At, P!Finished, PP!Finished, P!system,
     PP!system, P!credentials, PP!credentials

LEMMA SameFails == \A p : P!Fails(p) <=> PP!Fails(p)
  BY Zenon DEF P!Fails, PP!Fails, P!At, PP!At, P!Ends, PP!Ends, P!Idle, PP!Idle,
     P!system, PP!system, P!credentials, PP!credentials

LEMMA SamePlacesDolt == \A p : P!PlacesDolt(p) <=> PP!PlacesDolt(p)
  BY Zenon DEF P!PlacesDolt, PP!PlacesDolt, P!At, PP!At, P!Goto, PP!Goto, P!Places,
     PP!Places, P!Prepared, PP!Prepared, P!Files, PP!Files, P!DoltFiles, PP!DoltFiles,
     P!Fault, PP!Fault, P!system, PP!system, P!credentials, PP!credentials

LEMMA SamePlacesGitHub == \A p : P!PlacesGitHub(p) <=> PP!PlacesGitHub(p)
  BY Zenon DEF P!PlacesGitHub, PP!PlacesGitHub, P!At, PP!At, P!Ends, PP!Ends, P!Idle,
     PP!Idle, P!Places, PP!Places, P!Prepared, PP!Prepared, P!Files, PP!Files,
     P!DoltFiles, PP!DoltFiles, P!Fault, PP!Fault, P!system, PP!system, P!credentials,
     PP!credentials

LEMMA SameStop == \A p : P!Stop(p) <=> PP!Stop(p)
  BY Zenon DEF P!Stop, PP!Stop, P!At, PP!At, P!Ends, PP!Ends, P!Idle, PP!Idle, P!Fault,
     PP!Fault, P!system, PP!system, P!credentials, PP!credentials

LEMMA SameDrains == \A p : P!Drains(p) <=> PP!Drains(p)
  BY Zenon DEF P!Drains, PP!Drains, P!At, PP!At, P!system, PP!system, P!credentials,
     PP!credentials, P!Read, PP!Read, P!InOrder, PP!InOrder, P!After, PP!After, P!Lines,
     PP!Lines, P!Last, PP!Last, P!ToSet, PP!ToSet, P!Cardinality, PP!Cardinality

LEMMA SameDrainsLast == \A p : P!DrainsLast(p) <=> PP!DrainsLast(p)
  BY Zenon DEF P!DrainsLast, PP!DrainsLast, P!LastRead, PP!LastRead, P!At, PP!At,
     P!system, PP!system, P!credentials, PP!credentials, P!Read, PP!Read, P!InOrder,
     PP!InOrder, P!After, PP!After, P!Lines, PP!Lines, P!Last, PP!Last, P!ToSet,
     PP!ToSet, P!Cardinality, PP!Cardinality

LEMMA SameUnitEvaluates == P!UnitEvaluates <=> PP!UnitEvaluates
  BY Zenon DEF P!UnitEvaluates, PP!UnitEvaluates, P!credentials, PP!credentials

LEMMA SameUnitWrites == P!UnitWrites <=> PP!UnitWrites
  BY Zenon DEF P!UnitWrites, PP!UnitWrites, P!credentials, PP!credentials, P!Lines,
     PP!Lines, P!Cardinality, PP!Cardinality

LEMMA SameUnitSucceeds == P!UnitSucceeds <=> PP!UnitSucceeds
  BY Zenon DEF P!UnitSucceeds, PP!UnitSucceeds, P!credentials, PP!credentials

LEMMA SameUnitFails == P!UnitFails <=> PP!UnitFails
  BY Zenon DEF P!UnitFails, PP!UnitFails, P!credentials, PP!credentials, P!Fault,
     PP!Fault

LEMMA SameReboot == P!Reboot <=> PP!Reboot
  BY Zenon DEF P!Reboot, PP!Reboot, P!At, PP!At, P!Fault, PP!Fault, P!NoUnit, PP!NoUnit,
     P!Idle, PP!Idle

LEMMA SameUserEdits == P!UserEdits <=> PP!UserEdits
  BY Zenon DEF P!UserEdits, PP!UserEdits, P!system, PP!system, P!credentials,
     PP!credentials

LEMMA SameNext == [P!Next]_P!vars => [PP!Next]_PP!vars
<1>1. ASSUME NEW p, P!Continues(p) PROVE PP!Continues(p)
  BY Zenon, <1>1, SameShips, SameInsideStarts, SameInsideEnds, SameStatus, SameStops, SameStarts,
     SameLooks, SameDrains, SamePolls, SameDrainsLast, SameFails, SamePlacesDolt, SamePlacesGitHub
     DEF P!Continues, PP!Continues, P!Follows, PP!Follows
<1>2. P!Next => PP!Next
  BY Zenon, <1>1, SameBegins, SameLosesStart, SameStop, SameUnitEvaluates, SameUnitSucceeds,
     SameUnitWrites, SameUnitFails, SameReboot, SameUserEdits
     DEF P!Next, PP!Next, P!UnitRuns, PP!UnitRuns
<1> QED
  BY Zenon, <1>2 DEF P!vars, PP!vars, P!system, PP!system, P!credentials, PP!credentials

LEMMA SameOutput == PP!OutputExact => P!OutputExact
  BY Zenon DEF P!OutputExact, PP!OutputExact, P!InOrder, PP!InOrder, P!Lines, PP!Lines,
     P!ToSet, PP!ToSet, P!Cardinality, PP!Cardinality

LEMMA SameSuccess == PP!SuccessIsReal => P!SuccessIsReal
  BY Zenon DEF P!SuccessIsReal, PP!SuccessIsReal

LEMMA SameCredentials == PP!CredentialsComplete => P!CredentialsComplete
  BY Zenon DEF P!CredentialsComplete, PP!CredentialsComplete

LEMMA SameStopping == PP!Stopping => P!Stopping
  BY Zenon, SameStops DEF P!Stopping, PP!Stopping
-------------------------------------------------------------------------------
(* Provision in MachinesSpec *)

ProvisionHolds == part = "provision" => PP!PInv

MachinesNext ==
  /\ InstanceMoves \/ ProvisionMoves \/ CloudMoves \/ GCloudMoves \/ StoreMoves
  /\ UNCHANGED part

\* The part that was picked stays picked; if it is not Provision, nothing is said
\* of its variables.
LEMMA ProvisionInit == PartInit => ProvisionHolds
<1> SUFFICES ASSUME PartInit, part = "provision" PROVE PP!PInv
  BY DEF ProvisionHolds
<1>1. P!Init
  BY DEF PartInit
<1> QED
  BY <1>1, SameInit, SameAssumption, PP!PInvInit

LEMMA ProvisionNext ==
  ASSUME ProvisionHolds, [MachinesNext]_all, part = "provision" \/ part' = "provision"
  PROVE  part = "provision" /\ part' = "provision" /\ PP!PInv /\ [PP!Next]_PP!vars
<1>1. part' = part
  BY DEF MachinesNext, all
<1>2. [P!Next]_P!vars
  BY <1>1 DEF MachinesNext, InstanceMoves, ProvisionMoves, CloudMoves, GCloudMoves, StoreMoves,
     all, rest10,
     P!vars, P!system, P!credentials
<1> QED
  BY <1>1, <1>2, SameNext DEF ProvisionHolds

LEMMA ProvisionStays == ProvisionHolds /\ [MachinesNext]_all => ProvisionHolds'
<1> SUFFICES ASSUME ProvisionHolds, [MachinesNext]_all, part' = "provision" PROVE PP!PInv'
  BY DEF ProvisionHolds
<1> QED
  BY ProvisionNext, SameAssumption, PP!PInvNext

\* Whatever a provision has shown of the switch it follows is what the unit's
\* invocation wrote up to the cursor, each line once and in order, through lost
\* answers and other runs; when it is over, all of it (detached.go, drain).
THEOREM OutputIsExact == MachinesSpec => []OutputExact
<1>1. ProvisionHolds => OutputExact
  BY PP!PInvOutput, SameOutput DEF ProvisionHolds, OutputExact
<1> QED
  BY <1>1, ProvisionInit, ProvisionStays, PTL DEF MachinesSpec, MachinesNext

\* A provision that goes on to the credentials after a switch saw the end of one
\* that did succeed, its own or a later one, never of a unit that is gone or
\* failed (detached.go, follow).
THEOREM SuccessesAreReal == MachinesSpec => []SuccessIsReal
<1>1. ProvisionHolds => SuccessIsReal
  BY PP!PInvSuccess, SameSuccess DEF ProvisionHolds, SuccessIsReal
<1> QED
  BY <1>1, ProvisionInit, ProvisionStays, PTL DEF MachinesSpec, MachinesNext

\* Whichever write fails, and whoever else writes, the file that names dolt's
\* credential is only there when the credential is.
THEOREM CredentialsAreComplete == MachinesSpec => []CredentialsComplete
<1>1. ProvisionHolds => CredentialsComplete
  BY SameCredentials DEF ProvisionHolds, CredentialsComplete, PP!PInv
<1> QED
  BY <1>1, ProvisionInit, ProvisionStays, PTL DEF MachinesSpec, MachinesNext

\* A stop never cuts off a switch of before the run looked, nor one of its own:
\* only one that another run started in between (ensureStarted).
THEOREM StopsOnlyNewer == MachinesSpec => StopsNoOldSwitch
<1>1. ProvisionHolds /\ [MachinesNext]_all => [part = "provision" => P!Stopping]_all
  BY PP!PInvStopping, SameStopping DEF ProvisionHolds
<1> QED
  BY <1>1, ProvisionInit, ProvisionStays, PTL DEF MachinesSpec, MachinesNext, StopsNoOldSwitch
-------------------------------------------------------------------------------
(* Cloud as MCMachines and as its proofs instantiate it: the same *)

LEMMA SameCloudAssumption == CC!CloudAssumption
  BY Zenon, PartsAssumption DEF C!CloudAssumption, CC!CloudAssumption, C!IsFiniteSet,
     CC!IsFiniteSet

LEMMA SameCloudInit == C!Init => CC!Init
  BY Zenon DEF C!Init, CC!Init, C!Img, CC!Img, C!Tags, CC!Tags, C!Builder0, CC!Builder0, C!List0,
     CC!List0, C!Prune0, CC!Prune0, C!Up0, CC!Up0, C!Stock, CC!Stock, C!Setup0, CC!Setup0

LEMMA SameBuilds == \A b : C!Builds(b) <=> CC!Builds(b)
  BY Zenon DEF C!Builds, CC!Builds, C!CreateDroplet, CC!CreateDroplet, C!With, CC!With, C!Machine,
     CC!Machine, C!Stock, CC!Stock, C!Builder0, CC!Builder0, C!List0, CC!List0

LEMMA SameSnapshots == \A b : C!Snapshots(b) <=> CC!Snapshots(b)
  BY Zenon DEF C!Snapshots, CC!Snapshots, C!Snapshot, CC!Snapshot, C!With, CC!With, C!Img, CC!Img

LEMMA SameTags1 == \A b : C!Tags1(b) <=> CC!Tags1(b)
  BY Zenon DEF C!Tags1, CC!Tags1, C!Builder0, CC!Builder0, C!List0, CC!List0, C!Tags, CC!Tags,
     C!DeleteDroplet, CC!DeleteDroplet, C!Without, CC!Without, C!TagImage, CC!TagImage

LEMMA SameVerifies == \A b : C!Verifies(b) <=> CC!Verifies(b)
  BY Zenon DEF C!Verifies, CC!Verifies, C!Read, CC!Read, C!Verified, CC!Verified, C!Eligible,
     CC!Eligible, C!Ready, CC!Ready, C!Tagged, CC!Tagged, C!Builder0, CC!Builder0, C!List0, CC!List0

LEMMA SameWritesBack == \A b : C!WritesBack(b) <=> CC!WritesBack(b)
  BY Zenon DEF C!WritesBack, CC!WritesBack

LEMMA SamePlans == \A b : C!Plans(b) <=> CC!Plans(b)
  BY Zenon DEF C!Plans, CC!Plans, C!Lists, CC!Lists, C!Read, CC!Read, C!Page, CC!Page, C!Tagged,
     CC!Tagged, C!Position, CC!Position, C!Cardinality, CC!Cardinality, C!Turned, CC!Turned,
     C!Entry, CC!Entry, C!Eligible, CC!Eligible, C!Ready, CC!Ready, C!IsLastPage, CC!IsLastPage,
     C!PlanPrune, CC!PlanPrune, C!KeptBack, CC!KeptBack, C!Newer, CC!Newer, C!InRegion, CC!InRegion,
     C!Protected, CC!Protected

LEMMA SameRechecks == \A b : C!Rechecks(b) <=> CC!Rechecks(b)
  BY Zenon DEF C!Rechecks, CC!Rechecks, C!Builder0, CC!Builder0, C!List0, CC!List0, C!First,
     CC!First, C!Read, CC!Read, C!Recheck, CC!Recheck, C!Eligible, CC!Eligible, C!Ready, CC!Ready,
     C!Tagged, CC!Tagged

LEMMA SameBuildDeletes == \A b : C!BuildDeletes(b) <=> CC!BuildDeletes(b)
  BY Zenon DEF C!BuildDeletes, CC!BuildDeletes, C!Removed, CC!Removed, C!DeleteImage,
     CC!DeleteImage, C!Without, CC!Without, C!First, CC!First

LEMMA SamePruneBegins == C!PruneBegins <=> CC!PruneBegins
  BY Zenon DEF C!PruneBegins, CC!PruneBegins, C!Prune0, CC!Prune0, C!List0, CC!List0

LEMMA SamePrunePlans == C!PrunePlans <=> CC!PrunePlans
  BY Zenon DEF C!PrunePlans, CC!PrunePlans, C!Lists, CC!Lists, C!Read, CC!Read, C!Page, CC!Page,
     C!Tagged, CC!Tagged, C!Position, CC!Position, C!Cardinality, CC!Cardinality, C!IsLastPage,
     CC!IsLastPage, C!Turned, CC!Turned, C!Entry, CC!Entry, C!Eligible, CC!Eligible, C!Ready,
     CC!Ready, C!PlanPrune, CC!PlanPrune, C!KeptBack, CC!KeptBack, C!Newer, CC!Newer, C!InRegion,
     CC!InRegion, C!Protected, CC!Protected, C!Prune0, CC!Prune0, C!List0, CC!List0

LEMMA SamePruneAsks == C!PruneAsks <=> CC!PruneAsks
  BY Zenon DEF C!PruneAsks, CC!PruneAsks, C!Prune0, CC!Prune0, C!List0, CC!List0

LEMMA SamePruneRechecks == C!PruneRechecks <=> CC!PruneRechecks
  BY Zenon DEF C!PruneRechecks, CC!PruneRechecks, C!Prune0, CC!Prune0, C!List0, CC!List0, C!First,
     CC!First, C!Read, CC!Read, C!Recheck, CC!Recheck, C!Eligible, CC!Eligible, C!Ready, CC!Ready,
     C!Tagged, CC!Tagged

LEMMA SamePruneDeletes == C!PruneDeletes <=> CC!PruneDeletes
  BY Zenon DEF C!PruneDeletes, CC!PruneDeletes, C!Removed, CC!Removed, C!DeleteImage,
     CC!DeleteImage, C!Without, CC!Without, C!First, CC!First

LEMMA SameTagChecks == C!TagChecks <=> CC!TagChecks
  BY Zenon DEF C!TagChecks, CC!TagChecks, C!Tagged, CC!Tagged, C!Ready, CC!Ready

LEMMA SameTagAttaches == C!TagAttaches <=> CC!TagAttaches
  BY Zenon DEF C!TagAttaches, CC!TagAttaches, C!TagImage, CC!TagImage

LEMMA SameSetupReads == C!SetupReads <=> CC!SetupReads
  BY Zenon DEF C!SetupReads, CC!SetupReads, C!Registered, CC!Registered, C!Setup0, CC!Setup0

LEMMA SameSetupRegisters == C!SetupRegisters <=> CC!SetupRegisters
  BY Zenon DEF C!SetupRegisters, CC!SetupRegisters, C!Registered, CC!Registered, C!CreateKey,
     CC!CreateKey, C!Setup0, CC!Setup0

LEMMA SameUpBegins == C!UpBegins <=> CC!UpBegins
  BY Zenon DEF C!UpBegins, CC!UpBegins, C!Up0, CC!Up0, C!List0, CC!List0, C!Stock, CC!Stock

LEMMA SameUpPlansKeys == C!UpPlansKeys <=> CC!UpPlansKeys
  BY Zenon DEF C!UpPlansKeys, CC!UpPlansKeys, C!Unchanged, CC!Unchanged, C!Registered,
     CC!Registered, C!Up0, CC!Up0, C!List0, CC!List0, C!Stock, CC!Stock

LEMMA SameUpResolves == C!UpResolves <=> CC!UpResolves
  BY Zenon DEF C!UpResolves, CC!UpResolves, C!Lists, CC!Lists, C!Read, CC!Read, C!Page, CC!Page,
     C!Tagged, CC!Tagged, C!Position, CC!Position, C!Cardinality, CC!Cardinality, C!IsLastPage,
     CC!IsLastPage, C!Resolve, CC!Resolve, C!InRegion, CC!InRegion, C!Newest, CC!Newest, C!Up0,
     CC!Up0, C!List0, CC!List0, C!Stock, CC!Stock, C!Turned, CC!Turned, C!Entry, CC!Entry,
     C!Eligible, CC!Eligible, C!Ready, CC!Ready

LEMMA SameUpAsks == C!UpAsks <=> CC!UpAsks
  BY Zenon DEF C!UpAsks, CC!UpAsks, C!Up0, CC!Up0, C!List0, CC!List0, C!Stock, CC!Stock

LEMMA SameUpListsKeys == C!UpListsKeys <=> CC!UpListsKeys
  BY Zenon DEF C!UpListsKeys, CC!UpListsKeys, C!FilesHold, CC!FilesHold, C!Unchanged, CC!Unchanged,
     C!Up0, CC!Up0, C!List0, CC!List0, C!Stock, CC!Stock

LEMMA SameUpRegisters == C!UpRegisters <=> CC!UpRegisters
  BY Zenon DEF C!UpRegisters, CC!UpRegisters, C!Cardinality, CC!Cardinality, C!Current, CC!Current,
     C!Known, CC!Known, C!UpTakes, CC!UpTakes, C!Up0, CC!Up0, C!List0, CC!List0, C!Stock, CC!Stock,
     C!Registered, CC!Registered, C!CreateKey, CC!CreateKey

LEMMA SameUpRelists == C!UpRelists <=> CC!UpRelists
  BY Zenon DEF C!UpRelists, CC!UpRelists, C!Current, CC!Current, C!Cardinality, CC!Cardinality,
     C!Registered, CC!Registered, C!UpTakes, CC!UpTakes, C!KeyOf, CC!KeyOf, C!Up0, CC!Up0, C!List0,
     CC!List0, C!Stock, CC!Stock

LEMMA SameUpCreates == C!UpCreates <=> CC!UpCreates
  BY Zenon DEF C!UpCreates, CC!UpCreates, C!Cardinality, CC!Cardinality, C!Up0, CC!Up0, C!List0,
     CC!List0, C!Stock, CC!Stock, C!Creatable, CC!Creatable, C!Usable, CC!Usable, C!Machine,
     CC!Machine, C!Asked, CC!Asked

LEMMA SameDies == C!Dies <=> CC!Dies
  BY Zenon DEF C!Dies, CC!Dies, C!Trouble, CC!Trouble, C!Builder0, CC!Builder0, C!List0, CC!List0,
     C!Prune0, CC!Prune0, C!Up0, CC!Up0, C!Stock, CC!Stock

LEMMA SameHandEditsImage == C!HandEditsImage <=> CC!HandEditsImage
  BY Zenon DEF C!HandEditsImage, CC!HandEditsImage, C!Trouble, CC!Trouble, C!Removed, CC!Removed,
     C!DeleteImage, CC!DeleteImage, C!Without, CC!Without

LEMMA SameHandEditsKeys == C!HandEditsKeys <=> CC!HandEditsKeys
  BY Zenon DEF C!HandEditsKeys, CC!HandEditsKeys, C!Trouble, CC!Trouble, C!Registered,
     CC!Registered, C!CreateKey, CC!CreateKey

LEMMA SameCloudNext == [C!Next]_C!vars => [CC!Next]_CC!vars
<1>1. \A b : C!Building(b) => CC!Building(b)
  BY Zenon, SameBuilds, SameSnapshots, SameTags1, SameVerifies, SameWritesBack, SamePlans,
     SameRechecks, SameBuildDeletes DEF C!Building, CC!Building
<1>2. C!Pruning \/ C!Tagging => CC!Pruning \/ CC!Tagging
  BY Zenon, SamePruneBegins, SamePrunePlans, SamePruneAsks, SamePruneRechecks, SamePruneDeletes,
     SameTagChecks, SameTagAttaches DEF C!Pruning, CC!Pruning, C!Tagging, CC!Tagging
<1>3. C!Setting => CC!Setting
  BY Zenon, SameSetupReads, SameSetupRegisters DEF C!Setting, CC!Setting
<1>4. C!Upping => CC!Upping
  BY Zenon, SameUpBegins, SameUpPlansKeys, SameUpResolves, SameUpAsks, SameUpListsKeys,
     SameUpRegisters, SameUpRelists, SameUpCreates DEF C!Upping, CC!Upping
<1>5. C!Next => CC!Next
  BY Zenon, <1>1, <1>2, <1>3, <1>4, SameDies, SameHandEditsImage, SameHandEditsKeys DEF C!Next,
     CC!Next
<1> QED
  BY Zenon, <1>5 DEF C!vars, CC!vars

LEMMA SamePruned == CC!Pruned => C!Pruned
  BY Zenon DEF C!Pruned, CC!Pruned, C!Cardinality, CC!Cardinality, C!Eligible, CC!Eligible, C!Ready,
     CC!Ready, C!Tagged, CC!Tagged, C!SameRegion, CC!SameRegion

LEMMA SameApproved == CC!MachineIsApproved => C!MachineIsApproved
  BY Zenon DEF C!MachineIsApproved, CC!MachineIsApproved, C!Stock, CC!Stock

-------------------------------------------------------------------------------
(* Cloud in MachinesSpec *)

CloudHolds == part = "digitalocean" => CC!CInv

LEMMA CloudInit == PartInit => CloudHolds
<1> SUFFICES ASSUME PartInit, part = "digitalocean" PROVE CC!CInv
  BY DEF CloudHolds
<1>1. C!Init
  BY DEF PartInit
<1> QED
  BY <1>1, SameCloudInit, SameCloudAssumption, CC!CInvInit

LEMMA CloudNext ==
  ASSUME CloudHolds, [MachinesNext]_all, part = "digitalocean" \/ part' = "digitalocean"
  PROVE  part = "digitalocean" /\ part' = "digitalocean" /\ CC!CInv /\ [CC!Next]_CC!vars
<1>1. part' = part
  BY DEF MachinesNext, all
<1>2. [C!Next]_C!vars
  BY <1>1 DEF MachinesNext, InstanceMoves, ProvisionMoves, CloudMoves, GCloudMoves, StoreMoves,
     all, rest10,
     C!vars
<1> QED
  BY <1>1, <1>2, SameCloudNext DEF CloudHolds

LEMMA CloudStays == CloudHolds /\ [MachinesNext]_all => CloudHolds'
<1> SUFFICES ASSUME CloudHolds, [MachinesNext]_all, part' = "digitalocean" PROVE CC!CInv'
  BY DEF CloudHolds
<1> QED
  BY CloudNext, SameCloudAssumption, CC!NextKeeps

\* The machine of up boots the image that was shown, of the region and the shell
\* that were asked for, and admits exactly the keys that were approved, whatever
\* happens to the key files, the account and the images in between (keyplan.go,
\* digitalocean.go).
THEOREM MachinesAreApproved == MachinesSpec => []MachineIsApproved
<1>1. CloudHolds => MachineIsApproved
  BY SameApproved DEF CloudHolds, MachineIsApproved, CC!CInv, CC!Approved
<1> QED
  BY <1>1, CloudInit, CloudStays, PTL DEF MachinesSpec, MachinesNext

\* Retention deletes an image only while the current build and the previous ones
\* to keep are newer, whoever builds, prunes and tags at the time and however old
\* the plan is (retention.go, ExecutePrune).
THEOREM TheNewestStay == MachinesSpec => NewestStay
<1>1. CloudHolds /\ [MachinesNext]_all => [part = "digitalocean" => C!Pruned]_all
  <2> SUFFICES ASSUME CloudHolds, [MachinesNext]_all, part = "digitalocean" PROVE C!Pruned
    OBVIOUS
  <2>1. CC!ImagesGoOn
    BY CloudNext, SameCloudAssumption, CC!NextKeeps
  <2> QED
    BY <2>1, SameCloudAssumption, CC!StepsPrune, SamePruned
<1> QED
  BY <1>1, CloudInit, CloudStays, PTL DEF MachinesSpec, MachinesNext, NewestStay

-------------------------------------------------------------------------------
(* GCloud in MachinesSpec: v1 is strict, v4 the machine under the name, v5 the  *)
(* operations under way, v6 the record, v7 the images, v8 the processes and v9  *)
(* the machines made                                                            *)

GLabels == [labels : SUBSET (UserTag \cup {"managed", "other", "gone", "none"}), fingerprint : Nat]
GHeld == [pc : {"idle", "insert", "wait", "put", "undo", "delete", "gone", "undone",
                "label", "check", "remove"},
          name : {"bivouac", "none"}, no : Nat, image : Image \cup {"none"},
          tag : UserTag \cup {"none"}, read : GLabels]
GOperation == [kind : {"insert", "delete"}, name : {"bivouac"}, no : Nat]

GTypes ==
  /\ v4 \in [{"bivouac"} -> Nat] /\ v6 \in [{"bivouac"} -> Nat] /\ v9 \in Nat
  /\ v5 \in SUBSET GOperation
  /\ v7 \in [Image -> GLabels] /\ v8 \in [Pair -> GHeld]

GMachinePlace == {"insert", "wait", "put", "undo", "delete", "gone", "undone"}

\* A process in a command about a machine has the machine's name.
GNamed(p) == v8[p].pc \in GMachinePlace => v8[p].name = "bivouac"

\* A name has one operation at a time, the fake none; a machine that is being made
\* has a number nobody else has seen.
GOperations ==
  /\ ~v1 => v5 = {}
  /\ \A o, o1 \in v5 : o = o1
  /\ \A o \in v5 : o.no # 0 /\ o.no <= v9
  /\ \A o \in v5 : o.kind = "insert" =>
       /\ v4["bivouac"] # o.no /\ v6["bivouac"] # o.no
       /\ \A p \in Pair : v8[p].pc # "wait" => v8[p].no # o.no

GNumbers == v4["bivouac"] <= v9 /\ v6["bivouac"] <= v9 /\ \A p \in Pair : v8[p].no <= v9

\* down holds the number of a machine; once its delete was accepted, that machine
\* is gone or the operation under way takes it.
GDeletes(p) ==
  /\ v8[p].pc \in {"delete", "gone"} => v8[p].no # 0
  /\ v8[p].pc = "gone" =>
       \/ v4["bivouac"] # v8[p].no
       \/ \E o \in v5 : o.kind = "delete" /\ o.no = v8[p].no

GInv ==
  /\ GTypes /\ GOperations /\ GNumbers
  /\ \A p \in Pair : GNamed(p) /\ GDeletes(p)

\* What a process may come to hold in a step that leaves the service alone.
GMayHold(h) ==
  /\ h.pc \in GMachinePlace => h.name = "bivouac"
  /\ h.no <= v9
  /\ h.pc # "wait" => \A o \in v5 : o.kind = "insert" => h.no # o.no
  /\ h.pc \in {"delete", "gone"} => h.no # 0
  /\ h.pc = "gone" =>
       \/ v4["bivouac"] # h.no
       \/ \E o \in v5 : o.kind = "delete" /\ o.no = h.no

GMayRecord(no) == no \in Nat /\ no <= v9 /\ \A o \in v5 : o.kind = "insert" => no # o.no

LEMMA GParts ==
  ASSUME GInv, NEW p \in Pair
  PROVE  /\ v8[p] \in GHeld /\ v8[p].no \in Nat /\ v4["bivouac"] \in Nat /\ v6["bivouac"] \in Nat
         /\ v9 \in Nat /\ v8[p].no <= v9 /\ v4["bivouac"] <= v9 /\ v6["bivouac"] <= v9
         /\ GNamed(p) /\ GDeletes(p) /\ GOperations
         /\ \A o \in v5 : o.no \in Nat /\ o.name = "bivouac" /\ o.kind \in {"insert", "delete"}
<1>1. v8[p] \in GHeld
  BY DEF GInv, GTypes
<1> QED
  BY <1>1 DEF GInv, GTypes, GHeld, GNumbers, GOperation

LEMMA GQuiet ==
  ASSUME GInv, UNCHANGED <<v1, v4, v5, v9>>, NEW p \in Pair, NEW h \in GHeld,
         v8' = [v8 EXCEPT ![p] = h], GMayHold(h), NEW no, GMayRecord(no),
         v6' = [v6 EXCEPT !["bivouac"] = no], v7' \in [Image -> GLabels]
  PROVE  GInv'
<1>1. GTypes'
  BY DEF GInv, GTypes, GMayRecord
<1>2. v8 \in [Pair -> GHeld] /\ v6 \in [{"bivouac"} -> Nat]
  BY DEF GInv, GTypes
<1>3. v8'[p] = h /\ (\A q \in Pair \ {p} : v8'[q] = v8[q]) /\ v6'["bivouac"] = no
  BY <1>2
<1>4. GNumbers'
  BY <1>3 DEF GInv, GNumbers, GMayHold, GMayRecord
<1>5. GOperations'
  <2>1. \A q \in Pair, o \in v5 : o.kind = "insert" /\ v8'[q].pc # "wait" => v8'[q].no # o.no
    BY <1>3 DEF GInv, GOperations, GMayHold
  <2> QED
    BY <1>3, <2>1 DEF GInv, GOperations, GMayRecord
<1>6. \A q \in Pair : (GNamed(q) /\ GDeletes(q))'
  BY <1>3 DEF GInv, GNamed, GDeletes, GMayHold
<1> QED
  BY <1>1, <1>4, <1>5, <1>6 DEF GInv

\* The record and the images as they are.
LEMMA GStill ==
  ASSUME GInv
  PROVE  /\ GMayRecord(v6["bivouac"]) /\ v6 = [v6 EXCEPT !["bivouac"] = v6["bivouac"]]
         /\ v7 \in [Image -> GLabels]
  BY DEF GInv, GTypes, GNumbers, GOperations, GMayRecord

LEMMA GIdleHeld == G!Idle \in GHeld /\ G!Idle.pc = "idle" /\ G!Idle.no = 0
  BY DEF G!Idle, G!Gone, GHeld, GLabels

\* A process that ends holds nothing.
LEMMA GEnds == ASSUME GInv PROVE GMayHold(G!Idle)
  BY GIdleHeld DEF GMayHold, GMachinePlace, GInv, GOperations, GTypes

LEMMA GEndStep ==
  ASSUME GInv, UNCHANGED <<v1, v4, v5, v6, v9>>, NEW p \in Pair, G!End(p),
         v7' \in [Image -> GLabels]
  PROVE  GInv'
  BY GQuiet, GStill, GEnds, GIdleHeld DEF G!End

LEMMA GUpBeginsStep ==
  ASSUME GInv, UNCHANGED <<v1, v7>>, NEW p \in Pair, NEW n \in {"bivouac"},
         G!UpBegins(p, n) \/ G!DownBegins(p, n)
  PROVE  GInv'
<1>1. PICK h \in GHeld : v8' = [v8 EXCEPT ![p] = h] /\ GMayHold(h)
  <2>1. CASE G!UpBegins(p, n)
    <3> DEFINE h == [G!Idle EXCEPT !.pc = "insert", !.name = n]
    <3>1. h \in GHeld /\ h.pc = "insert" /\ h.name = "bivouac" /\ h.no = 0
      BY DEF G!Idle, G!Gone, GHeld, GLabels
    <3>2. v8' = [v8 EXCEPT ![p] = h]
      BY <2>1 DEF G!UpBegins
    <3> HIDE DEF h
    <3>3. GMayHold(h)
      BY <3>1 DEF GMayHold, GInv, GOperations, GTypes
    <3> QED
      BY <3>1, <3>2, <3>3
  <2>2. CASE G!DownBegins(p, n)
    <3> DEFINE h == [G!Idle EXCEPT !.pc = "delete", !.name = n, !.no = v6[n]]
    <3>1. h \in GHeld /\ h.pc = "delete" /\ h.name = "bivouac" /\ h.no = v6["bivouac"]
      BY GParts DEF G!Idle, G!Gone, GHeld, GLabels
    <3>2. v8' = [v8 EXCEPT ![p] = h] /\ v6["bivouac"] # 0
      BY <2>2 DEF G!DownBegins
    <3> HIDE DEF h
    <3>3. GMayHold(h)
      BY <3>1, <3>2 DEF GMayHold, GInv, GOperations, GNumbers
    <3> QED
      BY <3>1, <3>2, <3>3
  <2> QED
    BY <2>1, <2>2
<1>2. UNCHANGED <<v4, v5, v6, v9>>
  BY DEF G!UpBegins, G!DownBegins
<1> QED
  BY <1>1, <1>2, GQuiet, GStill

LEMMA GUpWaitsStep ==
  ASSUME GInv, UNCHANGED <<v1, v7>>, NEW p \in Pair, G!UpWaits(p)
  PROVE  GInv'
<1>1. UNCHANGED <<v4, v5, v6, v9>> /\ v8[p].pc = "wait"
  BY DEF G!UpWaits, G!At
<1>2. v8[p] \in GHeld /\ v8[p].name = "bivouac"
  BY <1>1, GParts DEF GNamed, GMachinePlace
<1>3. CASE v4["bivouac"] = 0
  BY <1>1, <1>2, <1>3, GEndStep, GStill DEF G!UpWaits
<1>4. CASE v4["bivouac"] # 0
  <2> DEFINE h == [v8[p] EXCEPT !.pc = "put", !.no = v4["bivouac"]]
  <2>1. h \in GHeld /\ h.pc = "put" /\ h.name = "bivouac" /\ h.no = v4["bivouac"]
    BY <1>2, GParts DEF GHeld
  <2>2. v8' = [v8 EXCEPT ![p] = h]
    BY <1>2, <1>4 DEF G!UpWaits, GInv, GTypes
  <2> HIDE DEF h
  <2>3. GMayHold(h)
    BY <2>1 DEF GMayHold, GInv, GOperations, GNumbers
  <2> QED
    BY <1>1, <2>1, <2>2, <2>3, GQuiet, GStill
<1> QED
  BY <1>3, <1>4

LEMMA GUpPutsStep ==
  ASSUME GInv, UNCHANGED <<v1, v7>>, NEW p \in Pair, G!UpPuts(p)
  PROVE  GInv'
<1>1. UNCHANGED <<v4, v5, v9>> /\ v8[p].pc = "put" /\ v8' = [v8 EXCEPT ![p] = G!Idle]
  BY DEF G!UpPuts, G!At, G!End
<1>2. v6' = [v6 EXCEPT !["bivouac"] = v8[p].no]
  BY <1>1, GParts DEF GNamed, GMachinePlace, G!UpPuts
<1>3. GMayRecord(v8[p].no)
  BY <1>1, GParts DEF GMayRecord, GOperations
<1> QED
  BY <1>1, <1>2, <1>3, GQuiet, GStill, GEnds, GIdleHeld

LEMMA GDownClearsStep ==
  ASSUME GInv, UNCHANGED <<v1, v7>>, NEW p \in Pair, G!DownClears(p)
  PROVE  GInv'
<1>1. UNCHANGED <<v4, v5, v9>> /\ v8[p].pc = "gone" /\ v8' = [v8 EXCEPT ![p] = G!Idle]
  BY DEF G!DownClears, G!At, G!End
<1>2. v6' = [v6 EXCEPT !["bivouac"] = 0]
  BY <1>1, GParts DEF GNamed, GMachinePlace, G!DownClears
<1>3. GMayRecord(0)
  BY GParts DEF GMayRecord, GOperations
<1> QED
  BY <1>1, <1>2, <1>3, GQuiet, GStill, GEnds, GIdleHeld

\* A step to another place with what is held.
LEMMA GGotoStep ==
  ASSUME GInv, UNCHANGED <<v1, v4, v5, v6, v9>>, NEW p \in Pair, NEW k, G!Goto(p, k),
         k \in {"undo", "remove"}, k = "undo" => v8[p].name = "bivouac", v8[p].pc # "wait",
         v7' \in [Image -> GLabels]
  PROVE  GInv'
<1> DEFINE h == [v8[p] EXCEPT !.pc = k]
<1>1. h \in GHeld /\ h.pc = k /\ h.name = v8[p].name /\ h.no = v8[p].no
  BY GParts DEF GHeld
<1>2. v8' = [v8 EXCEPT ![p] = h]
  BY GParts DEF G!Goto, GInv, GTypes
<1> HIDE DEF h
<1>3. GMayHold(h)
  BY <1>1, GParts DEF GMayHold, GOperations, GMachinePlace
<1> QED
  BY <1>1, <1>2, <1>3, GQuiet, GStill

\* An operation begins: the service has it under way, the fake is done with it.
LEMMA GUpInsertsStep ==
  ASSUME GInv, UNCHANGED <<v1, v7>>, NEW p \in Pair, G!UpInserts(p)
  PROVE  GInv'
<1>1. UNCHANGED v6 /\ v8[p].pc = "insert" /\ v8[p].name = "bivouac"
  BY GParts DEF G!UpInserts, G!At, GNamed, GMachinePlace
<1>2. CASE G!Taken(v8[p].name)
  BY <1>1, <1>2, GEndStep, GStill DEF G!UpInserts
<1>3. CASE ~G!Taken(v8[p].name)
  <2>1. PICK m \in Nat : m = v9 + 1
    BY GParts
  <2> DEFINE o == [kind |-> "insert", name |-> "bivouac", no |-> m]
             h == [v8[p] EXCEPT !.pc = "wait", !.no = m]
  <2>2. /\ v9' = m
        /\ v1 => v5' = v5 \cup {o} /\ v4' = v4
        /\ ~v1 => v4' = [v4 EXCEPT !["bivouac"] = m] /\ v5' = v5
        /\ v8' = [v8 EXCEPT ![p] = h]
    BY <1>1, <1>3, <2>1, GParts DEF G!UpInserts, G!Begin, G!Operation, GInv, GTypes
  <2>3. o \in GOperation /\ o.kind = "insert" /\ o.no = m
    BY DEF GOperation
  <2>4. h \in GHeld /\ h.pc = "wait" /\ h.name = "bivouac" /\ h.no = m
    BY <1>1, GParts DEF GHeld
  <2> HIDE DEF o, h
  <2>5. v1 => v5 = {}
    BY <1>1, <1>3, GParts DEF G!Taken
  <2>6. v8'[p] = h /\ \A q \in Pair \ {p} : v8'[q] = v8[q]
    BY <2>2 DEF GInv, GTypes
  <2>7. v5 = {} /\ v6' = v6 /\ \A x \in v5' : x = o /\ v1
    BY <1>1, <2>2, <2>5, GParts DEF GOperations
  <2>8. v4["bivouac"] <= v9 /\ v6["bivouac"] <= v9 /\ \A q \in Pair : v8[q].no <= v9 /\ v8[q].no \in Nat
    BY GParts
  <2>9. v4'["bivouac"] = v4["bivouac"] \/ v4'["bivouac"] = m
    BY <2>2 DEF GInv, GTypes
  <2>10. GTypes'
    BY <1>1, <2>1, <2>2, <2>3, <2>4 DEF GInv, GTypes
  <2>11. GNumbers'
    BY <1>1, <2>1, <2>2, <2>4, <2>6, <2>8, <2>9, GParts DEF GNumbers
  <2>12. GOperations'
    <3>1. ~v1' => v5' = {}
      BY <2>2, <2>7
    <3>2. \A x, y \in v5' : x = y
      BY <2>7
    <3>3. \A x \in v5' : x.no # 0 /\ x.no <= v9'
      BY <2>1, <2>2, <2>3, <2>7, GParts
    <3>4. ASSUME NEW x \in v5'
          PROVE  /\ v4'["bivouac"] # x.no /\ v6'["bivouac"] # x.no
                 /\ \A q \in Pair : v8'[q].pc # "wait" => v8'[q].no # x.no
      <4>1. x.no = m /\ v4' = v4 /\ v6' = v6
        BY <2>2, <2>3, <2>7
      <4>2. \A q \in Pair \ {p} : v8[q].no # m
        BY <2>1, <2>8, GParts
      <4> QED
        BY <2>1, <2>4, <2>6, <2>8, <4>1, <4>2, GParts
    <3> QED
      BY <3>1, <3>2, <3>3, <3>4 DEF GOperations
  <2>13. \A q \in Pair : (GNamed(q) /\ GDeletes(q))'
    <3>1. GNamed(p)' /\ GDeletes(p)'
      BY <2>4, <2>6 DEF GNamed, GDeletes
    <3>2. ASSUME NEW q \in Pair \ {p} PROVE GNamed(q)' /\ GDeletes(q)'
      <4>1. GNamed(q) /\ GDeletes(q) /\ v8'[q] = v8[q] /\ v8[q].no # m
        BY <2>1, <2>6, <2>8, GParts
      <4> QED
        BY <2>7, <2>9, <4>1 DEF GNamed, GDeletes
    <3> QED
      BY <3>1, <3>2
  <2> QED
    BY <2>10, <2>11, <2>12, <2>13 DEF GInv
<1> QED
  BY <1>2, <1>3

LEMMA GDestroysStep ==
  ASSUME GInv, UNCHANGED <<v1, v7>>, NEW p \in Pair, G!Destroys(p)
  PROVE  GInv'
<1>1. /\ UNCHANGED <<v6, v9>> /\ v8[p].pc \in {"delete", "undo"} /\ v8[p].name = "bivouac"
      /\ v5 = {}
  BY GParts DEF G!Destroys, G!Done, GNamed, GMachinePlace
<1>2. CASE G!Missing(v8[p].name)
  BY <1>1, <1>2, GEndStep, GStill DEF G!Destroys
<1>3. CASE ~G!Missing(v8[p].name)
  <2>1. PICK k \in {"gone", "undone"} :
          k = (IF v8[p].pc = "delete" THEN "gone" ELSE "undone")
    OBVIOUS
  <2> DEFINE o == [kind |-> "delete", name |-> "bivouac", no |-> v4["bivouac"]]
             h == [v8[p] EXCEPT !.pc = k]
  <2>2. /\ v1 => v5' = v5 \cup {o} /\ v4' = v4
        /\ ~v1 => v4' = [v4 EXCEPT !["bivouac"] = 0] /\ v5' = v5
        /\ v8' = [v8 EXCEPT ![p] = h]
    BY <1>1, <1>3, <2>1, GParts
       DEF G!Destroys, G!Begin, G!Operation, G!Goto, G!At, GInv, GTypes
  <2>3. o \in GOperation /\ o.kind = "delete" /\ o.no = v4["bivouac"]
    BY GParts DEF GOperation
  <2>4. h \in GHeld /\ h.pc = k /\ h.name = "bivouac" /\ h.no = v8[p].no
    BY <1>1, GParts DEF GHeld
  <2> HIDE DEF o, h
  <2>5. v1 => v4["bivouac"] # 0
    BY <1>1, <1>3 DEF G!Missing
  <2>6. v8'[p] = h /\ \A q \in Pair \ {p} : v8'[q] = v8[q]
    BY <2>2 DEF GInv, GTypes
  <2>7. v6' = v6 /\ v9' = v9 /\ \A x \in v5' : x = o /\ v1
    BY <1>1, <2>2
  <2>8. v4' = v4 \/ v4'["bivouac"] = 0
    BY <2>2 DEF GInv, GTypes
  <2>9. GTypes'
    BY <1>1, <2>2, <2>3, <2>4 DEF GInv, GTypes
  <2>10. GNumbers'
    BY <2>4, <2>6, <2>7, <2>8, GParts DEF GNumbers
  <2>11. GOperations'
    BY <2>2, <2>3, <2>5, <2>7, <1>1, GParts DEF GOperations
  <2>12. GNamed(p)' /\ GDeletes(p)'
    <3>1. GNamed(p)'
      BY <2>4, <2>6 DEF GNamed
    <3>2. ASSUME k = "gone" PROVE v8[p].no # 0
      BY <1>1, <2>1, <3>2, GParts DEF GDeletes
    <3>3. v4'["bivouac"] # v8[p].no \/ (o \in v5' /\ o.no = v8[p].no) \/ k # "gone"
      BY <2>2, <2>3, <2>8, <3>2 DEF GInv, GTypes
    <3> QED
      BY <2>3, <2>4, <2>6, <3>1, <3>2, <3>3 DEF GDeletes
  <2>13. ASSUME NEW q \in Pair \ {p} PROVE GNamed(q)' /\ GDeletes(q)'
    <3>1. GNamed(q) /\ GDeletes(q) /\ v8'[q] = v8[q]
      BY <2>6, GParts
    <3> QED
      BY <1>1, <2>8, <3>1 DEF GNamed, GDeletes
  <2> QED
    BY <2>9, <2>10, <2>11, <2>12, <2>13 DEF GInv
<1> QED
  BY <1>2, <1>3

\* An operation ends: only a delete of the machine that runs takes it.
LEMMA GFinishesStep ==
  ASSUME GInv, NEW o \in v5, G!Finishes(o)
  PROVE  GInv'
<1>1. UNCHANGED <<v1, v6, v7, v8, v9>> /\ v5' = {} /\ o.name = "bivouac" /\ o.no # 0
      /\ o.no \in Nat /\ o.no <= v9
  BY GParts DEF G!Finishes, GInv, GOperations, GTypes, GOperation
<1>2. \/ o.kind = "insert" /\ v4' = [v4 EXCEPT !["bivouac"] = o.no]
      \/ o.kind = "insert" /\ v4' = v4
      \/ o.kind = "delete" /\ v4["bivouac"] = o.no /\ v4' = [v4 EXCEPT !["bivouac"] = 0]
      \/ o.kind = "delete" /\ v4["bivouac"] # o.no /\ v4' = v4
  BY <1>1 DEF G!Finishes
<1>3. v4' \in [{"bivouac"} -> Nat] /\ v4'["bivouac"] <= v9
      /\ \/ o.kind = "insert" /\ v4'["bivouac"] = o.no
         \/ o.kind = "insert" /\ v4' = v4
         \/ o.kind = "delete" /\ v4["bivouac"] = o.no /\ v4'["bivouac"] = 0
         \/ o.kind = "delete" /\ v4["bivouac"] # o.no /\ v4' = v4
  BY <1>1, <1>2 DEF GInv, GTypes, GNumbers
<1>4. GTypes' /\ GNumbers' /\ GOperations'
  BY <1>1, <1>3 DEF GInv, GTypes, GNumbers, GOperations
<1>5. ASSUME NEW q \in Pair PROVE GNamed(q)' /\ GDeletes(q)'
  <2>1. GNamed(q) /\ GDeletes(q) /\ (\A x \in v5 : x = o)
        /\ (o.kind = "insert" /\ v8[q].pc # "wait" => v8[q].no # o.no)
    BY DEF GInv, GOperations
  <2> QED
    BY <1>1, <1>3, <2>1 DEF GNamed, GDeletes
<1> QED
  BY <1>4, <1>5 DEF GInv

LEMMA GByHandStep ==
  ASSUME GInv, G!ByHand
  PROVE  GInv'
<1>1. UNCHANGED <<v1, v5, v6, v8, v9>>
  BY DEF G!ByHand
<1>2. v4' = v4 \/ v4' = [v4 EXCEPT !["bivouac"] = 0]
  BY DEF G!ByHand
<1>3. v4' \in [{"bivouac"} -> Nat] /\ (v4' = v4 \/ v4'["bivouac"] = 0)
  BY <1>2 DEF GInv, GTypes
<1>4. v7' \in [Image -> GLabels]
  <2>1. CASE v7' = v7
    BY <2>1, GStill
  <2>2. CASE \E i \in Image : G!Relabelled(i, v7[i].labels \cup {"other"})
    <3>1. PICK i \in Image :
            v7' = [v7 EXCEPT ![i] = [labels |-> v7[i].labels \cup {"other"},
                                     fingerprint |-> v7[i].fingerprint + 1]]
      BY <2>2, GStill DEF G!Relabelled
    <3>2. v7[i] \in GLabels
      BY GStill
    <3>3. [labels |-> v7[i].labels \cup {"other"}, fingerprint |-> v7[i].fingerprint + 1] \in GLabels
      BY <3>2 DEF GLabels
    <3> QED
      BY <3>1, <3>3, GStill
  <2> QED
    BY <2>1, <2>2 DEF G!ByHand
<1>5. GTypes'
  BY <1>1, <1>3, <1>4 DEF GInv, GTypes
<1>6. GNumbers' /\ GOperations'
  <2>1. \A o \in v5 : o.no # 0
    BY DEF GInv, GOperations
  <2>2. GNumbers'
    BY <1>1, <1>3 DEF GInv, GTypes, GNumbers
  <2>3. GOperations'
    BY <1>1, <1>3, <2>1 DEF GInv, GOperations
  <2> QED
    BY <2>2, <2>3
<1>7. ASSUME NEW q \in Pair PROVE GNamed(q)' /\ GDeletes(q)'
  <2>1. GNamed(q) /\ GDeletes(q)
    BY DEF GInv
  <2> QED
    BY <1>1, <1>3, <2>1 DEF GNamed, GDeletes
<1> QED
  BY <1>5, <1>6, <1>7 DEF GInv

\* The images: nothing a machine's command holds or reads.
LEMMA GImagesStep ==
  ASSUME GInv, NEW p \in Pair, G!Images(p)
  PROVE  GInv'
<1>0. UNCHANGED <<v1, v4, v5, v6, v9>>
  BY DEF G!Images
<1>1. CASE \E i \in Image, t \in UserTag : G!TagReads(p, i, t)
  <2>1. PICK i \in Image, t \in UserTag : G!TagReads(p, i, t)
    BY <1>1
  <2> DEFINE h == [G!Idle EXCEPT !.pc = "label", !.image = i, !.tag = t, !.read = v7[i]]
  <2>2. h \in GHeld /\ h.pc = "label" /\ h.no = 0
    BY GStill DEF G!Idle, G!Gone, GHeld, GLabels
  <2>3. v8' = [v8 EXCEPT ![p] = h] /\ v7' = v7
    BY <2>1 DEF G!TagReads
  <2> HIDE DEF h
  <2>4. GMayHold(h)
    BY <2>2 DEF GMayHold, GMachinePlace, GInv, GOperations, GTypes
  <2> QED
    BY <1>0, <2>2, <2>3, <2>4, GQuiet, GStill
<1>2. CASE \E t \in UserTag : G!PruneLists(p, t)
  <2>1. PICK t \in UserTag : G!PruneLists(p, t)
    BY <1>2
  <2>2. PICK i \in Image : v8' = [v8 EXCEPT ![p] = [G!Idle EXCEPT !.pc = "check", !.image = i, !.tag = t]]
    BY <2>1 DEF G!PruneLists, G!ListImages
  <2> DEFINE h == [G!Idle EXCEPT !.pc = "check", !.image = i, !.tag = t]
  <2>3. h \in GHeld /\ h.pc = "check" /\ h.no = 0
    BY DEF G!Idle, G!Gone, GHeld, GLabels
  <2>4. v8' = [v8 EXCEPT ![p] = h] /\ v7' = v7
    BY <2>1, <2>2 DEF G!PruneLists
  <2> HIDE DEF h
  <2>5. GMayHold(h)
    BY <2>3 DEF GMayHold, GMachinePlace, GInv, GOperations, GTypes
  <2> QED
    BY <1>0, <2>3, <2>4, <2>5, GQuiet, GStill
<1>3. CASE G!TagWrites(p)
  <2>1. v8[p] \in GHeld /\ v8[p].pc = "label"
    BY <1>3, GParts DEF G!TagWrites, G!At
  <2>2. v8[p].read.labels \in SUBSET (UserTag \cup {"managed", "other", "gone", "none"})
    BY <2>1 DEF GHeld, GLabels
  <2>3. G!NewLabels(p) \in SUBSET (UserTag \cup {"managed", "other", "gone", "none"})
    <3>1. v8[p].tag \in UserTag \cup {"none"}
      BY <2>1 DEF GHeld
    <3> QED
      BY <2>2, <3>1 DEF G!NewLabels
  <2>4. ASSUME NEW i, NEW labels \in SUBSET (UserTag \cup {"managed", "other", "gone", "none"}),
               G!Relabelled(i, labels)
        PROVE  v7' \in [Image -> GLabels]
    <3> DEFINE l == [labels |-> labels, fingerprint |-> v7[i].fingerprint + 1]
    <3>1. v7 \in [Image -> GLabels] /\ v7' = [v7 EXCEPT ![i] = l]
      BY <2>4, GStill DEF G!Relabelled
    <3>2. i \in Image => l \in GLabels
      BY <3>1 DEF GLabels
    <3> HIDE DEF l
    <3> QED
      BY <3>1, <3>2
  <2>5. ASSUME v8[p].image \in Image PROVE
          (v7[v8[p].image].labels \ UserTag) \cup G!NewLabels(p)
            \in SUBSET (UserTag \cup {"managed", "other", "gone", "none"})
    <3>1. v7[v8[p].image].labels \in SUBSET (UserTag \cup {"managed", "other", "gone", "none"})
      BY <2>5, GStill DEF GLabels
    <3> QED
      BY <2>3, <3>1
  <2>6. v7' \in [Image -> GLabels]
    <3>1. CASE v8[p].image \notin Image
      <4>1. v7' = v7 \/ \E l : v7' = [v7 EXCEPT ![v8[p].image] = l]
        BY <1>3 DEF G!TagWrites, G!Relabelled
      <4> QED
        BY <3>1, <4>1, GStill
    <3>2. CASE v8[p].image \in Image
      BY <1>3, <2>3, <2>4, <2>5, <3>2, GStill DEF G!TagWrites
    <3> QED
      BY <3>1, <3>2
  <2> QED
    BY <1>0, <1>3, <2>6, GEndStep DEF G!TagWrites
<1>4. CASE G!PruneChecks(p)
  <2>1. v7' = v7 /\ v8[p].pc = "check"
    BY <1>4 DEF G!PruneChecks, G!At
  <2> QED
    BY <1>0, <1>4, <2>1, GEndStep, GGotoStep, GStill DEF G!PruneChecks
<1>5. CASE G!PruneDeletes(p)
  <2>1. v7' = [v7 EXCEPT ![v8[p].image] = G!Gone] /\ G!End(p)
    BY <1>5 DEF G!PruneDeletes
  <2>2. G!Gone \in GLabels
    BY DEF G!Gone, GLabels
  <2>3. v7' \in [Image -> GLabels]
    BY <2>1, <2>2, GStill
  <2> QED
    BY <1>0, <2>1, <2>3, GEndStep
<1> QED
  BY <1>1, <1>2, <1>3, <1>4, <1>5 DEF G!Images

LEMMA GMachinesStep ==
  ASSUME GInv, NEW p \in Pair, G!Machines(p)
  PROVE  GInv'
<1>0. UNCHANGED <<v1, v7>>
  BY DEF G!Machines
<1>1. CASE G!UpPutFails(p)
  <2>1. UNCHANGED <<v4, v5, v6, v9>> /\ v8[p].pc = "put" /\ G!Goto(p, "undo")
    BY <1>1 DEF G!UpPutFails, G!At
  <2>2. v8[p].name = "bivouac"
    BY <2>1, GParts DEF GNamed, GMachinePlace
  <2> QED
    BY <1>0, <2>1, <2>2, GGotoStep, GStill
<1>2. CASE G!Undone(p) \/ G!GivesUp(p)
  <2>1. UNCHANGED <<v4, v5, v6, v9>> /\ G!End(p)
    BY <1>2 DEF G!Undone, G!GivesUp
  <2> QED
    BY <1>0, <2>1, GEndStep, GStill
<1> QED
  BY <1>0, <1>1, <1>2, GUpBeginsStep, GUpInsertsStep, GUpWaitsStep, GUpPutsStep,
     GDestroysStep, GDownClearsStep
     DEF G!Machines

LEMMA GInvInit ==
  ASSUME G!Init
  PROVE  GInv
<1>1. GTypes
  <2>1. \A i \in Image : [labels |-> {"managed"}, fingerprint |-> 0] \in GLabels
    BY DEF GLabels
  <2> QED
    BY <2>1, GIdleHeld DEF G!Init, GTypes
<1>2. GOperations /\ GNumbers
  BY GIdleHeld DEF G!Init, GOperations, GNumbers
<1>3. \A p \in Pair : GNamed(p) /\ GDeletes(p)
  BY GIdleHeld DEF G!Init, GNamed, GDeletes, GMachinePlace
<1> QED
  BY <1>1, <1>2, <1>3 DEF GInv

LEMMA GInvNext ==
  ASSUME GInv, [G!Next]_G!vars
  PROVE  GInv'
<1>1. CASE UNCHANGED G!vars
  BY <1>1 DEF G!vars, GInv, GTypes, GOperations, GNumbers, GNamed, GDeletes
<1> QED
  BY <1>1, GMachinesStep, GImagesStep, GFinishesStep, GByHandStep DEF G!Next

GCloudHolds == part = "gcloud" => GInv

LEMMA GCloudStays == GCloudHolds /\ [MachinesNext]_all => GCloudHolds'
<1> SUFFICES ASSUME GCloudHolds, [MachinesNext]_all, part' = "gcloud" PROVE GInv'
  BY DEF GCloudHolds
<1>1. part = "gcloud"
  BY DEF MachinesNext, all
<1>2. [G!Next]_G!vars
  BY <1>1 DEF MachinesNext, InstanceMoves, ProvisionMoves, CloudMoves, GCloudMoves, StoreMoves,
     all, rest10,
     G!vars
<1> QED
  BY <1>1, <1>2, GInvNext DEF GCloudHolds

\* down takes an instance off the record only when the machine it was made for no
\* longer runs, for any number of processes, machines, failures and edits by hand
\* (gcloud, Destroy).
THEOREM ClearedIsGoneAlways == MachinesSpec => []ClearedIsGone
<1>1. PartInit => GCloudHolds
  BY GInvInit DEF PartInit, GCloudHolds
<1>2. GCloudHolds => ClearedIsGone
  <2> SUFFICES ASSUME GInv PROVE G!ClearedIsGone
    BY DEF GCloudHolds, ClearedIsGone
  <2> SUFFICES ASSUME NEW p \in Pair, G!At(p, "gone"), G!Done(p)
               PROVE  v4[v8[p].name] # v8[p].no
    BY DEF G!ClearedIsGone
  <2>1. GNamed(p) /\ GDeletes(p) /\ v8[p].pc = "gone"
    BY DEF GInv, G!At
  <2>2. v8[p].name = "bivouac"
    BY <2>1 DEF GNamed, GMachinePlace
  <2>3. \A o \in v5 : o.name = "bivouac"
    BY GParts
  <2> QED
    BY <2>1, <2>2, <2>3 DEF GDeletes, G!Done
<1> QED
  BY <1>1, <1>2, GCloudStays, PTL DEF MachinesSpec, MachinesNext

-------------------------------------------------------------------------------
(* Store in MachinesSpec: v1 is the file, v2 and v3 the holders of its lock, v4 *)
(* the processes and v5 the number of changes                                   *)

FFile == [Pair -> SUBSET Nat]
FHeld == [pc : {"idle", "read", "save"}, op : F!Operation, name : Pair \cup {"none"},
          read : FFile]

FTypes ==
  /\ v1 \in FFile /\ v2 \in SUBSET Process /\ v3 \in Process \cup {"none"}
  /\ v4 \in [Process -> FHeld] /\ v5 \in Nat

\* A process that writes has the lock alone, and then the file is what it read.
FWriting(p) ==
  /\ v4[p].pc # "idle" => v4[p].name \in Pair
  /\ v4[p].pc # "idle" /\ F!Alone(v4[p].op) => v3 = p /\ v2 = {}
  /\ v4[p].pc = "save" => F!Alone(v4[p].op) /\ v4[p].read = v1
  /\ v4[p].pc # "idle" /\ ~F!Alone(v4[p].op) => p \in v2 /\ v3 = "none"

FInv == FTypes /\ \A p \in Process : FWriting(p)

LEMMA FParts ==
  ASSUME FInv, NEW p \in Process
  PROVE  /\ v4[p] \in FHeld /\ v4[p].pc \in {"idle", "read", "save"} /\ v4[p].read \in FFile
         /\ v4 \in [Process -> FHeld] /\ p # "none" /\ FWriting(p)
<1>1. v4 \in [Process -> FHeld] /\ v4[p] \in FHeld
  BY DEF FInv, FTypes
<1> QED
  BY <1>1, PartsAssumption DEF F!StoreAssumption, FInv, FHeld

\* A process that ends gives back what it has of the lock.
LEMMA FEndStep ==
  ASSUME FInv, NEW p \in Process, F!End(p), v1' \in FFile, v5' \in Nat,
         v1' = v1 \/ (v4[p].pc = "save")
  PROVE  FInv'
<1>1. F!Idle \in FHeld /\ F!Idle.pc = "idle"
  BY DEF F!Idle, F!NoFile, F!Operation, FHeld, FFile
<1>2. FTypes'
  BY <1>1, FParts DEF F!End, FInv, FTypes
<1>3. FWriting(p)'
  BY <1>1, FParts DEF F!End, FWriting
<1>4. ASSUME NEW q \in Process \ {p} PROVE FWriting(q)'
  <2>1. v4'[q] = v4[q]
    BY FParts DEF F!End
  <2>2. FWriting(q) /\ FWriting(p) /\ q # "none" /\ p # "none"
    BY FParts
  <2> QED
    BY <2>1, <2>2 DEF F!End, FWriting
<1> QED
  BY <1>2, <1>3, <1>4 DEF FInv

LEMMA FTakesStep ==
  ASSUME FInv, NEW p \in Process, NEW op \in F!Operation, NEW n \in Pair, F!Takes(p, op, n)
  PROVE  FInv'
<1>1. /\ v4'[p].pc = "read" /\ v4'[p].op = op /\ v4'[p].name = n /\ v4'[p] \in FHeld
      /\ v4' \in [Process -> FHeld] /\ \A q \in Process \ {p} : v4'[q] = v4[q]
  BY FParts DEF F!Takes, FHeld
<1>2. v1' = v1 /\ v5' = v5 /\ v3 = "none" /\ (F!Alone(op) => v2 = {})
      /\ v4[p].pc = "idle"
      /\ v2' = (IF F!Alone(op) THEN v2 ELSE v2 \cup {p})
      /\ v3' = (IF F!Alone(op) THEN p ELSE v3)
  BY DEF F!Takes, F!At
<1>3. FTypes'
  BY <1>1, <1>2 DEF FInv, FTypes
<1>4. FWriting(p)'
  BY <1>1, <1>2 DEF FWriting
<1>5. ASSUME NEW q \in Process \ {p} PROVE FWriting(q)'
  BY <1>1, <1>2, FParts DEF FWriting
<1> QED
  BY <1>3, <1>4, <1>5 DEF FInv

LEMMA FReadsStep ==
  ASSUME FInv, NEW p \in Process, F!Reads(p)
  PROVE  FInv'
<1>1. CASE v4[p].op = "get"
  BY <1>1, FEndStep DEF F!Reads, FInv, FTypes
<1>2. CASE v4[p].op # "get"
  <2>1. /\ v4[p].pc = "read" /\ UNCHANGED <<v1, v2, v3, v5>>
        /\ v4' = [v4 EXCEPT ![p].pc = "save", ![p].read = v1]
    BY <1>2 DEF F!Reads, F!At
  <2>2. /\ v4'[p].pc = "save" /\ v4'[p].op = v4[p].op /\ v4'[p].name = v4[p].name
        /\ v4'[p].read = v1 /\ v4' \in [Process -> FHeld]
        /\ \A q \in Process \ {p} : v4'[q] = v4[q]
    BY <2>1, FParts DEF FHeld, FInv, FTypes
  <2>3. FWriting(p)'
    BY <1>2, <2>1, <2>2, FParts DEF FWriting, F!Alone
  <2>4. ASSUME NEW q \in Process \ {p} PROVE FWriting(q)'
    BY <2>1, <2>2, FParts DEF FWriting
  <2> QED
    BY <2>1, <2>2, <2>3, <2>4 DEF FInv, FTypes
<1> QED
  BY <1>1, <1>2

\* What is saved is the file as it is, but for the record the command is about.
LEMMA FSaves ==
  ASSUME FInv, NEW p \in Process, F!Saves(p)
  PROVE  /\ v4[p].pc = "save" /\ v4[p].name \in Pair /\ v1' \in FFile /\ v5' \in Nat
         /\ \A n \in Pair : n # v4[p].name => v1'[n] = v1[n]
         /\ v4[p].op = "update" => v1[v4[p].name] # {}
                                    /\ v1[v4[p].name] \subseteq v1'[v4[p].name]
<1>1. /\ v4[p].pc = "save" /\ v4[p].name \in Pair /\ v4[p].read = v1 /\ v1 \in FFile
      /\ v5 \in Nat /\ v5' = v5 + 1 /\ v4[p].op \in {"put", "update", "delete"}
  BY FParts DEF F!Saves, F!At, FWriting, FInv, FTypes, FHeld, F!Operation, F!Alone
<1>2. v1' = [v1 EXCEPT ![v4[p].name] = F!Changed(p, v5')]
  BY <1>1 DEF F!Saves
<1>3. F!Changed(p, v5') \in SUBSET Nat
      /\ (v4[p].op = "update" => F!Changed(p, v5') = v1[v4[p].name] \cup {v5'})
  BY <1>1 DEF F!Changed, FFile
<1> QED
  BY <1>1, <1>2, <1>3 DEF F!Saves, FFile

LEMMA FInvNext ==
  ASSUME FInv, [F!Next]_F!vars
  PROVE  FInv'
<1>1. ASSUME NEW p \in Process, F!Refuses(p) \/ F!Fails(p) PROVE FInv'
  BY <1>1, FEndStep DEF F!Refuses, F!Fails, FInv, FTypes
<1>2. ASSUME NEW p \in Process, F!Saves(p) PROVE FInv'
  BY <1>2, FSaves, FEndStep DEF F!Saves
<1>3. CASE UNCHANGED F!vars
  BY <1>3 DEF F!vars, FInv, FTypes, FWriting
<1> QED
  BY <1>1, <1>2, <1>3, FTakesStep, FReadsStep DEF F!Next

StoreHolds == part = "store" => FInv

LEMMA StoreInit == PartInit => StoreHolds
<1> SUFFICES ASSUME F!Init PROVE FInv
  BY DEF PartInit, StoreHolds
<1>1. F!Idle \in FHeld /\ F!Idle.pc = "idle" /\ F!NoFile \in FFile
  BY DEF F!Idle, F!NoFile, F!Operation, FHeld, FFile
<1> QED
  BY <1>1 DEF F!Init, FInv, FTypes, FWriting

LEMMA StoreNext ==
  ASSUME StoreHolds, [MachinesNext]_all, part = "store" \/ part' = "store"
  PROVE  part = "store" /\ part' = "store" /\ FInv /\ [F!Next]_F!vars
<1>1. part' = part
  BY DEF MachinesNext, all
<1>2. [F!Next]_F!vars
  BY <1>1 DEF MachinesNext, InstanceMoves, ProvisionMoves, CloudMoves, GCloudMoves, StoreMoves,
     all, F!vars
<1> QED
  BY <1>1, <1>2 DEF StoreHolds

LEMMA StoreStays == StoreHolds /\ [MachinesNext]_all => StoreHolds'
<1> SUFFICES ASSUME StoreHolds, [MachinesNext]_all, part' = "store" PROVE FInv'
  BY DEF StoreHolds
<1> QED
  BY StoreNext, FInvNext

\* A record of the state file changes only by a command about it, and an update
\* keeps all that other commands have changed by then, for any number of
\* processes, instances, crashes and failed calls (state.go, locking.go).
THEOREM ChangesAreKept == MachinesSpec => NoChangeUndone
<1>1. ASSUME FInv, [F!Next]_F!vars PROVE F!Undisturbed
  <2> SUFFICES ASSUME NEW n \in Pair, v1'[n] # v1[n]
               PROVE  \E p \in Process :
                        /\ F!Saves(p) /\ v4[p].name = n
                        /\ v4[p].op = "update" => v1[n] # {} /\ v1[n] \subseteq v1'[n]
    BY DEF F!Undisturbed
  <2>1. PICK p \in Process : F!Saves(p)
    BY <1>1 DEF F!Next, F!Takes, F!Reads, F!Refuses, F!Fails, F!vars
  <2> QED
    BY <1>1, <2>1, FSaves
<1>2. StoreHolds /\ [MachinesNext]_all => [part = "store" => F!Undisturbed]_all
  BY <1>1, StoreNext
<1> QED
  BY <1>2, StoreInit, StoreStays, PTL DEF MachinesSpec, MachinesNext, NoChangeUndone
================================================================================
