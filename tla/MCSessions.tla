------------------------------ MODULE MCSessions ------------------------------
(***************************************************************************)
(* The parts of a session's life that share no state, checked in one run:  *)
(* the initial state picks one part, and only that part then moves. The    *)
(* first, IssueGate, has variables of its own and stays where it starts    *)
(* when another is picked; the others take turns in v1..v14.               *)
(***************************************************************************)
EXTENDS IssueGate, TLC

CONSTANTS
  Terminal, Name,                                          \* several parts
  MaxHead, MaxWork,                                        \* Seeding
  Instructions, MaxLines,                                  \* AgentContext
  Layouts, MaxPanes, MaxUserActs, MaxFailures,             \* Layout
  MaxGen,                                                  \* Access
  FirstProjects, FirstBases, Answer, Key, MaxCommands,     \* Setup
  Port, InfraPorts, OtherPort, Bind, MaxEvents,            \* Serving
  MaxProfiles, MaxSpaces, MaxUps, MaxCatalogEdits          \* Sidebar

VARIABLES part, v1, v2, v3, v4, v5, v6, v7, v8, v9, v10, v11, v12, v13, v14

D == INSTANCE Seeding WITH
       Command <- Process,
       head <- v1, record <- v2, lock <- v3, repo <- v4, mirror <- v5, cmd <- v6, edits <- v7,
       faults <- v8
A == INSTANCE AgentContext WITH
       Writer <- Process, file <- v1, version <- v2, writer <- v3, added <- v4, faults <- v5
L == INSTANCE Layout WITH
       Attach <- Process, Overlap <- FALSE,
       tabs <- v1, panes <- v2, made <- v3, att <- v4, acts <- v5, fails <- v6
C == INSTANCE Access WITH
       made <- v1, alive <- v2, joined <- v3, tailnet <- v4, record <- v5, index <- v6,
       config <- v7, include <- v8, clash <- v9, lock <- v10, cmd <- v11, faults <- v12
U == INSTANCE Setup WITH
       Process <- {Terminal}, Project <- Name, Overlap <- FALSE,
       project <- v1, base <- v2, preset <- v3, cmd <- v4, commands <- v5
S == INSTANCE Serving WITH
       sockets <- v1, entries <- v2, tailnet <- v3, key <- v4, local <- v5, cmd <- v6, events <- v7
B == INSTANCE Sidebar WITH
       Session <- Name, MaxEdits <- MaxCatalogEdits,
       machines <- v1, record <- v2, attached <- v3, spaces <- v4, shared <- v5, alone <- v6,
       held <- v7, at <- v8, slipped <- v9, saved <- v10, made <- v11, ups <- v12,
       edits <- v13, faults <- v14

PartsAssumption ==
  /\ D!SeedingAssumption /\ A!AgentContextAssumption /\ L!LayoutAssumption /\ C!AccessAssumption
  /\ U!SetupAssumption /\ S!ServingAssumption /\ B!SidebarAssumption /\ B!NobodyAssumption
ASSUME PartsAssumption

\* The variables a part with five, six, seven, eight or twelve of its own leaves alone.
rest12 == <<v13, v14>>
rest8 == <<v9, v10, v11, v12, rest12>>
rest7 == <<v8, rest8>>
rest6 == <<v7, rest7>>
rest5 == <<v6, rest6>>
all == <<vars, part, v1, v2, v3, v4, v5, rest5>>

Unused12 == v13 = 0 /\ v14 = 0
Unused8 == v9 = 0 /\ v10 = 0 /\ v11 = 0 /\ v12 = 0 /\ Unused12
Unused7 == v8 = 0 /\ Unused8
Unused6 == v7 = 0 /\ Unused7
Unused5 == v6 = 0 /\ Unused6

PartInit ==
  /\ Init
  /\ \/ part = "issues" /\ v1 = 0 /\ v2 = 0 /\ v3 = 0 /\ v4 = 0 /\ v5 = 0 /\ Unused5
     \/ part = "seeding" /\ D!Init /\ Unused8
     \/ part = "agent" /\ A!Init /\ Unused5
     \/ part = "layout" /\ L!Init /\ Unused6
     \/ part = "access" /\ C!Init /\ Unused12
     \/ part = "setup" /\ U!Init /\ Unused5
     \/ part = "serving" /\ S!Init /\ Unused7
     \/ part = "sidebar" /\ B!Init

IssuesMove == part = "issues" /\ Next /\ UNCHANGED <<v1, v2, v3, v4, v5, rest5>>
SeedingMoves == part = "seeding" /\ D!Next /\ UNCHANGED <<vars, rest8>>
AgentMoves == part = "agent" /\ A!Next /\ UNCHANGED <<vars, rest5>>
LayoutMoves == part = "layout" /\ L!Next /\ UNCHANGED <<vars, rest6>>
AccessMoves == part = "access" /\ C!Next /\ UNCHANGED <<vars, rest12>>
SetupMoves == part = "setup" /\ U!Next /\ UNCHANGED <<vars, rest5>>
ServingMoves == part = "serving" /\ S!Next /\ UNCHANGED <<vars, rest7>>
SidebarMoves == part = "sidebar" /\ B!Next /\ UNCHANGED vars

SessionsSpec ==
  /\ PartInit
  /\ [][/\ \/ IssuesMove \/ SeedingMoves \/ AgentMoves \/ LayoutMoves \/ AccessMoves
           \/ SetupMoves \/ ServingMoves \/ SidebarMoves
        /\ UNCHANGED part]_all

\* What an instruction file, a bivouac.pkl and a base.pkl may hold; sizes and
\* names stand for the fields of their kind.
MCInstructions == << <<>>, <<"do", "quoted end">> >>
TabA == [label |-> "a", away |-> FALSE, panes |-> <<"s", "t">>]
TabB == [label |-> "b", away |-> TRUE, panes |-> <<"u">>]
TabC == [label |-> "c", away |-> FALSE, panes |-> <<"t", "s">>]
MCLayouts == {<<>>, <<TabA, TabB>>, <<TabB>>, <<TabB, TabA>>, <<TabC>>}
Declares(values) == [there |-> TRUE, values |-> values]
Absent == [there |-> FALSE, values |-> [f \in {} |-> ""]]
MCProjects ==
  {Absent, Declares("template" :> "docker" @@ "provider" :> "gcloud" @@ "image" :> "own"),
   Declares("template" :> "docker" @@ "size" :> "m" @@ "sshKeys" :> {"k1"} @@ "instructions" :> "file"),
   Declares("template" :> "docker" @@ "sshKeys" :> {"old"})}
MCBases ==
  {Absent, Declares("size" :> "s" @@ "sshKeys" :> {"k2"}), Declares("size" :> "s" @@ "beads" :> "dolthub")}
MCAnswer == "size" :> {"s"} @@ "instructions" :> {""} @@ "template" :> {"", "docker"}
            @@ "beads" :> {"session", "dolthub"}

\* Processes are alike in every part, and so are names.
Symmetry == Permutations(Process) \cup Permutations(Name)

-------------------------------------------------------------------------------
(* Properties: those of the parts, each of its own behaviours *)

\* Seeding: no commit of the session is by an author git made up.
NoInventedAuthor == part = "seeding" => D!NoInventedAuthor

\* Seeding: nothing takes a commit out of the session's branch.
WorkIsKept == [][part = "seeding" => D!Keeping]_all

\* Seeding: what a pull found in the checkout is in the user's repository when it
\* succeeds.
PullIsComplete == [][part = "seeding" => D!Pulling]_all

\* AgentContext: a write that is not cut off leaves the instructions its writer
\* rendered as the block a reader finds first.
Delivered == [][part = "agent" => A!Delivery]_all

\* Layout: every tab an attach did not report as failed is there with all its
\* panes, unless the user changed the workspace meanwhile or it renamed a pane.
LaidOut == [][part = "layout" => L!LaysOut]_all

\* Access: a publication that ends well leaves both files whole, also profiles an
\* earlier one was interrupted in.
SuccessIsWhole == [][part = "access" => C!Success]_all

\* Setup: what init takes out of a project's file is in base.pkl by then, as it was.
MovedIsKept == [][part = "setup" => U!Moving]_all

\* Serving: the local port connect names is held by its own ssh.
ForwardIsOurs == part = "serving" => S!ForwardIsOurs

\* Sidebar: a session has one workspace, whatever answers were lost, unless an
\* attach died between naming the workspace and recording it.
OneWorkspace == part = "sidebar" => B!OneWorkspace
===============================================================================
