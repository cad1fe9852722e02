---------------------------- MODULE SessionsProofs ----------------------------
(***************************************************************************)
(* The properties of MCSessions, proved of its own specification: each     *)
(* part with the inductive invariant its property needs, for every number  *)
(* of processes, every bound and whatever the other parts do.              *)
(***************************************************************************)
EXTENDS MCSessions, FiniteSetTheorems, SequenceTheorems, TLAPS

Parts == SeedingMoves \/ AgentMoves \/ LayoutMoves \/ AccessMoves \/ SetupMoves
         \/ ServingMoves \/ SidebarMoves

-------------------------------------------------------------------------------
(* Access: the two profile files. Only one process is between taking and     *)
(* releasing the profile lock, and of what it has written the index is what  *)
(* it read, with its own change, and the configuration is the index.         *)

Conn == [gen : Nat, host : {"none", "public", "tailnet"}]
Holding == {"read", "drop", "index", "config", "include", "unlock"}
Onwards == {"idle", "repair", "join", "end", "forget"}
AccessSteps == Holding \cup Onwards \cup {"check", "lock", "unpublish", "create", "put",
                                          "transfer", "ask", "remember", "destroy"}
AccessCmd == [pc : AccessSteps, op : {"none", "up", "visit", "down"},
              name : Name \cup {"none"}, vm : Nat, conn : Conn, want : Conn,
              got : [Name -> Conn], then : Onwards]

AccessTypes ==
  /\ v1 \in [Name -> Nat] /\ v5 \in [Name -> [gen : Nat, conn : Conn]]
  /\ v6 \in [Name -> Conn] /\ v7 \in [Name -> Conn]
  /\ v11 \in [Process -> AccessCmd]
  /\ \A p \in Process : v11[p].pc # "idle" => v11[p].name \in Name

AccessFiles ==
  \A p \in Process :
    /\ v11[p].pc \in Holding => v10 = {p}
    /\ v11[p].pc = "config" => v6 = v11[p].got
    /\ v11[p].pc \in {"include", "unlock"} => v7 = v6

AccessInv == AccessTypes /\ AccessFiles

LEMMA AccessInit == C!Init => AccessInv
BY DEF C!Init, C!Idle, C!None, C!Untracked, AccessInv, AccessTypes, AccessFiles, AccessCmd,
       AccessSteps, Holding, Onwards, Conn
\* What a step of one process has to keep for the rest to stay as it is.
LEMMA AccessStep ==
  ASSUME AccessInv, NEW p \in Process,
         v11' \in [Process -> AccessCmd], \A q \in Process : q # p => v11'[q] = v11[q],
         v11'[p].pc # "idle" => v11'[p].name \in Name,
         v11'[p].pc \in Holding => v10' = {p},
         v11'[p].pc = "config" => v6' = v11'[p].got,
         v11'[p].pc \in {"include", "unlock"} => v7' = v6',
         \A q \in Process : q # p /\ v10 = {q} => v10' = {q} /\ v6' = v6 /\ v7' = v7,
         v6' \in [Name -> Conn], v7' \in [Name -> Conn],
         v1' \in [Name -> Nat], v5' \in [Name -> [gen : Nat, conn : Conn]]
  PROVE  AccessInv'
<1>1. AccessTypes'
  BY DEF AccessInv, AccessTypes
<1>2. AccessFiles'
  <2>1. SUFFICES ASSUME NEW q \in Process
                 PROVE  (/\ v11[q].pc \in Holding => v10 = {q}
                         /\ v11[q].pc = "config" => v6 = v11[q].got
                         /\ v11[q].pc \in {"include", "unlock"} => v7 = v6)'
    BY DEF AccessFiles
  <2>2. CASE q = p
    BY <2>2
  <2>3. CASE q # p
    <3>1. /\ v11[q].pc \in Holding => v10 = {q}
          /\ v11[q].pc = "config" => v6 = v11[q].got
          /\ v11[q].pc \in {"include", "unlock"} => v7 = v6
      BY DEF AccessInv, AccessFiles
    <3>2. v11'[q] = v11[q]
      BY <2>3
    <3>3. CASE v11[q].pc \in Holding
      BY <2>3, <3>1, <3>2, <3>3
    <3>4. CASE v11[q].pc \notin Holding
      BY <3>2, <3>4 DEF Holding
    <3>5. QED
      BY <3>3, <3>4
  <2>4. QED
    BY <2>2, <2>3
<1>3. QED
  BY <1>1, <1>2 DEF AccessInv

\* A step that changes nothing of a process but where it is.
LEMMA AccessGoes ==
  ASSUME AccessTypes, NEW p \in Process, NEW x \in AccessSteps,
         v11' = [v11 EXCEPT ![p].pc = x]
  PROVE  /\ v11' \in [Process -> AccessCmd]
         /\ v11'[p].pc = x /\ v11'[p].name = v11[p].name /\ v11'[p].got = v11[p].got
         /\ \A q \in Process : q # p => v11'[q] = v11[q]
BY DEF AccessTypes, AccessCmd

\* A process that ends lets go of the lock.
LEMMA AccessEnds ==
  ASSUME AccessInv, NEW p \in Process, C!Ends(p), UNCHANGED <<v1, v6, v7>>,
         v5' \in [Name -> [gen : Nat, conn : Conn]]
  PROVE  AccessInv'
<1>1. C!Idle \in AccessCmd /\ C!Idle.pc = "idle"
  BY DEF C!Idle, C!None, AccessCmd, AccessSteps, Onwards, Conn
<1>2. v11' = [v11 EXCEPT ![p] = C!Idle] /\ v10' = v10 \ {p}
  BY DEF C!Ends
<1>3. /\ v11' \in [Process -> AccessCmd] /\ v11'[p].pc = "idle"
      /\ \A q \in Process : q # p => v11'[q] = v11[q]
  BY <1>1, <1>2 DEF AccessInv, AccessTypes
<1>4. \A q \in Process : q # p /\ v10 = {q} => v10' = {q}
  BY <1>2
<1>5. /\ v6' \in [Name -> Conn] /\ v7' \in [Name -> Conn] /\ v1' \in [Name -> Nat]
  BY DEF AccessInv, AccessTypes
<1>6. "idle" \notin Holding
  BY DEF Holding
<1>7. QED
  BY <1>3, <1>4, <1>5, <1>6, AccessStep

\* The steps of a publication.
LEMMA AccessPublishes ==
  ASSUME AccessInv, NEW p \in Process,
         \/ C!Checks(p) \/ C!Locks(p) \/ C!Reads(p) \/ C!Drops(p) \/ C!PublishesIndex(p)
         \/ C!PublishesConfig(p) \/ C!Includes(p) \/ C!Unlocks(p) \/ C!Conflicts(p)
  PROVE  AccessInv'
<1> USE DEF C!At, C!My, C!Goto, C!cloud, C!world, C!files
<1>a. /\ AccessTypes /\ AccessFiles /\ v11[p] \in AccessCmd
      /\ v11[p].pc # "idle" => v11[p].name \in Name
  BY DEF AccessInv, AccessTypes
<1>b. v6 \in [Name -> Conn] /\ v7 \in [Name -> Conn] /\ v1 \in [Name -> Nat]
      /\ v5 \in [Name -> [gen : Nat, conn : Conn]]
  BY <1>a DEF AccessTypes
<1>c. Holding \cup Onwards \cup {"lock", "unpublish"} \subseteq AccessSteps
  BY DEF AccessSteps
<1>d. /\ v11[p].pc \in Holding => v10 = {p}
      /\ v11[p].pc = "config" => v6 = v11[p].got
      /\ v11[p].pc \in {"include", "unlock"} => v7 = v6
  BY <1>a DEF AccessFiles
<1>e. v11[p].got \in [Name -> Conn] /\ v11[p].want \in Conn /\ v11[p].then \in Onwards
  BY <1>a DEF AccessCmd
<1>1. CASE C!Checks(p)
  <2>1. v11' = [v11 EXCEPT ![p].pc = "lock"] /\ UNCHANGED <<v1, v5, v6, v7, v10>>
        /\ v11[p].pc = "check"
    BY <1>1 DEF C!Checks
  <2>2. /\ v11' \in [Process -> AccessCmd]
        /\ v11'[p].pc = "lock" /\ v11'[p].name = v11[p].name
        /\ \A q \in Process : q # p => v11'[q] = v11[q]
    BY <1>a, <1>c, <2>1, AccessGoes
  <2>3. QED
    BY <1>a, <1>b, <2>1, <2>2, AccessStep DEF Holding
<1>2. CASE C!Locks(p)
  <2>1. PICK x \in {"read", "drop"} :
          v11' = [v11 EXCEPT ![p].pc = x] /\ UNCHANGED <<v1, v5, v6, v7>> /\ v10 = {} /\ v10' = {p}
          /\ v11[p].pc # "idle"
    BY <1>2 DEF C!Locks, C!Free
  <2>2. /\ v11' \in [Process -> AccessCmd]
        /\ v11'[p].pc = x /\ v11'[p].name = v11[p].name
        /\ \A q \in Process : q # p => v11'[q] = v11[q]
    BY <1>a, <1>c, <2>1, AccessGoes DEF Holding
  <2>3. QED
    BY <1>a, <1>b, <2>1, <2>2, AccessStep
<1>3. CASE C!Reads(p) \/ C!Drops(p)
  <2>1. PICK got \in [Name -> Conn] :
          v11' = [v11 EXCEPT ![p].got = got, ![p].pc = "index"]
    <3>1. C!None \in Conn
      BY DEF C!None, Conn
    <3>2. CASE C!Reads(p)
      BY <1>b, <1>e, <3>2 DEF C!Reads, C!ToPublish
    <3>3. CASE C!Drops(p)
      BY <1>b, <3>1, <3>3 DEF C!Drops
    <3>4. QED
      BY <1>3, <3>2, <3>3
  <2>2. UNCHANGED <<v1, v5, v6, v7, v10>> /\ v11[p].pc \in {"read", "drop"}
    BY <1>3 DEF C!Reads, C!Drops
  <2>3. /\ v11' \in [Process -> AccessCmd]
        /\ v11'[p].pc = "index" /\ v11'[p].name = v11[p].name
        /\ \A q \in Process : q # p => v11'[q] = v11[q]
    BY <1>a, <2>1 DEF AccessTypes, AccessCmd, AccessSteps, Holding
  <2>4. v10 = {p}
    BY <1>d, <2>2 DEF Holding
  <2>5. QED
    BY <1>a, <1>b, <2>2, <2>3, <2>4, AccessStep
<1>4. CASE C!PublishesIndex(p)
  <2>1. /\ v11' = [v11 EXCEPT ![p].pc = "config"] /\ UNCHANGED <<v1, v5, v7, v10>>
        /\ v11[p].pc = "index" /\ v6' = v11[p].got
    BY <1>4 DEF C!PublishesIndex
  <2>2. /\ v11' \in [Process -> AccessCmd]
        /\ v11'[p].pc = "config" /\ v11'[p].name = v11[p].name /\ v11'[p].got = v11[p].got
        /\ \A q \in Process : q # p => v11'[q] = v11[q]
    BY <1>a, <1>c, <2>1, AccessGoes DEF Holding
  <2>3. v10 = {p} /\ \A q \in Process : q # p => v10 # {q}
    BY <1>d, <2>1 DEF Holding
  <2>4. v6' \in [Name -> Conn] /\ v7' \in [Name -> Conn] /\ v6' = v11'[p].got
    BY <1>b, <1>e, <2>1, <2>2
  <2>5. v11'[p].name \in Name /\ v10' = {p}
    BY <1>a, <2>1, <2>2, <2>3
  <2>6. QED
    BY <1>b, <2>1, <2>2, <2>3, <2>4, <2>5, AccessStep
<1>5. CASE C!PublishesConfig(p)
  <2>1. PICK x \in {"include", "unlock"} :
          /\ v11' = [v11 EXCEPT ![p].pc = x] /\ UNCHANGED <<v1, v5, v6, v10>>
          /\ v11[p].pc = "config" /\ v7' = v11[p].got
    BY <1>5 DEF C!PublishesConfig
  <2>2. /\ v11' \in [Process -> AccessCmd]
        /\ v11'[p].pc = x /\ v11'[p].name = v11[p].name
        /\ \A q \in Process : q # p => v11'[q] = v11[q]
    BY <1>a, <1>c, <2>1, AccessGoes DEF Holding
  <2>3. v10 = {p} /\ v6 = v11[p].got /\ \A q \in Process : q # p => v10 # {q}
    BY <1>d, <2>1 DEF Holding
  <2>4. v6' \in [Name -> Conn] /\ v7' \in [Name -> Conn] /\ v7' = v6'
    BY <1>b, <1>e, <2>1, <2>3
  <2>5. v11'[p].name \in Name /\ v10' = {p}
    BY <1>a, <2>1, <2>2, <2>3
  <2>6. QED
    BY <1>b, <2>1, <2>2, <2>3, <2>4, <2>5, AccessStep
<1>6. CASE C!Includes(p)
  <2>1. /\ v11' = [v11 EXCEPT ![p].pc = "unlock"] /\ UNCHANGED <<v1, v5, v6, v7, v10>>
        /\ v11[p].pc = "include"
    BY <1>6 DEF C!Includes
  <2>2. /\ v11' \in [Process -> AccessCmd]
        /\ v11'[p].pc = "unlock" /\ v11'[p].name = v11[p].name
        /\ \A q \in Process : q # p => v11'[q] = v11[q]
    BY <1>a, <1>c, <2>1, AccessGoes DEF Holding
  <2>3. v10 = {p} /\ v7 = v6
    BY <1>d, <2>1 DEF Holding
  <2>4. QED
    BY <1>a, <1>b, <2>1, <2>2, <2>3, AccessStep
<1>7. CASE C!Unlocks(p)
  <2>1. /\ v11' = [v11 EXCEPT ![p].pc = v11[p].then, ![p].want = C!None, ![p].got = C!Idle.got]
        /\ UNCHANGED <<v1, v5, v6, v7>> /\ v11[p].pc = "unlock" /\ v10' = v10 \ {p}
    BY <1>7 DEF C!Unlocks
  <2>2. C!None \in Conn /\ C!Idle.got \in [Name -> Conn]
    BY DEF C!None, C!Idle, Conn
  <2>3. /\ v11' \in [Process -> AccessCmd]
        /\ v11'[p].pc = v11[p].then /\ v11'[p].name = v11[p].name
        /\ \A q \in Process : q # p => v11'[q] = v11[q]
    BY <1>a, <1>e, <2>1, <2>2 DEF AccessTypes, AccessCmd, AccessSteps
  <2>4. v10 = {p}
    BY <1>d, <2>1 DEF Holding
  <2>5. v11'[p].pc \notin Holding /\ v11'[p].pc \notin {"config", "include", "unlock"}
    BY <1>e, <2>3 DEF Onwards, Holding
  <2>6. v11'[p].name \in Name /\ \A q \in Process : q # p => v10 # {q}
    BY <1>a, <2>1, <2>3, <2>4
  <2>7. QED
    BY <1>b, <2>1, <2>3, <2>5, <2>6, AccessStep
<1>8. CASE C!Conflicts(p)
  BY <1>8, <1>b, AccessEnds DEF C!Conflicts
<1>9. QED
  BY <1>1, <1>2, <1>3, <1>4, <1>5, <1>6, <1>7, <1>8

\* A step of a command that publishes nothing yet.
LEMMA AccessCommand ==
  ASSUME AccessInv, NEW p \in Process,
         v11' \in [Process -> AccessCmd], \A q \in Process : q # p => v11'[q] = v11[q],
         v11'[p].name \in Name, v11'[p].pc \notin Holding,
         UNCHANGED <<v6, v7, v10>>,
         v1' \in [Name -> Nat], v5' \in [Name -> [gen : Nat, conn : Conn]]
  PROVE  AccessInv'
<1>1. v6' \in [Name -> Conn] /\ v7' \in [Name -> Conn]
  BY DEF AccessInv, AccessTypes
<1>2. v11'[p].pc \notin {"config", "include", "unlock"}
  BY DEF Holding
<1>3. QED
  BY <1>1, <1>2, AccessStep

LEMMA AccessBegins ==
  ASSUME AccessInv, NEW p \in Process, NEW op \in {"up", "visit", "down"}, NEW n \in Name,
         NEW x \in AccessSteps \ Holding, C!Begins(p, op, n, x), UNCHANGED <<v1, v5, v6, v7, v10>>
  PROVE  AccessInv'
<1>1. v5 \in [Name -> [gen : Nat, conn : Conn]] /\ v11 \in [Process -> AccessCmd]
      /\ v1 \in [Name -> Nat]
  BY DEF AccessInv, AccessTypes
<1>2. PICK conn \in Conn, gen \in Nat :
        v11' = [v11 EXCEPT ![p].op = op, ![p].name = n, ![p].conn = conn, ![p].vm = gen, ![p].pc = x]
  BY <1>1 DEF C!Begins
<1>3. /\ v11' \in [Process -> AccessCmd] /\ v11'[p].pc = x /\ v11'[p].name = n
      /\ \A q \in Process : q # p => v11'[q] = v11[q]
  <2> DEFINE c == [v11[p] EXCEPT !.op = op, !.name = n, !.conn = conn, !.vm = gen, !.pc = x]
  <2>1. v11[p] \in AccessCmd /\ x \in AccessSteps
    BY <1>1
  <2>2. c \in AccessCmd /\ c.pc = x /\ c.name = n
    BY <2>1 DEF AccessCmd
  <2>3. v11' = [v11 EXCEPT ![p] = c]
    BY <1>1, <1>2, <2>1 DEF AccessCmd
  <2> HIDE DEF c
  <2>4. QED
    BY <1>1, <2>2, <2>3
<1>4. QED
  BY <1>1, <1>3, AccessCommand

LEMMA AccessAnnounces ==
  ASSUME AccessInv, NEW p \in Process, NEW c \in Conn, NEW then \in Onwards,
         C!Publishes(p, c, then), v11[p].pc # "idle", UNCHANGED <<v1, v6, v7, v10>>,
         v5' \in [Name -> [gen : Nat, conn : Conn]]
  PROVE  AccessInv'
<1>1. v11 \in [Process -> AccessCmd] /\ v1 \in [Name -> Nat] /\ v11[p].name \in Name
  BY DEF AccessInv, AccessTypes
<1>2. C!Reachable(c) \in Conn
  BY DEF C!Reachable, C!Public, Conn
<1>3. PICK d \in Conn :
        v11' = [v11 EXCEPT ![p].conn = c, ![p].want = d, ![p].pc = "check", ![p].then = then]
  BY <1>2 DEF C!Publishes
<1>4. /\ v11' \in [Process -> AccessCmd] /\ v11'[p].pc = "check" /\ v11'[p].name = v11[p].name
      /\ \A q \in Process : q # p => v11'[q] = v11[q]
  <2> DEFINE e == [v11[p] EXCEPT !.conn = c, !.want = d, !.pc = "check", !.then = then]
  <2>1. v11[p] \in AccessCmd /\ "check" \in AccessSteps
    BY <1>1 DEF AccessSteps
  <2>2. e \in AccessCmd /\ e.pc = "check" /\ e.name = v11[p].name
    BY <2>1 DEF AccessCmd
  <2>3. v11' = [v11 EXCEPT ![p] = e]
    BY <1>1, <1>3, <2>1 DEF AccessCmd
  <2> HIDE DEF e
  <2>4. QED
    BY <1>1, <2>2, <2>3
<1>5. QED
  BY <1>1, <1>4, AccessCommand DEF Holding

\* The steps of the commands.
LEMMA AccessCommands ==
  ASSUME AccessInv, NEW p \in Process,
         \/ C!Ups(p) \/ C!Creates(p) \/ C!Puts(p) \/ C!Provisions(p) \/ C!Repairs(p) \/ C!Joins(p)
         \/ C!TransferBegins(p) \/ C!Transfers(p) \/ C!Connects(p) \/ C!Asks(p) \/ C!Remembers(p)
         \/ C!Downs(p) \/ C!Destroys(p) \/ C!Forgets(p) \/ C!Finishes(p) \/ C!Fails(p) \/ C!Dies(p)
  PROVE  AccessInv'
<1> USE DEF C!At, C!My, C!Goto, C!cloud, C!world, C!files
<1>a. /\ AccessTypes /\ v11 \in [Process -> AccessCmd] /\ v11[p] \in AccessCmd
      /\ v11[p].pc # "idle" => v11[p].name \in Name
      /\ v5 \in [Name -> [gen : Nat, conn : Conn]] /\ v1 \in [Name -> Nat]
  BY DEF AccessInv, AccessTypes
<1>b. /\ v11[p].conn \in Conn /\ v11[p].vm \in Nat
      /\ \A n \in Name : v5[n].conn \in Conn
  BY <1>a DEF AccessCmd
<1>c. {"create", "repair", "transfer", "ask", "destroy", "join", "end", "remember", "unpublish", "put"}
        \subseteq AccessSteps \ Holding
  BY DEF AccessSteps, Holding, Onwards
<1>1. CASE C!Ups(p) \/ C!Provisions(p) \/ C!TransferBegins(p) \/ C!Connects(p) \/ C!Downs(p)
  <2>1. UNCHANGED <<v1, v5, v6, v7, v10>>
    BY <1>1 DEF C!Ups, C!Provisions, C!TransferBegins, C!Connects, C!Downs
  <2>2. PICK op \in {"up", "visit", "down"}, n \in Name,
             x \in {"create", "repair", "transfer", "ask", "destroy"} : C!Begins(p, op, n, x)
    BY <1>1 DEF C!Ups, C!Provisions, C!TransferBegins, C!Connects, C!Downs
  <2>3. QED
    BY <1>c, <2>1, <2>2, AccessBegins
<1>2. CASE C!Creates(p)
  <2>1. /\ v11[p].pc = "create" /\ v1' = [v1 EXCEPT ![v11[p].name] = @ + 1]
        /\ UNCHANGED <<v5, v6, v7, v10>>
        /\ v11' = [v11 EXCEPT ![p].pc = "put",
                              ![p].conn = [gen |-> v1'[v11[p].name], host |-> "public"]]
    BY <1>2 DEF C!Creates
  <2>2. v11[p].name \in Name
    BY <1>a, <2>1
  <2>3. v1' \in [Name -> Nat]
    BY <1>a, <2>1, <2>2
  <2>4. PICK d \in Conn : v11' = [v11 EXCEPT ![p].pc = "put", ![p].conn = d]
    BY <2>1, <2>2, <2>3 DEF Conn
  <2>5. /\ v11' \in [Process -> AccessCmd] /\ v11'[p].pc = "put" /\ v11'[p].name = v11[p].name
        /\ \A q \in Process : q # p => v11'[q] = v11[q]
    BY <1>a, <2>4 DEF AccessCmd, AccessSteps
  <2>6. QED
    BY <1>a, <1>c, <2>1, <2>2, <2>3, <2>5, AccessCommand
<1>3. CASE C!Puts(p)
  <2>1. /\ v11[p].pc = "put" /\ UNCHANGED <<v1, v6, v7, v10>> /\ C!Publishes(p, v11[p].conn, "repair")
        /\ v5' = [v5 EXCEPT ![v11[p].name] = [gen |-> v11[p].conn.gen, conn |-> v11[p].conn]]
    BY <1>3 DEF C!Puts
  <2>2. v11[p].conn.gen \in Nat
    BY <1>b DEF Conn
  <2>3. v5' \in [Name -> [gen : Nat, conn : Conn]]
    BY <1>a, <1>b, <2>1, <2>2
  <2>4. QED
    BY <1>b, <2>1, <2>3, AccessAnnounces DEF Onwards
<1>4. CASE C!Repairs(p)
  <2>1. PICK then \in {"join", "end"} : C!Publishes(p, v5[v11[p].name].conn, then)
    BY <1>4 DEF C!Repairs
  <2>2. v11[p].pc = "repair" /\ UNCHANGED <<v1, v5, v6, v7, v10>>
    BY <1>4 DEF C!Repairs
  <2>3. v5[v11[p].name].conn \in Conn
    BY <1>a, <1>b, <2>2
  <2>4. QED
    BY <1>a, <2>1, <2>2, <2>3, AccessAnnounces DEF Onwards
<1>5. CASE C!Joins(p) \/ C!Asks(p)
  <2>1. PICK x \in {"ask", "end", "remember"} : v11' = [v11 EXCEPT ![p].pc = x]
    BY <1>5 DEF C!Joins, C!Asks
  <2>2. v11[p].pc \in {"join", "ask"} /\ UNCHANGED <<v1, v5, v6, v7, v10>>
    BY <1>5 DEF C!Joins, C!Asks
  <2>3. /\ v11' \in [Process -> AccessCmd] /\ v11'[p].pc = x /\ v11'[p].name = v11[p].name
        /\ \A q \in Process : q # p => v11'[q] = v11[q]
    BY <1>a, <1>c, <2>1, AccessGoes
  <2>4. v11'[p].name \in Name /\ v11'[p].pc \notin Holding
    BY <1>a, <1>c, <2>2, <2>3
  <2>5. QED
    BY <1>a, <2>2, <2>3, <2>4, AccessCommand
<1>6. CASE C!Transfers(p)
  <2>1. v11[p].pc = "transfer" /\ UNCHANGED <<v1, v5, v6, v7, v10>>
        /\ C!Publishes(p, v11[p].conn, "end")
    BY <1>6 DEF C!Transfers
  <2>2. QED
    BY <1>a, <1>b, <2>1, AccessAnnounces DEF Onwards
<1>7. CASE C!Remembers(p)
  <2>1. /\ v11[p].pc = "remember" /\ UNCHANGED <<v1, v6, v7, v10>>
        /\ v5' = [v5 EXCEPT ![v11[p].name].conn = [v11[p].conn EXCEPT !.host = "tailnet"]]
        /\ C!Publishes(p, [v11[p].conn EXCEPT !.host = "tailnet"], "end")
    BY <1>7 DEF C!Remembers
  <2>2. [v11[p].conn EXCEPT !.host = "tailnet"] \in Conn
    BY <1>b DEF Conn
  <2>3. v5' \in [Name -> [gen : Nat, conn : Conn]]
    BY <1>a, <2>1, <2>2
  <2>4. QED
    BY <2>1, <2>2, <2>3, AccessAnnounces DEF Onwards
<1>8. CASE C!Destroys(p)
  <2>1. /\ v11[p].pc = "destroy" /\ UNCHANGED <<v1, v5, v6, v7, v10>>
        /\ v11' = [v11 EXCEPT ![p].pc = "unpublish", ![p].then = "forget"]
    BY <1>8 DEF C!Destroys
  <2>2. /\ v11' \in [Process -> AccessCmd] /\ v11'[p].pc = "unpublish"
        /\ v11'[p].name = v11[p].name /\ \A q \in Process : q # p => v11'[q] = v11[q]
    BY <1>a, <2>1 DEF AccessCmd, AccessSteps, Onwards
  <2>3. QED
    BY <1>a, <1>c, <2>1, <2>2, AccessCommand
<1>9. CASE C!Forgets(p)
  <2>1. C!Ends(p) /\ UNCHANGED <<v1, v6, v7>>
        /\ v5' = [v5 EXCEPT ![v11[p].name] = C!Untracked]
    BY <1>9 DEF C!Forgets
  <2>2. C!Untracked \in [gen : Nat, conn : Conn]
    BY DEF C!Untracked, C!None, Conn
  <2>3. v5' \in [Name -> [gen : Nat, conn : Conn]]
    BY <1>a, <2>1, <2>2
  <2>4. QED
    BY <2>1, <2>3, AccessEnds
<1>10. CASE C!Finishes(p) \/ C!Fails(p) \/ C!Dies(p)
  <2>1. C!Ends(p) /\ UNCHANGED <<v1, v5, v6, v7>>
    BY <1>10 DEF C!Finishes, C!Fails, C!Dies
  <2>2. QED
    BY <1>a, <2>1, AccessEnds
<1>11. QED
  BY <1>1, <1>2, <1>3, <1>4, <1>5, <1>6, <1>7, <1>8, <1>9, <1>10

LEMMA AccessNext == AccessInv /\ C!Next => AccessInv'
<1> SUFFICES ASSUME AccessInv, C!Next PROVE AccessInv'
  OBVIOUS
<1>1. CASE \E p \in Process : C!Step(p)
  BY <1>1, AccessPublishes, AccessCommands DEF C!Step
<1>2. CASE C!TailnetComesAndGoes \/ C!UserEdits
  <2>1. UNCHANGED <<v1, v5, v6, v7, v10, v11>>
    BY <1>2 DEF C!TailnetComesAndGoes, C!UserEdits, C!cloud, C!files
  <2>2. QED
    BY <2>1 DEF AccessInv, AccessTypes, AccessFiles
<1>3. QED
  BY <1>1, <1>2 DEF C!Next

\* A publication of an SSH profile that ends well leaves the generated configuration
\* what the index says, whatever an earlier one left half-written.
THEOREM PublicationsAreWhole == SessionsSpec => SuccessIsWhole
<1> DEFINE I == part = "access" => AccessInv
<1>1. PartInit => I
  BY AccessInit DEF PartInit
<1>2. I /\ [/\ \/ IssuesMove \/ Parts
            /\ UNCHANGED part]_all => I'
  <2> SUFFICES ASSUME I, part = "access", [(IssuesMove \/ Parts) /\ UNCHANGED part]_all
               PROVE  AccessInv'
    BY DEF all
  <2>1. CASE UNCHANGED all
    <3>1. UNCHANGED <<v1, v5, v6, v7, v10, v11>>
      BY <2>1 DEF all, rest5, rest6, rest7, rest8
    <3>2. QED
      BY <3>1 DEF AccessInv, AccessTypes, AccessFiles
  <2>2. CASE IssuesMove \/ Parts
    <3>1. C!Next
      BY <2>2 DEF Parts, IssuesMove, SeedingMoves, AgentMoves, LayoutMoves, AccessMoves,
         SetupMoves, ServingMoves, SidebarMoves
    <3>2. QED
      BY <3>1, AccessNext
  <2>3. QED
    BY <2>1, <2>2
<1>3. I => (part = "access" => C!Success)
  BY DEF AccessInv, AccessFiles, AccessTypes, C!Success, C!Unlocks, C!At, C!files
<1>4. QED
  BY <1>1, <1>2, <1>3, PTL DEF SessionsSpec, SuccessIsWhole, Parts

-------------------------------------------------------------------------------
(* Serving: a local port. What the forward of a process names is held by that *)
(* process, which is neither nobody nor another program.                      *)

Bools == BOOLEAN
Numbers == Port \cup {OtherPort}
Chosen == [port : Numbers, bind : Bind \cup {"none", "loopback"}]
ServingSteps == {"idle", "connect", "serve", "target", "publish?", "named", "forward", "ssh",
                 "forwarding", "publish", "remove", "up", "record"}
ServingCmd == [pc : ServingSteps, named : Numbers, chosen : Chosen, joined : Bools, at : Numbers]

ServingTypes ==
  /\ v2 \subseteq Numbers /\ v3 \in [joined : Bools, up : Bools, linked : Bools]
  /\ v5 \in [Numbers -> {"free", "user"} \cup Process] /\ v6 \in [Process -> ServingCmd]

ServingInv == ServingTypes /\ S!ForwardIsOurs

LEMMA ServingIdle == S!Idle \in ServingCmd /\ S!Idle.pc = "idle"
<1>1. S!Nobody \in Chosen /\ OtherPort \in Numbers
  BY DEF S!Nobody, Chosen, Numbers
<1>2. ASSUME NEW b \in Bools, NEW n \in Chosen, NEW e,
             e = [pc |-> "idle", named |-> OtherPort, chosen |-> n, joined |-> b, at |-> OtherPort]
      PROVE  e \in ServingCmd /\ e.pc = "idle"
  BY <1>1, <1>2 DEF ServingCmd, ServingSteps
<1>3. FALSE \in Bools
  BY DEF Bools
<1>4. QED
  BY Zenon, <1>1, <1>2, <1>3 DEF S!Idle

LEMMA ServingInit == S!Init => ServingInv
<1> SUFFICES ASSUME S!Init PROVE ServingInv
  OBVIOUS
<1>1. v2 = {} /\ v5 = [p \in Numbers |-> "free"] /\ v6 = [c \in Process |-> S!Idle]
  BY DEF S!Init, Numbers
<1>2. v3 \in [joined : Bools, up : Bools, linked : Bools]
  BY DEF S!Init, Bools
<1>3. S!Idle \in ServingCmd /\ S!Idle.pc = "idle"
  BY ServingIdle
<1>4. ServingTypes
  BY <1>1, <1>2, <1>3 DEF ServingTypes
<1>5. QED
  BY <1>1, <1>3, <1>4 DEF ServingInv, S!ForwardIsOurs, S!At

\* A step that starts no forward and takes no port from one.
LEMMA ServingStep ==
  ASSUME ServingInv, NEW c \in Process, ServingTypes',
         \A d \in Process : d # c => v6'[d] = v6[d],
         v6'[c].pc = "forwarding" => v5'[v6'[c].at] = c,
         \A p \in Numbers, d \in Process : d # c /\ v5[p] = d => v5'[p] = d
  PROVE  ServingInv'
<1>1. ASSUME NEW d \in Process, v6'[d].pc = "forwarding"
      PROVE  v5'[v6'[d].at] = d
  <2>1. CASE d # c
    <3>1. v6'[d] = v6[d] /\ v6[d].at \in Numbers
      BY <2>1 DEF ServingInv, ServingTypes, ServingCmd
    <3>2. v5[v6[d].at] = d
      BY <1>1, <3>1 DEF ServingInv, S!ForwardIsOurs, S!At
    <3>3. QED
      BY <2>1, <3>1, <3>2
  <2>2. QED
    BY <1>1, <2>1
<1>2. QED
  BY <1>1 DEF ServingInv, S!ForwardIsOurs, S!At

\* A step of one process that leaves the local ports alone and ends or goes on.
LEMMA ServingGoes ==
  ASSUME ServingInv, NEW c \in Process, NEW e \in ServingCmd, v6' = [v6 EXCEPT ![c] = e],
         e.pc # "forwarding", v5' = v5, v2' \subseteq Numbers,
         v3' \in [joined : Bools, up : Bools, linked : Bools]
  PROVE  ServingInv'
<1>1. ServingTypes' /\ \A d \in Process : d # c => v6'[d] = v6[d]
  BY DEF ServingInv, ServingTypes
<1>2. v6'[c] = e
  BY DEF ServingInv, ServingTypes
<1>3. QED
  BY <1>1, <1>2, ServingStep

LEMMA ServingCmds ==
  ASSUME ServingInv, NEW c \in Process
  PROVE  /\ v6[c] \in ServingCmd /\ S!Idle \in ServingCmd /\ S!Idle.pc = "idle"
         /\ \A x \in ServingSteps : /\ [v6[c] EXCEPT !.pc = x] \in ServingCmd
                              /\ [v6[c] EXCEPT !.pc = x].pc = x
                              /\ [v6 EXCEPT ![c].pc = x] = [v6 EXCEPT ![c] = [v6[c] EXCEPT !.pc = x]]
<1>1. v6[c] \in ServingCmd /\ v6 \in [Process -> ServingCmd]
  BY DEF ServingInv, ServingTypes
<1>2. S!Idle \in ServingCmd /\ S!Idle.pc = "idle"
  BY ServingIdle
<1>3. QED
  BY <1>1, <1>2 DEF ServingCmd

LEMMA ServingNext ==
  ASSUME ServingInv, S!Next, S!ServingAssumption
  PROVE  ServingInv'
<1>a. /\ ServingTypes /\ v2 \subseteq Numbers /\ v3 \in [joined : Bools, up : Bools, linked : Bools]
      /\ v5 \in [Numbers -> {"free", "user"} \cup Process] /\ v6 \in [Process -> ServingCmd]
  BY DEF ServingInv, ServingTypes
<1>b. Port \subseteq Numbers /\ OtherPort \in Numbers
  BY DEF Numbers
<1>c. {"idle", "connect", "serve", "target", "publish?", "named", "forward", "ssh", "publish",
       "remove", "up", "record"} \subseteq ServingSteps \ {"forwarding"}
  BY DEF ServingSteps
<1>d. TRUE \in Bools
  BY DEF Bools
<1>1. CASE S!Changes
  <2>1. v6' = v6 /\ v2' \subseteq Numbers
    BY <1>1, <1>a, <1>b DEF S!Changes
  <2>2. v3' \in [joined : Bools, up : Bools, linked : Bools]
    <3>1. CASE v3' = v3
      BY <1>a, <3>1
    <3>2. CASE \E up, linked \in BOOLEAN : v3' = [v3 EXCEPT !.up = up, !.linked = up /\ linked]
      <4>1. PICK up \in Bools, linked \in Bools : v3' = [v3 EXCEPT !.up = up, !.linked = linked]
        BY Zenon, <3>2 DEF Bools
      <4>2. QED
        BY <1>a, <4>1
    <3>3. QED
      BY Zenon, <1>1, <3>1, <3>2 DEF S!Changes
  <2>3. CASE v5' = v5
    BY <1>a, <2>1, <2>2, <2>3 DEF ServingInv, ServingTypes, S!ForwardIsOurs, S!At
  <2>4. CASE v5' # v5
    <3>1. PICK p \in DOMAIN v5 : /\ v5[p] \in {"free", "user"}
                                 /\ v5' = [v5 EXCEPT ![p] = IF @ = "free" THEN "user" ELSE "free"]
      BY <1>1, <2>4 DEF S!Changes
    <3>2. PICK x \in {"free", "user"} : v5' = [v5 EXCEPT ![p] = x]
      BY <3>1
    <3>3. v5' \in [Numbers -> {"free", "user"} \cup Process]
      BY <1>a, <3>2
    <3>4. ASSUME NEW c \in Process, v6'[c].pc = "forwarding"
          PROVE  v5'[v6'[c].at] = c
      <4>1. v5[v6[c].at] = c /\ v6'[c].at = v6[c].at
        BY <2>1, <3>4 DEF ServingInv, S!ForwardIsOurs, S!At
      <4>2. c \notin {"free", "user"}
        BY DEF S!ServingAssumption
      <4>3. v6[c].at \in Numbers /\ v6[c].at # p
        BY <1>a, <3>1, <4>1, <4>2 DEF ServingCmd
      <4>4. QED
        BY <1>a, <3>2, <4>1, <4>3
    <3>5. QED
      BY <1>a, <2>1, <2>2, <3>3, <3>4 DEF ServingInv, ServingTypes, S!ForwardIsOurs, S!At
  <2>5. QED
    BY <2>3, <2>4
<1>2. ASSUME NEW c \in Process, NEW e \in ServingCmd, v6' = [v6 EXCEPT ![c] = e],
             e.pc # "forwarding", UNCHANGED <<v2, v3, v5>>
      PROVE  ServingInv'
  BY <1>a, <1>2, ServingGoes
<1>3. ASSUME NEW c \in Process, NEW x \in ServingSteps \ {"forwarding"}, S!Goto(c, x),
             v5' = v5, v2' \subseteq Numbers, v3' \in [joined : Bools, up : Bools, linked : Bools]
      PROVE  ServingInv'
  <2>1. /\ [v6[c] EXCEPT !.pc = x] \in ServingCmd /\ [v6[c] EXCEPT !.pc = x].pc = x
        /\ [v6 EXCEPT ![c].pc = x] = [v6 EXCEPT ![c] = [v6[c] EXCEPT !.pc = x]]
    BY ServingCmds
  <2>2. v6' = [v6 EXCEPT ![c] = [v6[c] EXCEPT !.pc = x]]
    BY <1>3, <2>1 DEF S!Goto
  <2>3. QED
    BY <1>3, <2>1, <2>2, ServingGoes
<1>4. ASSUME NEW c \in Process, S!Ends(c),
             v5' = v5, v2' \subseteq Numbers, v3' \in [joined : Bools, up : Bools, linked : Bools]
      PROVE  ServingInv'
  <2>1. "idle" # "forwarding" /\ v6' = [v6 EXCEPT ![c] = S!Idle]
    BY <1>4 DEF S!Ends
  <2>2. QED
    BY <1>4, <2>1, ServingCmds, ServingGoes
<1>5. ASSUME NEW c \in Process, NEW verb \in {"connect", "serve"}, NEW n \in Port \cup {OtherPort},
             S!Starts(c, verb, n)
      PROVE  ServingInv'
  <2> DEFINE e == [S!Idle EXCEPT !.pc = verb, !.named = n, !.joined = v3.joined]
  <2>1. v6' = [v6 EXCEPT ![c] = e] /\ UNCHANGED <<v2, v3, v5>>
    BY <1>5 DEF S!Starts, S!Remote
  <2>2. v3.joined \in Bools /\ n \in Numbers
    BY <1>a DEF Numbers
  <2>3. e \in ServingCmd /\ e.pc = verb
    BY <1>c, <2>2, ServingIdle DEF ServingCmd
  <2> HIDE DEF e
  <2>4. QED
    BY <1>2, <2>1, <2>3
<1>6. ASSUME NEW c \in Process, NEW n \in Port \cup {OtherPort}, S!chooseServeEntry(c, n)
      PROVE  ServingInv'
  <2>1. PICK p \in v2 : v6' = [v6 EXCEPT ![c] = [S!Idle EXCEPT !.pc = "remove", !.named = n, !.chosen.port = p]]
    BY <1>6 DEF S!chooseServeEntry
  <2> DEFINE e == [S!Idle EXCEPT !.pc = "remove", !.named = n, !.chosen.port = p]
  <2>2. UNCHANGED <<v2, v3, v5>> /\ p \in Numbers /\ n \in Numbers /\ "remove" \in ServingSteps
    BY <1>6, <1>a, <1>c DEF S!chooseServeEntry, S!Remote, Numbers
  <2>3. e \in ServingCmd /\ e.pc = "remove"
    BY <2>2, ServingIdle DEF ServingCmd, Chosen
  <2> HIDE DEF e
  <2>4. v6' = [v6 EXCEPT ![c] = e]
    BY <2>1 DEF e
  <2>5. QED
    BY <1>2, <2>2, <2>3, <2>4
<1>7. ASSUME NEW c \in Process, NEW l \in Chosen, S!Chose(c, l), UNCHANGED <<v2, v3, v5>>
      PROVE  ServingInv'
  <2>1. PICK x \in {"target", "publish?"} : v6' = [v6 EXCEPT ![c].pc = x, ![c].chosen = l]
    BY <1>7 DEF S!Chose
  <2> DEFINE e == [v6[c] EXCEPT !.pc = x, !.chosen = l]
  <2>2. e \in ServingCmd /\ e.pc = x
    BY <1>a, <1>c DEF ServingCmd
  <2>3. v6' = [v6 EXCEPT ![c] = e]
    BY <1>a, <2>1 DEF ServingCmd
  <2> HIDE DEF e
  <2>4. QED
    BY <1>2, <1>7, <2>2, <2>3
<1>8. ASSUME NEW c \in Process, S!Chooses(c)
      PROVE  ServingInv'
  <2>1. UNCHANGED <<v2, v3, v5>>
    BY <1>8 DEF S!Chooses, S!Remote
  <2>2. CASE S!Ends(c)
    BY <1>4, <1>a, <2>1, <2>2
  <2>3. CASE \E l \in S!Listener : S!Chose(c, l)
    <3>1. S!Listener \subseteq Chosen
      BY DEF S!Listener, Chosen, Numbers
    <3>2. QED
      BY <1>7, <2>1, <2>3, <3>1
  <2>4. CASE S!Chose(c, [port |-> v6[c].named, bind |-> "loopback"])
    <3>1. [port |-> v6[c].named, bind |-> "loopback"] \in Chosen
      BY <1>a DEF ServingCmd, Chosen
    <3>2. QED
      BY <1>7, <2>1, <2>4, <3>1
  <2>5. QED
    BY <1>8, <2>2, <2>3, <2>4 DEF S!Chooses
<1>9. ASSUME NEW c \in Process, S!Targets(c) \/ S!Serves(c)
      PROVE  ServingInv'
  <2>1. UNCHANGED <<v2, v3, v5>>
    BY <1>9 DEF S!Targets, S!Serves, S!Remote
  <2>2. S!Ends(c) \/ \E x \in {"forward", "named", "publish"} : S!Goto(c, x)
    BY <1>9 DEF S!Targets, S!Serves, S!ConnectTarget
  <2>3. QED
    BY <1>3, <1>4, <1>a, <1>c, <2>1, <2>2
<1>10. ASSUME NEW c \in Process, S!FreeLocalPort(c)
       PROVE  ServingInv'
  <2>1. UNCHANGED <<v2, v3, v5>>
    BY <1>10 DEF S!FreeLocalPort, S!Remote
  <2>2. CASE S!Ends(c)
    BY <1>4, <1>a, <2>1, <2>2
  <2>3. CASE \E p \in DOMAIN v5 : v6' = [v6 EXCEPT ![c].pc = "ssh", ![c].at = p]
    <3>1. PICK p \in Numbers : v6' = [v6 EXCEPT ![c].pc = "ssh", ![c].at = p]
      BY <1>a, <2>3
    <3> DEFINE e == [v6[c] EXCEPT !.pc = "ssh", !.at = p]
    <3>2. e \in ServingCmd /\ e.pc = "ssh"
      BY <1>a, <1>c DEF ServingCmd
    <3>3. v6' = [v6 EXCEPT ![c] = e]
      BY <1>a, <3>1 DEF ServingCmd
    <3> HIDE DEF e
    <3>4. QED
      BY <1>2, <2>1, <3>2, <3>3
  <2>4. QED
    BY <1>10, <2>2, <2>3 DEF S!FreeLocalPort
<1>11. ASSUME NEW c \in Process, S!Forwards(c)
       PROVE  ServingInv'
  <2>1. UNCHANGED <<v2, v3>> /\ v6[c] \in ServingCmd /\ v6[c].at \in Numbers
    BY <1>11, <1>a DEF S!Forwards, S!Remote, ServingCmd
  <2>2. CASE ~S!MayForward(c)
    BY <1>11, <1>4, <1>a, <2>1, <2>2 DEF S!Forwards
  <2>3. CASE S!MayForward(c)
    <3>1. /\ v6' = [v6 EXCEPT ![c].pc = "forwarding"] /\ v5[v6[c].at] = "free"
          /\ v5' = [v5 EXCEPT ![v6[c].at] = c]
      BY <1>11, <1>a, <2>1, <2>3 DEF S!Forwards, S!Goto, S!MayForward
    <3>2. ServingTypes'
      BY <1>a, <2>1, <3>1 DEF ServingTypes, ServingCmd, ServingSteps
    <3>3. v6'[c].at = v6[c].at /\ \A d \in Process : d # c => v6'[d] = v6[d]
      BY <1>a, <3>1 DEF ServingCmd
    <3>4. v5'[v6'[c].at] = c
      BY <1>a, <2>1, <3>1, <3>3
    <3>5. "free" \notin Process
      BY DEF S!ServingAssumption
    <3>6. \A p \in Numbers, d \in Process : d # c /\ v5[p] = d => v5'[p] = d
      BY <1>a, <2>1, <3>1, <3>5
    <3>7. QED
      BY <3>2, <3>3, <3>4, <3>6, ServingStep
  <2>4. QED
    BY <2>2, <2>3
<1>12. ASSUME NEW c \in Process, S!Leaves(c)
       PROVE  ServingInv'
  <2>1. /\ v6' = [v6 EXCEPT ![c] = S!Idle] /\ UNCHANGED <<v2, v3>>
        /\ v5' = [p \in Numbers |-> IF v5[p] = c THEN "free" ELSE v5[p]]
    BY <1>12, <1>a DEF S!Leaves, S!Ends, S!Remote
  <2>2. ServingTypes'
    BY <1>a, <2>1, ServingIdle DEF ServingTypes
  <2>3. /\ \A d \in Process : d # c => v6'[d] = v6[d]
        /\ v6'[c].pc # "forwarding"
    BY <1>a, <2>1, ServingIdle
  <2>4. QED
    BY <2>1, <2>2, <2>3, ServingStep
<1>13. ASSUME NEW c \in Process, S!Publishes(c) \/ S!Removes(c)
       PROVE  ServingInv'
  <2>1. S!Ends(c) /\ UNCHANGED <<v3, v5>> /\ v6[c].chosen.port \in Numbers
    BY <1>13, <1>a DEF S!Publishes, S!Removes, ServingCmd, Chosen
  <2>2. v2' \subseteq Numbers
    BY <1>13, <1>a, <2>1 DEF S!Publishes, S!Removes, S!Unserved
  <2>3. QED
    BY <1>4, <1>a, <2>1, <2>2
<1>14. ASSUME NEW c \in Process, S!WritesKey(c) \/ S!GoesUp(c) \/ S!RecordsJoin(c)
       PROVE  ServingInv'
  <2>1. UNCHANGED <<v2, v5>>
    BY <1>14 DEF S!WritesKey, S!GoesUp, S!RecordsJoin
  <2>2. S!Ends(c) \/ \E x \in {"up", "record"} : S!Goto(c, x)
    BY <1>14 DEF S!WritesKey, S!GoesUp, S!RecordsJoin
  <2>3. v3' = v3 \/ \E b \in {TRUE} : v3' = [v3 EXCEPT !.up = b] \/ v3' = [v3 EXCEPT !.joined = b]
    BY Zenon, <1>14 DEF S!WritesKey, S!GoesUp, S!RecordsJoin
  <2>4. \E b \in Bools : v3' = v3 \/ v3' = [v3 EXCEPT !.up = b] \/ v3' = [v3 EXCEPT !.joined = b]
    BY Zenon, <1>d, <2>3
  <2>5. v3' \in [joined : Bools, up : Bools, linked : Bools]
    BY <1>a, <2>4
  <2>6. QED
    BY <1>3, <1>4, <1>a, <1>c, <2>1, <2>2, <2>5
<1>15. QED
  BY <1>1, <1>5, <1>6, <1>8, <1>9, <1>10, <1>11, <1>12, <1>13, <1>14 DEF S!Next

\* As long as a forward runs, the local port that connect named is held by its own ssh.
THEOREM ForwardsAreOurs == SessionsSpec => []ForwardIsOurs
<1> DEFINE I == part = "serving" => ServingInv
<1>1. PartInit => I
  BY ServingInit DEF PartInit
<1>2. I /\ [/\ \/ IssuesMove \/ Parts
            /\ UNCHANGED part]_all => I'
  <2> SUFFICES ASSUME I, part = "serving", [(IssuesMove \/ Parts) /\ UNCHANGED part]_all
               PROVE  ServingInv'
    BY DEF all
  <2>1. CASE UNCHANGED all
    <3>1. UNCHANGED <<v2, v3, v5, v6>>
      BY <2>1 DEF all, rest5
    <3>2. QED
      BY <3>1 DEF ServingInv, ServingTypes, S!ForwardIsOurs, S!At
  <2>2. CASE IssuesMove \/ Parts
    <3>1. S!Next
      BY <2>2 DEF Parts, IssuesMove, SeedingMoves, AgentMoves, LayoutMoves, AccessMoves,
         SetupMoves, ServingMoves, SidebarMoves
    <3>2. QED
      BY <3>1, ServingNext, PartsAssumption DEF PartsAssumption
  <2>3. QED
    BY <2>1, <2>2
<1>3. I => ForwardIsOurs
  BY DEF ServingInv, ForwardIsOurs
<1>4. QED
  BY <1>1, <1>2, <1>3, PTL DEF SessionsSpec, Parts

-------------------------------------------------------------------------------
(* Seeding: who commits, and what a pull brings home. A checkout is there only *)
(* after the identity; what a pull has found is in a commit until it has       *)
(* fetched, and from then on in the user's repository.                         *)

Tips == [base : Nat, work : Nat]
SeedingSteps == {"idle", "prepare", "init", "identity", "push", "checkout", "drop", "add", "track",
                 "worktree", "checkpoint", "tip", "fetch", "forward"}
SeedingCmd == [pc : SeedingSteps, tip : Tips, base : Nat, dirty : SUBSET Nat]
Repo == [made : Bools, identity : Bools, tip : Tips, out : Bools, dirty : SUBSET Nat,
         edited : SUBSET Nat, invented : Bools]
Mirror == [remote : Bools, ref : Tips, edited : SUBSET Nat, there : Bools, branch : Tips, own : Bools]

SeedingTypes ==
  /\ v1 \in Nat /\ v7 \in Nat /\ v4 \in Repo /\ v5 \in Mirror /\ v6 \in [Process -> SeedingCmd]

Authored ==
  /\ v4.out => v4.identity
  /\ v4.dirty # {} => v4.out
  /\ ~v4.invented
  /\ v5.edited \subseteq v4.edited

CommandKnows(c) ==
  /\ v6[c].pc \in {"push", "checkout"} => v4.identity
  /\ v6[c].pc \in {"tip", "fetch"} => v6[c].dirty \subseteq v4.edited
  /\ v6[c].pc = "forward" => v6[c].dirty \subseteq v5.edited

SeedingInv == SeedingTypes /\ Authored /\ \A c \in Process : CommandKnows(c)

LEMMA SeedingIdle == D!Idle \in SeedingCmd /\ D!Idle.pc = "idle" /\ D!None \in Tips
  BY DEF D!Idle, D!None, SeedingCmd, SeedingSteps, Tips

LEMMA SeedingInit == D!Init => SeedingInv
<1> SUFFICES ASSUME D!Init PROVE SeedingInv
  OBVIOUS
<1>1. v4 \in Repo
  <2>1. PICK b \in Bools, n \in Tips : v4 = [made |-> b, identity |-> b, tip |-> n, out |-> b,
                                 dirty |-> {}, edited |-> {}, invented |-> b]
    <3>1. FALSE \in Bools
      BY DEF Bools
    <3>2. QED
      BY Zenon, <3>1, SeedingIdle DEF D!Init
  <2>2. QED
    BY <2>1 DEF Repo
<1>2. v5 \in Mirror
  <2>1. PICK b \in Bools, n \in Tips : v5 = [remote |-> b, ref |-> n, edited |-> {}, there |-> b,
                                             branch |-> n, own |-> b]
    <3>1. FALSE \in Bools
      BY DEF Bools
    <3>2. QED
      BY Zenon, <3>1, SeedingIdle DEF D!Init
  <2>2. QED
    BY <2>1 DEF Mirror
<1>3. v1 \in Nat /\ v7 \in Nat /\ v6 = [c \in Process |-> D!Idle]
  BY DEF D!Init
<1>4. ~v4.out /\ v4.dirty = {} /\ ~v4.invented /\ v5.edited = {}
  BY DEF D!Init
<1>5. QED
  BY <1>1, <1>2, <1>3, <1>4, SeedingIdle DEF SeedingInv, SeedingTypes, Authored, CommandKnows

\* What the others have found stays where it is when nothing committed is lost.
LEMMA SeedingStep ==
  ASSUME SeedingInv, NEW c \in Process, SeedingTypes', Authored', CommandKnows(c)',
         \A d \in Process : d # c => v6'[d] = v6[d],
         v4.identity => v4'.identity,
         v4.edited \subseteq v4'.edited, v5.edited \subseteq v5'.edited
  PROVE  SeedingInv'
<1>1. ASSUME NEW d \in Process, d # c
      PROVE  CommandKnows(d)'
  <2>1. CommandKnows(d) /\ v6'[d] = v6[d]
    BY <1>1 DEF SeedingInv
  <2>2. QED
    BY <2>1 DEF CommandKnows
<1>2. QED
  BY <1>1 DEF SeedingInv

LEMMA SeedingCmds ==
  ASSUME SeedingInv, NEW c \in Process, NEW x \in SeedingSteps, D!Goto(c, x)
  PROVE  /\ v6' \in [Process -> SeedingCmd]
         /\ v6'[c].pc = x /\ v6'[c].dirty = v6[c].dirty /\ v6'[c].base = v6[c].base
         /\ \A d \in Process : d # c => v6'[d] = v6[d]
BY DEF SeedingInv, SeedingTypes, SeedingCmd, D!Goto

LEMMA SeedingEnds ==
  ASSUME SeedingInv, NEW c \in Process, D!Ends(c)
  PROVE  /\ v6' \in [Process -> SeedingCmd] /\ v6'[c].pc = "idle" /\ CommandKnows(c)'
         /\ \A d \in Process : d # c => v6'[d] = v6[d]
<1>1. v6' \in [Process -> SeedingCmd] /\ v6'[c].pc = "idle"
      /\ \A d \in Process : d # c => v6'[d] = v6[d]
  BY SeedingIdle DEF SeedingInv, SeedingTypes, D!Ends
<1>2. QED
  BY <1>1 DEF CommandKnows

\* A commit with the user's identity.
LEMMA SeedingCommit ==
  ASSUME v4 \in Repo, v4.identity, ~v4.invented
  PROVE  /\ D!Committed \in Repo
         /\ D!Committed.tip = [base |-> v4.tip.base, work |-> v4.tip.work + 1]
         /\ D!Committed.edited = v4.edited \cup v4.dirty /\ D!Committed.dirty = {}
         /\ D!Committed.identity /\ ~D!Committed.invented
         /\ D!Committed.out = v4.out /\ D!Committed.identity = v4.identity
<1>1. (v4.invented \/ ~v4.identity) = FALSE
  BY Zenon
<1>2. PICK b \in Bools : b = FALSE
  BY Zenon DEF Bools
<1>3. D!Committed = [v4 EXCEPT !.tip.work = @ + 1, !.edited = @ \cup v4.dirty, !.dirty = {}, !.invented = b]
  BY Zenon, <1>1, <1>2 DEF D!Committed
<1>4. PICK t \in Tips : t = [v4.tip EXCEPT !.work = @ + 1]
  <2>1. v4.tip \in Tips
    BY DEF Repo
  <2>2. [v4.tip EXCEPT !.work = @ + 1] \in Tips
    BY <2>1 DEF Tips
  <2>3. QED
    BY <2>2
<1>5. t = [base |-> v4.tip.base, work |-> v4.tip.work + 1]
  BY <1>4 DEF Repo, Tips
<1>6. D!Committed = [v4 EXCEPT !.tip = t, !.edited = @ \cup v4.dirty, !.dirty = {}, !.invented = b]
  BY <1>3, <1>4 DEF Repo
<1>7. /\ D!Committed \in Repo /\ D!Committed.tip = t
      /\ D!Committed.edited = v4.edited \cup v4.dirty /\ D!Committed.dirty = {}
      /\ D!Committed.identity = v4.identity /\ D!Committed.invented = b /\ D!Committed.out = v4.out
  BY <1>6 DEF Repo
<1>8. QED
  BY Zenon, <1>2, <1>5, <1>7

LEMMA SeedingStarts ==
  ASSUME SeedingInv, NEW c \in Process, D!StartBegins(c) \/ D!Starts(c)
  PROVE  SeedingInv' /\ D!Keeping
<1>a. /\ v1 \in Nat /\ v7 \in Nat /\ v4 \in Repo /\ v5 \in Mirror /\ v6 \in [Process -> SeedingCmd]
      /\ Authored /\ CommandKnows(c)
  BY DEF SeedingInv, SeedingTypes
<1>b. PICK yes \in Bools, no \in Bools : (yes = TRUE) /\ (no = FALSE)
  BY Zenon DEF Bools
<1>c. ASSUME v4'.tip = v4.tip PROVE D!Keeping
  BY <1>a, <1>c DEF D!Keeping, D!Contains, Repo, Tips
<1>d. ASSUME UNCHANGED <<v1, v4, v5, v7>>, v6' \in [Process -> SeedingCmd], CommandKnows(c)',
             \A d \in Process : d # c => v6'[d] = v6[d]
      PROVE  SeedingInv' /\ D!Keeping
  <2>1. SeedingTypes' /\ Authored'
    BY <1>a, <1>d DEF SeedingTypes, Authored
  <2>2. QED
    BY <1>c, <1>d, <2>1, SeedingStep
<1>1. CASE D!StartBegins(c)
  <2>1. /\ v6' = [v6 EXCEPT ![c] = [D!Idle EXCEPT !.pc = "prepare", !.base = v1]]
        /\ UNCHANGED <<v1, v4, v5, v7>>
    BY <1>1 DEF D!StartBegins
  <2>2. [D!Idle EXCEPT !.pc = "prepare", !.base = v1] \in SeedingCmd
        /\ [D!Idle EXCEPT !.pc = "prepare", !.base = v1].pc = "prepare"
    BY <1>a, SeedingIdle DEF SeedingCmd, SeedingSteps
  <2>3. /\ v6' \in [Process -> SeedingCmd] /\ v6'[c].pc = "prepare"
        /\ \A d \in Process : d # c => v6'[d] = v6[d]
    BY <1>a, <2>1, <2>2
  <2>4. QED
    BY <1>d, <2>1, <2>3 DEF CommandKnows
<1>2. CASE D!Prepares(c)
  <2>1. UNCHANGED <<v1, v4, v5, v7>> /\ (D!Ends(c) \/ D!Goto(c, "init"))
    BY <1>2 DEF D!Prepares
  <2>2. CASE D!Ends(c)
    BY <1>d, <2>1, <2>2, SeedingEnds
  <2>3. CASE D!Goto(c, "init")
    <3>1. /\ v6' \in [Process -> SeedingCmd] /\ v6'[c].pc = "init"
          /\ \A d \in Process : d # c => v6'[d] = v6[d]
      BY <2>3, SeedingCmds DEF SeedingSteps
    <3>2. QED
      BY <1>d, <2>1, <3>1 DEF CommandKnows
  <2>4. QED
    BY <2>1, <2>2, <2>3
<1>3. CASE D!MakesRepo(c)
  <2>1. v4' = [v4 EXCEPT !.made = yes] /\ UNCHANGED <<v1, v5, v7>> /\ D!Goto(c, "identity")
    BY Zenon, <1>3, <1>b DEF D!MakesRepo, D!AfterInit
  <2>2. /\ v4' \in Repo /\ v4'.identity = v4.identity /\ v4'.tip = v4.tip /\ v4'.out = v4.out
        /\ v4'.dirty = v4.dirty /\ v4'.edited = v4.edited /\ v4'.invented = v4.invented
    BY <1>a, <2>1 DEF Repo
  <2>3. /\ v6' \in [Process -> SeedingCmd] /\ v6'[c].pc = "identity"
        /\ \A d \in Process : d # c => v6'[d] = v6[d]
    BY <2>1, SeedingCmds DEF SeedingSteps
  <2>4. SeedingTypes' /\ Authored' /\ CommandKnows(c)'
    BY <1>a, <2>1, <2>2, <2>3 DEF SeedingTypes, Authored, CommandKnows
  <2>5. QED
    BY <1>c, <2>1, <2>2, <2>3, <2>4, SeedingStep
<1>4. CASE D!SetsIdentity(c)
  <2>1. v4' = [v4 EXCEPT !.identity = yes] /\ UNCHANGED <<v1, v5, v7>> /\ D!Goto(c, "push")
    BY Zenon, <1>4, <1>b DEF D!SetsIdentity
  <2>2. /\ v4' \in Repo /\ v4'.identity = yes /\ v4'.tip = v4.tip /\ v4'.out = v4.out
        /\ v4'.dirty = v4.dirty /\ v4'.edited = v4.edited /\ v4'.invented = v4.invented
    BY <1>a, <2>1 DEF Repo
  <2>3. /\ v6' \in [Process -> SeedingCmd] /\ v6'[c].pc = "push"
        /\ \A d \in Process : d # c => v6'[d] = v6[d]
    BY <2>1, SeedingCmds DEF SeedingSteps
  <2>4. v4'.identity
    BY Zenon, <1>b, <2>2
  <2>5. SeedingTypes' /\ Authored' /\ CommandKnows(c)'
    BY <1>a, <2>1, <2>2, <2>3, <2>4 DEF SeedingTypes, Authored, CommandKnows
  <2>6. QED
    BY <1>c, <2>1, <2>2, <2>3, <2>4, <2>5, SeedingStep
<1>5. CASE D!Pushes(c)
  <2>1. UNCHANGED <<v1, v5, v7>> /\ v6[c].pc = "push"
    BY <1>5 DEF D!Pushes, D!At
  <2>2. CASE ~D!Accepts
    BY <1>5, <1>d, <2>1, <2>2, SeedingEnds DEF D!Pushes
  <2>3. CASE D!Accepts
    <3>1. v4' = [v4 EXCEPT !.tip = D!Pushed] /\ D!Goto(c, "checkout")
      BY <1>5, <2>3 DEF D!Pushes
    <3>2. D!Pushed \in Tips /\ D!Contains(D!Pushed, v4.tip)
      BY <1>a, <2>3 DEF D!Pushed, Tips, D!Accepts
    <3>3. /\ v4' \in Repo /\ v4'.identity = v4.identity /\ v4'.tip = D!Pushed /\ v4'.out = v4.out
          /\ v4'.dirty = v4.dirty /\ v4'.edited = v4.edited /\ v4'.invented = v4.invented
      BY <1>a, <3>1, <3>2 DEF Repo
    <3>4. /\ v6' \in [Process -> SeedingCmd] /\ v6'[c].pc = "checkout"
          /\ \A d \in Process : d # c => v6'[d] = v6[d]
      BY <3>1, SeedingCmds DEF SeedingSteps
    <3>5. SeedingTypes' /\ Authored' /\ CommandKnows(c)'
      BY <1>a, <2>1, <3>3, <3>4 DEF SeedingTypes, Authored, CommandKnows
    <3>6. D!Keeping
      BY <3>2, <3>3 DEF D!Keeping
    <3>7. QED
      BY <2>1, <3>3, <3>4, <3>5, <3>6, SeedingStep
  <2>4. QED
    BY <2>2, <2>3
<1>6. CASE D!ChecksOut(c)
  <2>1. v4' = [v4 EXCEPT !.out = yes] /\ UNCHANGED <<v1, v5, v7>> /\ D!Goto(c, "drop")
        /\ v6[c].pc = "checkout"
    BY Zenon, <1>6, <1>b DEF D!ChecksOut, D!At
  <2>2. /\ v4' \in Repo /\ v4'.identity = v4.identity /\ v4'.tip = v4.tip /\ v4'.out = yes
        /\ v4'.dirty = v4.dirty /\ v4'.edited = v4.edited /\ v4'.invented = v4.invented
    BY <1>a, <2>1 DEF Repo
  <2>3. /\ v6' \in [Process -> SeedingCmd] /\ v6'[c].pc = "drop"
        /\ \A d \in Process : d # c => v6'[d] = v6[d]
    BY <2>1, SeedingCmds DEF SeedingSteps
  <2>4. v4'.out
    BY Zenon, <1>b, <2>2
  <2>5. v4'.identity
    BY <1>a, <2>1, <2>2 DEF CommandKnows
  <2>6. SeedingTypes' /\ Authored' /\ CommandKnows(c)'
    BY <1>a, <2>1, <2>2, <2>3, <2>4, <2>5 DEF SeedingTypes, Authored, CommandKnows
  <2>7. QED
    BY <1>c, <2>1, <2>2, <2>3, <2>6, SeedingStep
<1>7. CASE D!DropsRemote(c) \/ D!AddsRemote(c)
  <2>1. /\ \E b \in Bools : \/ v5' = [v5 EXCEPT !.remote = b, !.ref = D!None]
                            \/ v5' = [v5 EXCEPT !.remote = b]
        /\ UNCHANGED <<v1, v4, v7>> /\ \E x \in {"add", "track"} : D!Goto(c, x)
    BY Zenon, <1>7, <1>b DEF D!DropsRemote, D!AddsRemote
  <2>2. v5' \in Mirror /\ v5'.edited = v5.edited
    BY <1>a, <2>1, SeedingIdle DEF Mirror
  <2>3. /\ v6' \in [Process -> SeedingCmd] /\ v6'[c].pc \in {"add", "track"}
        /\ \A d \in Process : d # c => v6'[d] = v6[d]
    BY <2>1, SeedingCmds DEF SeedingSteps
  <2>4. SeedingTypes' /\ Authored' /\ CommandKnows(c)'
    BY <1>a, <2>1, <2>2, <2>3 DEF SeedingTypes, Authored, CommandKnows
  <2>5. QED
    BY <1>c, <2>1, <2>2, <2>3, <2>4, SeedingStep
<1>8. CASE D!FetchesNew(c)
  <2>1. /\ v5' = [v5 EXCEPT !.ref = v4.tip, !.edited = v4.edited]
        /\ UNCHANGED <<v1, v4, v7>> /\ D!Goto(c, "worktree")
    BY <1>8 DEF D!FetchesNew
  <2>2. v4.tip \in Tips /\ v4.edited \in SUBSET Nat /\ v5.edited \subseteq v4.edited
    BY <1>a DEF Repo, Authored
  <2>3. v5' \in Mirror /\ v5'.edited = v4.edited
    BY <1>a, <2>1, <2>2 DEF Mirror
  <2>4. /\ v6' \in [Process -> SeedingCmd] /\ v6'[c].pc = "worktree"
        /\ \A d \in Process : d # c => v6'[d] = v6[d]
    BY <2>1, SeedingCmds DEF SeedingSteps
  <2>5. SeedingTypes' /\ Authored' /\ CommandKnows(c)'
    BY <1>a, <2>1, <2>3, <2>4 DEF SeedingTypes, Authored, CommandKnows
  <2>6. QED
    BY <1>c, <2>1, <2>2, <2>3, <2>4, <2>5, SeedingStep
<1>9. CASE D!AddsWorktree(c)
  <2>1. /\ \E yes1, no1 \in Bools : v5' \in {v5, [v5 EXCEPT !.there = yes1, !.branch = v5.ref, !.own = no1]}
        /\ UNCHANGED <<v1, v4, v7>> /\ D!Ends(c)
    <3>1. v5' \in {v5, [v5 EXCEPT !.there = yes, !.branch = v5.ref, !.own = no]}
      BY Zenon, <1>9, <1>b DEF D!AddsWorktree
    <3>2. QED
      BY <1>9, <3>1 DEF D!AddsWorktree
  <2>2. v5' \in Mirror /\ v5'.edited = v5.edited
    BY <1>a, <2>1 DEF Mirror
  <2>3. /\ v6' \in [Process -> SeedingCmd] /\ CommandKnows(c)'
        /\ \A d \in Process : d # c => v6'[d] = v6[d]
    BY <2>1, SeedingEnds
  <2>4. SeedingTypes' /\ Authored'
    BY <1>a, <2>1, <2>2, <2>3 DEF SeedingTypes, Authored
  <2>5. QED
    BY <1>c, <2>1, <2>2, <2>3, <2>4, SeedingStep
<1>10. QED
  BY <1>1, <1>2, <1>3, <1>4, <1>5, <1>6, <1>7, <1>8, <1>9 DEF D!Starts


LEMMA SeedingPulls ==
  ASSUME SeedingInv, NEW c \in Process, D!PullBegins(c) \/ D!Pulls(c) \/ D!Dies(c)
  PROVE  SeedingInv' /\ D!Keeping
<1>a. /\ v1 \in Nat /\ v7 \in Nat /\ v4 \in Repo /\ v5 \in Mirror /\ v6 \in [Process -> SeedingCmd]
      /\ Authored /\ CommandKnows(c) /\ v6[c] \in SeedingCmd
  BY DEF SeedingInv, SeedingTypes
<1>c. ASSUME v4'.tip = v4.tip PROVE D!Keeping
  BY <1>a, <1>c DEF D!Keeping, D!Contains, Repo, Tips
<1>d. ASSUME UNCHANGED <<v1, v4, v7>>, v5' \in Mirror, v5.edited \subseteq v5'.edited,
             v5'.edited \subseteq v4.edited,
             v6' \in [Process -> SeedingCmd], CommandKnows(c)',
             \A d \in Process : d # c => v6'[d] = v6[d]
      PROVE  SeedingInv' /\ D!Keeping
  <2>1. SeedingTypes' /\ Authored'
    BY <1>a, <1>d DEF SeedingTypes, Authored
  <2>2. QED
    BY <1>c, <1>d, <2>1, SeedingStep
<1>e. v5.edited \subseteq v4.edited
  BY <1>a DEF Authored
<1>1. CASE D!PullBegins(c)
  <2>1. /\ v6' = [v6 EXCEPT ![c] = [D!Idle EXCEPT !.pc = "checkpoint"]]
        /\ UNCHANGED <<v1, v4, v5, v7>>
    BY <1>1 DEF D!PullBegins
  <2>2. [D!Idle EXCEPT !.pc = "checkpoint"] \in SeedingCmd
        /\ [D!Idle EXCEPT !.pc = "checkpoint"].pc = "checkpoint"
    BY SeedingIdle DEF SeedingCmd, SeedingSteps
  <2>3. /\ v6' \in [Process -> SeedingCmd] /\ v6'[c].pc = "checkpoint"
        /\ \A d \in Process : d # c => v6'[d] = v6[d]
    BY <1>a, <2>1, <2>2
  <2>4. QED
    BY <1>a, <1>d, <1>e, <2>1, <2>3 DEF CommandKnows
<1>2. CASE D!Checkpoints(c)
  <2>1. UNCHANGED <<v1, v5, v7>>
    BY <1>2 DEF D!Checkpoints
  <2>2. CASE ~v4.made
    <3>1. D!Ends(c) /\ v4' = v4
      BY <1>2, <2>2 DEF D!Checkpoints
    <3>2. QED
      BY <1>a, <1>d, <1>e, <2>1, <3>1, SeedingEnds
  <2>3. CASE v4.made
    <3>1. v4' = D!Checkpointed
          /\ v6' = [v6 EXCEPT ![c].pc = "tip", ![c].dirty = v4.edited \cup v4.dirty]
      BY <1>2, <2>3 DEF D!Checkpoints
    <3>2. v4.edited \cup v4.dirty \in SUBSET Nat
      BY <1>a DEF Repo
    <3>3. /\ v6' \in [Process -> SeedingCmd] /\ v6'[c].pc = "tip"
          /\ v6'[c].dirty = v4.edited \cup v4.dirty
          /\ \A d \in Process : d # c => v6'[d] = v6[d]
      BY <1>a, <3>1, <3>2 DEF SeedingCmd, SeedingSteps
    <3>4. CASE v4' = v4 /\ v4.dirty = {}
      <4>1. CommandKnows(c)'
        BY <3>3, <3>4 DEF CommandKnows
      <4>2. QED
        BY <1>a, <1>d, <1>e, <2>1, <3>3, <3>4, <4>1
    <3>5. CASE v4' = D!Committed /\ v4.out
      <4>1. v4.identity /\ ~v4.invented
        BY <1>a, <3>5 DEF Authored
      <4>2. /\ v4' \in Repo
            /\ v4'.tip = [base |-> v4.tip.base, work |-> v4.tip.work + 1]
            /\ v4'.edited = v4.edited \cup v4.dirty /\ v4'.dirty = {}
            /\ v4'.identity /\ ~v4'.invented
        BY <1>a, <3>5, <4>1, SeedingCommit
      <4>3. SeedingTypes' /\ Authored' /\ CommandKnows(c)'
        BY <1>a, <1>e, <2>1, <3>3, <4>2 DEF SeedingTypes, Authored, CommandKnows
      <4>4. D!Keeping
        BY <1>a, <4>2 DEF D!Keeping, D!Contains, Repo, Tips
      <4>5. QED
        BY <2>1, <3>3, <4>2, <4>3, <4>4, SeedingStep
    <3>6. QED
      BY <1>a, <3>1, <3>4, <3>5 DEF D!Checkpointed, Authored
  <2>4. QED
    BY <2>2, <2>3
<1>3. CASE D!ReadsTip(c)
  <2>1. UNCHANGED <<v1, v4, v5, v7>> /\ v6[c].pc = "tip"
        /\ (D!Ends(c) \/ v6' = [v6 EXCEPT ![c].pc = "fetch", ![c].tip = v4.tip])
    BY <1>3 DEF D!ReadsTip, D!At
  <2>2. CASE D!Ends(c)
    BY <1>a, <1>d, <1>e, <2>1, <2>2, SeedingEnds
  <2>3. CASE v6' = [v6 EXCEPT ![c].pc = "fetch", ![c].tip = v4.tip]
    <3>1. v4.tip \in Tips
      BY <1>a DEF Repo
    <3>2. /\ v6' \in [Process -> SeedingCmd] /\ v6'[c].pc = "fetch" /\ v6'[c].dirty = v6[c].dirty
          /\ \A d \in Process : d # c => v6'[d] = v6[d]
      BY <1>a, <2>3, <3>1 DEF SeedingCmd, SeedingSteps
    <3>3. CommandKnows(c)'
      BY <1>a, <2>1, <3>2 DEF CommandKnows
    <3>4. QED
      BY <1>a, <1>d, <1>e, <2>1, <3>2, <3>3
  <2>4. QED
    BY <2>1, <2>2, <2>3
<1>4. CASE D!Fetches(c)
  <2>1. UNCHANGED <<v1, v4, v7>> /\ v6[c].pc = "fetch"
    BY <1>4 DEF D!Fetches, D!At
  <2>2. CASE ~v5.remote
    BY <1>4, <1>a, <1>d, <1>e, <2>1, <2>2, SeedingEnds DEF D!Fetches
  <2>3. CASE v5.remote
    <3>1. v5' = [v5 EXCEPT !.ref = v4.tip, !.edited = v4.edited] /\ D!Goto(c, "forward")
      BY <1>4, <2>3 DEF D!Fetches
    <3>2. v4.tip \in Tips /\ v4.edited \in SUBSET Nat
      BY <1>a DEF Repo
    <3>3. v5' \in Mirror /\ v5'.edited = v4.edited
      BY <1>a, <3>1, <3>2 DEF Mirror
    <3>4. /\ v6' \in [Process -> SeedingCmd] /\ v6'[c].pc = "forward" /\ v6'[c].dirty = v6[c].dirty
          /\ \A d \in Process : d # c => v6'[d] = v6[d]
      BY <3>1, SeedingCmds DEF SeedingSteps
    <3>5. CommandKnows(c)'
      BY <1>a, <2>1, <3>3, <3>4 DEF CommandKnows
    <3>6. QED
      BY <1>d, <1>e, <2>1, <3>3, <3>4, <3>5
  <2>4. QED
    BY <2>2, <2>3
<1>5. CASE D!Forwards(c)
  <2>1. D!Ends(c) /\ UNCHANGED <<v1, v4, v7>> /\ v5' \in {v5, [v5 EXCEPT !.branch = v5.ref]}
    BY <1>5 DEF D!Forwards, D!Forwarded
  <2>2. v5' \in Mirror /\ v5'.edited = v5.edited
    BY <1>a, <2>1 DEF Mirror
  <2>3. QED
    BY <1>d, <1>e, <2>1, <2>2, SeedingEnds
<1>6. CASE D!Dies(c)
  <2>1. D!Ends(c) /\ UNCHANGED <<v1, v4, v5, v7>>
    BY <1>6 DEF D!Dies
  <2>2. QED
    BY <1>a, <1>d, <1>e, <2>1, SeedingEnds
<1>7. QED
  BY <1>1, <1>2, <1>3, <1>4, <1>5, <1>6 DEF D!Pulls

LEMMA SeedingOthers ==
  ASSUME SeedingInv, D!AgentEdits \/ D!AgentCommits \/ D!UserCommits \/ D!UserWorksInTree
                     \/ D!UserRemovesTree
  PROVE  SeedingInv' /\ D!Keeping
<1>a. /\ v1 \in Nat /\ v7 \in Nat /\ v4 \in Repo /\ v5 \in Mirror /\ v6 \in [Process -> SeedingCmd]
      /\ Authored /\ \A c \in Process : CommandKnows(c)
  BY DEF SeedingInv, SeedingTypes
<1>b. PICK yes \in Bools, no \in Bools : (yes = TRUE) /\ (no = FALSE)
  BY Zenon DEF Bools
<1>c. ASSUME v4'.tip = v4.tip PROVE D!Keeping
  BY <1>a, <1>c DEF D!Keeping, D!Contains, Repo, Tips
<1>d. ASSUME v6' = v6, SeedingTypes', Authored', v4'.identity = v4.identity,
             v4.edited \subseteq v4'.edited, v5'.edited = v5.edited
      PROVE  SeedingInv'
  BY <1>a, <1>d DEF SeedingInv, CommandKnows
<1>1. CASE D!AgentEdits
  <2>1. /\ v4' = [v4 EXCEPT !.dirty = @ \cup {v7'}] /\ v7' = v7 + 1 /\ v4.out
        /\ UNCHANGED <<v1, v5, v6>>
    BY <1>1 DEF D!AgentEdits
  <2>2. v4.dirty \cup {v7'} \in SUBSET Nat /\ v7' \in Nat
    BY <1>a, <2>1 DEF Repo
  <2>3. /\ v4' \in Repo /\ v4'.identity = v4.identity /\ v4'.tip = v4.tip /\ v4'.out = v4.out
        /\ v4'.edited = v4.edited /\ v4'.invented = v4.invented
    BY <1>a, <2>1, <2>2 DEF Repo
  <2>4. SeedingTypes' /\ Authored'
    BY <1>a, <2>1, <2>2, <2>3 DEF SeedingTypes, Authored
  <2>5. QED
    BY <1>c, <1>d, <2>1, <2>3, <2>4
<1>2. CASE D!AgentCommits
  <2>1. v4' = D!Committed /\ v4.out /\ UNCHANGED <<v1, v5, v6, v7>>
    BY <1>2 DEF D!AgentCommits
  <2>2. v4.identity /\ ~v4.invented
    BY <1>a, <2>1 DEF Authored
  <2>3. /\ v4' \in Repo
        /\ v4'.tip = [base |-> v4.tip.base, work |-> v4.tip.work + 1]
        /\ v4'.edited = v4.edited \cup v4.dirty /\ v4'.dirty = {}
        /\ v4'.identity /\ ~v4'.invented
    BY <1>a, <2>1, <2>2, SeedingCommit
  <2>4. SeedingTypes' /\ Authored'
    BY <1>a, <2>1, <2>3 DEF SeedingTypes, Authored
  <2>5. D!Keeping
    BY <1>a, <2>3 DEF D!Keeping, D!Contains, Repo, Tips
  <2>6. SeedingInv'
    <3>1. v4'.identity = v4.identity
      BY <1>a, <2>1, <2>2, SeedingCommit
    <3>2. QED
      BY <1>d, <2>1, <2>3, <2>4, <3>1
  <2>7. QED
    BY <2>5, <2>6
<1>3. CASE D!UserCommits
  <2>1. v1' \in Nat /\ UNCHANGED <<v4, v5, v6, v7>>
    BY <1>3, <1>a DEF D!UserCommits
  <2>2. SeedingTypes' /\ Authored'
    BY <1>a, <2>1 DEF SeedingTypes, Authored
  <2>3. QED
    BY <1>c, <1>d, <2>1, <2>2
<1>4. CASE D!UserWorksInTree \/ D!UserRemovesTree
  <2>1. /\ \E b \in Bools : v5' = [v5 EXCEPT !.own = b] \/ v5' = [v5 EXCEPT !.there = b]
        /\ UNCHANGED <<v1, v4, v6, v7>>
    BY Zenon, <1>4, <1>b DEF D!UserWorksInTree, D!UserRemovesTree
  <2>2. v5' \in Mirror /\ v5'.edited = v5.edited
    BY <1>a, <2>1 DEF Mirror
  <2>3. SeedingTypes' /\ Authored'
    BY <1>a, <2>1, <2>2 DEF SeedingTypes, Authored
  <2>4. QED
    BY <1>c, <1>d, <2>1, <2>2, <2>3
<1>5. QED
  BY <1>1, <1>2, <1>3, <1>4

LEMMA SeedingNext ==
  ASSUME SeedingInv, D!Next
  PROVE  SeedingInv' /\ D!Keeping
BY SeedingStarts, SeedingPulls, SeedingOthers DEF D!Next

LEMMA SeedingAlone ==
  ASSUME part = "seeding", [(IssuesMove \/ Parts) /\ UNCHANGED part]_all
  PROVE  D!Next \/ UNCHANGED <<v1, v2, v3, v4, v5, v6, v7, v8>>
<1>1. CASE UNCHANGED all
  BY <1>1 DEF all, rest5, rest6, rest7
<1>2. CASE IssuesMove \/ Parts
  BY <1>2 DEF Parts, IssuesMove, SeedingMoves, AgentMoves, LayoutMoves, AccessMoves,
     SetupMoves, ServingMoves, SidebarMoves
<1>3. QED
  BY <1>1, <1>2

LEMMA SeedingAlways == SessionsSpec => [](part = "seeding" => SeedingInv)
<1> DEFINE I == part = "seeding" => SeedingInv
<1>1. PartInit => I
  BY SeedingInit DEF PartInit
<1>2. I /\ [/\ \/ IssuesMove \/ Parts
            /\ UNCHANGED part]_all => I'
  <2> SUFFICES ASSUME I, part = "seeding", [(IssuesMove \/ Parts) /\ UNCHANGED part]_all
               PROVE  SeedingInv'
    BY DEF all
  <2>1. CASE UNCHANGED <<v1, v2, v3, v4, v5, v6, v7, v8>>
    BY <2>1 DEF SeedingInv, SeedingTypes, Authored, CommandKnows
  <2>2. QED
    BY <2>1, SeedingAlone, SeedingNext
<1>3. QED
  BY <1>1, <1>2, PTL DEF SessionsSpec, Parts

\* No commit of a session's repository is by an author git made up: neither the
\* agent's nor that of a pull which runs into an interrupted start.
THEOREM NobodyIsInvented == SessionsSpec => []NoInventedAuthor
<1>1. (part = "seeding" => SeedingInv) => NoInventedAuthor
  BY DEF SeedingInv, Authored, NoInventedAuthor, D!NoInventedAuthor
<1>2. QED
  BY <1>1, SeedingAlways, PTL

\* Nothing takes a commit out of a session's branch, a repeated start included.
THEOREM WorkStays == SessionsSpec => WorkIsKept
<1>1. (part = "seeding" => SeedingInv) /\ [(IssuesMove \/ Parts) /\ UNCHANGED part]_all
        => [part = "seeding" => D!Keeping]_all
  <2> SUFFICES ASSUME part = "seeding", SeedingInv,
                      [(IssuesMove \/ Parts) /\ UNCHANGED part]_all
               PROVE  D!Keeping
    OBVIOUS
  <2>1. CASE UNCHANGED v4
    BY <2>1 DEF SeedingInv, SeedingTypes, Repo, Tips, D!Keeping, D!Contains
  <2>2. QED
    BY <2>1, SeedingAlone, SeedingNext
<1>2. QED
  BY <1>1, SeedingAlways, PTL DEF SessionsSpec, Parts, WorkIsKept

\* What a pull found in the session's checkout, committed or not, is in the user's
\* repository when it succeeds.
THEOREM PullsAreComplete == SessionsSpec => PullIsComplete
<1>1. (part = "seeding" => SeedingInv) => (part = "seeding" => D!Pulling)
  <2> SUFFICES ASSUME SeedingInv, NEW c \in Process, D!Forwards(c)
               PROVE  v6[c].dirty \subseteq v5'.edited
    BY DEF D!Pulling
  <2>1. v6[c].pc = "forward" /\ v5' \in {v5, [v5 EXCEPT !.branch = v5.ref]}
    BY DEF D!Forwards, D!At, D!Forwarded
  <2>2. v5'.edited = v5.edited
    BY <2>1 DEF SeedingInv, SeedingTypes, Mirror
  <2>3. QED
    BY <2>1, <2>2 DEF SeedingInv, CommandKnows
<1>2. QED
  BY <1>1, SeedingAlways, PTL DEF SessionsSpec, PullIsComplete

-------------------------------------------------------------------------------
(* AgentContext: the block in a file. Splice puts the whole block after lines  *)
(* that hold no other begin marker, so it is the first that a reader finds.    *)

Lines == STRING \cup {"begin", "facts", "end", "blank", "mine", "part", "quoted end", "quoted begin"}

LEMMA LinesType ==
  /\ "begin" \in Lines /\ "facts" \in Lines /\ "end" \in Lines /\ "blank" \in Lines
  /\ "mine" \in Lines /\ "part" \in Lines /\ "quoted end" \in Lines /\ "quoted begin" \in Lines
  BY DEF Lines

LEMMA NatMin == ASSUME NEW T \in SUBSET Nat, T # {} PROVE \E m \in T : \A n \in T : m <= n
<1> DEFINE R == {ss \in Nat \X Nat : ss[1] < ss[2]}
<1>1. IsWellFoundedOn(R, Nat)
  BY NatLessThanWellFounded DEF OpToRel
<1>2. \A x, y \in Nat : x < y => <<x, y>> \in R
  OBVIOUS
<1> HIDE DEF R
<1>3. PICK x \in T : \A y \in T : ~ (<<y, x>> \in R)
  BY <1>1, WFMin
<1>4. ASSUME NEW y \in T PROVE x <= y
  <2>1. x \in Nat /\ y \in Nat /\ ~(y < x)
    BY Zenon, <1>2, <1>3
  <2> QED
    BY <2>1
<1> QED
  BY <1>4

\* The least of a set of numbers is where Min finds it.
LEMMA MinIs ==
  ASSUME NEW T \in SUBSET Nat, NEW m \in T, \A n \in T : m <= n
  PROVE  A!Min(T) = m
<1>1. \A x \in T : (\A y \in T : x <= y) => x = m
  OBVIOUS
<1>2. QED
  BY <1>1 DEF A!Min

\* lineIndex finds the first place of a marker, if there is one.
LEMMA LineIndexFinds ==
  ASSUME NEW f \in Seq(Lines), NEW marker, NEW i \in Nat \ {0}, NEW found,
         found = A!LineIndex(f, marker, i)
  PROVE  \/ found = 0 /\ \A n \in i..Len(f) : f[n] # marker
         \/ /\ found \in i..Len(f) /\ f[found] = marker
            /\ \A n \in i..Len(f) : n < found => f[n] # marker
<1> DEFINE places == {n \in i..Len(f) : f[n] = marker}
<1>1. places \in SUBSET Nat
  OBVIOUS
<1>2. found = IF places = {} THEN 0 ELSE A!Min(places)
  BY DEF A!LineIndex, A!IsMarker
<1>3. CASE places = {}
  BY <1>2, <1>3
<1>4. CASE places # {}
  <2>1. PICK m \in places : \A n \in places : m <= n
    BY <1>1, <1>4, NatMin
  <2>2. found = m
    BY <1>1, <1>2, <1>4, <2>1, MinIs
  <2>3. m \in i..Len(f) /\ f[m] = marker /\ \A n \in i..Len(f) : n < m => f[n] # marker
    BY <2>1
  <2>4. QED
    BY <2>2, <2>3
<1>5. QED
  BY <1>3, <1>4

\* A block after lines that hold no begin marker is the one a reader finds first.
LEMMA FirstBlock ==
  ASSUME NEW before \in Seq(Lines), NEW block \in Seq(Lines), NEW after \in Seq(Lines),
         Len(block) > 0, block[1] = "begin", \A n \in 1..Len(before) : before[n] # "begin",
         NEW f, f = (before \o block) \o after
  PROVE  /\ f \in Seq(Lines)
         /\ SubSeq(f, A!Begin(f), A!Begin(f) + Len(block) - 1) = block
<1> DEFINE k == Len(before) + 1
<1>1. before \o block \in Seq(Lines) /\ Len(before \o block) = Len(before) + Len(block)
      /\ \A i \in 1 .. Len(before) + Len(block) :
           (before \o block)[i] = IF i <= Len(before) THEN before[i] ELSE block[i - Len(before)]
  BY ConcatProperties
<1>2. f \in Seq(Lines) /\ Len(f) = Len(before) + Len(block) + Len(after)
      /\ \A i \in 1 .. Len(before) + Len(block) : f[i] = (before \o block)[i]
  <2>1. f \in Seq(Lines) /\ Len(f) = Len(before \o block) + Len(after)
        /\ \A i \in 1 .. Len(before \o block) + Len(after) :
             f[i] = IF i <= Len(before \o block) THEN (before \o block)[i]
                    ELSE after[i - Len(before \o block)]
    BY <1>1, ConcatProperties
  <2>2. QED
    BY <1>1, <2>1
<1>3. k \in DOMAIN f /\ f[k] = "begin" /\ \A n \in DOMAIN f : f[n] = "begin" => k <= n
  BY <1>1, <1>2
<1>4. A!Begin(f) = k
  <2>1. A!Markers(f, "begin") \in SUBSET Nat /\ k \in A!Markers(f, "begin")
        /\ \A n \in A!Markers(f, "begin") : k <= n
    BY <1>2, <1>3 DEF A!Markers
  <2>2. QED
    BY <2>1, MinIs DEF A!Begin
<1>5. SubSeq(f, k, k + Len(block) - 1) = block
  <2>1. \A i \in k .. k + Len(block) - 1 : f[i] \in Lines
    BY <1>2
  <2>2. /\ SubSeq(f, k, k + Len(block) - 1) \in Seq(Lines)
        /\ Len(SubSeq(f, k, k + Len(block) - 1)) = Len(block)
        /\ \A i \in 1 .. Len(block) : SubSeq(f, k, k + Len(block) - 1)[i] = f[k + i - 1]
    <3>1. k \in Int /\ k + Len(block) - 1 \in Int /\ k <= k + Len(block) - 1
      OBVIOUS
    <3>2. (k + Len(block) - 1) - k + 1 = Len(block)
      OBVIOUS
    <3>3. QED
      BY <2>1, <3>1, <3>2, SubSeqProperties
  <2>3. \A i \in 1 .. Len(block) : f[k + i - 1] = block[i]
    BY <1>1, <1>2
  <2>4. QED
    BY <2>2, <2>3, SeqEqual
<1>6. QED
  BY <1>2, <1>4, <1>5

LEMMA OneLine == ASSUME NEW T, NEW x \in T PROVE <<x>> \in Seq(T) /\ Len(<<x>>) = 1 /\ <<x>>[1] = x
  OBVIOUS

LEMMA TwoLines ==
  ASSUME NEW T, NEW x \in T, NEW y \in T
  PROVE  <<x, y>> \in Seq(T) /\ Len(<<x, y>>) = 2 /\ <<x, y>>[1] = x
  OBVIOUS

LEMMA SomeLine == ASSUME NEW T, NEW s \in Seq(Seq(T)), NEW i \in 1..Len(s) PROVE s[i] \in Seq(T)
  OBVIOUS

AgentTypes ==
  /\ v1 \in Seq(Lines) /\ v2 \in 1..Len(Instructions)
  /\ v3 \in [Process -> [pc : {"idle", "read", "write"}, version : 0..Len(Instructions),
                         existing : Seq(Lines)]]
  /\ \A w \in Process : v3[w].pc # "idle" => v3[w].version > 0

LEMMA Rendered ==
  ASSUME A!AgentContextAssumption, NEW v \in 1..Len(Instructions)
  PROVE  /\ A!Render(v) \in Seq(Lines) /\ Len(A!Render(v)) > 0 /\ A!Render(v)[1] = "begin"
<1>1. Instructions[v] \in Seq(Lines)
  <2>1. Instructions \in Seq(Seq(STRING))
    BY DEF A!AgentContextAssumption
  <2>2. Instructions[v] \in Seq(STRING)
    BY <2>1, SomeLine
  <2>3. STRING \subseteq Lines
    BY Zenon DEF Lines
  <2>4. QED
    BY Zenon, <2>2, <2>3, SeqMonotonic
<1>2. <<"begin", "facts">> \in Seq(Lines) /\ <<"end">> \in Seq(Lines)
      /\ Len(<<"begin", "facts">>) = 2 /\ <<"begin", "facts">>[1] = "begin" /\ Len(<<"end">>) = 1
  BY Zenon, LinesType, OneLine, TwoLines
<1> DEFINE top == <<"begin", "facts">> \o Instructions[v]
<1>3. top \in Seq(Lines) /\ Len(top) = 2 + Len(Instructions[v]) /\ top[1] = "begin"
  <2> DEFINE opening == <<"begin", "facts">>
  <2> HIDE DEF opening
  <2>1. opening \in Seq(Lines) /\ Len(opening) = 2 /\ opening[1] = "begin"
    BY <1>2 DEF opening
  <2>2. top = opening \o Instructions[v]
    BY DEF opening
  <2> HIDE DEF top
  <2>3. Len(Instructions[v]) \in Nat
    BY <1>1
  <2>4. /\ top \in Seq(Lines) /\ Len(top) = Len(opening) + Len(Instructions[v])
        /\ \A i \in 1..Len(opening) + Len(Instructions[v]) :
             top[i] = IF i <= Len(opening) THEN opening[i] ELSE Instructions[v][i - Len(opening)]
    BY Zenon, <1>1, <2>1, <2>2, ConcatProperties
  <2>5. QED
    BY <2>1, <2>3, <2>4
<1> DEFINE closing == <<"end">>
<1>4. A!Render(v) = top \o closing
  BY DEF A!Render
<1>5. closing \in Seq(Lines) /\ Len(closing) = 1
  BY <1>2
<1> HIDE DEF top, closing
<1>6. Len(Instructions[v]) \in Nat
  BY <1>1
<1>7. QED
  BY <1>3, <1>4, <1>5, <1>6, ConcatProperties

\* Splice is a sequence of lines with the whole block as the first of its kind.
LEMMA SpliceDelivers ==
  ASSUME NEW existing \in Seq(Lines), NEW block \in Seq(Lines),
         Len(block) > 0, block[1] = "begin", NEW f, f = A!Splice(existing, block)
  PROVE  /\ f \in Seq(Lines)
         /\ SubSeq(f, A!Begin(f), A!Begin(f) + Len(block) - 1) = block
<1> DEFINE opens == A!LineIndex(existing, "begin", 1)
           close == A!LineIndex(existing, "end", A!CloseFrom(opens))
           head == SubSeq(existing, 1, opens - 1)
<1>1. <<>> \in Seq(Lines) /\ \A s \in Seq(Lines) : s \o <<>> = s /\ <<>> \o s = s
  BY EmptySeq, ConcatEmptySeq
<1>2. \/ opens = 0 /\ \A n \in 1..Len(existing) : existing[n] # "begin"
      \/ /\ opens \in 1..Len(existing) /\ existing[opens] = "begin"
         /\ \A n \in 1..Len(existing) : n < opens => existing[n] # "begin"
  BY LineIndexFinds
<1>3. f = IF opens = 0 THEN A!Appended(existing, block)
          ELSE IF close # 0 THEN head \o block \o SubSeq(existing, close + 1, Len(existing))
          ELSE head \o block
  BY DEF A!Splice
<1>4. CASE opens = 0
  <2>1. CASE existing = <<>>
    <3>1. f = (<<>> \o block) \o <<>>
      BY <1>1, <1>3, <1>4, <2>1 DEF A!Appended
    <3>2. PICK before \in Seq(Lines), after \in Seq(Lines) :
            f = (before \o block) \o after /\ Len(before) = 0
      BY <1>1, <3>1
    <3>3. \A n \in 1..Len(before) : before[n] # "begin"
      BY <3>2
    <3> HIDE DEF head, close, opens
    <3>4. before \in Seq(Lines) /\ after \in Seq(Lines)
      OBVIOUS
    <3>5. f = (before \o block) \o after
      BY <3>2
    <3>6. QED
      BY <3>3, <3>4, <3>5, FirstBlock
  <2>2. CASE existing # <<>>
    <3> DEFINE gap == <<"blank">>
               before == existing \o gap
    <3>1. gap \in Seq(Lines) /\ Len(gap) = 1 /\ gap[1] = "blank"
      BY Zenon, LinesType, OneLine
    <3>2. f = before \o block
      BY <1>3, <1>4, <2>2 DEF A!Appended
    <3> HIDE DEF gap
    <3>3. /\ before \in Seq(Lines) /\ Len(before) = Len(existing) + 1
          /\ \A i \in 1..Len(existing) + 1 :
               before[i] = IF i <= Len(existing) THEN existing[i] ELSE gap[i - Len(existing)]
      <4>1. /\ before \in Seq(Lines) /\ Len(before) = Len(existing) + Len(gap)
            /\ \A i \in 1..Len(existing) + Len(gap) :
                 before[i] = IF i <= Len(existing) THEN existing[i] ELSE gap[i - Len(existing)]
        BY Zenon, <3>1, ConcatProperties
      <4>2. QED
        BY Zenon, <3>1, <4>1
    <3> HIDE DEF before
    <3>4. \A n \in 1..Len(before) : before[n] # "begin"
      <4>1. SUFFICES ASSUME NEW n \in 1..Len(existing) + 1 PROVE before[n] # "begin"
        BY <3>3
      <4>2. CASE n <= Len(existing)
        BY <1>2, <1>4, <3>3, <4>2
      <4>3. CASE n = Len(existing) + 1
        <5>1. before[n] = gap[1]
          BY <3>3, <4>3
        <5>2. QED
          BY <3>1, <5>1
      <4>4. QED
        BY <4>2, <4>3
    <3>5. f = (before \o block) \o <<>>
      <4>1. before \o block \in Seq(Lines)
        BY <3>3, ConcatProperties
      <4>2. QED
        BY <1>1, <3>2, <4>1
    <3>6. PICK after \in Seq(Lines) : f = (before \o block) \o after
      BY Zenon, <1>1, <3>5
    <3>7. before \in Seq(Lines)
      BY <3>3
    <3>8. QED
      BY <3>4, <3>6, <3>7, FirstBlock
  <2>3. QED
    BY <2>1, <2>2
<1>5. CASE opens # 0
  <2>1. opens \in 1..Len(existing) /\ \A n \in 1..Len(existing) : n < opens => existing[n] # "begin"
    BY <1>2, <1>5
  <2>2. head \in Seq(Lines) /\ \A n \in 1..Len(head) : head[n] # "begin"
    <3> HIDE DEF opens
    <3>1. \A i \in 1..opens - 1 : existing[i] \in Lines
      BY <2>1
    <3>2. /\ head \in Seq(Lines)
          /\ Len(head) = IF 1 <= opens - 1 THEN opens - 1 - 1 + 1 ELSE 0
          /\ \A i \in 1..opens - 1 - 1 + 1 : head[i] = existing[1 + i - 1]
      <4>1. 1 \in Int /\ opens - 1 \in Int
        BY <2>1
      <4>2. QED
        BY <3>1, <4>1, SubSeqProperties
    <3>3. opens \in Nat /\ Len(head) = opens - 1
      BY <2>1, <3>2
    <3>4. ASSUME NEW n \in 1..Len(head) PROVE head[n] # "begin"
      <4>1. n \in 1..opens - 1 - 1 + 1 /\ 1 + n - 1 = n /\ n < opens
        BY <3>3
      <4>2. head[n] = existing[n]
        BY <3>2, <4>1
      <4>3. n \in 1..Len(existing)
        BY <2>1, <4>1
      <4>4. QED
        BY <2>1, <4>1, <4>2, <4>3
    <3>5. QED
      BY <3>2, <3>4
  <2>3. \E after \in Seq(Lines) : f = (head \o block) \o after
    <3> HIDE DEF head, opens
    <3>1. head \o block \in Seq(Lines)
      BY <2>2, ConcatProperties
    <3>2. CASE close = 0
      <4>1. f = (head \o block) \o <<>>
        BY <1>1, <1>3, <1>5, <3>1, <3>2
      <4>2. QED
        BY <1>1, <4>1
    <3>3. CASE close # 0
      <4> DEFINE after == SubSeq(existing, close + 1, Len(existing))
      <4>1. close \in Nat \ {0}
        <5>1. A!CloseFrom(opens) \in Nat \ {0}
          BY <2>1 DEF A!CloseFrom
        <5>2. close \in A!CloseFrom(opens)..Len(existing)
          BY <3>3, <5>1, LineIndexFinds
        <5>3. QED
          BY <5>1, <5>2
      <4>2. f = (head \o block) \o after
        BY <1>3, <1>5, <3>3
      <4> HIDE DEF close
      <4>3. after \in Seq(Lines)
        <5>1. close + 1 \in Int /\ Len(existing) \in Int
              /\ \A i \in close + 1..Len(existing) : existing[i] \in Lines
          BY <4>1
        <5>2. QED
          BY <5>1, SubSeqProperties
      <4>4. QED
        BY <4>2, <4>3
    <3>4. QED
      BY <3>2, <3>3
  <2>4. PICK after \in Seq(Lines) : f = (head \o block) \o after
    BY <2>3
  <2> HIDE DEF head
  <2>5. QED
    BY <2>2, <2>4, FirstBlock
<1>6. QED
  BY <1>4, <1>5

LEMMA ThreeLines ==
  ASSUME NEW T, NEW x \in T, NEW y \in T, NEW z \in T PROVE <<x, y, z>> \in Seq(T)
  OBVIOUS

WriterType == [pc : {"idle", "read", "write"}, version : 0..Len(Instructions), existing : Seq(Lines)]

LEMMA AgentIdle ==
  ASSUME A!AgentContextAssumption
  PROVE  /\ Len(Instructions) \in Nat \ {0}
         /\ A!Idle \in WriterType /\ A!Idle.pc = "idle"
<1>1. Len(Instructions) \in Nat \ {0}
  BY DEF A!AgentContextAssumption
<1>2. <<>> \in Seq(Lines)
  BY EmptySeq
<1>3. QED
  BY <1>1, <1>2 DEF A!Idle, WriterType

LEMMA AgentInit == A!AgentContextAssumption /\ A!Init => AgentTypes
<1> SUFFICES ASSUME A!AgentContextAssumption, A!Init PROVE AgentTypes
  OBVIOUS
<1>1. v1 \in Seq(Lines)
  <2>1. <<>> \in Seq(Lines) /\ <<"mine">> \in Seq(Lines) /\ <<"end", "mine">> \in Seq(Lines)
        /\ <<"mine", "quoted end", "mine">> \in Seq(Lines)
    BY Zenon, LinesType, OneLine, TwoLines, ThreeLines, EmptySeq
  <2>2. v1 \in {<<>>, <<"mine">>, <<"mine", "quoted end", "mine">>, <<"end", "mine">>}
    BY DEF A!Init
  <2>3. QED
    BY Zenon, <2>1, <2>2
<1>2. v2 = 1 /\ v3 = [w \in Process |-> A!Idle]
  BY DEF A!Init
<1>3. QED
  BY <1>1, <1>2, AgentIdle DEF AgentTypes, WriterType

\* What a writer puts in the file is the splice of its block into what it has read.
LEMMA WriterDelivers ==
  ASSUME A!AgentContextAssumption, AgentTypes, NEW w \in Process, v3[w].pc # "idle",
         NEW f, f = A!New(w)
  PROVE  /\ f \in Seq(Lines)
         /\ LET block == A!Render(v3[w].version)
            IN  SubSeq(f, A!Begin(f), A!Begin(f) + Len(block) - 1) = block
<1>1. v3[w].version \in 1..Len(Instructions) /\ v3[w].existing \in Seq(Lines)
  BY AgentIdle DEF AgentTypes
<1> DEFINE block == A!Render(v3[w].version)
<1>2. block \in Seq(Lines) /\ Len(block) > 0 /\ block[1] = "begin"
  BY <1>1, Rendered
<1>3. f = A!Splice(v3[w].existing, block)
  BY DEF A!New
<1> HIDE DEF block
<1>4. f \in Seq(Lines) /\ SubSeq(f, A!Begin(f), A!Begin(f) + Len(block) - 1) = block
  BY <1>1, <1>2, <1>3, SpliceDelivers
<1>5. QED
  BY <1>4 DEF block

LEMMA AgentNext ==
  ASSUME A!AgentContextAssumption, AgentTypes, A!Next
  PROVE  AgentTypes'
<1>a. /\ v1 \in Seq(Lines) /\ v2 \in 1..Len(Instructions) /\ v3 \in [Process -> WriterType]
      /\ \A w \in Process : v3[w].pc # "idle" => v3[w].version > 0
      /\ Len(Instructions) \in Nat \ {0}
  BY AgentIdle DEF AgentTypes, WriterType
<1>b. ASSUME v1' \in Seq(Lines), v2' \in 1..Len(Instructions), v3' \in [Process -> WriterType],
             \A w \in Process : v3'[w].pc # "idle" => v3'[w].version > 0
      PROVE  AgentTypes'
  BY <1>b DEF AgentTypes, WriterType
<1>c. ASSUME NEW w \in Process, v1' \in Seq(Lines), v2' = v2, A!Ends(w)
      PROVE  AgentTypes'
  BY <1>a, <1>b, <1>c, AgentIdle DEF A!Ends
<1>1. ASSUME NEW w \in Process, A!Renders(w)
      PROVE  AgentTypes'
  <2>1. v3' = [v3 EXCEPT ![w] = [A!Idle EXCEPT !.pc = "read", !.version = v2]] /\ UNCHANGED <<v1, v2>>
    BY <1>1 DEF A!Renders
  <2>2. /\ [A!Idle EXCEPT !.pc = "read", !.version = v2] \in WriterType
        /\ [A!Idle EXCEPT !.pc = "read", !.version = v2].version = v2
    <3>1. <<>> \in Seq(Lines) /\ v2 \in 0..Len(Instructions)
      BY <1>a, EmptySeq
    <3>2. QED
      BY <3>1 DEF A!Idle, WriterType
  <2>3. QED
    BY <1>a, <1>b, <2>1, <2>2
<1>2. ASSUME NEW w \in Process, A!Reads(w)
      PROVE  AgentTypes'
  <2>1. PICK e \in {v1, <<>>} : v3' = [v3 EXCEPT ![w].pc = "write", ![w].existing = e]
    BY <1>2 DEF A!Reads
  <2>2. e \in Seq(Lines) /\ v3[w].pc = "read" /\ UNCHANGED <<v1, v2>>
    BY <1>2, <1>a, EmptySeq DEF A!Reads, A!At
  <2>3. /\ v3' \in [Process -> WriterType] /\ v3'[w].version = v3[w].version
        /\ \A u \in Process : u # w => v3'[u] = v3[u]
    BY <1>a, <2>1, <2>2 DEF WriterType
  <2>4. QED
    BY <1>a, <1>b, <2>2, <2>3
<1>3. ASSUME NEW w \in Process, A!Writes(w) \/ A!WritesPart(w)
      PROVE  AgentTypes'
  <2>1. A!Ends(w) /\ v2' = v2 /\ v3[w].pc = "write"
    BY <1>3 DEF A!Writes, A!WritesPart, A!At
  <2> DEFINE new == A!New(w)
  <2>2. new \in Seq(Lines)
    BY <2>1, WriterDelivers
  <2>3. CASE v1' = new
    BY <1>c, <2>1, <2>2, <2>3
  <2>4. CASE \E n \in 0..Len(new) - 1, cut \in {<<>>, <<"part">>} : v1' = SubSeq(new, 1, n) \o cut
    <3> HIDE DEF new
    <3>1. PICK n \in 0..Len(new) - 1, cut \in {<<>>, <<"part">>} : v1' = SubSeq(new, 1, n) \o cut
      BY <2>4
    <3>2. cut \in Seq(Lines)
      BY Zenon, LinesType, OneLine, EmptySeq
    <3>3. SubSeq(new, 1, n) \in Seq(Lines)
      <4>1. 1 \in Int /\ n \in Int /\ \A i \in 1..n : new[i] \in Lines
        BY <2>2
      <4>2. QED
        BY <4>1, SubSeqProperties
    <3>4. v1' \in Seq(Lines)
      BY Zenon, <3>1, <3>2, <3>3, ConcatProperties
    <3>5. QED
      BY <1>c, <2>1, <3>4
  <2>5. QED
    BY <1>3, <2>3, <2>4 DEF A!Writes, A!WritesPart
<1>4. ASSUME NEW w \in Process, A!Dies(w)
      PROVE  AgentTypes'
  BY <1>4, <1>a, <1>c DEF A!Dies
<1>5. CASE A!Adds
  <2>1. PICK line \in {"mine", "quoted begin"} : v1' \in {<<line>> \o v1, v1 \o <<line>>}
    BY <1>5 DEF A!Adds
  <2>2. <<line>> \in Seq(Lines)
    BY Zenon, LinesType, OneLine
  <2>3. <<line>> \o v1 \in Seq(Lines) /\ v1 \o <<line>> \in Seq(Lines)
    BY Zenon, <1>a, <2>2, ConcatProperties
  <2>4. v1' \in Seq(Lines)
    BY Zenon, <2>1, <2>3
  <2>5. QED
    BY <1>5, <1>a, <1>b, <2>4 DEF A!Adds
<1>6. CASE A!EditsInstructions
  BY <1>6, <1>a, <1>b DEF A!EditsInstructions
<1>7. QED
  BY <1>1, <1>2, <1>3, <1>4, <1>5, <1>6 DEF A!Next

\* A write of an agent's instructions file that is not cut off leaves the block its
\* writer rendered as the one that is found first.
THEOREM BlocksAreDelivered == SessionsSpec => Delivered
<1> DEFINE I == part = "agent" => AgentTypes
<1>a. A!AgentContextAssumption
  BY PartsAssumption DEF PartsAssumption
<1>1. PartInit => I
  BY <1>a, AgentInit DEF PartInit
<1>2. I /\ [/\ \/ IssuesMove \/ Parts
            /\ UNCHANGED part]_all => I'
  <2> SUFFICES ASSUME I, part = "agent", [(IssuesMove \/ Parts) /\ UNCHANGED part]_all
               PROVE  AgentTypes'
    BY DEF all
  <2>1. CASE UNCHANGED all
    <3>1. UNCHANGED <<v1, v2, v3>>
      BY <2>1 DEF all
    <3>2. QED
      BY <3>1 DEF AgentTypes
  <2>2. CASE IssuesMove \/ Parts
    <3>1. A!Next
      BY <2>2 DEF Parts, IssuesMove, SeedingMoves, AgentMoves, LayoutMoves, AccessMoves,
         SetupMoves, ServingMoves, SidebarMoves
    <3>2. QED
      BY <1>a, <3>1, AgentNext
  <2>3. QED
    BY <2>1, <2>2
<1>3. I => (part = "agent" => A!Delivery)
  <2> SUFFICES ASSUME AgentTypes, NEW w \in Process, A!Writes(w)
               PROVE  LET block == A!Render(v3[w].version)
                      IN  SubSeq(v1', A!Begin(v1'), A!Begin(v1') + Len(block) - 1) = block
    BY DEF A!Delivery
  <2>1. v3[w].pc # "idle" /\ v1' = A!New(w)
    BY DEF A!Writes, A!At
  <2>2. PICK f : f = v1'
    OBVIOUS
  <2>3. LET block == A!Render(v3[w].version)
        IN  SubSeq(f, A!Begin(f), A!Begin(f) + Len(block) - 1) = block
    BY <1>a, <2>1, <2>2, WriterDelivers
  <2>4. QED
    BY <2>2, <2>3 DEF A!Begin, A!Markers
<1>4. QED
  BY <1>1, <1>2, <1>3, PTL DEF SessionsSpec, Delivered, Parts

-------------------------------------------------------------------------------
(* Sidebar: one workspace for a session. Who works on a session holds its lock,*)
(* and down has the instance to itself; a workspace that no process is about   *)
(* to mark keeps the label its attachment gave it until it is marked, so that  *)
(* the one that looks for it before creating another finds it.                 *)

Looking == {"list", "enable", "add", "read back", "record"}
Making == {"recover", "create", "recover once", "prove", "rename", "mark"}
Attaching == Looking \cup Making \cup {"verify"}
Downing == {"forget", "delete"}

SidebarTypes ==
  /\ v3 = [s \in Name |-> [phase |-> v3[s].phase, machine |-> v3[s].machine, handle |-> v3[s].handle]]
  /\ v4 = [i \in DOMAIN v4 |-> [session |-> v4[i].session, label |-> v4[i].label]]
  /\ v7 \in [Name -> Process \cup {B!Nobody}]
  /\ v8 = [p \in Process |-> [pc |-> v8[p].pc, session |-> v8[p].session, id |-> v8[p].id]]
  /\ \A p \in Process : v8[p].pc \in {"idle"} \cup Attaching \cup Downing
  /\ v11 \in Nat /\ DOMAIN v4 \subseteq 1..v11
  /\ \A i \in DOMAIN v4 : v4[i].session \in Name

SidebarLocks ==
  /\ \A p \in Process : v8[p].pc \in Attaching =>
       v8[p].session \in Name /\ v7[v8[p].session] = p /\ p \in v5
  /\ \A p \in Process : v8[p].pc \in Downing => v6 = p
  /\ v6 # B!Nobody => v5 = {}

\* Where an attach is, against what is on record of its session.
SidebarPhases ==
  \A p \in Process :
    /\ v8[p].pc \in Looking => v3[v8[p].session].phase = "none"
    /\ v8[p].pc \in Making => v3[v8[p].session].phase = "creating"
    /\ v8[p].pc = "create" /\ v8[p].session \notin v9 =>
         \A i \in DOMAIN v4 : v4[i].session # v8[p].session
    /\ v8[p].pc \in {"prove", "rename"} =>
         v8[p].id \in DOMAIN v4 /\ v4[v8[p].id].session = v8[p].session
    /\ v8[p].pc = "delete" => DOMAIN v4 = {}

SidebarSpaces ==
  \A i \in DOMAIN v4 :
    /\ v3[v4[i].session].phase # "none"
    /\ \/ v4[i].label = "intent" \/ v4[i].session \in v9
       \/ v3[v4[i].session].phase = "active"
       \/ \E p \in Process : v8[p].pc = "mark" /\ v8[p].session = v4[i].session
    /\ v4[i].session \notin v9 => \A j \in DOMAIN v4 : v4[j].session = v4[i].session => j = i

SidebarInv == SidebarTypes /\ SidebarLocks /\ SidebarPhases /\ SidebarSpaces

LEMMA SidebarWhere ==
  /\ \A x \in Attaching : x # "idle" /\ x \notin Downing
  /\ \A x \in Downing : x # "idle"
  /\ \A x \in Attaching : x \in Looking \/ x \in Making \/ x = "verify"
  /\ \A x \in Looking : x \in Attaching /\ x \notin Making
  /\ \A x \in Making : x \in Attaching
  /\ "verify" \in Attaching \ (Looking \cup Making)
  /\ {"create", "prove", "rename", "mark", "recover", "recover once"} \subseteq Making
  /\ "delete" \in Downing /\ "forget" \in Downing /\ "idle" \notin Attaching \cup Downing
BY DEF Attaching, Looking, Making, Downing

LEMMA SidebarInit == B!Init => SidebarInv
<1> SUFFICES ASSUME B!Init PROVE SidebarInv
  OBVIOUS
<1>1. /\ v3 = [s \in Name |-> [phase |-> "none", machine |-> 0, handle |-> 0]]
      /\ v4 = [i \in {} |-> 0] /\ v5 = {} /\ v6 = B!Nobody /\ v7 = [s \in Name |-> B!Nobody]
      /\ v8 = [p \in Process |-> [pc |-> "idle", session |-> B!Nobody, id |-> 0]] /\ v11 = 0
  BY DEF B!Init, B!Idle, B!NoAttachment
<1>2. \A p \in Process : v8[p].pc = "idle"
  BY <1>1
<1>3. DOMAIN v4 = {}
  BY <1>1
<1>4. SidebarTypes
  <2>1. v4 = [i \in DOMAIN v4 |-> [session |-> v4[i].session, label |-> v4[i].label]]
    BY <1>1
  <2>2. v3 = [s \in Name |-> [phase |-> v3[s].phase, machine |-> v3[s].machine, handle |-> v3[s].handle]]
    BY <1>1
  <2>3. v8 = [p \in Process |-> [pc |-> v8[p].pc, session |-> v8[p].session, id |-> v8[p].id]]
    BY <1>1
  <2>4. QED
    BY <1>1, <1>2, <1>3, <2>1, <2>2, <2>3 DEF SidebarTypes
<1>5. SidebarLocks
  BY <1>1, <1>2, SidebarWhere DEF SidebarLocks
<1>6. SidebarPhases
  BY <1>2, SidebarWhere DEF SidebarPhases
<1>7. SidebarSpaces
  BY <1>3 DEF SidebarSpaces
<1>8. QED
  BY <1>4, <1>5, <1>6, <1>7 DEF SidebarInv

\* One process at most is attaching to a session, and none while a down runs.
LEMMA SidebarAlone ==
  ASSUME SidebarInv, B!NobodyAssumption, NEW p \in Process, v8[p].pc # "idle",
         NEW q \in Process, q # p, v8[q].pc # "idle"
  PROVE  /\ v8[p].pc \in Attaching /\ v8[q].pc \in Attaching
         /\ v8[p].session # v8[q].session
<1>1. v8[p].pc \in Attaching \cup Downing /\ v8[q].pc \in Attaching \cup Downing
  BY DEF SidebarInv, SidebarTypes
<1>2. ASSUME NEW x \in Process, v8[x].pc \in Downing
      PROVE  v6 = x /\ v5 = {} /\ \A y \in Process : y # x => v8[y].pc \notin Attaching \cup Downing
  BY <1>2 DEF SidebarInv, SidebarLocks, B!NobodyAssumption
<1>3. v8[p].pc \in Attaching /\ v8[q].pc \in Attaching
  BY <1>1, <1>2
<1>4. QED
  BY <1>3 DEF SidebarInv, SidebarLocks

\* A process that attaches goes on, and changes nothing but where it is.
LEMMA SidebarGoesOn ==
  ASSUME SidebarInv, B!NobodyAssumption, NEW p \in Process, NEW pc, NEW id,
         v8[p].pc \in Attaching \ {"mark"}, pc \in Attaching \ {"mark"},
         v8' = [v8 EXCEPT ![p] = [pc |-> pc, session |-> v8[p].session, id |-> id]],
         UNCHANGED <<v3, v4, v5, v6, v7, v9, v11>>,
         pc \in Looking => v3[v8[p].session].phase = "none",
         pc \in Making => v3[v8[p].session].phase = "creating",
         pc = "create" /\ v8[p].session \notin v9 =>
           \A i \in DOMAIN v4 : v4[i].session # v8[p].session,
         pc \in {"prove", "rename"} => id \in DOMAIN v4 /\ v4[id].session = v8[p].session
  PROVE  SidebarInv'
<1>1. /\ v8' = [q \in Process |-> IF q = p THEN [pc |-> pc, session |-> v8[p].session, id |-> id]
                                  ELSE v8[q]]
      /\ \A q \in Process : q # p => v8'[q] = v8[q]
      /\ v8'[p].pc = pc /\ v8'[p].session = v8[p].session /\ v8'[p].id = id
  BY DEF SidebarInv, SidebarTypes
<1>2. SidebarTypes'
  <2>1. v8' = [q \in Process |-> [pc |-> v8'[q].pc, session |-> v8'[q].session, id |-> v8'[q].id]]
    BY <1>1 DEF SidebarInv, SidebarTypes
  <2>2. QED
    BY <1>1, <2>1 DEF SidebarInv, SidebarTypes
<1>a. /\ v8[p].session \in Name /\ v7[v8[p].session] = p /\ p \in v5
      /\ \A x \in Attaching : x # "idle" /\ x \notin Downing /\ x # "delete"
  BY SidebarWhere DEF SidebarInv, SidebarLocks
<1>3. SidebarLocks'
  <2>1. \A q \in Process : v8'[q].pc \in Attaching =>
          v8'[q].session \in Name /\ v7[v8'[q].session] = q /\ q \in v5
    BY <1>1, <1>a DEF SidebarInv, SidebarLocks
  <2>2. \A q \in Process : v8'[q].pc \in Downing => v6 = q
    BY <1>1, <1>a DEF SidebarInv, SidebarLocks
  <2>3. QED
    BY <2>1, <2>2 DEF SidebarInv, SidebarLocks
<1>4. SidebarPhases'
  <2>1. SUFFICES ASSUME NEW q \in Process
                 PROVE  (/\ v8[q].pc \in Looking => v3[v8[q].session].phase = "none"
                         /\ v8[q].pc \in Making => v3[v8[q].session].phase = "creating"
                         /\ v8[q].pc = "create" /\ v8[q].session \notin v9 =>
                              \A i \in DOMAIN v4 : v4[i].session # v8[q].session
                         /\ v8[q].pc \in {"prove", "rename"} =>
                              v8[q].id \in DOMAIN v4 /\ v4[v8[q].id].session = v8[q].session
                         /\ v8[q].pc = "delete" => DOMAIN v4 = {})'
    BY DEF SidebarPhases
  <2>2. CASE q = p
    BY <1>1, <1>a, <2>2
  <2>3. CASE q # p
    <3>1. v8'[q] = v8[q]
      BY <1>1, <2>3
    <3>2. QED
      BY <3>1 DEF SidebarInv, SidebarPhases
  <2>4. QED
    BY <2>2, <2>3
<1>5. SidebarSpaces'
  BY <1>1 DEF SidebarInv, SidebarSpaces
<1>6. QED
  BY <1>2, <1>3, <1>4, <1>5 DEF SidebarInv

\* A process that ends gives back its locks; one that has renamed and not marked
\* leaves its session among those that slipped.
LEMMA SidebarEnds ==
  ASSUME SidebarInv, B!NobodyAssumption, NEW p \in Process, B!Ends(p),
         UNCHANGED <<v3, v4, v11>>,
         v9' = IF v8[p].pc = "mark" THEN v9 \cup {v8[p].session} ELSE v9
  PROVE  SidebarInv'
<1>1. /\ v8' = [q \in Process |-> IF q = p THEN [pc |-> "idle", session |-> B!Nobody, id |-> 0]
                                  ELSE v8[q]]
      /\ \A q \in Process : q # p => v8'[q] = v8[q]
      /\ v8'[p].pc = "idle"
      /\ v5' = v5 \ {p} /\ v6' = (IF v6 = p THEN B!Nobody ELSE v6)
      /\ v7' = [s \in Name |-> IF v7[s] = p THEN B!Nobody ELSE v7[s]]
  BY DEF SidebarInv, SidebarTypes, B!Ends, B!Idle
<1>2. SidebarTypes'
  <2>1. v8' = [q \in Process |-> [pc |-> v8'[q].pc, session |-> v8'[q].session, id |-> v8'[q].id]]
    BY <1>1 DEF SidebarInv, SidebarTypes
  <2>2. v7' \in [Name -> Process \cup {B!Nobody}]
    BY <1>1 DEF SidebarInv, SidebarTypes
  <2>3. QED
    BY <1>1, <2>1, <2>2 DEF SidebarInv, SidebarTypes
<1>3. SidebarLocks'
  BY <1>1, SidebarWhere DEF SidebarInv, SidebarTypes, SidebarLocks, B!NobodyAssumption
<1>4. SidebarPhases'
  BY <1>1, SidebarWhere DEF SidebarInv, SidebarPhases
<1>5. SidebarSpaces'
  BY <1>1 DEF SidebarInv, SidebarSpaces
<1>6. QED
  BY <1>2, <1>3, <1>4, <1>5 DEF SidebarInv

\* Going on means holding the same locks.
LEMMA SidebarHolds ==
  ASSUME SidebarInv, NEW p \in Process, NEW pc, NEW id, v8[p].pc \in Attaching, pc \in Attaching,
         v8' = [v8 EXCEPT ![p] = [pc |-> pc, session |-> v8[p].session, id |-> id]],
         UNCHANGED <<v5, v6, v7>>
  PROVE  /\ SidebarLocks'
         /\ v8' = [q \in Process |-> [pc |-> v8'[q].pc, session |-> v8'[q].session, id |-> v8'[q].id]]
         /\ \A q \in Process : q # p => v8'[q] = v8[q]
         /\ v8'[p].pc = pc /\ v8'[p].session = v8[p].session /\ v8'[p].id = id
         /\ v8[p].session \in Name
<1>1. /\ v8' = [q \in Process |-> IF q = p THEN [pc |-> pc, session |-> v8[p].session, id |-> id]
                                  ELSE v8[q]]
      /\ \A q \in Process : q # p => v8'[q] = v8[q]
      /\ v8'[p].pc = pc /\ v8'[p].session = v8[p].session /\ v8'[p].id = id
  BY DEF SidebarInv, SidebarTypes
<1>2. v8' = [q \in Process |-> [pc |-> v8'[q].pc, session |-> v8'[q].session, id |-> v8'[q].id]]
  BY <1>1 DEF SidebarInv, SidebarTypes
<1>3. /\ v8[p].session \in Name /\ v7[v8[p].session] = p /\ p \in v5
      /\ \A x \in Attaching : x # "idle" /\ x \notin Downing /\ x # "delete"
  BY SidebarWhere DEF SidebarInv, SidebarLocks
<1>4. \A q \in Process : v8'[q].pc \in Attaching =>
        v8'[q].session \in Name /\ v7[v8'[q].session] = q /\ q \in v5
  BY <1>1, <1>3 DEF SidebarInv, SidebarLocks
<1>5. \A q \in Process : v8'[q].pc \in Downing => v6 = q
  BY <1>1, <1>3 DEF SidebarInv, SidebarLocks
<1>6. SidebarLocks'
  BY <1>4, <1>5 DEF SidebarInv, SidebarLocks
<1>7. QED
  BY <1>1, <1>2, <1>3, <1>6

\* What a process has to keep that changes what is known of its session.
LEMMA SidebarStep ==
  ASSUME SidebarInv, B!NobodyAssumption, NEW p \in Process, v8[p].pc \in Attaching,
         NEW s, s = v8[p].session, SidebarTypes', SidebarLocks', UNCHANGED v9,
         \A q \in Process : q # p => v8'[q] = v8[q],
         \A t \in Name : t # s => v3'[t] = v3[t],
         \A i \in DOMAIN v4 : v4[i].session # s => i \in DOMAIN v4' /\ v4'[i] = v4[i],
         \A i \in DOMAIN v4' : v4'[i].session # s => i \in DOMAIN v4 /\ v4'[i] = v4[i],
         \A i \in DOMAIN v4 : v4[i].session = s => i \in DOMAIN v4' /\ v4'[i].session = s,
         v8'[p].pc \in {"idle"} \cup Attaching, v8'[p].pc \in Attaching => v8'[p].session = s,
         v8'[p].pc \in Looking => v3'[s].phase = "none",
         v8'[p].pc \in Making => v3'[s].phase = "creating",
         v8'[p].pc = "create" /\ s \notin v9 => \A i \in DOMAIN v4' : v4'[i].session # s,
         v8'[p].pc \in {"prove", "rename"} => v8'[p].id \in DOMAIN v4' /\ v4'[v8'[p].id].session = s,
         \A i \in DOMAIN v4' : v4'[i].session = s =>
           /\ v3'[s].phase # "none"
           /\ \/ v4'[i].label = "intent" \/ s \in v9 \/ v3'[s].phase = "active"
              \/ v8'[p].pc = "mark" /\ v8'[p].session = s
           /\ s \notin v9 => \A j \in DOMAIN v4' : v4'[j].session = s => j = i
  PROVE  SidebarInv'
<1>1. SidebarPhases'
  <2>1. SUFFICES ASSUME NEW q \in Process
                 PROVE  (/\ v8[q].pc \in Looking => v3[v8[q].session].phase = "none"
                         /\ v8[q].pc \in Making => v3[v8[q].session].phase = "creating"
                         /\ v8[q].pc = "create" /\ v8[q].session \notin v9 =>
                              \A i \in DOMAIN v4 : v4[i].session # v8[q].session
                         /\ v8[q].pc \in {"prove", "rename"} =>
                              v8[q].id \in DOMAIN v4 /\ v4[v8[q].id].session = v8[q].session
                         /\ v8[q].pc = "delete" => DOMAIN v4 = {})'
    BY DEF SidebarPhases
  <2>2. CASE q = p
    BY <2>2, SidebarWhere
  <2>3. CASE q # p
    <3>1. v8'[q] = v8[q] /\ v8[p].pc # "idle"
      BY <2>3, SidebarWhere
    <3>2. CASE v8[q].pc = "idle"
      BY <3>1, <3>2, SidebarWhere
    <3>3. CASE v8[q].pc # "idle"
      <4>1. v8[q].pc \in Attaching /\ v8[q].session # s
        BY <2>3, <3>1, <3>3, SidebarAlone
      <4>2. v8[q].session \in Name /\ v8[q].pc # "delete"
        <5>1. v8[q].session \in Name
          BY <4>1 DEF SidebarInv, SidebarLocks
        <5>2. v8[q].pc # "delete"
          BY <4>1, SidebarWhere
        <5>3. QED
          BY <5>1, <5>2
      <4>3. QED
        BY <3>1, <4>1, <4>2 DEF SidebarInv, SidebarPhases
    <3>4. QED
      BY <3>2, <3>3
  <2>4. QED
    BY <2>2, <2>3
<1>2. SidebarSpaces'
  <2>1. SUFFICES ASSUME NEW i \in DOMAIN v4'
                 PROVE  /\ v3'[v4'[i].session].phase # "none"
                        /\ \/ v4'[i].label = "intent" \/ v4'[i].session \in v9
                           \/ v3'[v4'[i].session].phase = "active"
                           \/ \E q \in Process : v8'[q].pc = "mark" /\ v8'[q].session = v4'[i].session
                        /\ v4'[i].session \notin v9 =>
                             \A j \in DOMAIN v4' : v4'[j].session = v4'[i].session => j = i
    BY DEF SidebarSpaces
  <2>2. CASE v4'[i].session = s
    BY <2>2
  <2>3. CASE v4'[i].session # s
    <3>1. i \in DOMAIN v4 /\ v4'[i] = v4[i] /\ v4[i].session \in Name
      BY <2>3 DEF SidebarInv, SidebarTypes
    <3>2. v3'[v4[i].session] = v3[v4[i].session]
      BY <2>3, <3>1
    <3>3. ASSUME NEW q \in Process, v8[q].pc = "mark", v8[q].session = v4[i].session
          PROVE  v8'[q] = v8[q]
      BY <2>3, <3>1, <3>3
    <3>4. ASSUME v4[i].session \notin v9, NEW j \in DOMAIN v4', v4'[j].session = v4'[i].session
          PROVE  j = i
      <4>1. j \in DOMAIN v4 /\ v4[j].session = v4[i].session
        BY <2>3, <3>1, <3>4
      <4>2. QED
        BY <3>1, <3>4, <4>1 DEF SidebarInv, SidebarSpaces
    <3>5. QED
      BY <3>1, <3>2, <3>3, <3>4 DEF SidebarInv, SidebarSpaces
  <2>4. QED
    BY <2>2, <2>3
<1>3. QED
  BY <1>1, <1>2 DEF SidebarInv
LEMMA FirstIs == ASSUME NEW T \in SUBSET Nat, T # {} PROVE B!First(T) \in T
<1>1. PICK m \in T : \A n \in T : m <= n
  BY NatMin
<1>2. QED
  BY <1>1 DEF B!First

LEMMA SidebarGoto ==
  ASSUME SidebarInv, NEW p \in Process, NEW x
  PROVE  /\ B!Goto(p, x) => v8' = [v8 EXCEPT ![p] = [pc |-> x, session |-> v8[p].session, id |-> v8[p].id]]
         /\ \A i : B!Found(p, i, x) =>
              v8' = [v8 EXCEPT ![p] = [pc |-> x, session |-> v8[p].session, id |-> i]]
<1>1. v8[p] = [pc |-> v8[p].pc, session |-> v8[p].session, id |-> v8[p].id]
  BY DEF SidebarInv, SidebarTypes
<1>2. QED
  BY <1>1 DEF B!Goto, B!Found

\* A step of an attach that changes no workspace and no record.
LEMMA SidebarWalks ==
  ASSUME SidebarInv, B!NobodyAssumption, NEW p \in Process,
         B!Lists(p) \/ B!Enables(p) \/ B!Adds(p) \/ B!ReadsBack(p)
  PROVE  SidebarInv'
<1>1. v8[p].pc \in {"list", "enable", "add", "read back"} /\ UNCHANGED <<v3, v4, v9, v11>>
  BY DEF B!Lists, B!Enables, B!Adds, B!ReadsBack, B!At, B!counts
<1>2. v8[p].pc \in Looking /\ v8[p].pc # "mark"
  BY <1>1 DEF Looking
<1>3. \/ B!Ends(p)
      \/ UNCHANGED <<v5, v6, v7>> /\ \E x \in Looking : B!Goto(p, x) \/ \E i : B!Found(p, i, x)
  <2>1. {"add", "enable", "record", "read back"} \subseteq Looking
    BY DEF Looking
  <2>2. CASE B!Lists(p)
    BY <2>1, <2>2 DEF B!Lists, B!locks
  <2>3. CASE B!Enables(p)
    BY <2>1, <2>3 DEF B!Enables, B!locks
  <2>4. CASE B!Adds(p)
    BY <2>1, <2>4 DEF B!Adds, B!locks
  <2>5. CASE B!ReadsBack(p)
    BY <2>1, <2>5 DEF B!ReadsBack, B!locks
  <2>6. QED
    BY <2>2, <2>3, <2>4, <2>5
<1>4. CASE B!Ends(p)
  BY <1>1, <1>2, <1>4, SidebarEnds
<1>5. ASSUME UNCHANGED <<v5, v6, v7>>, NEW x \in Looking, B!Goto(p, x) \/ \E i : B!Found(p, i, x)
      PROVE  SidebarInv'
  <2>1. PICK i : v8' = [v8 EXCEPT ![p] = [pc |-> x, session |-> v8[p].session, id |-> i]]
    BY <1>5, SidebarGoto
  <2>2. v3[v8[p].session].phase = "none"
    BY <1>2 DEF SidebarInv, SidebarPhases
  <2>3. /\ x \in Attaching \ {"mark"} /\ v8[p].pc \in Attaching \ {"mark"} /\ x \notin Making
        /\ x # "create" /\ x \notin {"prove", "rename"}
    BY <1>2, SidebarWhere
  <2>4. QED
    BY <1>1, <1>5, <2>1, <2>2, <2>3, SidebarGoesOn
<1>6. QED
  BY <1>3, <1>4, <1>5

LEMMA SidebarFinds ==
  ASSUME SidebarInv, B!NobodyAssumption, NEW p \in Process,
         B!Verifies(p) \/ B!Recovers(p) \/ B!CreateFails(p) \/ B!RecoversOnce(p) \/ B!NoAnswer(p)
  PROVE  SidebarInv'
<1> DEFINE s == v8[p].session
<1>1. /\ v8[p].pc \in {"verify", "recover", "create", "recover once"}
      /\ UNCHANGED <<v3, v4, v9, v11>>
  BY DEF B!Verifies, B!Recovers, B!CreateFails, B!RecoversOnce, B!NoAnswer, B!At, B!counts
<1>2. v8[p].pc \in Attaching \ {"mark"}
  BY <1>1, SidebarWhere
<1>3. B!Intended(s) \in SUBSET Nat
  BY DEF SidebarInv, SidebarTypes, B!Intended
<1>4. v8[p].pc # "verify" => v3[s].phase = "creating"
  BY <1>1, SidebarWhere DEF SidebarInv, SidebarPhases
\* A workspace of a session that is being attached has its label still.
<1>5. v8[p].pc # "verify" /\ s \notin v9 /\ B!Intended(s) = {} => \A i \in DOMAIN v4 : v4[i].session # s
  <2> SUFFICES ASSUME v8[p].pc # "verify", s \notin v9, B!Intended(s) = {},
                      NEW i \in DOMAIN v4, v4[i].session = s
               PROVE  FALSE
    OBVIOUS
  <2>1. v4[i] = [session |-> s, label |-> v4[i].label]
    BY DEF SidebarInv, SidebarTypes
  <2>2. v4[i].label # "intent"
    BY <2>1 DEF B!Intended
  <2>3. PICK q \in Process : v8[q].pc = "mark" /\ v8[q].session = s
    BY <1>4, <2>2 DEF SidebarInv, SidebarSpaces
  <2>4. q # p /\ v8[q].pc # "idle" /\ v8[p].pc # "idle"
    BY <1>1, <2>3
  <2>5. QED
    BY <2>3, <2>4, SidebarAlone
<1>6. \/ B!Ends(p)
      \/ /\ UNCHANGED <<v5, v6, v7>>
         /\ \/ B!Goto(p, "recover") /\ v3[s].phase = "creating"
            \/ B!Goto(p, "recover once") /\ v8[p].pc # "verify"
            \/ B!Goto(p, "create") /\ v8[p].pc # "verify" /\ B!Intended(s) = {}
            \/ /\ B!Found(p, B!First(B!Intended(s)), "prove")
               /\ v8[p].pc # "verify" /\ B!Intended(s) # {}
  <2>1. CASE B!Verifies(p)
    BY <2>1 DEF B!Verifies, B!My, B!locks
  <2>2. CASE B!Recovers(p)
    BY <2>2 DEF B!Recovers, B!Recover, B!My, B!At, B!locks
  <2>3. CASE B!CreateFails(p)
    BY <2>3 DEF B!CreateFails, B!At, B!locks
  <2>4. CASE B!RecoversOnce(p)
    BY <2>4 DEF B!RecoversOnce, B!My, B!At, B!locks
  <2>5. CASE B!NoAnswer(p)
    BY <2>5 DEF B!NoAnswer
  <2>6. QED
    BY <2>1, <2>2, <2>3, <2>4, <2>5
<1>7. CASE B!Ends(p)
  BY <1>1, <1>7, SidebarEnds
<1>8. /\ {"recover", "recover once", "create", "prove"} \subseteq Attaching \ {"mark"}
      /\ \A x \in {"recover", "recover once", "create", "prove"} : x \notin Looking
  BY SidebarWhere
<1>9. ASSUME UNCHANGED <<v5, v6, v7>>, B!Goto(p, "recover"), v3[s].phase = "creating"
      PROVE  SidebarInv'
  <2>1. v8' = [v8 EXCEPT ![p] = [pc |-> "recover", session |-> s, id |-> v8[p].id]]
    BY <1>9, SidebarGoto
  <2>2. QED
    BY <1>1, <1>2, <1>8, <1>9, <2>1, SidebarGoesOn
<1>10. ASSUME UNCHANGED <<v5, v6, v7>>, B!Goto(p, "recover once"), v8[p].pc # "verify"
       PROVE  SidebarInv'
  <2>1. v8' = [v8 EXCEPT ![p] = [pc |-> "recover once", session |-> s, id |-> v8[p].id]]
    BY <1>10, SidebarGoto
  <2>2. QED
    BY <1>1, <1>2, <1>4, <1>8, <1>10, <2>1, SidebarGoesOn
<1>11. ASSUME UNCHANGED <<v5, v6, v7>>, B!Goto(p, "create"), v8[p].pc # "verify", B!Intended(s) = {}
       PROVE  SidebarInv'
  <2>1. v8' = [v8 EXCEPT ![p] = [pc |-> "create", session |-> s, id |-> v8[p].id]]
    BY <1>11, SidebarGoto
  <2>2. QED
    BY <1>1, <1>2, <1>4, <1>5, <1>8, <1>11, <2>1, SidebarGoesOn
<1>12. ASSUME UNCHANGED <<v5, v6, v7>>, B!Found(p, B!First(B!Intended(s)), "prove"),
              v8[p].pc # "verify", B!Intended(s) # {}
       PROVE  SidebarInv'
  <2>1. PICK i \in B!Intended(s) : v8' = [v8 EXCEPT ![p] = [pc |-> "prove", session |-> s, id |-> i]]
    BY <1>3, <1>12, FirstIs, SidebarGoto
  <2>2. i \in DOMAIN v4 /\ v4[i].session = s
    BY <2>1 DEF B!Intended
  <2>3. QED
    BY <1>1, <1>2, <1>4, <1>8, <1>12, <2>1, <2>2, SidebarGoesOn
<1>13. QED
  BY <1>6, <1>7, <1>9, <1>10, <1>11, <1>12

LEMMA IdleWith ==
  ASSUME NEW s, NEW pc, NEW id, NEW new,
         new = [B!Idle EXCEPT !.session = s, !.id = id, !.pc = pc]
  PROVE  new = [pc |-> pc, session |-> s, id |-> id]
<1>1. PICK idle : idle = B!Idle
  OBVIOUS
<1>2. /\ idle = [pc |-> "idle", session |-> B!Nobody, id |-> 0]
      /\ new = [idle EXCEPT !.session = s, !.id = id, !.pc = pc]
  BY <1>1 DEF B!Idle
<1>3. QED
  BY <1>2

LEMMA SidebarAttaches ==
  ASSUME SidebarInv, B!NobodyAssumption, NEW p \in Process, NEW s \in Name, B!Attaches(p, s)
  PROVE  SidebarInv'
<1>1. /\ v8[p].pc = "idle" /\ v6 = B!Nobody /\ v7[s] = B!Nobody /\ v5' = v5 \cup {p}
      /\ UNCHANGED <<v3, v4, v6, v9, v11>>
  BY DEF B!Attaches, B!At, B!counts
<1>2. v7' = [t \in Name |-> IF t = s THEN p ELSE v7[t]]
  BY DEF B!Attaches, SidebarInv, SidebarTypes
<1>a. PICK id : id = v2.id
  OBVIOUS
<1>3. PICK pc \in {"list", "verify"} :
        /\ v8' = [q \in Process |-> IF q = p THEN [pc |-> pc, session |-> s, id |-> id] ELSE v8[q]]
        /\ pc = "list" => v3[s].phase = "none"
  <2> DEFINE first == IF v3[s].phase = "none" THEN "list" ELSE "verify"
  <2>1. v8' = [v8 EXCEPT ![p] = [pc |-> first, session |-> s, id |-> id]]
    <3>1. v8' = [v8 EXCEPT ![p] = [B!Idle EXCEPT !.session = s, !.id = v2.id, !.pc = first]]
      BY Zenon DEF B!Attaches
    <3> HIDE DEF first
    <3>2. PICK new : new = [B!Idle EXCEPT !.session = s, !.id = v2.id, !.pc = first]
      OBVIOUS
    <3>3. PICK pc : pc = first
      OBVIOUS
    <3>a. new = [B!Idle EXCEPT !.session = s, !.id = id, !.pc = pc]
      BY Zenon, <1>a, <3>2, <3>3
    <3>4. new = [pc |-> pc, session |-> s, id |-> id]
      BY <3>a, IdleWith
    <3>5. v8' = [v8 EXCEPT ![p] = new]
      BY Zenon, <3>1, <3>2
    <3>6. QED
      BY <3>3, <3>4, <3>5
  <2>2. first \in {"list", "verify"} /\ (first = "list" => v3[s].phase = "none")
    OBVIOUS
  <2> HIDE DEF first
  <2>3. v8' = [q \in Process |-> IF q = p THEN [pc |-> first, session |-> s, id |-> id] ELSE v8[q]]
    BY <2>1 DEF SidebarInv, SidebarTypes
  <2>4. QED
    BY <2>2, <2>3
<1>4. /\ v8'[p] = [pc |-> pc, session |-> s, id |-> id]
      /\ \A q \in Process : q # p => v8'[q] = v8[q]
  BY <1>3
<1>5. pc \in Attaching /\ pc \notin Downing /\ pc \notin Making /\ pc \notin {"create", "prove", "rename", "delete", "mark"}
  BY DEF Attaching, Looking, Making, Downing
<1>6. SidebarTypes'
  <2>1. v8' = [q \in Process |-> [pc |-> v8'[q].pc, session |-> v8'[q].session, id |-> v8'[q].id]]
    BY <1>3 DEF SidebarInv, SidebarTypes
  <2>2. v7' \in [Name -> Process \cup {B!Nobody}]
    BY <1>2 DEF SidebarInv, SidebarTypes
  <2>3. QED
    BY <1>1, <1>4, <1>5, <2>1, <2>2 DEF SidebarInv, SidebarTypes
<1>7. SidebarLocks'
  <2>1. ASSUME NEW q \in Process, v8'[q].pc \in Attaching
        PROVE  v8'[q].session \in Name /\ v7'[v8'[q].session] = q /\ q \in v5'
    <3>1. CASE q = p
      BY <1>1, <1>2, <1>4, <3>1
    <3>2. CASE q # p
      <4>1. v8[q].session \in Name /\ v7[v8[q].session] = q /\ q \in v5
        BY <1>4, <2>1, <3>2 DEF SidebarInv, SidebarLocks
      <4>2. v8[q].session # s
        BY <1>1, <4>1 DEF B!NobodyAssumption
      <4>3. QED
        BY <1>1, <1>2, <1>4, <3>2, <4>1, <4>2
    <3>3. QED
      BY <3>1, <3>2
  <2>2. ASSUME NEW q \in Process, v8'[q].pc \in Downing
        PROVE  v6' = q
    BY <1>1, <1>4, <1>5, <2>2 DEF SidebarInv, SidebarLocks
  <2>3. QED
    BY <1>1, <2>1, <2>2 DEF SidebarLocks
<1>8. SidebarPhases'
  <2>1. SUFFICES ASSUME NEW q \in Process
                 PROVE  (/\ v8[q].pc \in Looking => v3[v8[q].session].phase = "none"
                         /\ v8[q].pc \in Making => v3[v8[q].session].phase = "creating"
                         /\ v8[q].pc = "create" /\ v8[q].session \notin v9 =>
                              \A i \in DOMAIN v4 : v4[i].session # v8[q].session
                         /\ v8[q].pc \in {"prove", "rename"} =>
                              v8[q].id \in DOMAIN v4 /\ v4[v8[q].id].session = v8[q].session
                         /\ v8[q].pc = "delete" => DOMAIN v4 = {})'
    BY DEF SidebarPhases
  <2>2. CASE q = p
    <3>1. pc \in Looking => pc = "list"
      BY SidebarWhere
    <3>2. QED
      BY <1>1, <1>3, <1>4, <1>5, <2>2, <3>1
  <2>3. CASE q # p
    BY <1>1, <1>4, <2>3 DEF SidebarInv, SidebarPhases
  <2>4. QED
    BY <2>2, <2>3
<1>9. SidebarSpaces'
  <2>1. \A q \in Process : v8[q].pc = "mark" => v8'[q] = v8[q]
    BY <1>1, <1>4
  <2>2. QED
    BY <1>1, <2>1 DEF SidebarInv, SidebarSpaces
<1>10. QED
  BY <1>6, <1>7, <1>8, <1>9 DEF SidebarInv

\* What is on record of the session changes, and no workspace.
LEMMA SidebarOnRecord ==
  ASSUME SidebarInv, B!NobodyAssumption, NEW p \in Process,
         B!Records(p) \/ B!Proves(p)
  PROVE  SidebarInv'
<1> DEFINE s == v8[p].session
<1>1. UNCHANGED <<v4, v5, v6, v7, v9, v11>> /\ v8[p].pc \in {"record", "prove"}
  BY DEF B!Records, B!Proves, B!counts, B!locks, B!At
<1>2. v8[p].pc \in Attaching /\ s \in Name
  BY <1>1, SidebarWhere DEF SidebarInv, SidebarLocks, Looking
<1>3. /\ v3' = [t \in Name |-> [phase |-> v3'[t].phase, machine |-> v3'[t].machine, handle |-> v3'[t].handle]]
      /\ \A t \in Name : t # s => v3'[t] = v3[t]
      /\ v3'[s].phase = IF v8[p].pc = "record" THEN "creating" ELSE v3[s].phase
  <2>1. CASE B!Records(p)
    <3>1. v3' = [t \in Name |-> IF t = s THEN [phase |-> "creating", machine |-> v8[p].id, handle |-> 0]
                                ELSE v3[t]] /\ v8[p].pc = "record"
      BY <2>1 DEF B!Records, B!My, B!At, SidebarInv, SidebarTypes
    <3>2. QED
      BY <1>2, <3>1 DEF SidebarInv, SidebarTypes
  <2>2. CASE B!Proves(p)
    <3>1. v3' = [t \in Name |-> IF t = s THEN [phase |-> v3[s].phase, machine |-> v3[s].machine,
                                               handle |-> v8[p].id]
                                ELSE v3[t]] /\ v8[p].pc = "prove"
      <4>1. v3[s] = [phase |-> v3[s].phase, machine |-> v3[s].machine, handle |-> v3[s].handle]
        BY <1>2 DEF SidebarInv, SidebarTypes
      <4>2. QED
        <5>1. v3' = [v3 EXCEPT ![s].handle = v8[p].id] /\ v8[p].pc = "prove"
          BY <2>2 DEF B!Proves, B!My, B!At
        <5>2. [v3[s] EXCEPT !.handle = v8[p].id]
                = [phase |-> v3[s].phase, machine |-> v3[s].machine, handle |-> v8[p].id]
          BY <4>1
        <5>3. v3' = [v3 EXCEPT ![s] = [phase |-> v3[s].phase, machine |-> v3[s].machine,
                                       handle |-> v8[p].id]]
          BY <5>1, <5>2
        <5>4. QED
          BY <5>1, <5>3 DEF SidebarInv, SidebarTypes
    <3>2. QED
      BY <1>2, <3>1 DEF SidebarInv, SidebarTypes
  <2>3. QED
    BY <2>1, <2>2
<1>4. PICK pc \in {"verify", "rename"} :
        /\ v8' = [v8 EXCEPT ![p] = [pc |-> pc, session |-> s, id |-> v8[p].id]]
        /\ pc = "verify" <=> v8[p].pc = "record"
  BY <1>1, SidebarGoto DEF B!Records, B!Proves, B!At
<1>5. pc \in Attaching /\ pc \notin Looking /\ (pc \in Making => pc = "rename") /\ pc # "create" /\ pc # "mark"
  BY SidebarWhere
<1>6. /\ SidebarLocks'
      /\ v8' = [q \in Process |-> [pc |-> v8'[q].pc, session |-> v8'[q].session, id |-> v8'[q].id]]
      /\ \A q \in Process : q # p => v8'[q] = v8[q]
      /\ v8'[p].pc = pc /\ v8'[p].session = s /\ v8'[p].id = v8[p].id
  BY <1>1, <1>2, <1>4, <1>5, SidebarHolds
<1>7. SidebarTypes'
  BY <1>1, <1>3, <1>5, <1>6 DEF SidebarInv, SidebarTypes
<1>8. /\ v8[p].pc = "record" => v3[s].phase = "none"
      /\ v8[p].pc = "prove" => v3[s].phase = "creating" /\ v8[p].id \in DOMAIN v4 /\ v4[v8[p].id].session = s
  BY SidebarWhere DEF SidebarInv, SidebarPhases, Looking
<1>9. ASSUME NEW i \in DOMAIN v4, v4[i].session = s
      PROVE  /\ v3'[s].phase # "none"
             /\ v4[i].label = "intent" \/ s \in v9 \/ v3'[s].phase = "active"
             /\ s \notin v9 => \A j \in DOMAIN v4 : v4[j].session = s => j = i
  <2>1. v3[s].phase = "creating" /\ v8[p].pc = "prove"
    BY <1>1, <1>8, <1>9 DEF SidebarInv, SidebarSpaces
  <2>2. ASSUME NEW q \in Process, v8[q].pc = "mark", v8[q].session = s PROVE FALSE
    <3>1. q # p /\ v8[q].pc # "idle" /\ v8[p].pc # "idle"
      BY <2>1, <2>2
    <3>2. QED
      BY <2>2, <3>1, SidebarAlone
  <2>3. QED
    BY <1>3, <1>9, <2>1, <2>2 DEF SidebarInv, SidebarSpaces
<1>10. v3'[s].phase = "creating"
  BY <1>1, <1>3, <1>8
<1>11. QED
  <2> HIDE DEF s
  <2>1. /\ \A i \in DOMAIN v4' : v4'[i].session = s =>
             /\ v3'[s].phase # "none"
             /\ \/ v4'[i].label = "intent" \/ s \in v9 \/ v3'[s].phase = "active"
                \/ v8'[p].pc = "mark" /\ v8'[p].session = s
             /\ s \notin v9 => \A j \in DOMAIN v4' : v4'[j].session = s => j = i
        /\ v4' = v4
    BY <1>1, <1>9
  <2>2. v8'[p].pc \in {"prove", "rename"} => v8'[p].id \in DOMAIN v4' /\ v4'[v8'[p].id].session = s
    BY <1>1, <1>4, <1>6, <1>8
  <2>3. s = v8[p].session
    BY DEF s
  <2>4. /\ v8'[p].pc \in {"idle"} \cup Attaching /\ v8'[p].session = s
        /\ v8'[p].pc \notin Looking /\ v8'[p].pc # "create" /\ UNCHANGED v9
        /\ \A q \in Process : q # p => v8'[q] = v8[q]
        /\ \A t \in Name : t # s => v3'[t] = v3[t]
    BY <1>1, <1>3, <1>5, <1>6
  <2>5. QED
    BY <1>2, <1>6, <1>7, <1>10, <2>1, <2>2, <2>3, <2>4, SidebarStep

LEMMA SidebarReleases ==
  ASSUME SidebarInv, B!NobodyAssumption, NEW p \in Process, B!Ends(p)
  PROVE  /\ SidebarLocks' /\ v7' \in [Name -> Process \cup {B!Nobody}]
         /\ v8' = [q \in Process |-> [pc |-> v8'[q].pc, session |-> v8'[q].session, id |-> v8'[q].id]]
         /\ \A q \in Process : q # p => v8'[q] = v8[q]
         /\ v8'[p].pc = "idle"
<1>1. /\ v8' = [q \in Process |-> IF q = p THEN [pc |-> "idle", session |-> B!Nobody, id |-> 0]
                                  ELSE v8[q]]
      /\ \A q \in Process : q # p => v8'[q] = v8[q]
      /\ v8'[p].pc = "idle"
      /\ v5' = v5 \ {p} /\ v6' = (IF v6 = p THEN B!Nobody ELSE v6)
      /\ v7' = [s \in Name |-> IF v7[s] = p THEN B!Nobody ELSE v7[s]]
  BY DEF SidebarInv, SidebarTypes, B!Ends, B!Idle
<1>2. v8' = [q \in Process |-> [pc |-> v8'[q].pc, session |-> v8'[q].session, id |-> v8'[q].id]]
  BY <1>1 DEF SidebarInv, SidebarTypes
<1>3. v7' \in [Name -> Process \cup {B!Nobody}]
  BY <1>1 DEF SidebarInv, SidebarTypes
<1>4. SidebarLocks'
  BY <1>1, SidebarWhere DEF SidebarInv, SidebarTypes, SidebarLocks, B!NobodyAssumption
<1>5. QED
  BY <1>1, <1>2, <1>3, <1>4

LEMMA FreshNumber ==
  ASSUME NEW n, NEW m, m \in Nat, n = m + 1
  PROVE  n \in Nat /\ \A i \in 1..m \cup {n} : i \in 1..n
  OBVIOUS

LEMMA SidebarCreates ==
  ASSUME SidebarInv, B!NobodyAssumption, NEW p \in Process, B!Creates(p)
  PROVE  SidebarInv'
<1>1. PICK s, n : s = v8[p].session /\ n = v11'
  OBVIOUS
<1>2. /\ v8[p].pc = "create" /\ UNCHANGED <<v3, v5, v6, v7, v9>> /\ n = v11 + 1 /\ v11 \in Nat
      /\ v4' = B!With(v4, n, [session |-> s, label |-> "intent"])
  BY <1>1 DEF B!Creates, B!At, B!My, B!locks, SidebarInv, SidebarTypes
<1>3. /\ v8[p].pc \in Attaching /\ s \in Name /\ v3[s].phase = "creating"
      /\ s \notin v9 => \A i \in DOMAIN v4 : v4[i].session # s
  BY <1>1, <1>2, SidebarWhere DEF SidebarInv, SidebarLocks, SidebarPhases
<1>4. n \notin DOMAIN v4
  BY <1>2 DEF SidebarInv, SidebarTypes
<1>5. /\ DOMAIN v4' = DOMAIN v4 \cup {n} /\ v4'[n] = [session |-> s, label |-> "intent"]
      /\ v4'[n].session = s /\ v4'[n].label = "intent"
      /\ \A i \in DOMAIN v4 : v4'[i] = v4[i]
  BY <1>2, <1>4 DEF B!With
<1>6. v4' = [i \in DOMAIN v4' |-> [session |-> v4'[i].session, label |-> v4'[i].label]]
  <2>1. v4' = [i \in DOMAIN v4' |-> v4'[i]]
    BY <1>2 DEF B!With
  <2>2. \A i \in DOMAIN v4 : v4[i] = [session |-> v4[i].session, label |-> v4[i].label]
    BY DEF SidebarInv, SidebarTypes
  <2>3. \A i \in DOMAIN v4' : v4'[i] = [session |-> v4'[i].session, label |-> v4'[i].label]
    BY <1>5, <2>2
  <2>4. QED
    BY <2>1, <2>3
<1>7. PICK pc \in Making \ {"create", "rename"}, id \in {n, v8[p].id} :
        /\ v8' = [v8 EXCEPT ![p] = [pc |-> pc, session |-> s, id |-> id]]
        /\ pc = "prove" => id = n
  <2>1. \/ B!Found(p, n, "prove") \/ B!Goto(p, "recover once")
    BY <1>1 DEF B!Creates
  <2>2. \/ v8' = [v8 EXCEPT ![p] = [pc |-> "prove", session |-> s, id |-> n]]
        \/ v8' = [v8 EXCEPT ![p] = [pc |-> "recover once", session |-> s, id |-> v8[p].id]]
    <3>1. CASE B!Found(p, n, "prove")
      <4>1. v8' = [v8 EXCEPT ![p] = [pc |-> "prove", session |-> v8[p].session, id |-> n]]
        BY <3>1, SidebarGoto
      <4>2. QED
        BY <1>1, <4>1
    <3>2. CASE B!Goto(p, "recover once")
      <4>1. v8' = [v8 EXCEPT ![p] = [pc |-> "recover once", session |-> v8[p].session,
                                     id |-> v8[p].id]]
        BY <3>2, SidebarGoto
      <4>2. QED
        BY <1>1, <4>1
    <3>3. QED
      BY <2>1, <3>1, <3>2
  <2>3. {"prove", "recover once"} \subseteq Making \ {"create", "rename"}
    BY DEF Making
  <2>4. "recover once" # "prove"
    OBVIOUS
  <2>5. QED
    BY Zenon, <2>2, <2>3, <2>4
<1>8. pc \in Attaching /\ pc \notin Looking /\ pc # "create" /\ pc # "rename"
  BY SidebarWhere
<1>9. /\ SidebarLocks'
      /\ v8' = [q \in Process |-> [pc |-> v8'[q].pc, session |-> v8'[q].session, id |-> v8'[q].id]]
      /\ \A q \in Process : q # p => v8'[q] = v8[q]
      /\ v8'[p].pc = pc /\ v8'[p].session = s /\ v8'[p].id = id
  BY <1>1, <1>2, <1>3, <1>7, <1>8, SidebarHolds
<1>10. SidebarTypes'
  <2>1. v11' \in Nat /\ DOMAIN v4' \subseteq 1..v11' /\ \A i \in DOMAIN v4' : v4'[i].session \in Name
    <3>1. n \in Nat /\ n = v11' /\ \A i \in 1..v11 \cup {n} : i \in 1..n
      <4>1. n = v11' /\ n = v11 + 1 /\ v11 \in Nat
        BY <1>1, <1>2
      <4>2. QED
        BY <4>1, FreshNumber
    <3>2. \A i \in DOMAIN v4 : v4[i].session \in Name
      BY DEF SidebarInv, SidebarTypes
    <3>3. DOMAIN v4 \subseteq 1..v11
      BY DEF SidebarInv, SidebarTypes
    <3>4. QED
      BY <1>3, <1>5, <3>1, <3>2, <3>3
  <2>2. \A q \in Process : v8'[q].pc \in {"idle"} \cup Attaching \cup Downing
    BY <1>8, <1>9 DEF SidebarInv, SidebarTypes
  <2>3. QED
    BY <1>2, <1>6, <1>9, <2>1, <2>2 DEF SidebarInv, SidebarTypes
<1>11. ASSUME NEW i \in DOMAIN v4', v4'[i].session = s
       PROVE  /\ v4'[i].label = "intent" \/ s \in v9
              /\ s \notin v9 => \A j \in DOMAIN v4' : v4'[j].session = s => j = i
  BY <1>3, <1>5, <1>11
<1>12. /\ \A i \in DOMAIN v4 : v4[i].session # s => i \in DOMAIN v4' /\ v4'[i] = v4[i]
       /\ \A i \in DOMAIN v4' : v4'[i].session # s => i \in DOMAIN v4 /\ v4'[i] = v4[i]
       /\ \A i \in DOMAIN v4 : v4[i].session = s => i \in DOMAIN v4' /\ v4'[i].session = s
       /\ v8'[p].pc \in {"prove", "rename"} => v8'[p].id \in DOMAIN v4' /\ v4'[v8'[p].id].session = s
  BY <1>5, <1>7, <1>8, <1>9
<1>13. v3'[s].phase = "creating" /\ \A t \in Name : t # s => v3'[t] = v3[t]
  BY <1>2, <1>3
<1>14. /\ v8'[p].pc \in Attaching /\ v8'[p].pc \notin Looking /\ v8'[p].pc # "create"
       /\ v8'[p].session = s /\ UNCHANGED v9 /\ s = v8[p].session /\ v8[p].pc \in Attaching
  BY <1>1, <1>2, <1>3, <1>8, <1>9
<1>15. \A i \in DOMAIN v4' : v4'[i].session = s =>
         /\ v3'[s].phase # "none"
         /\ \/ v4'[i].label = "intent" \/ s \in v9 \/ v3'[s].phase = "active"
            \/ v8'[p].pc = "mark" /\ v8'[p].session = s
         /\ s \notin v9 => \A j \in DOMAIN v4' : v4'[j].session = s => j = i
  BY <1>11, <1>13
<1>16. QED
  <2>1. /\ v8'[p].pc \in {"idle"} \cup Attaching /\ (v8'[p].pc \in Attaching => v8'[p].session = s)
        /\ v8'[p].pc \in Looking => v3'[s].phase = "none"
        /\ v8'[p].pc \in Making => v3'[s].phase = "creating"
        /\ v8'[p].pc = "create" /\ s \notin v9 => \A i \in DOMAIN v4' : v4'[i].session # s
        /\ s = v8[p].session /\ v8[p].pc \in Attaching /\ UNCHANGED v9
    BY <1>13, <1>14
  <2>2. QED
    BY <1>9, <1>10, <1>12, <1>13, <1>15, <2>1, SidebarStep

LEMMA SidebarRenames ==
  ASSUME SidebarInv, B!NobodyAssumption, NEW p \in Process, B!Renames(p)
  PROVE  SidebarInv'
<1>1. PICK s, id : s = v8[p].session /\ id = v8[p].id
  OBVIOUS
<1>2. v8[p].pc = "rename" /\ UNCHANGED <<v3, v9, v11>>
  BY DEF B!Renames, B!At, B!counts
<1>3. /\ v8[p].pc \in Attaching /\ s \in Name /\ v3[s].phase = "creating"
      /\ id \in DOMAIN v4 /\ v4[id].session = s
  BY <1>1, <1>2, SidebarWhere DEF SidebarInv, SidebarLocks, SidebarPhases
<1>4. /\ v4' = [v4 EXCEPT ![id].label = "session"] /\ UNCHANGED <<v5, v6, v7>>
      /\ v8' = [v8 EXCEPT ![p] = [pc |-> "mark", session |-> s, id |-> id]]
  BY <1>1, <1>3, SidebarGoto DEF B!Renames, B!locks
<1>5. /\ DOMAIN v4' = DOMAIN v4 /\ \A i \in DOMAIN v4 : i # id => v4'[i] = v4[i]
      /\ v4'[id] = [session |-> s, label |-> "session"]
      /\ v4' = [i \in DOMAIN v4 |-> [session |-> v4'[i].session, label |-> v4'[i].label]]
  <2>1. \A i \in DOMAIN v4 : v4[i] = [session |-> v4[i].session, label |-> v4[i].label]
    BY DEF SidebarInv, SidebarTypes
  <2>2. PICK space : space = [v4[id] EXCEPT !.label = "session"]
    OBVIOUS
  <2>3. space = [session |-> s, label |-> "session"]
    BY <1>3, <2>1, <2>2
  <2>4. v4' = [v4 EXCEPT ![id] = space]
    BY <1>4, <2>2
  <2>5. v4' = [i \in DOMAIN v4 |-> IF i = id THEN space ELSE v4[i]]
    BY <2>4 DEF SidebarInv, SidebarTypes
  <2>6. QED
    BY <1>3, <2>1, <2>3, <2>5
<1>6. "mark" \in Attaching /\ "mark" \notin Looking
  BY SidebarWhere
<1>7. /\ SidebarLocks'
      /\ v8' = [q \in Process |-> [pc |-> v8'[q].pc, session |-> v8'[q].session, id |-> v8'[q].id]]
      /\ \A q \in Process : q # p => v8'[q] = v8[q]
      /\ v8'[p].pc = "mark" /\ v8'[p].session = s /\ v8'[p].id = id
  BY <1>1, <1>3, <1>4, <1>6, SidebarHolds
<1>8. \A i \in DOMAIN v4 : v4'[i].session = v4[i].session
  BY <1>3, <1>5
<1>9. SidebarTypes'
  <2>1. v4' = [i \in DOMAIN v4' |-> [session |-> v4'[i].session, label |-> v4'[i].label]]
    BY <1>5
  <2>2. \A q \in Process : v8'[q].pc \in {"idle"} \cup Attaching \cup Downing
    BY <1>6, <1>7 DEF SidebarInv, SidebarTypes
  <2>3. QED
    BY <1>2, <1>4, <1>5, <1>7, <1>8, <2>1, <2>2 DEF SidebarInv, SidebarTypes
<1>10. /\ \A i \in DOMAIN v4 : v4[i].session # s => i \in DOMAIN v4' /\ v4'[i] = v4[i]
       /\ \A i \in DOMAIN v4' : v4'[i].session # s => i \in DOMAIN v4 /\ v4'[i] = v4[i]
       /\ \A i \in DOMAIN v4 : v4[i].session = s => i \in DOMAIN v4' /\ v4'[i].session = s
  BY <1>3, <1>5, <1>8
<1>11. ASSUME NEW i \in DOMAIN v4', v4'[i].session = s
       PROVE  s \notin v9 => \A j \in DOMAIN v4' : v4'[j].session = s => j = i
  BY <1>5, <1>8, <1>11 DEF SidebarInv, SidebarSpaces
<1>12. v3'[s].phase = "creating" /\ \A t \in Name : t # s => v3'[t] = v3[t]
  BY <1>2, <1>3
<1>13. QED
  BY <1>1, <1>2, <1>3, <1>6, <1>7, <1>9, <1>10, <1>11, <1>12, SidebarStep

LEMMA SidebarMarks ==
  ASSUME SidebarInv, B!NobodyAssumption, NEW p \in Process, B!Marks(p)
  PROVE  SidebarInv'
<1>1. PICK s : s = v8[p].session
  OBVIOUS
<1>2. v8[p].pc = "mark" /\ UNCHANGED <<v4, v9, v11>> /\ B!Ends(p)
  BY DEF B!Marks, B!At, B!counts
<1>3. v8[p].pc \in Attaching /\ s \in Name
  BY <1>1, <1>2, SidebarWhere DEF SidebarInv, SidebarLocks
<1>4. /\ v3' = [t \in Name |-> [phase |-> v3'[t].phase, machine |-> v3'[t].machine, handle |-> v3'[t].handle]]
      /\ \A t \in Name : t # s => v3'[t] = v3[t]
      /\ v3'[s].phase = "active"
  <2>1. \A t \in Name : v3[t] = [phase |-> v3[t].phase, machine |-> v3[t].machine, handle |-> v3[t].handle]
    BY DEF SidebarInv, SidebarTypes
  <2>2. PICK old, m, h, mine : /\ old = v3[s] /\ m = v3[s].machine /\ h = v3[s].handle
                               /\ mine = [v3[s] EXCEPT !.phase = "active"]
    OBVIOUS
  <2>3. mine = [phase |-> "active", machine |-> m, handle |-> h]
    <3>1. old = [phase |-> old.phase, machine |-> m, handle |-> h] /\ mine = [old EXCEPT !.phase = "active"]
      BY <1>3, <2>1, <2>2
    <3>2. QED
      BY <3>1
  <2>4. v3' = [v3 EXCEPT ![s] = mine]
    BY <1>1, <2>2 DEF B!Marks, B!My
  <2>5. v3' = [t \in Name |-> IF t = s THEN mine ELSE v3[t]]
    BY <2>4 DEF SidebarInv, SidebarTypes
  <2>6. QED
    BY <1>3, <2>1, <2>3, <2>5
<1>5. /\ SidebarLocks' /\ v7' \in [Name -> Process \cup {B!Nobody}]
      /\ v8' = [q \in Process |-> [pc |-> v8'[q].pc, session |-> v8'[q].session, id |-> v8'[q].id]]
      /\ \A q \in Process : q # p => v8'[q] = v8[q]
      /\ v8'[p].pc = "idle"
  BY <1>2, SidebarReleases
<1>6. SidebarTypes'
  BY <1>2, <1>4, <1>5 DEF SidebarInv, SidebarTypes
<1>7. ASSUME NEW i \in DOMAIN v4', v4'[i].session = s
      PROVE  s \notin v9 => \A j \in DOMAIN v4' : v4'[j].session = s => j = i
  BY <1>2, <1>7 DEF SidebarInv, SidebarSpaces
<1>8. /\ "idle" \notin Looking \cup Making \cup Attaching
      /\ \A t \in Name : t # s => v3'[t] = v3[t]
      /\ \A i \in DOMAIN v4 : i \in DOMAIN v4' /\ v4'[i] = v4[i]
      /\ \A i \in DOMAIN v4' : i \in DOMAIN v4
  BY <1>2, <1>4, SidebarWhere
<1>9. QED
  BY <1>1, <1>2, <1>3, <1>4, <1>5, <1>6, <1>7, <1>8, SidebarStep

\* A down: the instance to itself, then no workspace, then no record of one.
LEMMA SidebarDown ==
  ASSUME SidebarInv, B!NobodyAssumption, NEW p \in Process,
         B!Locks(p) \/ B!Forgets(p) \/ B!Deletes(p)
  PROVE  SidebarInv'
<1>a. \A x \in Downing : x # "idle" /\ x \notin Attaching
  BY SidebarWhere
<1>b. {"forget", "delete"} \subseteq Downing /\ "forget" \notin Looking \cup Making /\ "delete" \notin Looking \cup Making
      /\ "idle" \notin Looking \cup Making \cup Attaching \cup Downing
  BY SidebarWhere
\* While one process downs, the others are idle.
<1>c. ASSUME v8[p].pc \in Downing, NEW q \in Process, q # p PROVE v8[q].pc = "idle"
  BY <1>a, <1>c, SidebarAlone
<1>1. CASE B!Locks(p)
  <2>1. /\ v8[p].pc = "idle" /\ v6 = B!Nobody /\ v5 = {} /\ v6' = p
        /\ UNCHANGED <<v3, v4, v5, v7, v9, v11>>
        /\ v8' = [v8 EXCEPT ![p] = [pc |-> "forget", session |-> v8[p].session, id |-> v8[p].id]]
    BY <1>1, SidebarGoto DEF B!Locks, B!At, B!counts
  <2>2. /\ v8' = [q \in Process |-> IF q = p THEN [pc |-> "forget", session |-> v8[p].session,
                                                    id |-> v8[p].id] ELSE v8[q]]
        /\ v8'[p].pc = "forget" /\ \A q \in Process : q # p => v8'[q] = v8[q]
    BY <2>1 DEF SidebarInv, SidebarTypes
  <2>3. \A q \in Process : v8[q].pc = "idle"
    <3>1. \A q \in Process : v8[q].pc \notin Attaching /\ v8[q].pc \notin Downing
      BY <2>1 DEF SidebarInv, SidebarLocks, B!NobodyAssumption
    <3>2. QED
      BY <3>1 DEF SidebarInv, SidebarTypes
  <2>4. SidebarTypes'
    <3>1. v8' = [q \in Process |-> [pc |-> v8'[q].pc, session |-> v8'[q].session, id |-> v8'[q].id]]
      BY <2>2 DEF SidebarInv, SidebarTypes
    <3>2. QED
      BY <1>b, <2>1, <2>2, <3>1 DEF SidebarInv, SidebarTypes
  <2>5. SidebarLocks'
    BY <1>a, <1>b, <2>1, <2>2, <2>3 DEF SidebarLocks
  <2>6. SidebarPhases'
    <3>1. \A q \in Process : v8'[q].pc \in {"idle", "forget"}
      BY <2>2, <2>3
    <3>2. \A q \in Process : /\ v8'[q].pc \notin Looking /\ v8'[q].pc \notin Making
                             /\ v8'[q].pc \notin {"create", "prove", "rename", "delete"}
      BY <1>b, <3>1
    <3>3. QED
      BY <3>2 DEF SidebarPhases
  <2>7. SidebarSpaces'
    <3>1. \A q \in Process : v8[q].pc # "mark"
      BY <2>3
    <3>2. QED
      BY <2>1, <3>1 DEF SidebarInv, SidebarSpaces
  <2>8. QED
    BY <2>4, <2>5, <2>6, <2>7 DEF SidebarInv
<1>2. CASE B!Forgets(p)
  <2>1. /\ v8[p].pc = "forget" /\ v4' = [i \in {} |-> 0] /\ DOMAIN v4' = {}
        /\ UNCHANGED <<v3, v5, v6, v7, v9, v11>>
        /\ v8' = [v8 EXCEPT ![p] = [pc |-> "delete", session |-> v8[p].session, id |-> v8[p].id]]
    BY <1>2, SidebarGoto DEF B!Forgets, B!At, B!locks
  <2>2. /\ v8' = [q \in Process |-> IF q = p THEN [pc |-> "delete", session |-> v8[p].session,
                                                    id |-> v8[p].id] ELSE v8[q]]
        /\ v8'[p].pc = "delete" /\ \A q \in Process : q # p => v8'[q] = v8[q]
    BY <2>1 DEF SidebarInv, SidebarTypes
  <2>3. \A q \in Process : q # p => v8'[q].pc = "idle"
    BY <1>b, <1>c, <2>1, <2>2
  <2>4. SidebarTypes'
    <3>1. v8' = [q \in Process |-> [pc |-> v8'[q].pc, session |-> v8'[q].session, id |-> v8'[q].id]]
      BY <2>2 DEF SidebarInv, SidebarTypes
    <3>2. v4' = [i \in DOMAIN v4' |-> [session |-> v4'[i].session, label |-> v4'[i].label]]
      BY <2>1
    <3>3. QED
      BY <1>b, <2>1, <2>2, <3>1, <3>2 DEF SidebarInv, SidebarTypes
  <2>5. SidebarLocks'
    <3>1. v6 = p /\ v5 = {}
      BY <1>b, <2>1 DEF SidebarInv, SidebarLocks, B!NobodyAssumption
    <3>2. QED
      BY <1>a, <1>b, <2>1, <2>2, <2>3, <3>1 DEF SidebarLocks
  <2>6. SidebarPhases'
    <3>1. \A q \in Process : v8'[q].pc \in {"idle", "delete"}
      BY <2>2, <2>3
    <3>2. \A q \in Process : /\ v8'[q].pc \notin Looking /\ v8'[q].pc \notin Making
                             /\ v8'[q].pc \notin {"create", "prove", "rename"}
      BY <1>b, <3>1
    <3>3. QED
      BY <2>1, <3>2 DEF SidebarPhases
  <2>7. SidebarSpaces'
    BY <2>1 DEF SidebarSpaces
  <2>8. QED
    BY <2>4, <2>5, <2>6, <2>7 DEF SidebarInv
<1>3. CASE B!Deletes(p)
  <2>1. /\ v8[p].pc = "delete" /\ UNCHANGED <<v4, v11>> /\ B!Ends(p)
        /\ v3' = [s \in Name |-> [phase |-> "none", machine |-> 0, handle |-> 0]]
    BY <1>3 DEF B!Deletes, B!At, B!counts, B!NoAttachment
  <2>2. DOMAIN v4 = {}
    BY <2>1 DEF SidebarInv, SidebarPhases
  <2>3. /\ SidebarLocks' /\ v7' \in [Name -> Process \cup {B!Nobody}]
        /\ v8' = [q \in Process |-> [pc |-> v8'[q].pc, session |-> v8'[q].session, id |-> v8'[q].id]]
        /\ \A q \in Process : q # p => v8'[q] = v8[q]
        /\ v8'[p].pc = "idle"
    BY <2>1, SidebarReleases
  <2>4. \A q \in Process : v8'[q].pc = "idle"
    BY <1>b, <1>c, <2>1, <2>3
  <2>5. SidebarTypes'
    <3>1. v3' = [s \in Name |-> [phase |-> v3'[s].phase, machine |-> v3'[s].machine, handle |-> v3'[s].handle]]
      BY <2>1
    <3>2. QED
      BY <2>1, <2>3, <2>4, <3>1 DEF SidebarInv, SidebarTypes
  <2>6. SidebarPhases'
    <3>1. \A q \in Process : /\ v8'[q].pc \notin Looking /\ v8'[q].pc \notin Making
                             /\ v8'[q].pc \notin {"create", "prove", "rename", "delete"}
      BY <1>b, <2>4
    <3>2. QED
      BY <3>1 DEF SidebarPhases
  <2>7. SidebarSpaces'
    BY <2>1, <2>2 DEF SidebarSpaces
  <2>8. QED
    BY <2>3, <2>5, <2>6, <2>7 DEF SidebarInv
<1>4. QED
  BY <1>1, <1>2, <1>3

LEMMA SidebarStays ==
  ASSUME SidebarInv, UNCHANGED <<v3, v4, v5, v6, v7, v8, v9, v11>>
  PROVE  SidebarInv'
<1>1. SidebarTypes'
  BY DEF SidebarInv, SidebarTypes
<1>2. SidebarLocks'
  BY DEF SidebarInv, SidebarLocks
<1>3. SidebarPhases'
  BY DEF SidebarInv, SidebarPhases
<1>4. SidebarSpaces'
  BY DEF SidebarInv, SidebarSpaces
<1>5. QED
  BY <1>1, <1>2, <1>3, <1>4 DEF SidebarInv

LEMMA SidebarNext ==
  ASSUME SidebarInv, B!NobodyAssumption, B!Next
  PROVE  SidebarInv'
<1>1. CASE B!Ups
  BY <1>1, SidebarStays DEF B!Ups, B!locks
<1>2. CASE B!UserEdits
  BY <1>2, SidebarStays DEF B!UserEdits, B!locks
<1>3. ASSUME NEW p \in Process, B!Stops(p) PROVE SidebarInv'
  BY <1>3, SidebarEnds DEF B!Stops, B!At, B!My
<1>4. QED
  BY <1>1, <1>2, <1>3, SidebarAttaches, SidebarWalks, SidebarFinds, SidebarOnRecord, SidebarCreates,
     SidebarRenames, SidebarMarks, SidebarDown DEF B!Next

LEMMA CardinalityThere == \A set : B!Cardinality(set) = Cardinality(set)
  BY DEF B!Cardinality, Cardinality

LEMMA SidebarOne == ASSUME SidebarInv PROVE B!OneWorkspace
<1>1. ASSUME NEW s \in Name \ v9
      PROVE  Cardinality({i \in DOMAIN v4 : v4[i].session = s}) <= 1
  <2> DEFINE W == {i \in DOMAIN v4 : v4[i].session = s}
  <2>1. CASE W = {}
    BY <2>1, FS_EmptySet
  <2>2. CASE W # {}
    <3>1. PICK i \in W : TRUE
      BY <2>2
    <3>2. W = {i}
      BY <3>1 DEF SidebarInv, SidebarSpaces
    <3>3. QED
      BY <3>2, FS_Singleton
  <2>3. QED
    BY <2>1, <2>2
<1>2. ASSUME NEW s \in Name \ v9
      PROVE  B!Cardinality({i \in DOMAIN v4 : v4[i].session = s}) <= 1
  BY Zenon, <1>1, CardinalityThere
<1>3. QED
  BY Zenon, <1>2 DEF B!OneWorkspace

\* A session of an instance has one workspace on it, however many attaches were begun,
\* lost their answers or died, and whatever the user did to the catalog of machines.
THEOREM WorkspacesAreSingle == SessionsSpec => []OneWorkspace
<1> DEFINE I == part = "sidebar" => SidebarInv
<1>a. B!NobodyAssumption
  BY PartsAssumption DEF PartsAssumption
<1>1. PartInit => I
  BY SidebarInit DEF PartInit
<1>2. I /\ [/\ \/ IssuesMove \/ Parts
            /\ UNCHANGED part]_all => I'
  <2> SUFFICES ASSUME I, part = "sidebar", [(IssuesMove \/ Parts) /\ UNCHANGED part]_all
               PROVE  SidebarInv'
    BY DEF all
  <2>1. CASE UNCHANGED all
    <3>1. UNCHANGED <<v3, v4, v5, v6, v7, v8, v9, v11>>
      BY <2>1 DEF all, rest5, rest6, rest7, rest8
    <3>2. QED
      BY <3>1, SidebarStays
  <2>2. CASE IssuesMove \/ Parts
    <3>1. B!Next
      BY <2>2 DEF Parts, IssuesMove, SeedingMoves, AgentMoves, LayoutMoves, AccessMoves,
         SetupMoves, ServingMoves, SidebarMoves
    <3>2. QED
      BY <1>a, <3>1, SidebarNext
  <2>3. QED
    BY <2>1, <2>2
<1>3. I => OneWorkspace
  BY SidebarOne DEF OneWorkspace
<1>4. QED
  BY <1>1, <1>2, <1>3, PTL DEF SessionsSpec, Parts

-------------------------------------------------------------------------------
(* IssueGate: the last check before a repository goes. All commands but a pull *)
(* exclude each other, and once the panes are closed the agent adds nothing:   *)
(* what a final check has seen is the whole log, and what is pushed and        *)
(* fetched after it holds at least that.                                       *)

OwnRecord(p) ==
  cmd[p] = [pc |-> cmd[p].pc, op |-> cmd[p].op, pin |-> cmd[p].pin, seen |-> cmd[p].seen,
            final |-> cmd[p].final, gated |-> cmd[p].gated, accept |-> cmd[p].accept,
            took |-> cmd[p].took, pulls |-> cmd[p].pulls]

\* What the gate has to have found before its repository goes.
Covered(p) ==
  \/ cmd[p].seen <= has
  \/ /\ cmd[p].final /\ cmd[p].op = "merge"
     /\ cmd[p].took \/ (start # NoStart /\ Changes(start, cmd[p].seen) = {})

IssueAt(p) ==
  /\ OwnRecord(p)
  /\ cmd[p].seen \in Nat /\ cmd[p].seen <= Len(log)
  /\ cmd[p].pc # "idle" /\ cmd[p].op # "pull" => lock = {p}
  /\ cmd[p].pc \in {"forget", "register", "seed", "init", "record"} => cmd[p].op = "start"
  /\ cmd[p].pc = "close" => cmd[p].op # "pull"
  /\ cmd[p].final => /\ cmd[p].pc # "idle" /\ cmd[p].op # "pull" /\ ~panes
                     /\ cmd[p].pc # "check" => cmd[p].seen = Len(log)
  /\ cmd[p].pc = "fetch" => cmd[p].seen <= pushed
  /\ cmd[p].pc = "verify" =>
       /\ cmd[p].op = "merge" /\ start # NoStart
       /\ cmd[p].seen <= has \/ ~cmd[p].final \/ (~cmd[p].pulls /\ cmd[p].pin = cmd[p].seen)
  /\ cmd[p].pc = "remove" /\ (cmd[p].gated \/ HasRecord(p)) => Covered(p)

IssueCounts ==
  /\ \E T : log \in Seq(T)
  /\ has \in Nat /\ pushed \in Nat /\ has <= pushed /\ pushed <= Len(log)

IssueInv ==
  /\ IssueCounts /\ cmd = [p \in Process |-> cmd[p]]
  /\ \A p \in Process : IssueAt(p)

LEMMA IssueInit == Init => IssueInv
<1> SUFFICES ASSUME Init PROVE IssueInv
  OBVIOUS
<1>1. log = <<>> /\ has = 0 /\ pushed = 0 /\ cmd = [p \in Process |-> Idle]
  BY DEF Init
<1>2. log \in Seq({}) /\ Len(log) = 0
  BY <1>1, EmptySeq
<1>3. IssueCounts
  BY <1>1, <1>2 DEF IssueCounts
<1>4. ASSUME NEW p \in Process PROVE IssueAt(p)
  <2>1. cmd[p] = [pc |-> "idle", op |-> "none", pin |-> 0, seen |-> 0, final |-> FALSE,
                  gated |-> FALSE, accept |-> FALSE, took |-> FALSE, pulls |-> TRUE]
    BY <1>1 DEF Idle
  <2>2. OwnRecord(p)
    BY <2>1 DEF OwnRecord
  <2>3. QED
    BY <1>2, <2>1, <2>2 DEF IssueAt
<1>5. cmd = [p \in Process |-> cmd[p]]
  BY <1>1
<1>6. QED
  BY <1>3, <1>4, <1>5 DEF IssueInv

LEMMA LogGrows ==
  ASSUME NEW T, NEW s \in Seq(T), NEW e, NEW f, f = Append(s, e)
  PROVE  (\E V : f \in Seq(V)) /\ Len(f) = Len(s) + 1
<1> DEFINE Both == T \cup {e}
<1>1. s \in Seq(Both)
  <2>1. s = [i \in 1..Len(s) |-> s[i]] /\ Len(s) \in Nat
    OBVIOUS
  <2>2. \A i \in 1..Len(s) : s[i] \in Both
    OBVIOUS
  <2>3. [i \in 1..Len(s) |-> s[i]] \in Seq(Both)
    BY <2>1, <2>2, IsASeq
  <2>4. QED
    BY <2>1, <2>3
<1>2. e \in Both
  OBVIOUS
<1> HIDE DEF Both
<1>3. f \in Seq(Both) /\ Len(f) = Len(s) + 1
  BY <1>1, <1>2, AppendProperties
<1>4. QED
  BY <1>3

\* Whoever does not move keeps what holds of him, unless the command that holds the
\* session is not his.
LEMMA IssueOthers ==
  ASSUME NEW q \in Process, IssueAt(q), cmd'[q] = cmd[q], IssueCounts, IssueCounts',
         Len(log) <= Len(log'), pushed <= pushed', has <= has',
         cmd[q].pc # "idle" /\ cmd[q].op # "pull" =>
           /\ lock' = {q} /\ start' = start /\ base' = base
           /\ ~panes => ~panes' /\ log' = log
  PROVE  IssueAt(q)'
<1>1. PICK c : c = cmd[q] /\ c = cmd'[q]
  OBVIOUS
<1>2. Len(log) \in Nat /\ Len(log') \in Nat /\ has \in Nat /\ has' \in Nat /\ pushed \in Nat /\ pushed' \in Nat
  BY DEF IssueCounts
<1>3. OwnRecord(q)'
  BY <1>1 DEF IssueAt, OwnRecord
<1>4. c.seen \in Nat /\ c.seen <= Len(log')
  BY <1>1, <1>2 DEF IssueAt
<1>5. c.pc = "remove" /\ (c.gated \/ (c.op = "merge" /\ start' # NoStart)) => Covered(q)'
  <2> SUFFICES ASSUME c.pc = "remove", c.gated \/ (c.op = "merge" /\ start' # NoStart)
               PROVE  Covered(q)'
    OBVIOUS
  <2>1. Covered(q)
    BY <1>1 DEF IssueAt, HasRecord
  <2>2. CASE c.seen <= has
    BY <1>1, <1>2, <1>4, <2>2 DEF Covered
  <2>3. CASE c.final /\ c.op = "merge" /\ (c.took \/ (start # NoStart /\ Changes(start, c.seen) = {}))
    <3>1. start' = start /\ base' = base /\ log' = log
      BY <1>1, <2>3 DEF IssueAt
    <3>2. PICK n : n = c.seen
      OBVIOUS
    <3>3. Changes(start, n)' = Changes(start, n)
      BY <3>1 DEF Changes, Exists, Edited, Last
    <3>4. QED
      BY <1>1, <2>3, <3>1, <3>2, <3>3 DEF Covered
  <2>4. QED
    BY <1>1, <2>1, <2>2, <2>3 DEF Covered
<1>6. QED
  BY <1>1, <1>2, <1>3, <1>4, <1>5 DEF IssueAt, HasRecord

LEMMA IssueMoves ==
  ASSUME IssueInv, NEW p \in Process, NEW e, cmd' = [cmd EXCEPT ![p] = e],
         cmd'[p] = e => IssueAt(p)',
         IssueCounts', log' = log, pushed <= pushed', has <= has',
         \/ cmd[p].pc # "idle" /\ cmd[p].op # "pull"
         \/ lock = {}
         \/ start' = start /\ base' = base /\ (~panes => ~panes') /\ lock' \in {lock, lock \ {p}}
  PROVE  IssueInv'
<1>1. /\ cmd' = [q \in Process |-> cmd'[q]] /\ cmd'[p] = e
      /\ \A q \in Process : q # p => cmd'[q] = cmd[q]
  BY DEF IssueInv
<1>2. Len(log) <= Len(log') /\ IssueCounts
  BY DEF IssueInv, IssueCounts
<1>3. ASSUME NEW q \in Process PROVE IssueAt(q)'
  <2>1. CASE q = p
    BY <1>1, <2>1
  <2>2. CASE q # p
    <3>1. IssueAt(q) /\ IssueAt(p) /\ cmd'[q] = cmd[q]
      BY <1>1, <2>2 DEF IssueInv
    <3>2. ASSUME cmd[q].pc # "idle", cmd[q].op # "pull"
          PROVE  /\ lock' = {q} /\ start' = start /\ base' = base
                 /\ ~panes => ~panes' /\ log' = log
      <4>1. lock = {q}
        BY <3>1, <3>2 DEF IssueAt
      <4>2. ~(cmd[p].pc # "idle" /\ cmd[p].op # "pull")
        BY <2>2, <3>1, <4>1 DEF IssueAt
      <4>3. QED
        BY <2>2, <4>1, <4>2
    <3>3. QED
      BY <1>2, <3>1, <3>2, IssueOthers
  <2>3. QED
    BY <2>1, <2>2
<1>4. QED
  BY <1>1, <1>3 DEF IssueInv

LEMMA IssueEnds ==
  ASSUME IssueInv, NEW p \in Process, cmd[p].pc # "idle", Ends(p), UNCHANGED <<log, base, pushed, has>>,
         ~panes => ~panes', cmd[p].op # "pull" \/ start' = start
  PROVE  IssueInv'
<1>1. IssueCounts' /\ pushed <= pushed' /\ has <= has'
  BY DEF IssueInv, IssueCounts
<1>2. cmd' = [cmd EXCEPT ![p] = Idle] /\ lock' = lock \ {p}
  BY DEF Ends
<1>3. ASSUME cmd'[p] = Idle PROVE IssueAt(p)'
  <2>1. PICK c : c = cmd'[p]
    OBVIOUS
  <2>2. c = [pc |-> "idle", op |-> "none", pin |-> 0, seen |-> 0, final |-> FALSE,
             gated |-> FALSE, accept |-> FALSE, took |-> FALSE, pulls |-> TRUE]
    BY <1>3, <2>1 DEF Idle
  <2>3. OwnRecord(p)'
    BY <2>1, <2>2 DEF OwnRecord
  <2>4. 0 \in Nat /\ 0 <= Len(log')
    BY <1>1 DEF IssueCounts
  <2>5. QED
    BY <2>1, <2>2, <2>3, <2>4 DEF IssueAt
<1>4. QED
  BY <1>1, <1>2, <1>3, IssueMoves

LEMMA IssueRecord ==
  ASSUME IssueInv, NEW p \in Process, NEW x, NEW e, e = [cmd[p] EXCEPT !.pc = x]
  PROVE  e = [pc |-> x, op |-> cmd[p].op, pin |-> cmd[p].pin, seen |-> cmd[p].seen,
              final |-> cmd[p].final, gated |-> cmd[p].gated, accept |-> cmd[p].accept,
              took |-> cmd[p].took, pulls |-> cmd[p].pulls]
<1>1. PICK c : c = cmd[p]
  OBVIOUS
<1>2. /\ c = [pc |-> c.pc, op |-> c.op, pin |-> c.pin, seen |-> c.seen,
              final |-> c.final, gated |-> c.gated, accept |-> c.accept,
              took |-> c.took, pulls |-> c.pulls]
      /\ e = [c EXCEPT !.pc = x]
  BY <1>1 DEF IssueInv, IssueAt, OwnRecord
<1>3. QED
  BY <1>1, <1>2

\* A step from one place of a command to the next.
LEMMA IssueGoto ==
  ASSUME IssueInv, NEW p \in Process, NEW x, cmd[p].pc # "idle", x # "idle", Goto(p, x),
         IssueCounts', log' = log, pushed <= pushed', has <= has',
         \/ cmd[p].op # "pull"
         \/ start' = start /\ base' = base /\ (~panes => ~panes'),
         x \in {"forget", "register", "seed", "init", "record"} => cmd[p].op = "start",
         x = "close" => cmd[p].op # "pull",
         cmd[p].final => ~panes' /\ (x # "check" => cmd[p].seen = Len(log)),
         x = "fetch" => cmd[p].seen <= pushed',
         x = "verify" => /\ cmd[p].op = "merge" /\ start' # NoStart
                         /\ cmd[p].seen <= has' \/ ~cmd[p].final,
         x = "remove" => cmd[p].seen <= has'
  PROVE  IssueInv'
<1>1. PICK c, e : c = cmd[p] /\ e = [cmd[p] EXCEPT !.pc = x]
  OBVIOUS
<1>2. /\ e = [pc |-> x, op |-> c.op, pin |-> c.pin, seen |-> c.seen, final |-> c.final,
              gated |-> c.gated, accept |-> c.accept, took |-> c.took, pulls |-> c.pulls]
      /\ cmd' = [cmd EXCEPT ![p] = e] /\ lock' = lock
  BY <1>1, IssueRecord DEF Goto
<1>3. ASSUME cmd'[p] = e PROVE IssueAt(p)'
  <2>1. /\ e.pc = x /\ e.op = c.op /\ e.seen = c.seen /\ e.final = c.final /\ e.pin = c.pin
        /\ e.pulls = c.pulls
    BY <1>2
  <2>2. OwnRecord(p)'
    BY <1>2, <1>3 DEF OwnRecord
  <2>3. /\ c.seen \in Nat /\ c.seen <= Len(log') /\ (c.op # "pull" => lock' = {p})
        /\ c.final => c.op # "pull"
    BY <1>1, <1>2 DEF IssueInv, IssueAt
  <2>4. x = "remove" => Covered(p)'
    BY <1>1, <1>3, <2>1 DEF Covered
  <2>5. QED
    BY <1>1, <1>3, <2>1, <2>2, <2>3, <2>4 DEF IssueAt
<1>4. QED
  BY <1>1, <1>2, <1>3, IssueMoves

LEMMA IssueBegins ==
  ASSUME IssueInv, NEW p \in Process, NEW op \in Ops, Begins(p, op)
  PROVE  IssueInv'
<1> DEFINE first == IF op = "start" THEN "forget" ELSE "check"
<1>1. PICK accept \in {FALSE, op = "merge"} :
        cmd' = [cmd EXCEPT ![p] = [Idle EXCEPT !.op = op, !.accept = accept, !.pc = first]]
  BY Zenon DEF Begins
<1>2. /\ first \in {"forget", "check"} /\ (first = "forget" => op = "start")
      /\ first \notin {"idle", "register", "seed", "init", "record", "close", "fetch", "verify", "remove"}
  OBVIOUS
<1> HIDE DEF first
<1>3. PICK x, idle, e : /\ x = first /\ idle = Idle
                        /\ e = [Idle EXCEPT !.op = op, !.accept = accept, !.pc = first]
  OBVIOUS
<1>4. e = [pc |-> x, op |-> op, pin |-> 0, seen |-> 0, final |-> FALSE, gated |-> FALSE,
           accept |-> accept, took |-> FALSE, pulls |-> TRUE]
  <2>1. /\ idle = [pc |-> "idle", op |-> "none", pin |-> 0, seen |-> 0, final |-> FALSE, gated |-> FALSE,
                   accept |-> FALSE, took |-> FALSE, pulls |-> TRUE]
        /\ e = [idle EXCEPT !.op = op, !.accept = accept, !.pc = x]
    BY <1>3 DEF Idle
  <2>2. QED
    BY <2>1
<1>5. /\ UNCHANGED <<log, base, pushed, has, start, panes>>
      /\ op # "pull" => lock = {} /\ lock' = {p}
      /\ op = "pull" => lock' = lock
  BY DEF Begins, instance, machine
<1>6. IssueCounts' /\ pushed <= pushed' /\ has <= has'
  BY <1>5 DEF IssueInv, IssueCounts
<1>7. ASSUME cmd'[p] = e PROVE IssueAt(p)'
  <2>1. OwnRecord(p)'
    BY <1>4, <1>7 DEF OwnRecord
  <2>2. 0 \in Nat /\ 0 <= Len(log')
    BY <1>6 DEF IssueCounts
  <2>3. QED
    BY <1>2, <1>3, <1>4, <1>5, <1>7, <2>1, <2>2 DEF IssueAt
<1>8. cmd' = [cmd EXCEPT ![p] = e]
  BY <1>1, <1>3
<1>9. QED
  BY <1>5, <1>6, <1>7, <1>8, IssueMoves

\* Seeding a session's issues.
LEMMA IssueSeeding ==
  ASSUME IssueInv, NEW p \in Process,
         Forgets(p) \/ Registers(p) \/ Seeds(p) \/ Inits(p) \/ InitFails(p) \/ Records(p)
  PROVE  IssueInv'
<1>1. /\ cmd[p].pc \in {"forget", "register", "seed", "init", "record"}
      /\ UNCHANGED <<log, pushed, has, panes>>
  BY DEF Forgets, Registers, Seeds, Inits, InitFails, Records, At, instance, machine
<1>2. /\ cmd[p].pc # "idle" /\ cmd[p].op = "start"
      /\ cmd[p].final => ~panes' /\ cmd[p].seen = Len(log)
  BY <1>1 DEF IssueInv, IssueAt
<1>3. IssueCounts' /\ pushed <= pushed' /\ has <= has'
  BY <1>1 DEF IssueInv, IssueCounts
<1>4. CASE Ends(p) /\ base' = base
  BY <1>1, <1>2, <1>4, IssueEnds
<1>5. ASSUME NEW x \in {"register", "seed", "init", "record"}, Goto(p, x)
      PROVE  IssueInv'
  BY <1>1, <1>2, <1>3, <1>5, IssueGoto
<1>6. QED
  BY <1>4, <1>5 DEF Forgets, Registers, Seeds, Inits, InitFails, Records, instance

LEMMA IssueLeaves ==
  ASSUME IssueInv, NEW p \in Process, Done(p) \/ Removes(p) \/ Fails(p)
  PROVE  IssueInv'
<1>1. /\ cmd[p].pc # "idle" /\ Ends(p) /\ UNCHANGED <<log, base, pushed, has, start>>
      /\ ~panes => ~panes'
  BY DEF Done, Removes, Fails, At, instance, machine
<1>2. QED
  BY <1>1, IssueEnds

LEMMA IssuePushes ==
  ASSUME IssueInv, NEW p \in Process, Pushes(p) \/ Fetches(p)
  PROVE  IssueInv'
<1>1. /\ cmd[p].pc \in {"push", "fetch"} /\ cmd[p].pc # "idle"
      /\ UNCHANGED <<log, base, start, panes>>
  BY DEF Pushes, Fetches, At, instance, machine
<1>2. /\ cmd[p].final => ~panes' /\ cmd[p].seen = Len(log)
      /\ cmd[p].seen \in Nat /\ cmd[p].seen <= Len(log)
      /\ cmd[p].pc = "fetch" => cmd[p].seen <= pushed
  BY <1>1 DEF IssueInv, IssueAt
<1>3. IssueCounts /\ Len(log) \in Nat /\ pushed \in Nat /\ has \in Nat
  BY DEF IssueInv, IssueCounts
<1>4. CASE Pushes(p)
  <2>1. pushed' = Len(log) /\ has' = has /\ Goto(p, "fetch")
    BY <1>4 DEF Pushes, machine
  <2>2. IssueCounts' /\ pushed <= pushed' /\ has <= has'
    BY <1>1, <1>3, <2>1 DEF IssueCounts
  <2>3. cmd[p].seen <= pushed'
    BY <1>2, <2>1
  <2>4. QED
    BY <1>1, <1>2, <2>1, <2>2, <2>3, IssueGoto
<1>5. CASE Fetches(p)
  <2>1. /\ pushed' = pushed /\ has' = pushed /\ cmd[p].pc = "fetch"
        /\ \/ Goto(p, "verify") /\ HasRecord(p)
           \/ Goto(p, AfterCheck(p))
    BY <1>5 DEF Fetches, instance, At
  <2>2. IssueCounts' /\ pushed <= pushed' /\ has <= has' /\ cmd[p].seen <= has'
    BY <1>1, <1>2, <1>3, <2>1 DEF IssueCounts
  <2>3. CASE Goto(p, "verify") /\ HasRecord(p)
    BY <1>1, <1>2, <2>2, <2>3, IssueGoto DEF HasRecord
  <2>4. ASSUME NEW x \in {"done", "remove", "close"}, Goto(p, x), x = "close" => cmd[p].op # "pull"
        PROVE  IssueInv'
    BY <1>1, <1>2, <2>2, <2>4, IssueGoto
  <2>5. AfterCheck(p) \in {"done", "remove", "close"} /\ (AfterCheck(p) = "close" => cmd[p].op # "pull")
    BY DEF AfterCheck
  <2>6. QED
    BY <2>1, <2>3, <2>4, <2>5
<1>6. QED
  BY <1>4, <1>5


LEMMA IssueChecks ==
  ASSUME IssueInv, NEW p \in Process, Checks(p)
  PROVE  IssueInv'
<1>1. PICK c, g, n, x, e :
        /\ c = cmd[p] /\ g = MustAsk(p) /\ n = (IF c.op = "pull" THEN 0 ELSE Len(log))
        /\ x = (IF MustAsk(p) THEN "pin" ELSE AfterCheck(p))
        /\ e = [c EXCEPT !.gated = g, !.seen = n, !.pc = x]
  OBVIOUS
<1>2. c = [pc |-> c.pc, op |-> c.op, pin |-> c.pin, seen |-> c.seen, final |-> c.final,
           gated |-> c.gated, accept |-> c.accept, took |-> c.took, pulls |-> c.pulls]
  BY <1>1 DEF IssueInv, IssueAt, OwnRecord
<1>3. e = [pc |-> x, op |-> c.op, pin |-> c.pin, seen |-> n, final |-> c.final,
           gated |-> g, accept |-> c.accept, took |-> c.took, pulls |-> c.pulls]
  BY <1>1, <1>2
<1>4. /\ c.pc = "check" /\ UNCHANGED <<log, base, pushed, has, start, panes, lock>>
      /\ cmd' = [cmd EXCEPT ![p].gated = g, ![p].seen = n, ![p].pc = x]
  BY <1>1 DEF Checks, At, instance, machine
<1>5. cmd' = [cmd EXCEPT ![p] = e]
  BY <1>1, <1>2, <1>3, <1>4 DEF IssueInv
<1>6. IssueCounts' /\ pushed <= pushed' /\ has <= has' /\ Len(log) \in Nat
  BY <1>4 DEF IssueInv, IssueCounts
<1>7. /\ x \in {"pin", "done", "remove", "close"}
      /\ x = "close" => c.op # "pull"
      /\ x = "remove" => ~g /\ ~HasRecord(p)
  BY <1>1 DEF AfterCheck, MustAsk, HasRecord
<1>8. ASSUME cmd'[p] = e PROVE IssueAt(p)'
  <2>1. OwnRecord(p)'
    BY <1>3, <1>8 DEF OwnRecord
  <2>2. n \in Nat /\ n <= Len(log') /\ (c.op # "pull" => n = Len(log))
    BY <1>1, <1>4, <1>6
  <2>3. /\ c.final => c.op # "pull" /\ ~panes
        /\ c.op # "pull" => lock = {p}
    BY <1>1, <1>4 DEF IssueInv, IssueAt
  <2>4. /\ e.pc = x /\ e.op = c.op /\ e.seen = n /\ e.final = c.final /\ e.gated = g
    BY <1>3
  <2>5. e.pc = "remove" => ~e.gated /\ ~HasRecord(p)'
    BY <1>1, <1>4, <1>7, <1>8, <2>4 DEF HasRecord
  <2>6. QED
    BY <1>4, <1>7, <1>8, <2>1, <2>2, <2>3, <2>4, <2>5 DEF IssueAt
<1>9. QED
  BY <1>4, <1>5, <1>6, <1>8, IssueMoves

LEMMA IssuePins ==
  ASSUME IssueInv, NEW p \in Process, Pins(p)
  PROVE  IssueInv'
<1>1. PICK c, n, x, e :
        /\ c = cmd[p] /\ n = (IF HasRecord(p) THEN Len(log) ELSE 0)
        /\ x = (IF bd \/ ~HasRecord(p) THEN "push" ELSE "verify")
        /\ e = [c EXCEPT !.pin = n, !.pulls = bd, !.pc = x]
  OBVIOUS
<1>2. c = [pc |-> c.pc, op |-> c.op, pin |-> c.pin, seen |-> c.seen, final |-> c.final,
           gated |-> c.gated, accept |-> c.accept, took |-> c.took, pulls |-> c.pulls]
  BY <1>1 DEF IssueInv, IssueAt, OwnRecord
<1>3. e = [pc |-> x, op |-> c.op, pin |-> n, seen |-> c.seen, final |-> c.final,
           gated |-> c.gated, accept |-> c.accept, took |-> c.took, pulls |-> bd]
  BY <1>1, <1>2
<1>4. /\ c.pc = "pin" /\ UNCHANGED <<log, base, pushed, has, start, panes>>
      /\ \/ Ends(p)
         \/ cmd' = [cmd EXCEPT ![p].pin = n, ![p].pulls = bd, ![p].pc = x] /\ lock' = lock
  BY <1>1 DEF Pins, At, instance, machine
<1>5. CASE Ends(p)
  BY <1>1, <1>4, <1>5, IssueEnds
<1>6. CASE cmd' = [cmd EXCEPT ![p].pin = n, ![p].pulls = bd, ![p].pc = x] /\ lock' = lock
  <2>1. cmd' = [cmd EXCEPT ![p] = e]
    BY <1>1, <1>2, <1>3, <1>6 DEF IssueInv
  <2>2. IssueCounts' /\ pushed <= pushed' /\ has <= has'
    BY <1>4 DEF IssueInv, IssueCounts
  <2>3. /\ x \in {"push", "verify"}
        /\ x = "verify" => ~bd /\ n = Len(log) /\ c.op = "merge" /\ start # NoStart
    BY <1>1 DEF HasRecord
  <2>4. ASSUME cmd'[p] = e PROVE IssueAt(p)'
    <3>1. OwnRecord(p)'
      BY <1>3, <2>4 DEF OwnRecord
    <3>2. /\ c.seen \in Nat /\ c.seen <= Len(log)
          /\ c.final => c.op # "pull" /\ ~panes /\ c.seen = Len(log)
          /\ c.op # "pull" => lock = {p}
      BY <1>1, <1>4 DEF IssueInv, IssueAt
    <3>3. /\ e.pc = x /\ e.op = c.op /\ e.seen = c.seen /\ e.final = c.final /\ e.gated = c.gated
          /\ e.pin = n /\ e.pulls = bd
      BY <1>3
    <3>4. QED
      BY <1>4, <1>6, <2>3, <2>4, <3>1, <3>2, <3>3 DEF IssueAt
  <2>5. QED
    BY <1>4, <1>6, <2>1, <2>2, <2>4, IssueMoves
<1>7. QED
  BY <1>4, <1>5, <1>6

LEMMA IssueVerifies ==
  ASSUME IssueInv, NEW p \in Process, Verifies(p)
  PROVE  IssueInv'
<1>1. PICK c, x, t, e :
        /\ c = cmd[p] /\ x = AfterCheck(p) /\ t = ~Verified(p)
        /\ e = [c EXCEPT !.pc = x, !.took = t]
  OBVIOUS
<1>2. c = [pc |-> c.pc, op |-> c.op, pin |-> c.pin, seen |-> c.seen, final |-> c.final,
           gated |-> c.gated, accept |-> c.accept, took |-> c.took, pulls |-> c.pulls]
  BY <1>1 DEF IssueInv, IssueAt, OwnRecord
<1>3. e = [pc |-> x, op |-> c.op, pin |-> c.pin, seen |-> c.seen, final |-> c.final,
           gated |-> c.gated, accept |-> c.accept, took |-> t, pulls |-> c.pulls]
  BY <1>1, <1>2
<1>4. /\ c.pc = "verify" /\ UNCHANGED <<log, base, pushed, has, start, panes>>
      /\ \/ Ends(p)
         \/ cmd' = [cmd EXCEPT ![p].pc = x, ![p].took = t] /\ lock' = lock
  BY <1>1 DEF Verifies, At, instance, machine
<1>5. CASE Ends(p)
  BY <1>1, <1>4, <1>5, IssueEnds
<1>6. CASE cmd' = [cmd EXCEPT ![p].pc = x, ![p].took = t] /\ lock' = lock
  <2>1. cmd' = [cmd EXCEPT ![p] = e]
    BY <1>1, <1>2, <1>3, <1>6 DEF IssueInv
  <2>2. IssueCounts' /\ pushed <= pushed' /\ has <= has'
    BY <1>4 DEF IssueInv, IssueCounts
  <2>3. /\ c.op = "merge" /\ start # NoStart
        /\ c.seen <= has \/ ~c.final \/ (~c.pulls /\ c.pin = c.seen)
        /\ c.seen \in Nat /\ c.seen <= Len(log) /\ lock = {p}
        /\ c.final => ~panes /\ c.seen = Len(log)
    BY <1>1, <1>4 DEF IssueInv, IssueAt
  <2>4. x \in {"remove", "close"} /\ (x = "remove" => c.final)
    BY <1>1, <2>3 DEF AfterCheck
  \* Without bd at the pin, only a session that has changed nothing is verified.
  <2>5. ASSUME ~t, ~c.pulls, c.pin = c.seen
        PROVE  Changes(start, c.seen) = {}
    <3>1. \A i \in Changes(start, c.pin) : c.pulls
      BY <1>1, <2>5 DEF Verified
    <3>2. QED
      BY <2>5, <3>1
  <2>6. ASSUME cmd'[p] = e PROVE IssueAt(p)'
    <3>1. OwnRecord(p)'
      BY <1>3, <2>6 DEF OwnRecord
    <3>2. /\ e.pc = x /\ e.op = c.op /\ e.seen = c.seen /\ e.final = c.final /\ e.took = t
      BY <1>3
    <3>3. x = "remove" => c.seen <= has \/ t \/ Changes(start, c.seen) = {}
      BY <2>3, <2>4, <2>5
    <3>4. PICK n, ch : n = c.seen /\ ch = Changes(start, n)
      OBVIOUS
    <3>5. Changes(start, n)' = ch
      BY <1>4, <3>4 DEF Changes, Exists, Edited, Last
    <3>6. x = "remove" => Covered(p)'
      BY <1>4, <2>3, <2>4, <2>6, <3>2, <3>3, <3>4, <3>5 DEF Covered
    <3>7. QED
      BY <1>4, <1>6, <2>3, <2>4, <2>6, <3>1, <3>2, <3>6 DEF IssueAt
  <2>7. QED
    BY <1>1, <1>4, <2>1, <2>2, <2>3, <2>6, IssueMoves
<1>7. QED
  BY <1>4, <1>5, <1>6

LEMMA IssueCloses ==
  ASSUME IssueInv, NEW p \in Process, Closes(p)
  PROVE  IssueInv'
<1>1. PICK c, e :
        c = cmd[p] /\ e = [c EXCEPT !.pc = "check", !.final = TRUE, !.gated = FALSE, !.took = FALSE]
  OBVIOUS
<1>2. c = [pc |-> c.pc, op |-> c.op, pin |-> c.pin, seen |-> c.seen, final |-> c.final,
           gated |-> c.gated, accept |-> c.accept, took |-> c.took, pulls |-> c.pulls]
  BY <1>1 DEF IssueInv, IssueAt, OwnRecord
<1>3. e = [pc |-> "check", op |-> c.op, pin |-> c.pin, seen |-> c.seen, final |-> TRUE,
           gated |-> FALSE, accept |-> c.accept, took |-> FALSE, pulls |-> c.pulls]
  BY <1>1, <1>2
<1>4. /\ c.pc = "close" /\ UNCHANGED <<log, base, pushed, has, start, lock>> /\ ~panes'
      /\ cmd' = [cmd EXCEPT ![p].pc = "check", ![p].final = TRUE, ![p].gated = FALSE, ![p].took = FALSE]
  BY <1>1 DEF Closes, At, instance, machine
<1>5. cmd' = [cmd EXCEPT ![p] = e]
  BY <1>1, <1>2, <1>3, <1>4 DEF IssueInv
<1>6. IssueCounts' /\ pushed <= pushed' /\ has <= has'
  BY <1>4 DEF IssueInv, IssueCounts
<1>7. c.op # "pull" /\ c.seen \in Nat /\ c.seen <= Len(log) /\ lock = {p}
  BY <1>1, <1>4 DEF IssueInv, IssueAt
<1>8. ASSUME cmd'[p] = e PROVE IssueAt(p)'
  <2>1. OwnRecord(p)'
    BY <1>3, <1>8 DEF OwnRecord
  <2>2. /\ e.pc = "check" /\ e.op = c.op /\ e.seen = c.seen /\ e.final = TRUE
    BY <1>3
  <2>3. /\ cmd'[p].pc = "check" /\ cmd'[p].op = c.op /\ cmd'[p].seen = c.seen
        /\ Len(log') = Len(log) /\ lock' = {p} /\ ~panes'
    BY <1>4, <1>7, <1>8, <2>2
  <2>4. QED
    BY <1>7, <2>1, <2>3 DEF IssueAt
<1>9. QED
  BY <1>1, <1>4, <1>5, <1>6, <1>7, <1>8, IssueMoves

\* Nobody's command moves: the agent, the user, and bd on this machine.
LEMMA IssueAround ==
  ASSUME IssueInv, UNCHANGED <<cmd, base, has, pushed, start, lock>>,
         \/ log' = log /\ panes' = panes
         \/ lock = {} /\ log' = log
         \/ panes /\ panes' = panes /\ (\E e : log' = Append(log, e))
  PROVE  IssueInv'
<1>1. IssueCounts
  BY DEF IssueInv
<1>2. Len(log) \in Nat /\ Len(log') \in Nat /\ Len(log) <= Len(log') /\ (\E T : log' \in Seq(T))
  <2>1. CASE log' = log
    BY <1>1, <2>1 DEF IssueCounts
  <2>2. CASE \E e : log' = Append(log, e)
    <3>1. PICK T : log \in Seq(T)
      BY <1>1 DEF IssueCounts
    <3>2. PICK e : log' = Append(log, e)
      BY <2>2
    <3>3. (\E V : log' \in Seq(V)) /\ Len(log') = Len(log) + 1
      BY <3>1, <3>2, LogGrows
    <3>4. QED
      BY <3>1, <3>3
  <2>3. QED
    BY <2>1, <2>2
<1>3. IssueCounts'
  BY <1>1, <1>2 DEF IssueCounts
<1>4. ASSUME NEW q \in Process PROVE IssueAt(q)'
  <2>1. IssueAt(q) /\ cmd'[q] = cmd[q] /\ pushed <= pushed' /\ has <= has'
    BY <1>1 DEF IssueInv, IssueCounts
  <2>2. ASSUME cmd[q].pc # "idle", cmd[q].op # "pull"
        PROVE  /\ lock' = {q} /\ start' = start /\ base' = base
               /\ ~panes => ~panes' /\ log' = log
    <3>1. lock = {q}
      BY <2>1, <2>2 DEF IssueAt
    <3>2. QED
      BY <3>1
  <2>3. QED
    BY <1>1, <1>2, <1>3, <2>1, <2>2, IssueOthers
<1>5. cmd' = [q \in Process |-> cmd'[q]]
  BY DEF IssueInv
<1>6. QED
  BY <1>3, <1>4, <1>5 DEF IssueInv

LEMMA IssueNext ==
  ASSUME IssueInv, Next
  PROVE  IssueInv'
<1>1. ASSUME NEW p \in Process, Step(p) PROVE IssueInv'
  <2>1. ASSUME NEW op \in Ops, Begins(p, op) PROVE IssueInv'
    BY <2>1, IssueBegins
  <2>2. ASSUME Forgets(p) \/ Registers(p) \/ Seeds(p) \/ Inits(p) \/ InitFails(p) \/ Records(p)
        PROVE  IssueInv'
    BY <2>2, IssueSeeding
  <2>3. CASE Checks(p)
    BY <2>3, IssueChecks
  <2>4. CASE Pins(p)
    BY <2>4, IssuePins
  <2>5. CASE Pushes(p) \/ Fetches(p)
    BY <2>5, IssuePushes
  <2>6. CASE Verifies(p)
    BY <2>6, IssueVerifies
  <2>7. CASE Closes(p)
    BY <2>7, IssueCloses
  <2>8. CASE Done(p) \/ Removes(p) \/ Fails(p)
    BY <2>8, IssueLeaves
  <2>9. QED
    BY <1>1, <2>1, <2>2, <2>3, <2>4, <2>5, <2>6, <2>7, <2>8 DEF Step
<1>2. CASE AgentEdits
  <2>1. UNCHANGED <<cmd, base, has, pushed, start, lock, panes>> /\ panes
    BY <1>2 DEF AgentEdits, machine
  <2>2. \E e : log' = Append(log, e)
    BY <1>2 DEF AgentEdits
  <2>3. QED
    BY <2>1, <2>2, IssueAround
<1>3. CASE AgentCompacts \/ UserEdits \/ BdComesAndGoes
  <2>1. UNCHANGED <<cmd, base, has, pushed, start, lock, panes, log>>
    BY <1>3 DEF AgentCompacts, UserEdits, BdComesAndGoes, instance, machine
  <2>2. QED
    BY <2>1, IssueAround
<1>4. CASE Reopens
  <2>1. UNCHANGED <<cmd, base, has, pushed, start, lock, log>> /\ lock = {}
    BY <1>4 DEF Reopens, instance, machine
  <2>2. QED
    BY <2>1, IssueAround
<1>5. QED
  BY <1>1, <1>2, <1>3, <1>4 DEF Next

LEMMA IssueStays ==
  ASSUME IssueInv, UNCHANGED vars
  PROVE  IssueInv'
<1>1. UNCHANGED <<cmd, base, has, pushed, start, lock, panes, log>>
  BY DEF vars
<1>2. QED
  BY <1>1, IssueAround

\* A repository goes only after a check that covers its agent's edits: they are
\* merged here, or the session changed nothing, or the user accepted the gap.
THEOREM NoIssueIsLost == SessionsSpec => NoIssueLost
<1>1. PartInit => IssueInv
  BY IssueInit DEF PartInit
<1>2. IssueInv /\ [/\ \/ IssuesMove \/ Parts
                   /\ UNCHANGED part]_all => IssueInv'
  <2> SUFFICES ASSUME IssueInv, [(IssuesMove \/ Parts) /\ UNCHANGED part]_all
               PROVE  IssueInv'
    BY DEF all
  <2>1. CASE UNCHANGED all
    BY <2>1, IssueStays DEF all
  <2>2. CASE IssuesMove
    BY <2>2, IssueNext DEF IssuesMove
  <2>3. CASE Parts
    <3>1. UNCHANGED vars
      BY <2>3 DEF Parts, SeedingMoves, AgentMoves, LayoutMoves, AccessMoves, SetupMoves,
         ServingMoves, SidebarMoves
    <3>2. QED
      BY <3>1, IssueStays
  <2>4. QED
    BY <2>1, <2>2, <2>3
<1>3. ASSUME IssueInv, NEW p \in Process, Removes(p), cmd[p].gated \/ HasRecord(p)
      PROVE  \/ cmd[p].seen <= has \/ cmd[p].took
             \/ start # NoStart /\ Changes(start, cmd[p].seen) = {}
  <2>1. Covered(p)
    BY <1>3 DEF IssueInv, IssueAt, Removes, At
  <2>2. QED
    BY <2>1 DEF Covered
<1>4. IssueInv =>
        [\A p \in Process :
           Removes(p) /\ db = "made" /\ (cmd[p].gated \/ (cmd[p].op = "merge" /\ start # NoStart))
             => \/ cmd[p].seen <= has \/ cmd[p].took
                \/ start # NoStart /\ Changes(start, cmd[p].seen) = {}]_vars
  BY <1>3 DEF HasRecord
<1>5. QED
  BY <1>1, <1>2, <1>4, PTL DEF SessionsSpec, Parts, NoIssueLost

-------------------------------------------------------------------------------
(* Setup: the two files one terminal writes. What init takes out of the         *)
(* project's file is, step by step, in the values it holds, then in those it   *)
(* is to write to base.pkl, then in base.pkl.                                  *)

Mine == v4[Terminal]
Declared == v1[Mine.at].values

SetupFiles ==
  /\ v1 = [p \in Name |-> v1[p]]
  /\ \A p \in Name : /\ v1[p].there \in BOOLEAN
                     /\ DOMAIN v1[p].values \subseteq IF v1[p].there THEN U!KnownField ELSE {}

\* The fields Moving lets go, and those that are in other values.
Spared(P, f) == f = "provider" \/ (f = "sshKeys" /\ "old" \in P[f])
Brought(P, V, f) == f \in {"size", "sshKeys"} /\ f \in DOMAIN V /\ V[f] = P[f]
Held(P, kept, V) ==
  \A f \in DOMAIN P : Spared(P, f) \/ f \in DOMAIN kept \/ Brought(P, V, f)

SetupRecord ==
  /\ v4 = [c \in {Terminal} |-> v4[c]]
  /\ Mine = [pc |-> Mine.pc, at |-> Mine.at, up |-> Mine.up, existing |-> Mine.existing,
             lifted |-> Mine.lifted, base |-> Mine.base, values |-> Mine.values]

Underway == {"move", "personal", "settle", "personalize", "ask", "write"}

SetupHeld ==
  /\ Mine.pc \in Underway => Mine.at \in Name /\ (Mine.existing.there \/ DOMAIN Declared = {})
  /\ Mine.pc = "move" =>
       /\ DOMAIN Mine.existing.values \subseteq U!KnownField
       /\ \A f \in DOMAIN Declared :
            \/ f = "provider"
            \/ f \in DOMAIN Mine.existing.values /\ Mine.existing.values[f] = Declared[f]
  /\ Mine.pc \in {"personal", "settle"} => Held(Declared, Mine.existing.values, Mine.lifted)
  /\ Mine.pc \in {"settle", "personalize"} => Mine.base = U!readIfPresent(v2)
  /\ Mine.pc = "personalize" => Held(Declared, Mine.existing.values, Mine.values)
  /\ Mine.pc = "ask" => Held(Declared, Mine.existing.values, v2.values)
  /\ Mine.pc = "write" => Held(Declared, Mine.values, v2.values)

SetupInv == SetupFiles /\ SetupRecord /\ SetupHeld

LEMMA OnlyThese ==
  ASSUME NEW v, NEW F
  PROVE  /\ DOMAIN U!Only(v, F) = DOMAIN v \cap F
         /\ \A f \in DOMAIN v \cap F : U!Only(v, F)[f] = v[f]
BY DEF U!Only

LEMMA MergedIs ==
  ASSUME NEW v, NEW w
  PROVE  /\ DOMAIN U!merge(v, w) = DOMAIN v \cup DOMAIN w
         /\ \A f \in DOMAIN w : U!merge(v, w)[f] = w[f]
         /\ \A f \in DOMAIN v \ DOMAIN w : U!merge(v, w)[f] = v[f]
BY DEF U!merge

\* A repaired file has all it had but, perhaps, keys one of which was a legacy entry.
LEMMA RepairedKeeps ==
  ASSUME NEW v, DOMAIN v \subseteq U!KnownField, NEW w \in U!repaired(v), NEW f \in DOMAIN v
  PROVE  \/ f \in DOMAIN w /\ w[f] = v[f]
         \/ f = "sshKeys" /\ "old" \in v[f]
<1>1. CASE w = v
  BY <1>1
<1>2. ASSUME "old" \in U!currentKeys(v), NEW k, w = U!WithKeys(v, k), f # "sshKeys"
      PROVE  f \in DOMAIN w /\ w[f] = v[f]
  <2>1. CASE k = {}
    <3>1. w = U!Only(v, U!KnownField \ {"sshKeys"})
      BY <1>2, <2>1 DEF U!WithKeys
    <3>2. f \in DOMAIN v \cap (U!KnownField \ {"sshKeys"})
      BY <1>2
    <3>3. QED
      BY <3>1, <3>2, OnlyThese
  <2>2. CASE k # {}
    <3>1. PICK r : r = [sshKeys |-> k]
      OBVIOUS
    <3>2. w = U!merge(v, r)
      BY <1>2, <2>2, <3>1 DEF U!WithKeys
    <3>3. f \notin DOMAIN r
      BY <1>2, <3>1
    <3>4. QED
      BY <3>2, <3>3, MergedIs
  <2>3. QED
    BY <2>1, <2>2
<1>3. "old" \in U!currentKeys(v) => "sshKeys" \in DOMAIN v /\ "old" \in v["sshKeys"]
  BY DEF U!currentKeys
<1>4. w = v \/ ("old" \in U!currentKeys(v) /\ \E k : w = U!WithKeys(v, k))
  BY DEF U!repaired
<1>5. QED
  BY <1>1, <1>2, <1>3, <1>4

\* A question that is not asked leaves its field; none takes one away.
LEMMA AskKeeps ==
  ASSUME NEW Q, NEW v, NEW w \in U!ask(Q, v), NEW f \in DOMAIN v
  PROVE  f \in DOMAIN w /\ (f \notin Q => w[f] = v[f])
<1>1. PICK a \in U!Answers(Q, v) : w = U!merge(v, U!Only(a, U!Recorded(a, v)))
  BY DEF U!ask
<1>2. DOMAIN a = Q
  BY DEF U!Answers
<1>3. PICK o : o = U!Only(a, U!Recorded(a, v))
  OBVIOUS
<1>4. DOMAIN o \subseteq Q
  BY <1>2, <1>3, OnlyThese
<1>5. QED
  BY <1>1, <1>3, <1>4, MergedIs

LEMMA SetupInit ==
  ASSUME U!SetupAssumption, U!Init
  PROVE  SetupInv
<1>1. SetupFiles
  BY DEF U!Init, U!SetupAssumption, SetupFiles
<1>2. /\ v4 = [c \in {Terminal} |-> U!Idle]
      /\ U!Idle = [pc |-> "idle", at |-> "none", up |-> FALSE, existing |-> U!NoFile,
                   lifted |-> <<>>, base |-> U!NoFile, values |-> <<>>]
  BY DEF U!Init, U!Idle
<1>3. SetupRecord /\ Mine.pc = "idle"
  BY <1>2 DEF SetupRecord, Mine
<1>4. QED
  BY <1>1, <1>3 DEF SetupInv, SetupHeld, Underway

\* What a step of the terminal leaves in its place.
LEMMA SetupMoved ==
  ASSUME SetupInv, NEW e, v4' = [v4 EXCEPT ![Terminal] = e]
  PROVE  Mine' = e /\ v4' = [c \in {Terminal} |-> v4'[c]]
BY DEF SetupInv, SetupRecord, Mine

\* Outside of init's questions nothing is held.
LEMMA SetupQuiet ==
  ASSUME SetupInv, SetupFiles', NEW e, v4' = [v4 EXCEPT ![Terminal] = e], e.pc \notin Underway,
         e = [pc |-> e.pc, at |-> e.at, up |-> e.up, existing |-> e.existing,
              lifted |-> e.lifted, base |-> e.base, values |-> e.values]
  PROVE  SetupInv'
<1>1. Mine' = e /\ v4' = [c \in {Terminal} |-> v4'[c]]
  BY SetupMoved
<1>2. SetupRecord'
  BY <1>1 DEF SetupRecord
<1>3. SetupHeld'
  BY <1>1 DEF SetupHeld, Underway
<1>4. QED
  BY <1>2, <1>3 DEF SetupInv

LEMMA SetupLifts ==
  ASSUME SetupInv, U!Moves(Terminal)
  PROVE  SetupInv'
<1>1. PICK m : m = Mine
  OBVIOUS
<1>2. m = [pc |-> m.pc, at |-> m.at, up |-> m.up, existing |-> m.existing,
           lifted |-> m.lifted, base |-> m.base, values |-> m.values]
  BY <1>1 DEF SetupInv, SetupRecord
<1>3. m.pc = "move" /\ UNCHANGED <<v1, v2>>
  BY <1>1 DEF U!Moves, U!At, Mine
<1>4. PICK v \in U!repaired(m.existing.values) :
        \/ v4' = [v4 EXCEPT ![Terminal].pc = "personal", ![Terminal].existing = U!Holding(m.existing, v)]
        \/ v4' = [v4 EXCEPT ![Terminal].pc = "personal",
                            ![Terminal].lifted = U!Only(v, U!MovablePersonalFields),
                            ![Terminal].existing =
                               U!Holding(m.existing, U!Only(v, U!KnownField \ U!MovablePersonalFields))]
  BY <1>1 DEF U!Moves, Mine
<1>5. PICK P : P = Declared
  OBVIOUS
<1>6. /\ m.at \in Name /\ (m.existing.there \/ DOMAIN P = {}) /\ DOMAIN P \subseteq U!KnownField
      /\ DOMAIN m.existing.values \subseteq U!KnownField
      /\ \A f \in DOMAIN P : \/ f = "provider"
                             \/ f \in DOMAIN m.existing.values /\ m.existing.values[f] = P[f]
  BY <1>1, <1>3, <1>5 DEF SetupInv, SetupHeld, SetupFiles, Underway, Declared
\* What the repair keeps.
<1>7. ASSUME NEW f \in DOMAIN P
      PROVE  \/ Spared(P, f)
             \/ f \in DOMAIN v /\ v[f] = P[f]
  BY <1>6, RepairedKeeps DEF Spared
<1>8. ASSUME NEW e, v4' = [v4 EXCEPT ![Terminal] = e], NEW kept, NEW lifted,
             e = [pc |-> "personal", at |-> m.at, up |-> m.up,
                  existing |-> U!Holding(m.existing, kept), lifted |-> lifted, base |-> m.base,
                  values |-> m.values],
             Held(P, kept, lifted)
      PROVE  SetupInv'
  <2>1. Mine' = e /\ v4' = [c \in {Terminal} |-> v4'[c]]
    BY <1>8, SetupMoved
  <2>2. /\ e.pc = "personal" /\ e.at = m.at /\ e.existing = U!Holding(m.existing, kept)
        /\ e.lifted = lifted
        /\ e = [pc |-> e.pc, at |-> e.at, up |-> e.up, existing |-> e.existing,
                lifted |-> e.lifted, base |-> e.base, values |-> e.values]
    BY <1>8
  <2>3. e.existing.there = m.existing.there /\ e.existing.values = kept
    BY <2>2 DEF U!Holding
  <2>4. Declared' = P
    BY <1>1, <1>3, <1>5, <2>1, <2>2 DEF Declared
  <2>5. SetupFiles' /\ SetupRecord'
    BY <1>3, <2>1, <2>2 DEF SetupInv, SetupFiles, SetupRecord
  <2>6. SetupHeld'
    BY <1>6, <1>8, <2>1, <2>2, <2>3, <2>4 DEF SetupHeld
  <2>7. QED
    BY <2>5, <2>6 DEF SetupInv
<1>9. CASE v4' = [v4 EXCEPT ![Terminal].pc = "personal", ![Terminal].existing = U!Holding(m.existing, v)]
  <2>1. PICK x, e : x = U!Holding(m.existing, v) /\ e = [m EXCEPT !.pc = "personal", !.existing = x]
    OBVIOUS
  <2>2. e = [pc |-> "personal", at |-> m.at, up |-> m.up, existing |-> x,
             lifted |-> m.lifted, base |-> m.base, values |-> m.values]
    BY <1>2, <2>1
  <2>3. v4' = [v4 EXCEPT ![Terminal] = e]
    BY <1>1, <1>9, <2>1, <2>2 DEF SetupInv, SetupRecord, Mine
  <2>4. Held(P, v, m.lifted)
    BY <1>7 DEF Held
  <2>5. QED
    BY <1>8, <2>1, <2>2, <2>3, <2>4
<1>10. CASE v4' = [v4 EXCEPT ![Terminal].pc = "personal",
                             ![Terminal].lifted = U!Only(v, U!MovablePersonalFields),
                             ![Terminal].existing =
                               U!Holding(m.existing, U!Only(v, U!KnownField \ U!MovablePersonalFields))]
  <2>1. PICK kept, lifted, x, e :
          /\ kept = U!Only(v, U!KnownField \ U!MovablePersonalFields)
          /\ lifted = U!Only(v, U!MovablePersonalFields) /\ x = U!Holding(m.existing, kept)
          /\ e = [m EXCEPT !.pc = "personal", !.lifted = lifted, !.existing = x]
    OBVIOUS
  <2>2. e = [pc |-> "personal", at |-> m.at, up |-> m.up, existing |-> x,
             lifted |-> lifted, base |-> m.base, values |-> m.values]
    BY <1>2, <2>1
  <2>3. v4' = [v4 EXCEPT ![Terminal] = e]
    BY <1>1, <1>10, <2>1, <2>2 DEF SetupInv, SetupRecord, Mine
  <2>4. U!MovablePersonalFields = {"size", "sshKeys"}
    BY DEF U!MovablePersonalFields, U!PersonalFields
  <2>5. Held(P, kept, lifted)
    <3>1. SUFFICES ASSUME NEW f \in DOMAIN P, f \in DOMAIN v, v[f] = P[f]
                   PROVE  f \in DOMAIN kept \/ Brought(P, lifted, f)
      BY <1>7 DEF Held
    <3>2. CASE f \in {"size", "sshKeys"}
      <4>1. f \in DOMAIN v \cap U!MovablePersonalFields
        BY <2>4, <3>1, <3>2
      <4>2. f \in DOMAIN lifted /\ lifted[f] = v[f]
        BY <2>1, <4>1, OnlyThese
      <4>3. QED
        BY <3>1, <3>2, <4>2 DEF Brought
    <3>3. CASE f \notin {"size", "sshKeys"}
      <4>1. f \in DOMAIN v \cap (U!KnownField \ U!MovablePersonalFields)
        BY <1>6, <2>4, <3>1, <3>3
      <4>2. QED
        BY <2>1, <4>1, OnlyThese
    <3>4. QED
      BY <3>2, <3>3
  <2>6. QED
    BY <1>8, <2>1, <2>2, <2>3, <2>5
<1>11. QED
  BY <1>4, <1>9, <1>10

\* The steps that hold on to the project's fields while the files stay as they are.
LEMMA SetupHolds ==
  ASSUME SetupInv, UNCHANGED <<v1, v2>>, Mine.pc \in Underway,
         NEW e, v4' = [v4 EXCEPT ![Terminal] = e],
         e = [pc |-> e.pc, at |-> e.at, up |-> e.up, existing |-> e.existing,
              lifted |-> e.lifted, base |-> e.base, values |-> e.values],
         e.at = Mine.at, e.existing = Mine.existing,
         e.pc \in {"settle", "personalize", "write"},
         e.pc = "settle" => Held(Declared, e.existing.values, e.lifted),
         e.pc \in {"settle", "personalize"} => e.base = U!readIfPresent(v2),
         e.pc = "personalize" => Held(Declared, e.existing.values, e.values),
         e.pc = "write" => Held(Declared, e.values, v2.values)
  PROVE  SetupInv'
<1>1. Mine' = e /\ v4' = [c \in {Terminal} |-> v4'[c]]
  BY SetupMoved
<1>2. PICK P : P = Declared
  OBVIOUS
<1>3. Declared' = P
  BY <1>1, <1>2 DEF Declared
<1>4. SetupFiles' /\ SetupRecord'
  BY <1>1 DEF SetupInv, SetupFiles, SetupRecord
<1>5. e.at \in Name /\ (e.existing.there \/ DOMAIN P = {})
  BY <1>2 DEF SetupInv, SetupHeld
<1>6. U!readIfPresent(v2)' = U!readIfPresent(v2)
  BY DEF U!readIfPresent, U!Holding, U!ReadValues, U!Only, U!declaredFields
<1>7. SetupHeld'
  BY <1>1, <1>2, <1>3, <1>5, <1>6 DEF SetupHeld, Held
<1>8. QED
  BY <1>4, <1>7 DEF SetupInv

LEMMA SetupReadsBase ==
  ASSUME SetupInv, U!ReadsBase(Terminal)
  PROVE  SetupInv'
<1>1. PICK m, b, e : m = Mine /\ b = U!readIfPresent(v2) /\ e = [m EXCEPT !.pc = "settle", !.base = b]
  OBVIOUS
<1>2. m = [pc |-> m.pc, at |-> m.at, up |-> m.up, existing |-> m.existing,
           lifted |-> m.lifted, base |-> m.base, values |-> m.values]
  BY <1>1 DEF SetupInv, SetupRecord
<1>3. e = [pc |-> "settle", at |-> m.at, up |-> m.up, existing |-> m.existing,
           lifted |-> m.lifted, base |-> b, values |-> m.values]
  BY <1>1, <1>2
<1>4. /\ m.pc = "personal" /\ UNCHANGED <<v1, v2>>
      /\ v4' = [v4 EXCEPT ![Terminal].pc = "settle", ![Terminal].base = b]
  BY <1>1 DEF U!ReadsBase, U!At, Mine
<1>5. v4' = [v4 EXCEPT ![Terminal] = e]
  BY <1>1, <1>2, <1>3, <1>4 DEF SetupInv, SetupRecord, Mine
<1>6. Held(Declared, m.existing.values, m.lifted)
  BY <1>1, <1>4 DEF SetupInv, SetupHeld
<1>7. /\ e.pc = "settle" /\ e.at = m.at /\ e.existing = m.existing /\ e.lifted = m.lifted /\ e.base = b
      /\ e = [pc |-> e.pc, at |-> e.at, up |-> e.up, existing |-> e.existing,
              lifted |-> e.lifted, base |-> e.base, values |-> e.values]
  BY <1>3
<1>8. QED
  BY <1>1, <1>4, <1>5, <1>6, <1>7, SetupHolds DEF Underway

LEMMA SetupSettles ==
  ASSUME SetupInv, U!Settles(Terminal)
  PROVE  SetupInv'
<1>1. PICK m, P : m = Mine /\ P = Declared
  OBVIOUS
<1>2. m = [pc |-> m.pc, at |-> m.at, up |-> m.up, existing |-> m.existing,
           lifted |-> m.lifted, base |-> m.base, values |-> m.values]
  BY <1>1 DEF SetupInv, SetupRecord
<1>3. /\ m.pc = "settle" /\ UNCHANGED <<v1, v2>> /\ m.base = U!readIfPresent(v2)
      /\ Held(P, m.existing.values, m.lifted)
  BY <1>1 DEF U!Settles, U!At, Mine, SetupInv, SetupHeld
<1>4. PICK b, v, w :
        /\ v = U!merge(b, m.lifted)
        /\ DOMAIN m.lifted # {} => w \in U!askMissing(v)
        /\ v4' = [v4 EXCEPT ![Terminal].pc = "personalize", ![Terminal].values = w]
  BY <1>1 DEF U!Settles, Mine
<1>5. PICK e : e = [m EXCEPT !.pc = "personalize", !.values = w]
  OBVIOUS
<1>6. e = [pc |-> "personalize", at |-> m.at, up |-> m.up, existing |-> m.existing,
           lifted |-> m.lifted, base |-> m.base, values |-> w]
  BY <1>2, <1>5
<1>7. v4' = [v4 EXCEPT ![Terminal] = e]
  BY <1>1, <1>2, <1>4, <1>5, <1>6 DEF SetupInv, SetupRecord, Mine
\* What is lifted is neither asked about nor lost.
<1>8. ASSUME NEW f \in DOMAIN m.lifted, f \in {"size", "sshKeys"}
      PROVE  f \in DOMAIN w /\ w[f] = m.lifted[f]
  <2>1. f \in DOMAIN v /\ v[f] = m.lifted[f]
    <3>1. PICK o : o = m.lifted
      OBVIOUS
    <3>2. f \in DOMAIN o /\ v = U!merge(b, o)
      BY <1>4, <1>8, <3>1
    <3>3. DOMAIN v = DOMAIN b \cup DOMAIN o
      BY <3>2, MergedIs
    <3>4. v[f] = o[f]
      BY <3>2 DEF U!merge
    <3>5. QED
      BY <3>1, <3>2, <3>3, <3>4
  <2>2. w \in U!ask(U!PersonalQuestions \ DOMAIN v, v)
    BY <1>4, <1>8 DEF U!askMissing
  <2>3. QED
    BY <2>1, <2>2, AskKeeps
<1>9. Held(P, m.existing.values, w)
  BY <1>3, <1>8 DEF Held, Brought
<1>10. /\ e.pc = "personalize" /\ e.at = m.at /\ e.existing = m.existing /\ e.base = m.base
       /\ e.values = w
       /\ e = [pc |-> e.pc, at |-> e.at, up |-> e.up, existing |-> e.existing,
               lifted |-> e.lifted, base |-> e.base, values |-> e.values]
  BY <1>6
<1>11. QED
  BY <1>1, <1>3, <1>7, <1>9, <1>10, SetupHolds DEF Underway

LEMMA SetupAsks ==
  ASSUME SetupInv, U!AsksProject(Terminal)
  PROVE  SetupInv'
<1>1. PICK m, P : m = Mine /\ P = Declared
  OBVIOUS
<1>2. m = [pc |-> m.pc, at |-> m.at, up |-> m.up, existing |-> m.existing,
           lifted |-> m.lifted, base |-> m.base, values |-> m.values]
  BY <1>1 DEF SetupInv, SetupRecord
<1>3. /\ m.pc = "ask" /\ UNCHANGED <<v1, v2>>
      /\ Held(P, m.existing.values, v2.values) /\ (m.existing.there \/ DOMAIN P = {})
  <2>1. m.pc = "ask" /\ UNCHANGED <<v1, v2>>
    BY <1>1 DEF U!AsksProject, U!At, Mine
  <2>2. QED
    BY <1>1, <2>1 DEF SetupInv, SetupHeld, Underway
<1>4. PICK seed, w :
        /\ seed \in U!Seeds(Terminal) /\ w \in U!ask(U!ProjectQuestions, seed)
        /\ v4' = [v4 EXCEPT ![Terminal].pc = "write", ![Terminal].values = w]
  BY DEF U!AsksProject
<1>5. PICK e : e = [m EXCEPT !.pc = "write", !.values = w]
  OBVIOUS
<1>6. e = [pc |-> "write", at |-> m.at, up |-> m.up, existing |-> m.existing,
           lifted |-> m.lifted, base |-> m.base, values |-> w]
  BY <1>2, <1>5
<1>7. v4' = [v4 EXCEPT ![Terminal] = e]
  BY <1>1, <1>2, <1>4, <1>5, <1>6 DEF SetupInv, SetupRecord, Mine
<1>8. Held(P, w, v2.values)
  <2>1. CASE m.existing.there
    <3>1. seed = m.existing.values
      BY <1>1, <1>4, <2>1 DEF U!Seeds, Mine
    <3>2. \A f \in DOMAIN m.existing.values : f \in DOMAIN w
      BY <1>4, <3>1, AskKeeps
    <3>3. QED
      BY <1>3, <3>2 DEF Held
  <2>2. CASE DOMAIN P = {}
    BY <2>2 DEF Held
  <2>3. QED
    BY <1>3, <2>1, <2>2
<1>9. /\ e.pc = "write" /\ e.at = m.at /\ e.existing = m.existing /\ e.values = w
      /\ e = [pc |-> e.pc, at |-> e.at, up |-> e.up, existing |-> e.existing,
              lifted |-> e.lifted, base |-> e.base, values |-> e.values]
  BY <1>6
<1>10. QED
  BY <1>1, <1>3, <1>7, <1>8, <1>9, SetupHolds DEF Underway

\* base.pkl is written when it is new or another: otherwise it holds the values as it is.
LEMMA SetupWritesBase ==
  ASSUME SetupInv, U!WritesBase(Terminal)
  PROVE  SetupInv'
<1>1. PICK m, P, B0 : m = Mine /\ P = Declared /\ B0 = U!File(m.values)
  OBVIOUS
<1>2. m = [pc |-> m.pc, at |-> m.at, up |-> m.up, existing |-> m.existing,
           lifted |-> m.lifted, base |-> m.base, values |-> m.values]
  BY <1>1 DEF SetupInv, SetupRecord
<1>3. /\ m.pc = "personalize" /\ v1' = v1 /\ m.base = U!readIfPresent(v2)
      /\ v4' = [v4 EXCEPT ![Terminal].pc = "ask", ![Terminal].base = B0]
      /\ Held(P, m.existing.values, m.values)
      /\ m.at \in Name /\ (m.existing.there \/ DOMAIN P = {})
  BY <1>1 DEF U!WritesBase, U!At, Mine, SetupInv, SetupHeld, Underway
<1>4. \/ v2' = U!File(U!Render(m.values))
      \/ v2' = v2 /\ (DOMAIN m.values = {} \/ m.values = m.base.values)
  BY <1>1 DEF U!WritesBase, U!Writes, Mine
<1>5. PICK e : e = [m EXCEPT !.pc = "ask", !.base = B0]
  OBVIOUS
<1>6. e = [pc |-> "ask", at |-> m.at, up |-> m.up, existing |-> m.existing,
           lifted |-> m.lifted, base |-> B0, values |-> m.values]
  BY <1>2, <1>5
<1>7. v4' = [v4 EXCEPT ![Terminal] = e]
  BY <1>1, <1>2, <1>3, <1>5, <1>6 DEF SetupInv, SetupRecord, Mine
<1>8. ASSUME NEW f \in {"size", "sshKeys"}, f \in DOMAIN m.values
      PROVE  f \in DOMAIN v2'.values /\ v2'.values[f] = m.values[f]
  <2>1. CASE v2' = U!File(U!Render(m.values))
    <3>1. PICK o, w, F : o = v2'.values /\ w = m.values /\ F = U!fieldOrder
      OBVIOUS
    <3>2. o = U!Only(w, F)
      BY <2>1, <3>1 DEF U!File, U!Render
    <3>3. f \in DOMAIN w \cap F
      BY <1>8, <3>1 DEF U!fieldOrder, U!KnownField
    <3>4. f \in DOMAIN o /\ o[f] = w[f]
      BY <3>2, <3>3, OnlyThese
    <3>5. QED
      BY <3>1, <3>4
  <2>2. CASE v2' = v2 /\ m.values = m.base.values
    <3>1. PICK o, w, F : o = v2.values /\ w = m.values
                         /\ F = U!declaredFields(v2.values) \cap U!fieldOrder
      OBVIOUS
    <3>2. w = U!Only(o, F)
      BY <1>3, <2>2, <3>1 DEF U!readIfPresent, U!Holding, U!ReadValues
    <3>3. DOMAIN w = DOMAIN o \cap F
      BY <3>2, OnlyThese
    <3>4. f \in DOMAIN o \cap F
      BY <1>8, <3>1, <3>3
    <3>5. w[f] = o[f]
      BY <3>2, <3>4, OnlyThese
    <3>6. QED
      BY <2>2, <3>1, <3>4, <3>5
  <2>3. QED
    BY <1>4, <1>8, <2>1, <2>2
<1>9. Held(P, m.existing.values, v2'.values)
  BY <1>3, <1>8 DEF Held, Brought
<1>10. Mine' = e /\ v4' = [c \in {Terminal} |-> v4'[c]]
  BY <1>7, SetupMoved
<1>11. /\ e.pc = "ask" /\ e.at = m.at /\ e.existing = m.existing
       /\ e = [pc |-> e.pc, at |-> e.at, up |-> e.up, existing |-> e.existing,
               lifted |-> e.lifted, base |-> e.base, values |-> e.values]
  BY <1>6
<1>12. Declared' = P
  BY <1>1, <1>3, <1>10, <1>11 DEF Declared
<1>13. SetupFiles' /\ SetupRecord'
  BY <1>3, <1>10, <1>11 DEF SetupInv, SetupFiles, SetupRecord
<1>14. SetupHeld'
  BY <1>3, <1>9, <1>10, <1>11, <1>12 DEF SetupHeld, Held
<1>15. QED
  BY <1>13, <1>14 DEF SetupInv

\* The project's file is written last; what is not in it any more is in base.pkl.
LEMMA SetupWritesProject ==
  ASSUME SetupInv, U!WritesProject(Terminal)
  PROVE  SetupInv' /\ U!Moving
<1>1. PICK m, P, new : m = Mine /\ P = Declared /\ new = U!File(U!Render(m.values))
  OBVIOUS
<1>2. m = [pc |-> m.pc, at |-> m.at, up |-> m.up, existing |-> m.existing,
           lifted |-> m.lifted, base |-> m.base, values |-> m.values]
  BY <1>1 DEF SetupInv, SetupRecord
<1>3. m.pc = "write" /\ m.at \in Name /\ Held(P, m.values, v2.values)
  BY <1>1 DEF U!WritesProject, U!At, Mine, SetupInv, SetupHeld, Underway
<1>4. /\ v1' = [v1 EXCEPT ![m.at] = new] /\ v2' = v2
      /\ v4' = [v4 EXCEPT ![Terminal].pc = "check"]
  BY <1>1 DEF U!WritesProject, U!Goto, U!Here, Mine
<1>5. PICK w, F : w = m.values /\ F = U!fieldOrder
  OBVIOUS
<1>6. new.there = TRUE /\ new.values = U!Only(w, F)
  BY <1>1, <1>5 DEF U!File, U!Render
<1>7. DOMAIN new.values = DOMAIN w \cap F
  BY <1>6, OnlyThese
<1>8. F \subseteq U!KnownField /\ U!KnownField \subseteq F \cup {"provider"}
  BY <1>5 DEF U!fieldOrder
<1>9. v1' = [p \in Name |-> IF p = m.at THEN new ELSE v1[p]] /\ SetupFiles
  BY <1>4 DEF SetupInv, SetupFiles
<1>10. SetupFiles'
  BY <1>6, <1>7, <1>8, <1>9 DEF SetupFiles
<1>11. SetupInv'
  <2>1. PICK e : e = [m EXCEPT !.pc = "check"]
    OBVIOUS
  <2>2. e = [pc |-> "check", at |-> m.at, up |-> m.up, existing |-> m.existing,
             lifted |-> m.lifted, base |-> m.base, values |-> m.values]
    BY <1>2, <2>1
  <2>3. v4' = [v4 EXCEPT ![Terminal] = e]
    BY <1>1, <1>2, <1>4, <2>1, <2>2 DEF SetupInv, SetupRecord, Mine
  <2>4. /\ e.pc = "check"
        /\ e = [pc |-> e.pc, at |-> e.at, up |-> e.up, existing |-> e.existing,
                lifted |-> e.lifted, base |-> e.base, values |-> e.values]
    BY <2>2
  <2>5. QED
    BY <1>10, <2>3, <2>4, SetupQuiet DEF Underway
<1>12. ASSUME NEW p \in Name, NEW f \in DOMAIN v1[p].values, f \notin DOMAIN v1'[p].values
       PROVE  Spared(v1[p].values, f) \/ Brought(v1[p].values, v2'.values, f)
  <2>1. p = m.at
    BY <1>9, <1>12
  <2>2. v1[p].values = P /\ v1'[p].values = new.values
    BY <1>1, <1>9, <2>1 DEF Declared
  <2>3. f \in DOMAIN P /\ DOMAIN P \subseteq U!KnownField
    BY <1>9, <1>12, <2>2 DEF SetupFiles
  <2>4. f \notin DOMAIN w \/ f = "provider"
    BY <1>7, <1>8, <1>12, <2>2, <2>3
  <2>5. Spared(P, f) \/ Brought(P, v2.values, f)
    BY <1>3, <1>5, <2>3, <2>4 DEF Held, Spared
  <2>6. QED
    BY <1>4, <2>2, <2>5
<1>13. U!Moving
  BY <1>12 DEF U!Moving, Spared, Brought
<1>14. QED
  BY <1>11, <1>13

\* The commands init is not one of, and the ends of it.
LEMMA SetupElsewhere ==
  ASSUME SetupInv, SetupFiles', NEW e, v4' = [v4 EXCEPT ![Terminal] = e],
         \/ e = U!Idle
         \/ \E pc \in {"preset", "ensure"} : e = [Mine EXCEPT !.pc = pc]
         \/ \E f : e = [Mine EXCEPT !.pc = "keys", !.base = f]
         \/ \E v : e = [Mine EXCEPT !.pc = "edit", !.values = v]
         \/ \E p : e = [U!Idle EXCEPT !.at = p, !.up = TRUE, !.pc = "ensure"]
  PROVE  SetupInv'
<1>1. PICK m, idle : m = Mine /\ idle = U!Idle
  OBVIOUS
<1>2. m = [pc |-> m.pc, at |-> m.at, up |-> m.up, existing |-> m.existing,
           lifted |-> m.lifted, base |-> m.base, values |-> m.values]
  BY <1>1 DEF SetupInv, SetupRecord
<1>3. idle = [pc |-> "idle", at |-> "none", up |-> FALSE, existing |-> U!NoFile,
              lifted |-> <<>>, base |-> U!NoFile, values |-> <<>>]
  BY <1>1 DEF U!Idle
<1>4. CASE e = idle
  BY <1>3, <1>4, SetupQuiet DEF Underway
<1>5. ASSUME NEW pc \in {"preset", "ensure"}, e = [m EXCEPT !.pc = pc]
      PROVE  SetupInv'
  <2>1. e = [pc |-> pc, at |-> m.at, up |-> m.up, existing |-> m.existing,
             lifted |-> m.lifted, base |-> m.base, values |-> m.values]
    BY <1>2, <1>5
  <2>2. QED
    BY <1>5, <2>1, SetupQuiet DEF Underway
<1>6. ASSUME NEW f, e = [m EXCEPT !.pc = "keys", !.base = f]
      PROVE  SetupInv'
  <2>1. e = [pc |-> "keys", at |-> m.at, up |-> m.up, existing |-> m.existing,
             lifted |-> m.lifted, base |-> f, values |-> m.values]
    BY <1>2, <1>6
  <2>2. QED
    BY <2>1, SetupQuiet DEF Underway
<1>7. ASSUME NEW v, e = [m EXCEPT !.pc = "edit", !.values = v]
      PROVE  SetupInv'
  <2>1. e = [pc |-> "edit", at |-> m.at, up |-> m.up, existing |-> m.existing,
             lifted |-> m.lifted, base |-> m.base, values |-> v]
    BY <1>2, <1>7
  <2>2. QED
    BY <2>1, SetupQuiet DEF Underway
<1>8. ASSUME NEW p, e = [idle EXCEPT !.at = p, !.up = TRUE, !.pc = "ensure"]
      PROVE  SetupInv'
  <2>1. e = [pc |-> "ensure", at |-> p, up |-> TRUE, existing |-> U!NoFile,
             lifted |-> <<>>, base |-> U!NoFile, values |-> <<>>]
    BY <1>3, <1>8
  <2>2. QED
    BY <2>1, SetupQuiet DEF Underway
<1>9. QED
  BY <1>1, <1>4, <1>5, <1>6, <1>7, <1>8

LEMMA SetupStarts ==
  ASSUME SetupInv, NEW p \in Name, U!StartsInit(Terminal, p) \/ U!StartsUp(Terminal, p)
  PROVE  SetupInv'
<1>1. PICK idle, file, P : idle = U!Idle /\ file = U!readIfPresent(v1[p]) /\ P = v1[p].values
  OBVIOUS
<1>2. idle = [pc |-> "idle", at |-> "none", up |-> FALSE, existing |-> U!NoFile,
              lifted |-> <<>>, base |-> U!NoFile, values |-> <<>>]
  BY <1>1 DEF U!Idle
<1>3. v1' = v1 /\ v2' = v2 /\ SetupFiles'
  BY DEF U!StartsInit, U!StartsUp, SetupInv, SetupFiles
<1>4. ASSUME NEW e, v4' = [v4 EXCEPT ![Terminal] = e], NEW up, NEW f,
             e = [pc |-> "move", at |-> p, up |-> up, existing |-> f, lifted |-> <<>>,
                  base |-> U!NoFile, values |-> <<>>],
             f.there \/ DOMAIN P = {}, DOMAIN f.values \subseteq U!KnownField,
             \A g \in DOMAIN P : g = "provider" \/ (g \in DOMAIN f.values /\ f.values[g] = P[g])
      PROVE  SetupInv'
  <2>1. Mine' = e /\ v4' = [c \in {Terminal} |-> v4'[c]]
    BY <1>4, SetupMoved
  <2>2. /\ e.pc = "move" /\ e.at = p /\ e.existing = f
        /\ e = [pc |-> e.pc, at |-> e.at, up |-> e.up, existing |-> e.existing,
                lifted |-> e.lifted, base |-> e.base, values |-> e.values]
    BY <1>4
  <2>3. Declared' = P
    BY <1>1, <1>3, <2>1, <2>2 DEF Declared
  <2>4. SetupRecord'
    BY <2>1, <2>2 DEF SetupRecord
  <2>5. SetupHeld'
    BY <1>4, <2>1, <2>2, <2>3 DEF SetupHeld
  <2>6. QED
    BY <1>3, <2>4, <2>5 DEF SetupInv
<1>5. DOMAIN P \subseteq (IF v1[p].there THEN U!KnownField ELSE {}) /\ v1[p].there \in BOOLEAN
  BY <1>1 DEF SetupInv, SetupFiles
<1>6. CASE U!StartsInit(Terminal, p)
  <2>1. PICK e : e = [idle EXCEPT !.pc = "move", !.at = p, !.existing = file]
    OBVIOUS
  <2>2. v4' = [v4 EXCEPT ![Terminal] = e]
    BY <1>1, <1>6, <2>1 DEF U!StartsInit
  <2>3. e = [pc |-> "move", at |-> p, up |-> FALSE, existing |-> file, lifted |-> <<>>,
             base |-> U!NoFile, values |-> <<>>]
    BY <1>2, <2>1
  <2>4. PICK F : F = U!declaredFields(P) \cap U!fieldOrder
    OBVIOUS
  <2>5. file.there = v1[p].there /\ file.values = U!Only(P, F)
    BY <1>1, <2>4 DEF U!readIfPresent, U!Holding, U!ReadValues
  <2>6. F = (DOMAIN P \cap U!KnownField) \ {"provider"} /\ F \subseteq DOMAIN P
    BY <2>4 DEF U!declaredFields, U!fieldOrder
  <2>7. DOMAIN file.values = DOMAIN P \cap F
    BY <2>5, OnlyThese
  <2>8. DOMAIN file.values \subseteq U!KnownField
    BY <2>6, <2>7
  <2>9. ASSUME NEW g \in DOMAIN P, g # "provider"
        PROVE  g \in DOMAIN file.values /\ file.values[g] = P[g]
    <3>1. g \in DOMAIN P \cap F
      BY <1>5, <2>6, <2>9
    <3>2. U!Only(P, F)[g] = P[g]
      BY <3>1 DEF U!Only
    <3>3. QED
      BY <2>5, <2>7, <3>1, <3>2
  <2>10. file.there \/ DOMAIN P = {}
    BY <1>5, <2>5
  <2>11. \A g \in DOMAIN P : g = "provider" \/ (g \in DOMAIN file.values /\ file.values[g] = P[g])
    BY <2>9
  <2>12. QED
    BY <1>4, <2>2, <2>3, <2>8, <2>10, <2>11
<1>7. ASSUME ~v1[p].there, v4' = [v4 EXCEPT ![Terminal] = [U!Idle EXCEPT !.at = p, !.up = TRUE, !.pc = "move"]]
      PROVE  SetupInv'
  <2>1. PICK e, none : /\ e = [idle EXCEPT !.at = p, !.up = TRUE, !.pc = "move"]
                       /\ none = [there |-> FALSE, values |-> <<>>]
    OBVIOUS
  <2>2. e = [pc |-> "move", at |-> p, up |-> TRUE, existing |-> none, lifted |-> <<>>,
             base |-> U!NoFile, values |-> <<>>]
    BY <1>2, <2>1 DEF U!NoFile
  <2>3. DOMAIN P = {} /\ DOMAIN none.values = {}
    <3>1. DOMAIN P = {}
      BY <1>5, <1>7
    <3>2. none.values = << >>
      BY <2>1
    <3>3. DOMAIN << >> = {}
      OBVIOUS
    <3>4. QED
      BY <3>1, <3>2, <3>3
  <2>4. v4' = [v4 EXCEPT ![Terminal] = e]
    BY <1>1, <1>7, <2>1
  <2>5. QED
    BY <1>4, <2>2, <2>3, <2>4
<1>8. ASSUME NEW e, v4' = [v4 EXCEPT ![Terminal] = e],
             e = U!Idle \/ \E q : e = [U!Idle EXCEPT !.at = q, !.up = TRUE, !.pc = "ensure"]
      PROVE  SetupInv'
  BY <1>3, <1>8, SetupElsewhere
<1>9. CASE U!StartsUp(Terminal, p)
  <2>1. CASE v1[p].there /\ ~U!Resolves(p)
    BY <1>8, <1>9, <2>1 DEF U!StartsUp, U!Ends
  <2>2. CASE v1[p].there /\ U!Resolves(p)
    BY <1>8, <1>9, <2>2 DEF U!StartsUp
  <2>3. CASE ~v1[p].there
    BY <1>7, <1>9, <2>3 DEF U!StartsUp
  <2>4. QED
    BY <1>5, <2>1, <2>2, <2>3
<1>10. QED
  BY <1>6, <1>9

\* The two commands of one step.
LEMMA SetupAtOnce ==
  ASSUME SetupInv, U!DeletesPreset(Terminal) \/ U!SetsImage(Terminal)
  PROVE  SetupInv' /\ U!Moving
<1>1. Mine.pc = "idle" /\ v4' = v4
  BY DEF U!DeletesPreset, U!SetsImage, U!Begins, U!At, Mine
<1>2. v1' = v1 \/ (\E p \in Name : v1[p].there /\ v1' = [v1 EXCEPT ![p] = U!WithImage(@)])
  BY DEF U!DeletesPreset, U!SetsImage
<1>3. CASE v1' = v1
  BY <1>1, <1>3 DEF U!Moving, SetupInv, SetupFiles, SetupRecord, SetupHeld, Mine, Underway
<1>4. ASSUME NEW p \in Name, v1[p].there, v1' = [v1 EXCEPT ![p] = U!WithImage(@)]
      PROVE  SetupInv' /\ U!Moving
  <2>1. PICK P, r, new : P = v1[p].values /\ r = [image |-> "tag"] /\ new = U!WithImage(v1[p])
    OBVIOUS
  <2>2. new.there = v1[p].there /\ new.values = U!merge(P, r) /\ DOMAIN r = {"image"}
    BY <2>1 DEF U!WithImage, U!Holding
  <2>3. DOMAIN new.values = DOMAIN P \cup {"image"}
    BY <2>2 DEF U!merge
  <2>4. v1' = [q \in Name |-> IF q = p THEN new ELSE v1[q]] /\ SetupFiles
    BY <1>4, <2>1 DEF SetupInv, SetupFiles
  <2>5. DOMAIN P \subseteq U!KnownField /\ "image" \in U!KnownField
    BY <1>4, <2>1, <2>4 DEF SetupFiles, U!KnownField
  <2>6. SetupFiles'
    BY <1>4, <2>2, <2>3, <2>4, <2>5 DEF SetupFiles
  <2>7. SetupInv'
    BY <1>1, <2>6 DEF SetupInv, SetupRecord, SetupHeld, Mine, Underway
  <2>8. U!Moving
    BY <2>1, <2>3, <2>4 DEF U!Moving
  <2>9. QED
    BY <2>7, <2>8
<1>5. QED
  BY <1>2, <1>3, <1>4

LEMMA SetupStays ==
  ASSUME SetupInv, UNCHANGED <<v1, v2, v4>>
  PROVE  SetupInv'
<1>1. Mine' = Mine /\ Declared' = Declared
  BY DEF Mine, Declared
<1>2. U!readIfPresent(v2)' = U!readIfPresent(v2)
  BY DEF U!readIfPresent, U!Holding, U!ReadValues, U!Only, U!declaredFields
<1>3. SetupFiles' /\ SetupRecord'
  BY <1>1 DEF SetupInv, SetupFiles, SetupRecord
<1>4. SetupHeld'
  BY <1>1, <1>2 DEF SetupInv, SetupHeld, Held
<1>5. QED
  BY <1>3, <1>4 DEF SetupInv

LEMMA SetupNext ==
  ASSUME SetupInv, U!Next
  PROVE  SetupInv' /\ U!Moving
<1> DEFINE T == Terminal
<1>1. \/ \E p \in Name : U!StartsInit(T, p) \/ U!StartsUp(T, p)
      \/ U!Moves(T) \/ U!ReadsBase(T) \/ U!Settles(T) \/ U!WritesBase(T) \/ U!AsksProject(T)
      \/ U!WritesProject(T) \/ U!ReadsBack(T) \/ U!OffersPreset(T) \/ U!Ensures(T) \/ U!ChoosesKeys(T)
      \/ U!EditsPreset(T) \/ U!SavesEdit(T) \/ U!DeletesPreset(T) \/ U!SetsImage(T)
      \/ U!Interrupted(T)
  BY Zenon DEF U!Next
\* Only the last step of init and the two commands of one step write a project's file.
<1>2. v1' = v1 => U!Moving /\ SetupFiles'
  BY DEF U!Moving, SetupInv, SetupFiles
<1>3. ASSUME NEW p \in Name, U!StartsInit(T, p) \/ U!StartsUp(T, p)
      PROVE  SetupInv' /\ U!Moving
  <2>1. v1' = v1
    BY <1>3 DEF U!StartsInit, U!StartsUp
  <2>2. QED
    BY <1>2, <1>3, <2>1, SetupStarts
<1>4. CASE U!Moves(T) \/ U!ReadsBase(T) \/ U!Settles(T) \/ U!WritesBase(T) \/ U!AsksProject(T)
  <2>1. v1' = v1
    BY <1>4 DEF U!Moves, U!ReadsBase, U!Settles, U!WritesBase, U!AsksProject
  <2>2. QED
    BY <1>2, <1>4, <2>1, SetupLifts, SetupReadsBase, SetupSettles, SetupWritesBase, SetupAsks
<1>5. CASE U!WritesProject(T)
  BY <1>5, SetupWritesProject
<1>6. CASE U!DeletesPreset(T) \/ U!SetsImage(T)
  BY <1>6, SetupAtOnce
<1>7. ASSUME v1' = v1, NEW e, v4' = [v4 EXCEPT ![T] = e],
             \/ e = U!Idle
             \/ \E pc \in {"preset", "ensure"} : e = [Mine EXCEPT !.pc = pc]
             \/ \E f : e = [Mine EXCEPT !.pc = "keys", !.base = f]
             \/ \E v : e = [Mine EXCEPT !.pc = "edit", !.values = v]
      PROVE  SetupInv' /\ U!Moving
  BY <1>2, <1>7, SetupElsewhere
<1>8. CASE v1' = v1 /\ U!Ends(T)
  BY <1>7, <1>8 DEF U!Ends
<1>9. ASSUME v1' = v1, NEW pc \in {"preset", "ensure"}, U!Goto(T, pc)
      PROVE  SetupInv' /\ U!Moving
  <2>1. PICK m, e : m = Mine /\ e = [m EXCEPT !.pc = pc]
    OBVIOUS
  <2>2. v4' = [v4 EXCEPT ![T] = e]
    BY <1>9, <2>1 DEF U!Goto, Mine, SetupInv, SetupRecord
  <2>3. QED
    BY <1>7, <1>9, <2>1, <2>2
<1>10. CASE U!ReadsBack(T) \/ U!OffersPreset(T) \/ U!ChoosesKeys(T) \/ U!SavesEdit(T) \/ U!Interrupted(T)
  <2>1. v1' = v1
    BY <1>10 DEF U!ReadsBack, U!OffersPreset, U!ChoosesKeys, U!SavesEdit, U!Interrupted
  <2>2. \/ U!Ends(T)
        \/ U!Goto(T, "preset") \/ U!Goto(T, "ensure")
    BY Zenon, <1>10 DEF U!ReadsBack, U!OffersPreset, U!ChoosesKeys, U!SavesEdit, U!Interrupted
  <2>3. QED
    BY <1>8, <1>9, <2>1, <2>2
<1>11. CASE U!Ensures(T)
  <2>1. v1' = v1
    BY <1>11 DEF U!Ensures
  <2>2. CASE U!Ends(T)
    BY <1>8, <2>1, <2>2
  <2>3. ASSUME v4' = [v4 EXCEPT ![T].pc = "keys", ![T].base = U!readIfPresent(v2)]
        PROVE  SetupInv' /\ U!Moving
    <3>1. PICK m, f, e : /\ m = Mine /\ f = U!readIfPresent(v2)
                         /\ e = [m EXCEPT !.pc = "keys", !.base = f]
      OBVIOUS
    <3>2. v4' = [v4 EXCEPT ![T] = e]
      BY <2>3, <3>1 DEF Mine, SetupInv, SetupRecord
    <3>3. QED
      BY <1>7, <2>1, <3>1, <3>2
  <2>4. QED
    BY <1>11, <2>2, <2>3 DEF U!Ensures
<1>12. CASE U!EditsPreset(T)
  <2>1. /\ v1' = v1
        /\ v4' = [v4 EXCEPT ![T].pc = "edit", ![T].values = U!ReadValues(v3.values)]
    BY <1>12 DEF U!EditsPreset
  <2>2. PICK m, v, e : /\ m = Mine /\ v = U!ReadValues(v3.values)
                       /\ e = [m EXCEPT !.pc = "edit", !.values = v]
    OBVIOUS
  <2>3. v4' = [v4 EXCEPT ![T] = e]
    BY <2>1, <2>2 DEF Mine, SetupInv, SetupRecord
  <2>4. QED
    BY <1>7, <2>1, <2>2, <2>3
<1>13. QED
  BY <1>1, <1>3, <1>4, <1>5, <1>6, <1>10, <1>11, <1>12

\* A setting that init takes out of a project's file is in base.pkl by then, with the
\* project's value, whatever was answered and wherever the questions were interrupted.
THEOREM MovedSettingsAreKept == SessionsSpec => MovedIsKept
<1> DEFINE I == part = "setup" => SetupInv
<1>a. U!SetupAssumption
  BY PartsAssumption DEF PartsAssumption
<1>1. PartInit => I
  BY <1>a, SetupInit DEF PartInit
<1>2. I /\ [/\ \/ IssuesMove \/ Parts
            /\ UNCHANGED part]_all => I'
  <2> SUFFICES ASSUME I, part = "setup", [(IssuesMove \/ Parts) /\ UNCHANGED part]_all
               PROVE  SetupInv'
    BY DEF all
  <2>1. CASE UNCHANGED all
    <3>1. UNCHANGED <<v1, v2, v4>>
      BY <2>1 DEF all
    <3>2. QED
      BY <3>1, SetupStays
  <2>2. CASE IssuesMove \/ Parts
    <3>1. U!Next
      BY <2>2 DEF Parts, IssuesMove, SeedingMoves, AgentMoves, LayoutMoves, AccessMoves,
         SetupMoves, ServingMoves, SidebarMoves
    <3>2. QED
      BY <3>1, SetupNext
  <2>3. QED
    BY <2>1, <2>2
<1>3. I /\ [/\ \/ IssuesMove \/ Parts
            /\ UNCHANGED part]_all => [part = "setup" => U!Moving]_all
  <2> SUFFICES ASSUME I, part = "setup", IssuesMove \/ Parts
               PROVE  U!Moving
    OBVIOUS
  <2>1. U!Next
    BY DEF Parts, IssuesMove, SeedingMoves, AgentMoves, LayoutMoves, AccessMoves,
       SetupMoves, ServingMoves, SidebarMoves
  <2>2. QED
    BY <2>1, SetupNext
<1>4. QED
  BY <1>1, <1>2, <1>3, PTL DEF SessionsSpec, Parts, MovedIsKept

-------------------------------------------------------------------------------
(* Layout: while the user leaves the workspace alone, what a running attach  *)
(* has laid out is there: the tabs before the one it is at, and that one's   *)
(* panes before the one it is at. Only one attach runs (Overlap is FALSE).   *)

\* A pane carries a label, or did when the attach listed the panes.
Shown(s, p, w) == v2[p].label = w \/ (p \in DOMAIN s.seenPanes /\ s.seenPanes[p].label = w)
PaneIn(s, x, w) == \E p \in DOMAIN v2 : v2[p].tab = x /\ Shown(s, p, w)
Laid(s, i) == \E x \in DOMAIN v1 :
                /\ v1[x] = s.layout[i].label
                /\ \A k \in DOMAIN s.layout[i].panes : PaneIn(s, x, s.layout[i].panes[k])

\* A default tab to take is there, and has no configured label.
LayoutSpare(s) ==
  \A d \in s.spare : /\ d.tab \in DOMAIN v1 /\ v1[d.tab] \notin L!Configured(s.layout)
                     /\ d.root \in DOMAIN v2 /\ v2[d.root].tab = d.tab

\* The listings are right about where things are, and about the configured labels.
LayoutSeen(s) ==
  /\ \A x \in DOMAIN s.seenTabs : /\ x \in DOMAIN v1
                                  /\ \/ s.seenTabs[x].label = v1[x]
                                     \/ s.seenTabs[x].label \notin L!Configured(s.layout)
  /\ \A p \in DOMAIN s.seenPanes : p \in DOMAIN v2 /\ v2[p].tab = s.seenPanes[p].tab

LayoutTab(s) ==
  \A i \in DOMAIN s.layout : i < s.t => s.layout[i].label \in s.missed \/ Laid(s, i)

\* The tab being laid out: its panes before the k-th are there, and the next goes into it.
LayoutPane(s) ==
  /\ s.t \in DOMAIN s.layout /\ s.tab \in DOMAIN v1 /\ v1[s.tab] = s.layout[s.t].label
  /\ \A j \in DOMAIN s.layout[s.t].panes : j < s.k => PaneIn(s, s.tab, s.layout[s.t].panes[j])
  /\ s.anchor \in DOMAIN v2 => v2[s.anchor].tab = s.tab
  /\ s.pc = "pane" /\ s.k = 1 /\ s.root # 0 => s.root \in DOMAIN v2 /\ v2[s.root].tab = s.tab
  /\ s.pc \in {"name", "run"} => /\ s.k \in DOMAIN s.layout[s.t].panes
                                 /\ s.pane \in DOMAIN v2 /\ v2[s.pane].tab = s.tab
  /\ s.pc = "name" => s.k = 1 \/ v2[s.pane].label = L!NoLabel
  /\ s.pc = "run" => v2[s.pane].label = s.layout[s.t].panes[s.k]

\* What holds of a running attach while the user leaves the workspace alone.
LayoutSoFar(s) ==
  /\ s.pc \in {"spare", "list"} => s.t = 1
  /\ s.pc = "spare" => s.spare = {}
  /\ LayoutSpare(s)
  /\ s.pc \notin {"spare", "list"} => LayoutSeen(s) /\ LayoutTab(s)
  /\ s.pc \in {"pane", "name", "run"} => LayoutPane(s)

LayoutBusy(s) == s.pc \notin {"new", "done"}

LayoutRecord(s) ==
  s = [pc |-> s.pc, layout |-> s.layout, spare |-> s.spare, seenTabs |-> s.seenTabs,
       seenPanes |-> s.seenPanes, t |-> s.t, k |-> s.k, tab |-> s.tab, anchor |-> s.anchor,
       root |-> s.root, pane |-> s.pane, missed |-> s.missed, since |-> s.since]

LayoutAttach(s) ==
  /\ LayoutRecord(s)
  /\ s.t \in Nat \ {0} /\ s.k \in Nat \ {0} /\ s.since \in Nat
  /\ s.pc = "new" => s.t = 1 /\ s.spare = {}
  /\ LayoutBusy(s) => s.layout \in Layouts

PaneRecord(r) == r = [tab |-> r.tab, label |-> r.label]

LayoutFrame ==
  /\ v3 \in Nat /\ v5 \in Nat
  /\ DOMAIN v1 \subseteq 1..v3 /\ DOMAIN v2 \subseteq 1..v3
  /\ v1 = [x \in DOMAIN v1 |-> v1[x]] /\ v2 = [p \in DOMAIN v2 |-> v2[p]]
  /\ \A p \in DOMAIN v2 : PaneRecord(v2[p]) /\ v2[p].tab \in 1..v3

LayoutInv ==
  /\ LayoutFrame
  /\ v4 = [a \in Process |-> v4[a]]
  /\ \A a \in Process : LayoutAttach(v4[a]) /\ v4[a].since <= v5
  /\ \A a, b \in Process : LayoutBusy(v4[a]) /\ LayoutBusy(v4[b]) => a = b
  /\ \A a \in Process : LayoutBusy(v4[a]) /\ v4[a].since = v5 => LayoutSoFar(v4[a])

\* What the configurations are, one by one.
LEMMA LayoutsAre ==
  ASSUME NEW l \in Layouts
  PROVE  /\ DOMAIN l = 1..Len(l) /\ Len(l) \in Nat
         /\ \A i \in DOMAIN l : /\ DOMAIN l[i].panes = 1..Len(l[i].panes) /\ Len(l[i].panes) \in Nat
                              /\ \A k \in DOMAIN l[i].panes : l[i].panes[k] # L!NoLabel
         /\ \A i, j \in DOMAIN l : l[i].label = l[j].label => i = j
<1>1. L!LayoutAssumption
  BY PartsAssumption DEF PartsAssumption
<1>2. l \in Seq([label : STRING, away : BOOLEAN, panes : Seq(STRING)])
  BY <1>1 DEF L!LayoutAssumption
<1>3. ASSUME NEW i \in DOMAIN l
      PROVE  DOMAIN l[i].panes = 1..Len(l[i].panes) /\ Len(l[i].panes) \in Nat
  <2>1. PICK r : r = l[i]
    OBVIOUS
  <2>2. r \in [label : STRING, away : BOOLEAN, panes : Seq(STRING)]
    <3>1. PICK R : R = [label : STRING, away : BOOLEAN, panes : Seq(STRING)]
      OBVIOUS
    <3>2. l \in Seq(R) /\ i \in 1..Len(l)
      BY <1>2, <3>1
    <3>3. l[i] \in R
      BY Zenon, <3>2, ElementOfSeq
    <3>4. QED
      BY <2>1, <3>1, <3>3
  <2>3. PICK p : p = r.panes /\ p \in Seq(STRING)
    BY <2>2
  <2>4. DOMAIN p = 1..Len(p) /\ Len(p) \in Nat
    BY <2>3
  <2>5. QED
    BY <2>1, <2>3, <2>4
<1>4. QED
  BY <1>1, <1>2, <1>3 DEF L!LayoutAssumption

LEMMA LowestIs == ASSUME NEW T \in SUBSET Nat, T # {} PROVE L!Lowest(T) \in T
<1>1. PICK m \in T : \A n \in T : m <= n
  BY NatMin
<1>2. QED
  BY <1>1 DEF L!Lowest

LEMMA LayoutInit ==
  ASSUME L!LayoutAssumption, L!Init
  PROVE  LayoutInv
<1>1. LayoutFrame
  <2>1. PICK n : n = L!Pane(1)
    OBVIOUS
  <2>2. PaneRecord(n) /\ n.tab = 1
    BY <2>1 DEF L!Pane, PaneRecord
  <2>3. v1 = [t \in {1} |-> "1"] /\ v2 = [p \in {1} |-> n] /\ v3 = 1 /\ v5 = 0
    BY <2>1 DEF L!Init
  <2>4. QED
    BY <2>2, <2>3 DEF LayoutFrame
<1>2. \A a \in Process : v4[a] = L!New
  BY DEF L!Init
<1>3. PICK e : e = L!New
  OBVIOUS
<1>4. e.pc = "new" /\ e.t = 1 /\ e.k = 1 /\ e.since = 0 /\ e.spare = {} /\ LayoutRecord(e)
  BY <1>3 DEF L!New, LayoutRecord
<1>5. LayoutAttach(e) /\ ~LayoutBusy(e)
  BY <1>4 DEF LayoutAttach, LayoutBusy
<1>6. v5 = 0 /\ v4 = [a \in Process |-> v4[a]]
  BY DEF L!Init
<1>7. QED
  BY <1>1, <1>2, <1>3, <1>4, <1>5, <1>6 DEF LayoutInv

\* A step of an attach that leaves it as e; no other one is running.
LEMMA LayoutStep ==
  ASSUME LayoutInv, LayoutFrame', v5' = v5, NEW a \in Process, NEW e,
         v4' = [v4 EXCEPT ![a] = e], LayoutAttach(e), e.since <= v5,
         \A b \in Process \ {a} : ~LayoutBusy(v4[b]),
         LayoutBusy(e) /\ e.since = v5 => LayoutSoFar(e)'
  PROVE  LayoutInv'
<1>1. v4' = [b \in Process |-> v4'[b]] /\ v4'[a] = e /\ \A b \in Process \ {a} : v4'[b] = v4[b]
  BY DEF LayoutInv
<1>2. \A b \in Process : LayoutAttach(v4'[b]) /\ v4'[b].since <= v5'
  BY <1>1 DEF LayoutInv
<1>3. \A b \in Process : LayoutBusy(v4'[b]) => b = a
  BY <1>1
<1>4. \A b \in Process : LayoutAttach(v4[b])' /\ LayoutBusy(v4[b])' = LayoutBusy(v4'[b])
  BY <1>2 DEF LayoutAttach, LayoutRecord, LayoutBusy
<1>5. ASSUME LayoutBusy(v4[a])', v4[a].since' = v5'
      PROVE  LayoutSoFar(v4[a])'
  <2>1. LayoutSoFar(e)'
    BY <1>1, <1>5 DEF LayoutBusy
  <2>2. v4[a]' = e
    BY <1>1
  <2>3. QED
    BY <2>1, <2>2
<1>6. \A b \in Process : v4[b].since' <= v5'
  BY <1>2
<1>7. \A b \in Process : LayoutBusy(v4[b])' => b = a
  BY <1>3, <1>4
<1>8. \A b \in Process : LayoutBusy(v4[b])' /\ v4[b].since' = v5' => LayoutSoFar(v4[b])'
  BY <1>5, <1>7
<1>9. QED
  BY <1>1, <1>4, <1>6, <1>7, <1>8 DEF LayoutInv

\* Nothing moves to another tab, and only tabs without a configured label are renamed.
LayoutTabsStay ==
  /\ DOMAIN v1 \subseteq DOMAIN v1' /\ \A x \in DOMAIN v1 : v1'[x] = v1[x]
  /\ DOMAIN v2 \subseteq DOMAIN v2' /\ \A p \in DOMAIN v2 : v2'[p].tab = v2[p].tab

LayoutLabelsStay == LayoutTabsStay /\ \A p \in DOMAIN v2 : v2'[p].label = v2[p].label

LEMMA SeenStays ==
  ASSUME LayoutTabsStay, NEW s, NEW e, e.layout = s.layout, e.seenTabs = s.seenTabs,
         e.seenPanes = s.seenPanes
  PROVE  /\ LayoutSeen(s) => LayoutSeen(e)'
         /\ LayoutSpare(s) /\ e.spare \subseteq s.spare => LayoutSpare(e)'
<1>1. L!Configured(e.layout)' = L!Configured(s.layout)
  BY DEF L!Configured
<1>2. ASSUME LayoutSeen(s) PROVE LayoutSeen(e)'
  BY <1>1, <1>2 DEF LayoutSeen, LayoutTabsStay
<1>3. ASSUME LayoutSpare(s), e.spare \subseteq s.spare PROVE LayoutSpare(e)'
  BY <1>1, <1>3 DEF LayoutSpare, LayoutTabsStay
<1>4. QED
  BY <1>2, <1>3

LEMMA LaidStays ==
  ASSUME LayoutLabelsStay, NEW s, NEW e, e.layout = s.layout, e.seenPanes = s.seenPanes
  PROVE  /\ \A x, w : PaneIn(s, x, w) => PaneIn(e, x, w)'
         /\ \A i : Laid(s, i) => Laid(e, i)'
<1>1. ASSUME NEW x, NEW w, PaneIn(s, x, w) PROVE PaneIn(e, x, w)'
  BY <1>1 DEF PaneIn, Shown, LayoutLabelsStay, LayoutTabsStay
<1>2. ASSUME NEW i, Laid(s, i) PROVE Laid(e, i)'
  <2>1. PICK x \in DOMAIN v1 : /\ v1[x] = s.layout[i].label
                               /\ \A k \in DOMAIN s.layout[i].panes : PaneIn(s, x, s.layout[i].panes[k])
    BY <1>2 DEF Laid
  <2>2. x \in DOMAIN v1' /\ v1'[x] = e.layout[i].label
    BY <2>1 DEF LayoutLabelsStay, LayoutTabsStay
  <2>3. \A k \in DOMAIN e.layout[i].panes : PaneIn(e, x, e.layout[i].panes[k])'
    BY <1>1, <2>1
  <2>4. QED
    BY <2>2, <2>3 DEF Laid
<1>3. QED
  BY <1>1, <1>2

LEMMA TabsLaidStay ==
  ASSUME LayoutLabelsStay, NEW s, NEW e, e.layout = s.layout, e.seenPanes = s.seenPanes,
         LayoutTab(s), s.missed \subseteq e.missed, e.t = s.t
  PROVE  LayoutTab(e)'
BY LaidStays DEF LayoutTab

LEMMA FrameStays ==
  ASSUME LayoutFrame, UNCHANGED <<v1, v2, v3, v5>>
  PROVE  LayoutFrame' /\ LayoutLabelsStay
BY DEF LayoutFrame, LayoutLabelsStay, LayoutTabsStay, PaneRecord

\* A step of a running attach, which keeps its layout.
LEMMA LayoutGoes ==
  ASSUME LayoutInv, NEW a \in Process, NEW s, s = v4[a], LayoutBusy(s),
         NEW e, v4' = [v4 EXCEPT ![a] = e], LayoutRecord(e), e.t \in Nat \ {0},
         e.k \in Nat \ {0}, e.since = s.since, e.layout = s.layout, e.pc # "new",
         LayoutFrame', v5' = v5,
         LayoutSoFar(s) /\ LayoutBusy(e) => LayoutSoFar(e)'
  PROVE  LayoutInv'
<1>1. LayoutAttach(s) /\ s.since <= v5 /\ \A b \in Process \ {a} : ~LayoutBusy(v4[b])
  BY DEF LayoutInv
<1>2. LayoutAttach(e)
  BY <1>1 DEF LayoutAttach
<1>3. s.since = v5 => LayoutSoFar(s)
  BY DEF LayoutInv
<1>4. QED
  BY <1>1, <1>2, <1>3, LayoutStep

LEMMA LayoutBegins ==
  ASSUME LayoutInv, NEW a \in Process, L!Begins(a)
  PROVE  LayoutInv'
<1>1. PICK l \in Layouts :
        v4' = [v4 EXCEPT ![a].layout = l, ![a].since = v5, ![a].pc = IF l = <<>> THEN "done" ELSE "spare"]
  BY DEF L!Begins
<1>2. PICK s, pc : s = v4[a] /\ pc = IF l = <<>> THEN "done" ELSE "spare"
  OBVIOUS
<1>3. LayoutAttach(s) /\ s.pc = "new" /\ v5 \in Nat
  BY <1>2 DEF L!Begins, L!At, LayoutInv, LayoutFrame
<1>4. PICK e : e = [s EXCEPT !.layout = l, !.since = v5, !.pc = pc]
  OBVIOUS
<1>5. v4' = [v4 EXCEPT ![a] = e]
  BY <1>1, <1>2, <1>4 DEF LayoutInv
<1>6. /\ LayoutRecord(e) /\ e.t = s.t /\ e.k = s.k /\ e.spare = s.spare
      /\ e.layout = l /\ e.since = v5 /\ e.pc = pc
  BY <1>3, <1>4 DEF LayoutAttach, LayoutRecord
<1>7. LayoutAttach(e)
  BY <1>2, <1>3, <1>6 DEF LayoutAttach
<1>8. \A b \in Process : ~LayoutBusy(v4[b])
  BY DEF L!Begins, LayoutBusy
<1>9. LayoutFrame' /\ v5' = v5
  BY FrameStays DEF L!Begins, LayoutInv
<1>10. ASSUME LayoutBusy(e) PROVE LayoutSoFar(e)'
  <2>1. e.pc = "spare" /\ e.spare = {} /\ e.t = 1
    BY <1>2, <1>3, <1>6, <1>10 DEF LayoutBusy, LayoutAttach
  <2>2. LayoutSpare(e)'
    BY <2>1 DEF LayoutSpare
  <2>3. QED
    BY <2>1, <2>2 DEF LayoutSoFar
<1>11. e.since <= v5 /\ \A b \in Process \ {a} : ~LayoutBusy(v4[b])
  BY <1>3, <1>6, <1>8
<1>12. QED
  BY <1>5, <1>7, <1>9, <1>10, <1>11, LayoutStep

LEMMA LayoutFindsSpare ==
  ASSUME LayoutInv, NEW a \in Process, L!FindsSpare(a)
  PROVE  LayoutInv'
<1>1. PICK s, P : s = v4[a] /\ P = L!Pristine(s.layout)
  OBVIOUS
<1>2. LayoutAttach(s) /\ s.pc = "spare"
  BY <1>1 DEF L!FindsSpare, L!At, LayoutInv
<1>3. PICK e : e = [s EXCEPT !.spare = P, !.pc = "list"]
  OBVIOUS
<1>4. v4' = [v4 EXCEPT ![a] = e]
  BY <1>1, <1>3 DEF L!FindsSpare, LayoutInv
<1>5. /\ LayoutRecord(e) /\ e.t = s.t /\ e.k = s.k /\ e.since = s.since /\ e.layout = s.layout
      /\ e.spare = P /\ e.pc = "list"
  BY <1>2, <1>3 DEF LayoutAttach, LayoutRecord
<1>6. LayoutFrame' /\ v5' = v5 /\ v1' = v1 /\ v2' = v2
  BY FrameStays DEF L!FindsSpare, LayoutInv
<1>7. LayoutSpare(e)
  <2>1. \A d \in P : \E q \in DOMAIN v2 : /\ d = [tab |-> v2[q].tab, root |-> q]
                                          /\ DOMAIN v1 = {v2[q].tab}
                                          /\ v1[v2[q].tab] \notin L!Configured(s.layout)
    BY <1>1 DEF L!Pristine
  <2>2. ASSUME NEW d \in P
        PROVE  /\ d.tab \in DOMAIN v1 /\ v1[d.tab] \notin L!Configured(s.layout)
               /\ d.root \in DOMAIN v2 /\ v2[d.root].tab = d.tab
    <3>1. PICK q \in DOMAIN v2 : /\ d = [tab |-> v2[q].tab, root |-> q]
                                /\ DOMAIN v1 = {v2[q].tab}
                                /\ v1[v2[q].tab] \notin L!Configured(s.layout)
      BY <2>1
    <3>2. d.tab = v2[q].tab /\ d.root = q
      BY <3>1
    <3>3. QED
      BY <3>1, <3>2
  <2>3. QED
    BY <1>5, <2>2 DEF LayoutSpare
<1>8. LayoutSpare(e)'
  BY <1>6, <1>7 DEF LayoutSpare, L!Configured
<1>9. LayoutSoFar(s) => LayoutSoFar(e)'
  BY <1>2, <1>5, <1>8 DEF LayoutSoFar
<1>10. QED
  BY <1>1, <1>2, <1>4, <1>5, <1>6, <1>9, LayoutGoes DEF LayoutBusy, LayoutAttach

LEMMA LayoutLists ==
  ASSUME LayoutInv, NEW a \in Process, L!Lists(a)
  PROVE  LayoutInv'
<1>1. PICK s, T, P : s = v4[a] /\ T = [t \in DOMAIN v1 |-> [label |-> v1[t]]] /\ P = v2
  OBVIOUS
<1>2. LayoutAttach(s) /\ s.pc = "list"
  BY <1>1 DEF L!Lists, L!At, LayoutInv
<1>3. PICK e : e = [s EXCEPT !.seenTabs = T, !.seenPanes = P, !.pc = "tab"]
  OBVIOUS
<1>4. v4' = [v4 EXCEPT ![a] = e]
  BY <1>1, <1>3 DEF L!Lists, LayoutInv
<1>5. /\ LayoutRecord(e) /\ e.t = s.t /\ e.k = s.k /\ e.since = s.since /\ e.layout = s.layout
      /\ e.spare = s.spare /\ e.seenTabs = T /\ e.seenPanes = P /\ e.pc = "tab"
  BY <1>2, <1>3 DEF LayoutAttach, LayoutRecord
<1>6. LayoutFrame' /\ v5' = v5 /\ v1' = v1 /\ v2' = v2
  BY FrameStays DEF L!Lists, LayoutInv
<1>7. LayoutSeen(e)'
  BY <1>1, <1>5, <1>6 DEF LayoutSeen
<1>8. ASSUME LayoutSoFar(s) PROVE LayoutSoFar(e)'
  <2>1. s.t = 1 /\ LayoutSpare(s)
    BY <1>2, <1>8 DEF LayoutSoFar
  <2>2. LayoutSpare(e)'
    BY <1>5, <1>6, <2>1 DEF LayoutSpare, L!Configured
  <2>3. LayoutTab(e)'
    <3>1. \A i \in DOMAIN e.layout : i < 1 => FALSE
      BY <1>2, <1>5, LayoutsAre DEF LayoutAttach, LayoutBusy
    <3>2. QED
      BY <1>5, <2>1, <3>1 DEF LayoutTab
  <2>4. QED
    BY <1>5, <1>7, <2>2, <2>3 DEF LayoutSoFar
<1>9. QED
  BY <1>1, <1>2, <1>4, <1>5, <1>6, <1>8, LayoutGoes DEF LayoutBusy, LayoutAttach

SeenIn(s, x) == {p \in DOMAIN s.seenPanes : s.seenPanes[p].tab = x}

\* The same attach, at the first pane of a tab.
LayoutOpened(s, e) ==
  /\ LayoutRecord(e) /\ e.pc = "pane" /\ e.k = 1 /\ e.t = s.t /\ e.since = s.since
  /\ e.layout = s.layout /\ e.seenTabs = s.seenTabs /\ e.seenPanes = s.seenPanes
  /\ e.missed = s.missed /\ e.spare \subseteq s.spare

\* What it puts there: the tab, the pane the tab opened with, and the first pane listed.
LayoutPut(s, e, x, r) ==
  /\ LayoutOpened(s, e) /\ e.tab = x /\ e.root = r
  /\ SeenIn(s, x) = {} => e.anchor = r
  /\ SeenIn(s, x) # {} => e.anchor = L!Lowest(SeenIn(s, x))

LEMMA LayoutOpens ==
  ASSUME LayoutInv, NEW a \in Process, NEW s, s = v4[a], s.pc = "tab", NEW x, NEW r, L!Opens(a, x, r)
  PROVE  \E e : v4' = [v4 EXCEPT ![a] = e] /\ LayoutPut(s, e, x, r)
<1>1. PICK G, n : /\ G = SeenIn(s, x)
                  /\ n = IF G = {} THEN r ELSE L!Lowest(G)
  OBVIOUS
<1>2. G = L!Listed(a, x)
  BY <1>1 DEF L!Listed, SeenIn
<1>3. PICK e : e = [s EXCEPT !.tab = x, !.root = r, !.k = 1, !.pc = "pane", !.anchor = n]
  OBVIOUS
<1>4. v4' = [v4 EXCEPT ![a].tab = x, ![a].root = r, ![a].k = 1, ![a].pc = "pane", ![a].anchor = n]
  BY <1>1, <1>2 DEF L!Opens
<1>5. v4' = [v4 EXCEPT ![a] = e]
  BY <1>3, <1>4 DEF LayoutInv
<1>6. LayoutRecord(s)
  BY DEF LayoutInv, LayoutAttach
<1>7. LayoutOpened(s, e) /\ e.tab = x /\ e.root = r /\ e.anchor = n
  BY <1>3, <1>6 DEF LayoutOpened, LayoutRecord
<1>8. LayoutPut(s, e, x, r)
  BY <1>1, <1>7 DEF LayoutPut
<1>9. QED
  BY <1>5, <1>8

LEMMA LayoutEnters ==
  ASSUME LayoutInv, NEW a \in Process, NEW s, s = v4[a], s.pc = "tab", s.t <= Len(s.layout),
         NEW e, v4' = [v4 EXCEPT ![a] = e], LayoutOpened(s, e), LayoutFrame', v5' = v5,
         LayoutSoFar(s) /\ s.t \in DOMAIN s.layout =>
           /\ LayoutSpare(e)' /\ LayoutSeen(e)' /\ LayoutTab(e)'
           /\ e.tab \in DOMAIN v1' /\ v1'[e.tab] = s.layout[s.t].label
           /\ e.anchor \in DOMAIN v2' => v2'[e.anchor].tab = e.tab
           /\ e.root # 0 => e.root \in DOMAIN v2' /\ v2'[e.root].tab = e.tab
  PROVE  LayoutInv'
<1>1. LayoutAttach(s) /\ LayoutBusy(s)
  BY DEF LayoutInv, LayoutBusy
<1>2. s.layout \in Layouts /\ s.t \in Nat \ {0}
  BY <1>1 DEF LayoutAttach
<1>3. s.t \in DOMAIN s.layout
  BY <1>2, LayoutsAre
<1>4. e.t = s.t /\ e.k = 1 /\ e.since = s.since /\ e.layout = s.layout /\ e.pc = "pane" /\ LayoutRecord(e)
  BY DEF LayoutOpened
<1>5. ASSUME LayoutSoFar(s) PROVE LayoutSoFar(e)'
  <2>1. \A j \in DOMAIN e.layout[e.t].panes : ~(j < 1)
    BY <1>2, <1>3, <1>4, LayoutsAre
  <2>2. LayoutPane(e)'
    BY <1>3, <1>4, <1>5, <2>1 DEF LayoutPane
  <2>3. QED
    BY <1>3, <1>4, <1>5, <2>2 DEF LayoutSoFar
<1>6. e.t \in Nat \ {0} /\ e.k \in Nat \ {0} /\ e.pc # "new"
  BY <1>2, <1>4
<1>7. QED
  BY <1>1, <1>4, <1>5, <1>6, LayoutGoes

LEMMA ListedIs ==
  ASSUME LayoutFrame, NEW s, LayoutSeen(s), NEW x, NEW G, G # {},
         G = SeenIn(s, x)
  PROVE  L!Lowest(G) \in DOMAIN v2 /\ v2[L!Lowest(G)].tab = x
<1>1. \A p \in G : p \in DOMAIN v2 /\ v2[p].tab = x
  BY DEF LayoutSeen, SeenIn
<1>2. G \in SUBSET Nat
  BY <1>1 DEF LayoutFrame
<1>3. PICK n : n = L!Lowest(G) /\ n \in G
  BY <1>2, LowestIs
<1>4. QED
  BY <1>1, <1>3

LEMMA LayoutFinds ==
  ASSUME LayoutInv, NEW a \in Process, L!Finds(a)
  PROVE  LayoutInv'
<1>1. PICK s, w, N, x : s = v4[a] /\ w = s.layout[s.t].label /\ N = L!Named(s.seenTabs, w)
                        /\ x = L!Lowest(N)
  OBVIOUS
<1>2. s.pc = "tab" /\ s.t <= Len(s.layout) /\ N # {} /\ L!Opens(a, x, 0)
  BY <1>1 DEF L!Finds, L!At, L!Tab
<1>3. LayoutFrame' /\ LayoutLabelsStay /\ v5' = v5 /\ LayoutFrame
  BY FrameStays DEF L!Finds, LayoutInv
<1>4. PICK e, G : /\ v4' = [v4 EXCEPT ![a] = e] /\ LayoutOpened(s, e)
                  /\ e.tab = x /\ e.root = 0 /\ G = SeenIn(s, x)
                  /\ e.anchor = IF G = {} THEN 0 ELSE L!Lowest(G)
  <2>1. PICK e : v4' = [v4 EXCEPT ![a] = e] /\ LayoutPut(s, e, x, 0)
    BY <1>1, <1>2, LayoutOpens
  <2>2. QED
    BY <2>1 DEF LayoutPut
<1>5. ASSUME LayoutSoFar(s), s.t \in DOMAIN s.layout
      PROVE  /\ LayoutSpare(e)' /\ LayoutSeen(e)' /\ LayoutTab(e)'
             /\ e.tab \in DOMAIN v1' /\ v1'[e.tab] = s.layout[s.t].label
             /\ e.anchor \in DOMAIN v2' => v2'[e.anchor].tab = e.tab
  <2>1. LayoutSpare(s) /\ LayoutSeen(s) /\ LayoutTab(s)
    BY <1>2, <1>5 DEF LayoutSoFar
  <2>2. LayoutSpare(e)' /\ LayoutSeen(e)'
    BY <1>3, <1>4, <2>1, SeenStays DEF LayoutOpened, LayoutLabelsStay
  <2>3. LayoutTab(e)'
    BY <1>3, <1>4, <2>1, TabsLaidStay DEF LayoutOpened
  <2>4. N \in SUBSET Nat
    BY <1>1, <1>3, <2>1 DEF L!Named, LayoutSeen, LayoutFrame
  <2>5. x \in N
    BY <1>1, <1>2, <2>4, LowestIs
  <2>6. x \in DOMAIN v1 /\ v1[x] = w
    BY <1>1, <1>5, <2>1, <2>5 DEF L!Named, LayoutSeen, L!Configured
  <2>7. e.anchor \in DOMAIN v2 => v2[e.anchor].tab = x
    <3>1. 0 \notin DOMAIN v2
      BY <1>3 DEF LayoutFrame
    <3>2. CASE G # {}
      <4>1. L!Lowest(G) \in DOMAIN v2 /\ v2[L!Lowest(G)].tab = x
        BY <1>3, <1>4, <2>1, <3>2, ListedIs
      <4>2. e.anchor = L!Lowest(G)
        BY <1>4, <3>2
      <4>3. QED
        BY <4>1, <4>2
    <3>3. QED
      BY <1>4, <3>1, <3>2
  <2>8. v1' = v1 /\ v2' = v2
    BY DEF L!Finds
  <2>9. QED
    BY <1>1, <1>4, <2>2, <2>3, <2>6, <2>7, <2>8
<1>6. QED
  BY <1>1, <1>2, <1>3, <1>4, <1>5, LayoutEnters

LEMMA LayoutTakes ==
  ASSUME LayoutInv, NEW a \in Process, L!Takes(a)
  PROVE  LayoutInv'
<1>1. PICK s, w : s = v4[a] /\ w = s.layout[s.t].label
  OBVIOUS
<1>2. PICK d \in s.spare :
        /\ d.tab \in DOMAIN v1 /\ v1' = [v1 EXCEPT ![d.tab] = w]
        /\ v4' = [v4 EXCEPT ![a].tab = d.tab, ![a].root = d.root, ![a].anchor = d.root,
                            ![a].spare = {}, ![a].k = 1, ![a].pc = "pane"]
  BY <1>1 DEF L!Takes, L!Tab
<1>3. s.pc = "tab" /\ s.t <= Len(s.layout) /\ v2' = v2 /\ v3' = v3 /\ v5' = v5
  BY <1>1 DEF L!Takes, L!At
<1>4. PICK x, r : x = d.tab /\ r = d.root
  OBVIOUS
<1>5. PICK e : e = [s EXCEPT !.tab = x, !.root = r, !.anchor = r, !.spare = {}, !.k = 1, !.pc = "pane"]
  OBVIOUS
<1>6. v4' = [v4 EXCEPT ![a] = e]
  BY <1>1, <1>2, <1>4, <1>5 DEF LayoutInv
<1>7. LayoutRecord(s)
  BY <1>1 DEF LayoutInv, LayoutAttach
<1>8. LayoutOpened(s, e) /\ e.tab = x /\ e.root = r /\ e.anchor = r /\ e.spare = {}
  BY <1>5, <1>7 DEF LayoutOpened, LayoutRecord
<1>9. /\ v1' = [y \in DOMAIN v1 |-> v1'[y]] /\ DOMAIN v1' = DOMAIN v1 /\ x \in DOMAIN v1 /\ v1'[x] = w
      /\ \A y \in DOMAIN v1 : y # x => v1'[y] = v1[y]
  BY <1>2, <1>4
<1>10. LayoutFrame'
  BY <1>3, <1>9 DEF LayoutInv, LayoutFrame, PaneRecord
<1>11. ASSUME LayoutSoFar(s), s.t \in DOMAIN s.layout
       PROVE  /\ LayoutSpare(e)' /\ LayoutSeen(e)' /\ LayoutTab(e)'
              /\ r \in DOMAIN v2 /\ v2[r].tab = x
  <2>1. LayoutSpare(s) /\ LayoutSeen(s) /\ LayoutTab(s)
    BY <1>3, <1>11 DEF LayoutSoFar
  <2>2. v1[x] \notin L!Configured(s.layout) /\ r \in DOMAIN v2 /\ v2[r].tab = x
    BY <1>2, <1>4, <2>1 DEF LayoutSpare
  <2>3. /\ e.layout = s.layout /\ e.seenTabs = s.seenTabs /\ e.seenPanes = s.seenPanes
        /\ e.missed = s.missed /\ e.t = s.t
    BY <1>8 DEF LayoutOpened
  <2>4. LayoutSpare(e)'
    BY <1>8 DEF LayoutSpare
  <2>5. LayoutSeen(e)'
    <3>1. L!Configured(e.layout)' = L!Configured(s.layout)
      BY <2>3 DEF L!Configured
    <3>2. ASSUME NEW y \in DOMAIN s.seenTabs
          PROVE  y \in DOMAIN v1 /\ (s.seenTabs[y].label = v1'[y]
                                     \/ s.seenTabs[y].label \notin L!Configured(s.layout))
      BY <1>9, <2>1, <2>2 DEF LayoutSeen
    <3>3. QED
      BY <1>3, <1>9, <2>1, <2>3, <3>1, <3>2 DEF LayoutSeen
  <2>6. ASSUME NEW i \in DOMAIN s.layout, Laid(s, i) PROVE Laid(e, i)'
    <3>1. PICK y \in DOMAIN v1 :
            /\ v1[y] = s.layout[i].label
            /\ \A k \in DOMAIN s.layout[i].panes : PaneIn(s, y, s.layout[i].panes[k])
      BY <2>6 DEF Laid
    <3>2. y # x
      BY <2>2, <3>1 DEF L!Configured
    <3>3. \A k \in DOMAIN e.layout[i].panes : PaneIn(e, y, e.layout[i].panes[k])'
      BY <1>3, <2>3, <3>1 DEF PaneIn, Shown
    <3>4. y \in DOMAIN v1' /\ v1'[y] = e.layout[i].label
      BY <1>9, <2>3, <3>1, <3>2
    <3>5. QED
      BY <3>3, <3>4 DEF Laid
  <2>7. LayoutTab(e)'
    BY <2>1, <2>3, <2>6 DEF LayoutTab
  <2>8. QED
    BY <2>2, <2>4, <2>5, <2>7
<1>12. QED
  BY <1>1, <1>3, <1>6, <1>8, <1>9, <1>10, <1>11, LayoutEnters

\* A new pane, in a tab that is there.
LEMMA PaneAdded ==
  ASSUME LayoutFrame, NEW n, n = v3 + 1, v3' = n, NEW z, PaneRecord(z), z.tab \in 1..n,
         v2' = L!With(v2, n, z)
  PROVE  /\ n \notin DOMAIN v2 /\ n \notin DOMAIN v1 /\ n # 0
         /\ DOMAIN v2' \subseteq 1..v3' /\ n \in DOMAIN v2' /\ v2'[n] = z
         /\ v2' = [p \in DOMAIN v2' |-> v2'[p]]
         /\ \A p \in DOMAIN v2' : PaneRecord(v2'[p]) /\ v2'[p].tab \in 1..v3'
         /\ DOMAIN v2 \subseteq DOMAIN v2' /\ \A p \in DOMAIN v2 : v2'[p] = v2[p]
<1>1. n \notin DOMAIN v2 /\ n \notin DOMAIN v1 /\ n # 0 /\ v3 \in Nat
  BY DEF LayoutFrame
<1>2. /\ DOMAIN v2' = DOMAIN v2 \cup {n} /\ v2'[n] = z /\ v2' = [p \in DOMAIN v2' |-> v2'[p]]
      /\ \A p \in DOMAIN v2 : v2'[p] = v2[p]
  BY <1>1 DEF L!With
<1>3. \A p \in DOMAIN v2' : PaneRecord(v2'[p]) /\ v2'[p].tab \in 1..v3'
  BY <1>1, <1>2 DEF LayoutFrame
<1>4. DOMAIN v2' \subseteq 1..v3'
  BY <1>1, <1>2 DEF LayoutFrame
<1>5. QED
  BY <1>1, <1>2, <1>3, <1>4

LEMMA LayoutCreates ==
  ASSUME LayoutInv, NEW a \in Process, L!Creates(a)
  PROVE  LayoutInv'
<1>1. PICK s, w, n, z : s = v4[a] /\ w = s.layout[s.t].label /\ n = v3 + 1 /\ z = L!Pane(n)
  OBVIOUS
<1>2. /\ s.pc = "tab" /\ s.t <= Len(s.layout) /\ v3' = n /\ v5' = v5
      /\ v1' = L!With(v1, n, w) /\ v2' = L!With(v2, n, z) /\ L!Opens(a, n, n)
  BY <1>1 DEF L!Creates, L!At, L!Tab
<1>3. LayoutFrame /\ v3 \in Nat /\ PaneRecord(z) /\ z.tab = n
  BY <1>1 DEF LayoutInv, LayoutFrame, PaneRecord, L!Pane
<1>4. /\ n \notin DOMAIN v2 /\ n \notin DOMAIN v1 /\ n # 0
      /\ DOMAIN v2' \subseteq 1..v3' /\ n \in DOMAIN v2' /\ v2'[n] = z
      /\ v2' = [p \in DOMAIN v2' |-> v2'[p]]
      /\ \A p \in DOMAIN v2' : PaneRecord(v2'[p]) /\ v2'[p].tab \in 1..v3'
      /\ DOMAIN v2 \subseteq DOMAIN v2' /\ \A p \in DOMAIN v2 : v2'[p] = v2[p]
  BY <1>1, <1>2, <1>3, PaneAdded
<1>5. /\ DOMAIN v1' = DOMAIN v1 \cup {n} /\ v1'[n] = w /\ v1' = [x \in DOMAIN v1' |-> v1'[x]]
      /\ \A x \in DOMAIN v1 : v1'[x] = v1[x]
  BY <1>2, <1>4 DEF L!With
<1>6. LayoutLabelsStay
  BY <1>4, <1>5 DEF LayoutLabelsStay, LayoutTabsStay
<1>7. LayoutFrame'
  <2>1. DOMAIN v1' \subseteq 1..v3' /\ v3' \in Nat /\ v5' \in Nat
    <3>1. v3' = v3 + 1 /\ v5' = v5 /\ v5 \in Nat /\ DOMAIN v1 \subseteq 1..v3
      BY <1>1, <1>2, <1>3 DEF LayoutFrame
    <3>2. QED
      BY <1>1, <1>3, <1>5, <3>1
  <2>2. QED
    BY <1>4, <1>5, <2>1 DEF LayoutFrame, PaneRecord
<1>8. PICK e : v4' = [v4 EXCEPT ![a] = e] /\ LayoutPut(s, e, n, n)
  BY <1>1, <1>2, LayoutOpens
<1>9. LayoutOpened(s, e) /\ e.tab = n /\ e.root = n
  BY <1>8 DEF LayoutPut
<1>10. ASSUME LayoutSoFar(s), s.t \in DOMAIN s.layout
       PROVE  /\ LayoutSpare(e)' /\ LayoutSeen(e)' /\ LayoutTab(e)'
              /\ e.anchor = n
  <2>1. LayoutSpare(s) /\ LayoutSeen(s) /\ LayoutTab(s)
    BY <1>2, <1>10 DEF LayoutSoFar
  <2>2. LayoutSpare(e)' /\ LayoutSeen(e)'
    BY <1>6, <1>9, <2>1, SeenStays DEF LayoutOpened, LayoutLabelsStay
  <2>3. LayoutTab(e)'
    BY <1>6, <1>9, <2>1, TabsLaidStay DEF LayoutOpened
  <2>4. SeenIn(s, n) = {}
    BY <1>1, <1>3, <2>1 DEF SeenIn, LayoutSeen, LayoutFrame
  <2>5. QED
    BY <1>8, <2>2, <2>3, <2>4 DEF LayoutPut
<1>11. /\ e.tab \in DOMAIN v1' /\ v1'[e.tab] = w
       /\ e.root \in DOMAIN v2' /\ v2'[e.root].tab = e.tab
       /\ e.anchor = n => v2'[e.anchor].tab = e.tab
  BY <1>3, <1>4, <1>5, <1>9
<1>12. QED
  BY <1>1, <1>2, <1>7, <1>8, <1>9, <1>10, <1>11, LayoutEnters

\* The same attach, in the same tab.
LayoutSame(s, e) ==
  /\ LayoutRecord(e) /\ e.t = s.t /\ e.since = s.since /\ e.tab = s.tab /\ e.root = s.root
  /\ e.layout = s.layout /\ e.seenTabs = s.seenTabs /\ e.seenPanes = s.seenPanes
  /\ e.missed = s.missed /\ e.spare = s.spare

\* What is known of an attach that is at a pane.
LayoutAt(s) ==
  /\ LayoutRecord(s) /\ s.pc \in {"pane", "name", "run"} /\ s.layout \in Layouts
  /\ s.t \in Nat \ {0} /\ s.k \in Nat \ {0}
  /\ LayoutSoFar(s) => LayoutSpare(s) /\ LayoutSeen(s) /\ LayoutTab(s) /\ LayoutPane(s)

LEMMA LayoutThere ==
  ASSUME LayoutInv, NEW a \in Process, NEW s, s = v4[a], s.pc \in {"pane", "name", "run"}
  PROVE  LayoutAt(s)
<1>1. LayoutAttach(s) /\ LayoutBusy(s)
  BY DEF LayoutInv, LayoutBusy
<1>2. QED
  BY <1>1 DEF LayoutAttach, LayoutAt, LayoutSoFar

LEMMA LayoutStays ==
  ASSUME LayoutInv, NEW a \in Process, NEW s, s = v4[a], LayoutAt(s), NEW e,
         v4' = [v4 EXCEPT ![a] = e], LayoutSame(s, e), e.pc \in {"pane", "name", "run"},
         e.k \in Nat \ {0}, LayoutFrame', v5' = v5, LayoutTabsStay,
         LayoutSoFar(s) => LayoutTab(e)' /\ LayoutPane(e)'
  PROVE  LayoutInv'
<1>1. /\ LayoutRecord(e) /\ e.t = s.t /\ e.since = s.since /\ e.layout = s.layout
      /\ e.seenTabs = s.seenTabs /\ e.seenPanes = s.seenPanes /\ e.spare = s.spare
  BY DEF LayoutSame
<1>2. LayoutBusy(s) /\ e.t \in Nat \ {0} /\ e.pc # "new"
  BY <1>1 DEF LayoutAt, LayoutBusy
<1>3. ASSUME LayoutSoFar(s) PROVE LayoutSoFar(e)'
  <2>1. LayoutSeen(e)' /\ LayoutSpare(e)'
    BY <1>1, <1>3, SeenStays DEF LayoutAt
  <2>2. QED
    BY <1>3, <2>1 DEF LayoutSoFar
<1>4. QED
  BY <1>1, <1>2, <1>3, LayoutGoes

LEMMA LayoutKeeps ==
  ASSUME LayoutInv, NEW a \in Process, L!Keeps(a)
  PROVE  LayoutInv'
<1>1. PICK s, w, H, n : /\ s = v4[a] /\ w = s.layout[s.t].panes[s.k] /\ H = L!Here(a)
                        /\ n = L!Lowest(H)
  OBVIOUS
<1>2. /\ s.pc = "pane" /\ s.k <= Len(s.layout[s.t].panes) /\ H # {} /\ UNCHANGED <<v1, v2, v3, v5>>
      /\ v4' = [v4 EXCEPT ![a].anchor = n, ![a].k = s.k + 1]
  BY <1>1 DEF L!Keeps, L!At, L!Tab, L!IsThere, LayoutInv
<1>3. H = {p \in SeenIn(s, s.tab) : s.seenPanes[p].label = w}
  BY <1>1 DEF L!Here, L!Listed, L!Wanted, L!Tab, SeenIn
<1>4. LayoutAt(s)
  BY <1>1, <1>2, LayoutThere
<1>5. PICK k, e : k = s.k + 1 /\ e = [s EXCEPT !.anchor = n, !.k = k]
  OBVIOUS
<1>6. v4' = [v4 EXCEPT ![a] = e]
  BY <1>1, <1>2, <1>5 DEF LayoutInv
<1>7. LayoutSame(s, e) /\ e.pc = "pane" /\ e.k = k /\ e.anchor = n
  BY <1>2, <1>4, <1>5 DEF LayoutSame, LayoutAt, LayoutRecord
<1>8. LayoutFrame' /\ LayoutFrame /\ LayoutLabelsStay /\ LayoutTabsStay
  BY <1>2, FrameStays DEF LayoutInv, LayoutLabelsStay
<1>9. ASSUME LayoutSoFar(s) PROVE LayoutTab(e)' /\ LayoutPane(e)'
  <2>1. LayoutSeen(s) /\ LayoutTab(s) /\ LayoutPane(s)
    BY <1>4, <1>9 DEF LayoutAt
  <2>2. /\ e.layout = s.layout /\ e.seenPanes = s.seenPanes /\ e.missed = s.missed /\ e.t = s.t
        /\ e.tab = s.tab
    BY <1>7 DEF LayoutSame
  <2>3. LayoutTab(e)'
    BY <1>8, <2>1, <2>2, TabsLaidStay
  <2>4. \A p \in H : p \in DOMAIN v2 /\ v2[p].tab = s.tab /\ Shown(s, p, w)
    BY <1>3, <2>1 DEF SeenIn, LayoutSeen, Shown
  <2>5. H \in SUBSET Nat
    BY <1>8, <2>4 DEF LayoutFrame
  <2>6. n \in H
    BY <1>1, <1>2, <2>5, LowestIs
  <2>7. PaneIn(s, s.tab, w)
    BY <2>4, <2>6 DEF PaneIn
  <2>8. ASSUME NEW j \in DOMAIN s.layout[s.t].panes, j < k
        PROVE  PaneIn(s, s.tab, s.layout[s.t].panes[j])
    <3>1. s.t \in DOMAIN s.layout /\ s.layout \in Layouts /\ s.k \in Nat
      BY <1>4, <2>1 DEF LayoutPane, LayoutAt
    <3>2. j \in Nat
      BY <3>1, LayoutsAre
    <3>3. j < s.k \/ j = s.k
      BY <1>5, <2>8, <3>1, <3>2
    <3>4. QED
      BY <1>1, <2>1, <2>7, <2>8, <3>3 DEF LayoutPane
  <2>9. \A j \in DOMAIN s.layout[s.t].panes : j < k => PaneIn(e, s.tab, s.layout[s.t].panes[j])'
    BY <1>8, <2>2, <2>8, LaidStays
  <2>10. v1' = v1 /\ v2' = v2 /\ v2[n].tab = s.tab /\ k # 1
    BY <1>2, <1>4, <1>5, <2>4, <2>6 DEF LayoutAt
  <2>11. LayoutPane(e)'
    BY <1>7, <2>1, <2>2, <2>9, <2>10 DEF LayoutPane
  <2>12. QED
    BY <2>3, <2>11
<1>10. e.k \in Nat \ {0}
  BY <1>4, <1>5, <1>7 DEF LayoutAt
<1>11. QED
  BY <1>1, <1>2, <1>4, <1>6, <1>7, <1>8, <1>9, <1>10, LayoutStays

LEMMA LayoutRuns ==
  ASSUME LayoutInv, NEW a \in Process, L!Runs(a)
  PROVE  LayoutInv'
<1>1. PICK s, q, r : s = v4[a] /\ q = s.pane /\ r = v2[q]
  OBVIOUS
<1>2. /\ s.pc = "run" /\ q \in DOMAIN v2 /\ v1' = v1 /\ v3' = v3 /\ v5' = v5
      /\ v2' = v2
      /\ v4' = [v4 EXCEPT ![a].anchor = q, ![a].k = s.k + 1, ![a].pc = "pane"]
  BY <1>1 DEF L!Runs, L!At, LayoutInv
<1>3. LayoutAt(s) /\ LayoutFrame
  BY <1>1, <1>2, LayoutThere DEF LayoutInv
<1>4. PICK k, e : k = s.k + 1 /\ e = [s EXCEPT !.anchor = q, !.k = k, !.pc = "pane"]
  OBVIOUS
<1>5. v4' = [v4 EXCEPT ![a] = e]
  BY <1>1, <1>2, <1>4 DEF LayoutInv
<1>6. LayoutSame(s, e) /\ e.pc = "pane" /\ e.k = k /\ e.anchor = q
  BY <1>3, <1>4 DEF LayoutSame, LayoutAt, LayoutRecord
<1>7. PaneRecord(r) /\ r.tab = v2[q].tab /\ r.label = v2[q].label
  BY <1>1, <1>2, <1>3 DEF LayoutFrame
<1>8. /\ v2' = [p \in DOMAIN v2 |-> v2'[p]] /\ DOMAIN v2' = DOMAIN v2 /\ v2'[q] = r
      /\ \A p \in DOMAIN v2 : p # q => v2'[p] = v2[p]
  BY <1>1, <1>2, <1>3 DEF LayoutFrame
<1>9. LayoutFrame' /\ LayoutLabelsStay /\ LayoutTabsStay
  BY <1>2, <1>3, <1>7, <1>8 DEF LayoutFrame, PaneRecord, LayoutLabelsStay, LayoutTabsStay
<1>10. ASSUME LayoutSoFar(s) PROVE LayoutTab(e)' /\ LayoutPane(e)'
  <2>1. LayoutTab(s) /\ LayoutPane(s)
    BY <1>3, <1>10 DEF LayoutAt
  <2>2. /\ e.layout = s.layout /\ e.seenPanes = s.seenPanes /\ e.missed = s.missed /\ e.t = s.t
        /\ e.tab = s.tab
    BY <1>6 DEF LayoutSame
  <2>3. LayoutTab(e)'
    BY <1>9, <2>1, <2>2, TabsLaidStay
  <2>4. v2[q].tab = s.tab /\ PaneIn(s, s.tab, s.layout[s.t].panes[s.k])
    BY <1>1, <1>2, <2>1 DEF LayoutPane, PaneIn, Shown
  <2>5. ASSUME NEW j \in DOMAIN s.layout[s.t].panes, j < k
        PROVE  PaneIn(s, s.tab, s.layout[s.t].panes[j])
    <3>1. s.t \in DOMAIN s.layout /\ s.layout \in Layouts /\ s.k \in Nat
      BY <1>3, <2>1 DEF LayoutPane, LayoutAt
    <3>2. j \in Nat
      BY <3>1, LayoutsAre
    <3>3. j < s.k \/ j = s.k
      BY <1>4, <2>5, <3>1, <3>2
    <3>4. QED
      BY <2>1, <2>4, <2>5, <3>3 DEF LayoutPane
  <2>6. \A j \in DOMAIN s.layout[s.t].panes : j < k => PaneIn(e, s.tab, s.layout[s.t].panes[j])'
    BY <1>9, <2>2, <2>5, LaidStays
  <2>7. v1' = v1 /\ v2'[q].tab = s.tab /\ k # 1
    BY <1>2, <1>3, <1>4, <1>7, <1>8, <2>4 DEF LayoutAt
  <2>8. LayoutPane(e)'
    BY <1>6, <2>1, <2>2, <2>6, <2>7 DEF LayoutPane
  <2>9. QED
    BY <2>3, <2>8
<1>11. e.k \in Nat \ {0}
  BY <1>3, <1>4, <1>6 DEF LayoutAt
<1>12. QED
  BY <1>1, <1>2, <1>3, <1>5, <1>6, <1>9, <1>10, <1>11, LayoutStays

\* A new tab's own pane is its first; any other is split off in the tab.
LEMMA LayoutSplits ==
  ASSUME LayoutInv, NEW a \in Process, L!Splits(a)
  PROVE  LayoutInv'
<1>1. PICK s : s = v4[a]
  OBVIOUS
<1>2. s.pc = "pane" /\ s.k <= Len(s.layout[s.t].panes) /\ v1' = v1 /\ v5' = v5
  BY <1>1 DEF L!Splits, L!At, L!Tab
<1>3. LayoutAt(s) /\ LayoutFrame
  BY <1>1, <1>2, LayoutThere DEF LayoutInv
<1>4. ASSUME NEW n, NEW e, e = [s EXCEPT !.pane = n, !.pc = "name"],
             LayoutFrame', LayoutLabelsStay,
             v4' = [v4 EXCEPT ![a].pane = n, ![a].pc = "name"],
             LayoutSoFar(s) /\ LayoutPane(s) =>
               /\ n \in DOMAIN v2' /\ v2'[n].tab = s.tab
               /\ s.k = 1 \/ v2'[n].label = L!NoLabel
               /\ s.anchor \in DOMAIN v2' => v2'[s.anchor].tab = s.tab
      PROVE  LayoutInv'
  <2>1. v4' = [v4 EXCEPT ![a] = e]
    BY <1>1, <1>4 DEF LayoutInv
  <2>2. LayoutSame(s, e) /\ e.pc = "name" /\ e.k = s.k /\ e.anchor = s.anchor /\ e.pane = n
    BY <1>3, <1>4 DEF LayoutSame, LayoutAt, LayoutRecord
  <2>3. ASSUME LayoutSoFar(s) PROVE LayoutTab(e)' /\ LayoutPane(e)'
    <3>1. LayoutTab(s) /\ LayoutPane(s) /\ s.layout \in Layouts /\ s.k \in Nat \ {0}
      BY <1>3, <2>3 DEF LayoutAt
    <3>2. /\ e.layout = s.layout /\ e.seenPanes = s.seenPanes /\ e.missed = s.missed
          /\ e.t = s.t /\ e.tab = s.tab
      BY <2>2 DEF LayoutSame
    <3>3. LayoutTab(e)'
      BY <1>4, <3>1, <3>2, TabsLaidStay
    <3>4. s.k \in DOMAIN s.layout[s.t].panes
      <4>1. s.t \in DOMAIN s.layout
        BY <3>1 DEF LayoutPane
      <4>2. QED
        BY <1>2, <3>1, <4>1, LayoutsAre
    <3>5. \A j \in DOMAIN s.layout[s.t].panes :
            j < s.k => PaneIn(e, s.tab, s.layout[s.t].panes[j])'
      BY <1>4, <3>1, <3>2, LaidStays DEF LayoutPane
    <3>6. LayoutPane(e)'
      BY <1>2, <1>4, <2>2, <2>3, <3>1, <3>2, <3>4, <3>5 DEF LayoutPane
    <3>7. QED
      BY <3>3, <3>6
  <2>4. e.k \in Nat \ {0} /\ LayoutTabsStay
    BY <1>3, <1>4, <2>2 DEF LayoutAt, LayoutLabelsStay
  <2>5. QED
    BY <1>1, <1>2, <1>3, <1>4, <2>1, <2>2, <2>3, <2>4, LayoutStays
<1>5. CASE L!UsesRoot(a)
  <2>1. /\ v2' = v2 /\ v3' = v3 /\ v4' = [v4 EXCEPT ![a].pane = s.root, ![a].pc = "name"]
        /\ s.k = 1 /\ s.root # 0
    BY <1>1, <1>5 DEF L!Splits, L!UsesRoot
  <2>2. PICK n, e : n = s.root /\ e = [s EXCEPT !.pane = n, !.pc = "name"]
    OBVIOUS
  <2>3. LayoutFrame' /\ LayoutLabelsStay
    BY <1>2, <1>3, <2>1, FrameStays
  <2>4. LayoutSoFar(s) /\ LayoutPane(s) =>
          /\ n \in DOMAIN v2' /\ v2'[n].tab = s.tab
          /\ s.anchor \in DOMAIN v2' => v2'[s.anchor].tab = s.tab
    BY <1>2, <2>1, <2>2 DEF LayoutPane
  <2>5. QED
    BY <1>4, <2>1, <2>2, <2>3, <2>4
<1>6. CASE ~L!UsesRoot(a)
  <2>1. PICK n, z : n = v3 + 1 /\ z = L!Pane(v2[s.anchor].tab)
    OBVIOUS
  <2>2. /\ s.anchor \in DOMAIN v2 /\ v3' = n /\ v2' = L!With(v2, n, z)
        /\ v4' = [v4 EXCEPT ![a].pane = n, ![a].pc = "name"]
    BY <1>1, <1>6, <2>1 DEF L!Splits
  <2>3. PaneRecord(z) /\ z.tab = v2[s.anchor].tab /\ z.label = L!NoLabel /\ z.tab \in 1..n
    BY <1>3, <2>1, <2>2 DEF PaneRecord, L!Pane, LayoutFrame
  <2>4. /\ n \notin DOMAIN v2
        /\ DOMAIN v2' \subseteq 1..v3' /\ n \in DOMAIN v2' /\ v2'[n] = z
        /\ v2' = [p \in DOMAIN v2' |-> v2'[p]]
        /\ \A p \in DOMAIN v2' : PaneRecord(v2'[p]) /\ v2'[p].tab \in 1..v3'
        /\ DOMAIN v2 \subseteq DOMAIN v2' /\ \A p \in DOMAIN v2 : v2'[p] = v2[p]
    BY <1>3, <2>1, <2>2, <2>3, PaneAdded
  <2>5. LayoutLabelsStay
    BY <1>2, <2>4 DEF LayoutLabelsStay, LayoutTabsStay
  <2>6. LayoutFrame'
    <3>1. DOMAIN v1' \subseteq 1..v3' /\ v3' \in Nat /\ v5' \in Nat /\ v1' = [x \in DOMAIN v1' |-> v1'[x]]
      BY <1>2, <1>3, <2>1, <2>2 DEF LayoutFrame
    <3>2. QED
      BY <2>4, <3>1 DEF LayoutFrame, PaneRecord
  <2>7. LayoutSoFar(s) /\ LayoutPane(s) =>
          /\ n \in DOMAIN v2' /\ v2'[n].tab = s.tab /\ v2'[n].label = L!NoLabel
          /\ v2'[s.anchor].tab = s.tab
    BY <2>2, <2>3, <2>4 DEF LayoutPane
  <2>8. PICK e : e = [s EXCEPT !.pane = n, !.pc = "name"]
    OBVIOUS
  <2>9. QED
    BY <1>4, <2>2, <2>5, <2>6, <2>7, <2>8
<1>7. QED
  BY <1>5, <1>6

\* Only a pane that no tab needs gets another name.
LEMMA LayoutNames ==
  ASSUME LayoutInv, NEW a \in Process, L!Names(a)
  PROVE  LayoutInv'
<1>1. PICK s, w, q, r : /\ s = v4[a] /\ w = s.layout[s.t].panes[s.k] /\ q = s.pane
                        /\ r = [v2[q] EXCEPT !.label = w]
  OBVIOUS
<1>2. /\ s.pc = "name" /\ q \in DOMAIN v2 /\ v1' = v1 /\ v3' = v3 /\ v5' = v5
      /\ v2' = [v2 EXCEPT ![q].label = w] /\ v4' = [v4 EXCEPT ![a].pc = "run"]
  BY <1>1 DEF L!Names, L!At, L!Goto, L!Wanted, L!Tab
<1>3. LayoutAt(s) /\ LayoutFrame
  BY <1>1, <1>2, LayoutThere DEF LayoutInv
<1>4. PICK e : e = [s EXCEPT !.pc = "run"]
  OBVIOUS
<1>5. v4' = [v4 EXCEPT ![a] = e]
  BY <1>1, <1>2, <1>4 DEF LayoutInv
<1>6. /\ LayoutSame(s, e) /\ e.pc = "run" /\ e.k = s.k /\ e.anchor = s.anchor /\ e.pane = q
      /\ e.layout = s.layout /\ e.seenPanes = s.seenPanes /\ e.missed = s.missed
      /\ e.t = s.t /\ e.tab = s.tab
  BY <1>1, <1>3, <1>4 DEF LayoutSame, LayoutAt, LayoutRecord
<1>7. PaneRecord(r) /\ r.tab = v2[q].tab /\ r.label = w
  BY <1>1, <1>2, <1>3 DEF LayoutFrame, PaneRecord
<1>8. /\ v2' = [p \in DOMAIN v2 |-> v2'[p]] /\ DOMAIN v2' = DOMAIN v2 /\ v2'[q] = r
      /\ \A p \in DOMAIN v2 : p # q => v2'[p] = v2[p]
  BY <1>1, <1>2
<1>9. LayoutFrame' /\ LayoutTabsStay
  BY <1>2, <1>3, <1>7, <1>8 DEF LayoutFrame, PaneRecord, LayoutTabsStay
<1>10. ASSUME LayoutSoFar(s) PROVE LayoutTab(e)' /\ LayoutPane(e)'
  <2>1. /\ LayoutTab(s) /\ LayoutPane(s) /\ s.layout \in Layouts /\ s.k \in Nat \ {0}
        /\ s.t \in Nat \ {0}
    BY <1>3, <1>10 DEF LayoutAt
  <2>2. /\ s.t \in DOMAIN s.layout /\ s.tab \in DOMAIN v1 /\ v1[s.tab] = s.layout[s.t].label
        /\ v2[q].tab = s.tab /\ s.k \in DOMAIN s.layout[s.t].panes
        /\ s.k = 1 \/ v2[q].label = L!NoLabel
    BY <1>1, <1>2, <2>1 DEF LayoutPane
  <2>3. ASSUME NEW x, NEW l, PaneIn(s, x, l), x # s.tab \/ (v2[q].label = L!NoLabel /\ l # L!NoLabel)
        PROVE  PaneIn(e, x, l)'
    <3>1. PICK p \in DOMAIN v2 : v2[p].tab = x /\ Shown(s, p, l)
      BY <2>3 DEF PaneIn
    <3>2. p \in DOMAIN v2' /\ v2'[p].tab = x
      BY <1>7, <1>8, <3>1
    <3>3. Shown(e, p, l)'
      BY <1>6, <1>8, <2>2, <2>3, <3>1 DEF Shown
    <3>4. QED
      BY <3>2, <3>3 DEF PaneIn
  <2>4. ASSUME NEW i \in DOMAIN s.layout, i < s.t, Laid(s, i) PROVE Laid(e, i)'
    <3>1. PICK x \in DOMAIN v1 :
            /\ v1[x] = s.layout[i].label
            /\ \A k \in DOMAIN s.layout[i].panes : PaneIn(s, x, s.layout[i].panes[k])
      BY <2>4 DEF Laid
    <3>2. i # s.t
      <4>1. i \in Nat
        BY <2>1, LayoutsAre
      <4>2. QED
        BY <2>1, <2>4, <4>1
    <3>3. x # s.tab
      BY <2>1, <2>2, <3>1, <3>2, LayoutsAre
    <3>4. \A k \in DOMAIN e.layout[i].panes : PaneIn(e, x, e.layout[i].panes[k])'
      BY <1>6, <2>3, <3>1, <3>3
    <3>5. x \in DOMAIN v1' /\ v1'[x] = e.layout[i].label
      BY <1>2, <1>6, <3>1
    <3>6. QED
      BY <3>4, <3>5 DEF Laid
  <2>5. LayoutTab(e)'
    BY <1>6, <2>1, <2>4 DEF LayoutTab
  <2>6. ASSUME NEW j \in DOMAIN s.layout[s.t].panes, j < s.k
        PROVE  PaneIn(e, s.tab, s.layout[s.t].panes[j])'
    <3>1. j \in Nat /\ j >= 1 /\ s.layout[s.t].panes[j] # L!NoLabel
      BY <2>1, <2>2, LayoutsAre
    <3>2. v2[q].label = L!NoLabel
      BY <2>2, <2>6, <3>1
    <3>3. PaneIn(s, s.tab, s.layout[s.t].panes[j])
      BY <2>1, <2>6 DEF LayoutPane
    <3>4. QED
      BY <2>3, <3>1, <3>2, <3>3
  <2>7. \A p \in DOMAIN v2 : v2'[p].tab = v2[p].tab
    BY <1>7, <1>8
  <2>8. LayoutPane(e)'
    <3>1. e.anchor \in DOMAIN v2' => v2'[e.anchor].tab = e.tab
      BY <1>6, <1>8, <2>1, <2>7 DEF LayoutPane
    <3>2. v2'[q].label = w /\ q \in DOMAIN v2' /\ v2'[q].tab = s.tab
      BY <1>2, <1>7, <1>8, <2>2
    <3>3. QED
      BY <1>1, <1>2, <1>6, <2>2, <2>6, <3>1, <3>2 DEF LayoutPane
  <2>9. QED
    BY <2>5, <2>8
<1>11. e.k \in Nat \ {0}
  BY <1>3, <1>6 DEF LayoutAt
<1>12. QED
  BY <1>1, <1>2, <1>3, <1>5, <1>6, <1>9, <1>10, <1>11, LayoutStays

\* A step to the next tab: the one it leaves is there, or has failed.
LayoutPast(s, e, M) ==
  /\ LayoutRecord(e) /\ e.t = s.t + 1 /\ e.k = s.k /\ e.since = s.since /\ e.layout = s.layout
  /\ e.seenTabs = s.seenTabs /\ e.seenPanes = s.seenPanes /\ e.spare = s.spare
  /\ e.missed = M /\ e.pc = "tab"

LEMMA LayoutPasses ==
  ASSUME LayoutInv, NEW a \in Process, NEW s, s = v4[a], s.pc \in {"tab", "pane", "name", "run"},
         s.t <= Len(s.layout), UNCHANGED <<v1, v2, v3, v5>>, NEW M, s.missed \subseteq M,
         NEW e, LayoutPast(s, e, M), v4' = [v4 EXCEPT ![a] = e],
         LayoutSoFar(s) /\ s.t \in DOMAIN s.layout => s.layout[s.t].label \in M \/ Laid(s, s.t)
  PROVE  LayoutInv'
<1>1. LayoutAttach(s) /\ LayoutBusy(s) /\ LayoutFrame
  BY DEF LayoutInv, LayoutBusy
<1>2. /\ LayoutRecord(e) /\ e.t = s.t + 1 /\ e.k = s.k /\ e.since = s.since /\ e.layout = s.layout
      /\ e.seenTabs = s.seenTabs /\ e.seenPanes = s.seenPanes /\ e.spare = s.spare
      /\ e.missed = M /\ e.pc = "tab"
  BY DEF LayoutPast
<1>3. LayoutFrame' /\ LayoutLabelsStay /\ LayoutTabsStay /\ v5' = v5
  BY <1>1, FrameStays DEF LayoutLabelsStay
<1>4. s.layout \in Layouts /\ s.t \in Nat \ {0} /\ s.k \in Nat \ {0}
  BY <1>1 DEF LayoutAttach
<1>5. ASSUME LayoutSoFar(s) PROVE LayoutSoFar(e)'
  <2>1. LayoutSpare(s) /\ LayoutSeen(s) /\ LayoutTab(s)
    BY <1>5 DEF LayoutSoFar
  <2>2. LayoutSpare(e)' /\ LayoutSeen(e)'
    BY <1>2, <1>3, <2>1, SeenStays
  <2>3. ASSUME NEW i \in DOMAIN s.layout, i < s.t + 1
        PROVE  s.layout[i].label \in M \/ Laid(e, i)'
    <3>1. i \in Nat
      BY <1>4, LayoutsAre
    <3>2. i < s.t \/ i = s.t
      BY <1>4, <2>3, <3>1
    <3>3. s.layout[i].label \in M \/ Laid(s, i)
      BY <1>5, <2>1, <3>2 DEF LayoutTab
    <3>4. QED
      BY <1>2, <1>3, <3>3, LaidStays
  <2>4. LayoutTab(e)'
    BY <1>2, <2>3 DEF LayoutTab
  <2>5. QED
    BY <1>2, <2>2, <2>4 DEF LayoutSoFar
<1>6. e.t \in Nat \ {0} /\ e.k \in Nat \ {0} /\ e.pc # "new"
  BY <1>2, <1>4
<1>7. QED
  BY <1>1, <1>2, <1>3, <1>5, <1>6, LayoutGoes

LEMMA LayoutTabDone ==
  ASSUME LayoutInv, NEW a \in Process, L!TabDone(a)
  PROVE  LayoutInv'
<1>1. PICK s, M, e : /\ s = v4[a] /\ M = s.missed
                     /\ e = [s EXCEPT !.missed = M, !.t = s.t + 1, !.pc = "tab"]
  OBVIOUS
<1>2. /\ s.pc = "pane" /\ s.k > Len(s.layout[s.t].panes) /\ UNCHANGED <<v1, v2, v3, v5>>
      /\ v4' = [v4 EXCEPT ![a].t = s.t + 1, ![a].pc = "tab"]
  BY <1>1 DEF L!TabDone, L!At, L!Tab, LayoutInv
<1>3. LayoutAt(s)
  BY <1>1, <1>2, LayoutThere
<1>4. v4' = [v4 EXCEPT ![a] = e]
  BY <1>1, <1>2, <1>3 DEF LayoutInv, LayoutAt, LayoutRecord
<1>5. ASSUME LayoutSoFar(s), s.t \in DOMAIN s.layout
      PROVE  Laid(s, s.t)
  <2>1. LayoutPane(s) /\ s.layout \in Layouts /\ s.k \in Nat
    BY <1>3, <1>5 DEF LayoutAt
  <2>2. \A j \in DOMAIN s.layout[s.t].panes : j < s.k
    BY <1>2, <1>5, <2>1, LayoutsAre
  <2>3. QED
    BY <2>1, <2>2 DEF LayoutPane, Laid
<1>6. CASE s.t <= Len(s.layout)
  <2>1. LayoutPast(s, e, M) /\ s.missed \subseteq M
    BY <1>1, <1>3 DEF LayoutPast, LayoutAt, LayoutRecord
  <2>2. QED
    BY <1>1, <1>2, <1>4, <1>5, <1>6, <2>1, LayoutPasses
<1>7. CASE ~(s.t <= Len(s.layout))
  <2>1. ~(s.t \in DOMAIN s.layout)
    BY <1>3, <1>7, LayoutsAre DEF LayoutAt
  <2>2. ~LayoutSoFar(s)
    BY <1>3, <2>1 DEF LayoutAt, LayoutPane
  <2>3. /\ LayoutRecord(e) /\ e.t = s.t + 1 /\ e.k = s.k /\ e.since = s.since
        /\ e.layout = s.layout /\ e.pc = "tab"
    BY <1>1, <1>3 DEF LayoutAt, LayoutRecord
  <2>4. e.t \in Nat \ {0} /\ e.k \in Nat \ {0} /\ e.pc # "new" /\ LayoutBusy(s)
    BY <1>2, <1>3, <2>3 DEF LayoutAt, LayoutBusy
  <2>5. LayoutFrame' /\ v5' = v5
    BY <1>2, FrameStays DEF LayoutInv
  <2>6. QED
    BY <1>1, <1>4, <2>2, <2>3, <2>4, <2>5, LayoutGoes
<1>8. QED
  BY <1>6, <1>7

LEMMA LayoutTabFails ==
  ASSUME LayoutInv, NEW a \in Process, L!TabFails(a)
  PROVE  LayoutInv'
<1>1. PICK s, M, e : /\ s = v4[a] /\ M = s.missed \cup {s.layout[s.t].label}
                     /\ e = [s EXCEPT !.missed = M, !.t = s.t + 1, !.pc = "tab"]
  OBVIOUS
<1>2. /\ s.pc \in {"tab", "pane", "name", "run"} /\ s.t <= Len(s.layout)
      /\ UNCHANGED <<v1, v2, v3, v5>>
      /\ v4' = [v4 EXCEPT ![a].missed = M, ![a].t = s.t + 1, ![a].pc = "tab"]
  BY <1>1 DEF L!TabFails, L!Tab, L!AfterFailure, LayoutInv
<1>3. v4' = [v4 EXCEPT ![a] = e]
  BY <1>1, <1>2 DEF LayoutInv
<1>4. s.missed \subseteq M /\ s.layout[s.t].label \in M
  BY <1>1
<1>5. LayoutPast(s, e, M)
  <2>1. LayoutRecord(s)
    BY <1>1 DEF LayoutInv, LayoutAttach
  <2>2. QED
    BY <1>1, <2>1 DEF LayoutPast, LayoutRecord
<1>6. QED
  BY <1>1, <1>2, <1>3, <1>4, <1>5, LayoutPasses

LEMMA LayoutListingFails ==
  ASSUME LayoutInv, NEW a \in Process, L!ListingFails(a)
  PROVE  LayoutInv'
<1>1. PICK s, c, M, e :
        /\ s = v4[a] /\ c = IF s.pc = "spare" THEN "list" ELSE "done"
        /\ M = IF s.pc = "list" THEN L!Configured(s.layout) ELSE {}
        /\ e = [s EXCEPT !.pc = c, !.missed = M]
  OBVIOUS
<1>2. s.pc \in {"spare", "list"} /\ UNCHANGED <<v1, v2, v3, v5>>
  BY <1>1 DEF L!ListingFails
<1>3. v4' = [v4 EXCEPT ![a].pc = c, ![a].missed = M]
  BY <1>1 DEF L!ListingFails, LayoutInv
<1>4. v4' = [v4 EXCEPT ![a] = e]
  BY <1>1, <1>3 DEF LayoutInv
<1>5. LayoutAttach(s) /\ LayoutFrame /\ LayoutBusy(s)
  BY <1>1, <1>2 DEF LayoutInv, LayoutBusy
<1>6. /\ LayoutRecord(e) /\ e.t = s.t /\ e.k = s.k /\ e.since = s.since /\ e.layout = s.layout
      /\ e.spare = s.spare /\ e.pc = c
  BY <1>1, <1>5 DEF LayoutAttach, LayoutRecord
<1>7. LayoutFrame' /\ v5' = v5
  BY <1>2, <1>5, FrameStays
<1>8. ASSUME LayoutSoFar(s), LayoutBusy(e) PROVE LayoutSoFar(e)'
  <2>1. e.pc = "list" /\ e.spare = {} /\ e.t = 1
    BY <1>1, <1>2, <1>6, <1>8 DEF LayoutBusy, LayoutSoFar
  <2>2. LayoutSpare(e)'
    BY <2>1 DEF LayoutSpare
  <2>3. QED
    BY <2>1, <2>2 DEF LayoutSoFar
<1>9. e.t \in Nat \ {0} /\ e.k \in Nat \ {0} /\ e.pc # "new"
  BY <1>1, <1>5, <1>6 DEF LayoutAttach
<1>10. QED
  BY <1>1, <1>4, <1>5, <1>6, <1>7, <1>8, <1>9, LayoutGoes

\* The default tab that is closed had no configured label.
LEMMA LayoutEnds ==
  ASSUME LayoutInv, NEW a \in Process, L!Ends(a)
  PROVE  /\ LayoutInv'
         /\ v5 = v4[a].since /\ ~L!Renames(a)
              => \A i \in DOMAIN v4[a].layout : v4[a].layout[i].label \in v4[a].missed
                                                \/ L!Has(v4[a].layout[i])'
<1>1. PICK s, T, e : /\ s = v4[a] /\ e = [s EXCEPT !.pc = "done"]
                     /\ T = IF s.missed = {} THEN {d.tab : d \in s.spare} ELSE {}
  OBVIOUS
<1>2. /\ s.pc = "tab" /\ s.t > Len(s.layout) /\ v3' = v3 /\ v5' = v5
      /\ v4' = [v4 EXCEPT ![a].pc = "done"]
      /\ v1' = L!Without(v1, T) /\ v2' = L!Without(v2, {p \in DOMAIN v2 : v2[p].tab \in T})
  BY <1>1 DEF L!Ends, L!At, L!Goto
<1>3. v4' = [v4 EXCEPT ![a] = e]
  BY <1>1, <1>2 DEF LayoutInv
<1>4. LayoutAttach(s) /\ LayoutFrame /\ LayoutBusy(s)
  BY <1>1, <1>2 DEF LayoutInv, LayoutBusy
<1>5. /\ LayoutRecord(e) /\ e.t = s.t /\ e.k = s.k /\ e.since = s.since /\ e.layout = s.layout
      /\ e.pc = "done"
  BY <1>1, <1>4 DEF LayoutAttach, LayoutRecord
<1>6. /\ DOMAIN v1' = DOMAIN v1 \ T /\ v1' = [x \in DOMAIN v1' |-> v1'[x]]
      /\ \A x \in DOMAIN v1' : v1'[x] = v1[x]
  BY <1>2 DEF L!Without
<1>7. /\ DOMAIN v2' = {p \in DOMAIN v2 : v2[p].tab \notin T} /\ v2' = [p \in DOMAIN v2' |-> v2'[p]]
      /\ \A p \in DOMAIN v2' : v2'[p] = v2[p]
  BY <1>2 DEF L!Without
<1>8. LayoutFrame'
  BY <1>2, <1>4, <1>6, <1>7 DEF LayoutFrame, PaneRecord
<1>9. LayoutInv'
  <2>1. e.t \in Nat \ {0} /\ e.k \in Nat \ {0} /\ e.pc # "new" /\ ~LayoutBusy(e)
    BY <1>4, <1>5 DEF LayoutAttach, LayoutBusy
  <2>2. LayoutSoFar(s) /\ LayoutBusy(e) => LayoutSoFar(e)'
    BY <2>1
  <2>3. s = v4[a] /\ v5' = v5
    BY <1>1, <1>2
  <2>4. QED
    BY <1>3, <1>4, <1>5, <1>8, <2>1, <2>2, <2>3, LayoutGoes
<1>10. ASSUME v5 = s.since, ~L!Renames(a), NEW i \in DOMAIN s.layout, s.layout[i].label \notin s.missed
       PROVE  L!Has(s.layout[i])'
  <2>1. LayoutSoFar(s)
    BY <1>1, <1>4, <1>10 DEF LayoutInv
  <2>2. LayoutSpare(s) /\ LayoutTab(s) /\ s.layout \in Layouts /\ s.t \in Nat
    BY <1>2, <1>4, <2>1 DEF LayoutSoFar, LayoutAttach
  <2>3. i < s.t /\ \A k \in DOMAIN s.layout[i].panes : s.layout[i].panes[k] # L!NoLabel
    BY <1>2, <1>10, <2>2, LayoutsAre
  <2>4. Laid(s, i)
    BY <1>10, <2>2, <2>3 DEF LayoutTab
  <2>5. PICK x \in DOMAIN v1 :
          /\ v1[x] = s.layout[i].label
          /\ \A k \in DOMAIN s.layout[i].panes : PaneIn(s, x, s.layout[i].panes[k])
    BY <2>4 DEF Laid
  <2>6. x \notin T
    BY <1>1, <2>2, <2>5 DEF LayoutSpare, L!Configured
  <2>7. x \in DOMAIN v1' /\ v1'[x] = s.layout[i].label
    BY <1>6, <2>5, <2>6
  <2>8. ASSUME NEW k \in DOMAIN s.layout[i].panes
        PROVE  \E p \in DOMAIN v2' : v2'[p].tab = x /\ v2'[p].label = s.layout[i].panes[k]
    <3>1. PICK p \in DOMAIN v2 : v2[p].tab = x /\ Shown(s, p, s.layout[i].panes[k])
      BY <2>5, <2>8 DEF PaneIn
    <3>2. v2[p].label = s.layout[i].panes[k]
      BY <1>1, <1>10, <2>3, <2>8, <3>1 DEF Shown, L!Renames
    <3>3. QED
      BY <1>7, <2>6, <3>1, <3>2
  <2>9. QED
    BY <2>7, <2>8 DEF L!Has
<1>11. v4'[a].layout = s.layout
  BY <1>3, <1>5 DEF LayoutInv
<1>12. QED
  BY <1>1, <1>9, <1>10, <1>11 DEF L!Has

\* What the user does: nothing is known of the attach that runs meanwhile.
LEMMA LayoutUser ==
  ASSUME LayoutInv, L!ClosesPane \/ L!OpensPane
  PROVE  LayoutInv' /\ v4' = v4
<1>1. LayoutFrame /\ v5' = v5 + 1 /\ v4' = v4
  BY DEF LayoutInv, L!ClosesPane, L!OpensPane
<1>2. LayoutFrame'
  <2>1. CASE L!ClosesPane
    <3>1. PICK P, T : v2' = L!Without(v2, P) /\ v1' = L!Without(v1, T) /\ v3' = v3
      BY <2>1 DEF L!ClosesPane
    <3>2. /\ DOMAIN v2' \subseteq DOMAIN v2 /\ v2' = [p \in DOMAIN v2' |-> v2'[p]]
          /\ \A p \in DOMAIN v2' : v2'[p] = v2[p]
      BY <3>1 DEF L!Without
    <3>3. DOMAIN v1' \subseteq DOMAIN v1 /\ v1' = [x \in DOMAIN v1' |-> v1'[x]]
      BY <3>1 DEF L!Without
    <3>4. QED
      BY <1>1, <3>1, <3>2, <3>3 DEF LayoutFrame, PaneRecord
  <2>2. CASE L!OpensPane
    <3>a. PICK q \in DOMAIN v2 : v2' = L!With(v2, v3', L!Pane(v2[q].tab)) /\ v3' = v3 + 1 /\ v1' = v1
      BY <2>2 DEF L!OpensPane
    <3>1. PICK n, z : /\ n = v3 + 1 /\ z = L!Pane(v2[q].tab) /\ v2' = L!With(v2, n, z)
                      /\ v3' = n /\ v1' = v1
      BY <3>a
    <3>2. PaneRecord(z) /\ z.tab \in 1..n /\ v3 \in Nat
      BY <1>1, <3>1 DEF PaneRecord, L!Pane, LayoutFrame
    <3>3. /\ DOMAIN v2' \subseteq 1..v3' /\ v2' = [p \in DOMAIN v2' |-> v2'[p]]
          /\ \A p \in DOMAIN v2' : PaneRecord(v2'[p]) /\ v2'[p].tab \in 1..v3'
      BY <1>1, <3>1, <3>2, PaneAdded
    <3>4. DOMAIN v1' \subseteq 1..v3' /\ v3' \in Nat /\ v5' \in Nat /\ v1' = [x \in DOMAIN v1' |-> v1'[x]]
      BY <1>1, <3>1 DEF LayoutFrame
    <3>5. QED
      BY <3>3, <3>4 DEF LayoutFrame, PaneRecord
  <2>3. QED
    BY <2>1, <2>2
<1>3. v5 \in Nat /\ \A b \in Process : v4[b].since \in Nat /\ v4[b].since <= v5
  BY <1>1 DEF LayoutFrame, LayoutInv, LayoutAttach
<1>4. \A b \in Process : LayoutAttach(v4[b])' /\ LayoutBusy(v4[b])' = LayoutBusy(v4[b])
  BY <1>1 DEF LayoutInv, LayoutAttach, LayoutRecord, LayoutBusy
<1>5. \A b \in Process : v4'[b].since <= v5' /\ v4'[b].since # v5'
  BY <1>1, <1>3
<1>6. v4' = [b \in Process |-> v4'[b]]
  BY <1>1 DEF LayoutInv
<1>7. \A b, c \in Process : LayoutBusy(v4[b])' /\ LayoutBusy(v4[c])' => b = c
  BY <1>4 DEF LayoutInv
<1>8. QED
  BY <1>1, <1>2, <1>4, <1>5, <1>6, <1>7 DEF LayoutInv

LEMMA LayoutStutters ==
  ASSUME LayoutInv, UNCHANGED <<v1, v2, v3, v4, v5>>
  PROVE  LayoutInv'
<1>1. LayoutFrame'
  BY FrameStays DEF LayoutInv
<1>2. \A b \in Process : LayoutAttach(v4[b])' /\ LayoutBusy(v4[b])' = LayoutBusy(v4[b])
  BY DEF LayoutInv, LayoutAttach, LayoutRecord, LayoutBusy
<1>3. \A b \in Process : LayoutSoFar(v4[b]) => LayoutSoFar(v4[b])'
  BY DEF LayoutSoFar, LayoutSpare, LayoutSeen, LayoutTab, LayoutPane, Laid, PaneIn, Shown, L!Configured
<1>4. v4' = [b \in Process |-> v4'[b]] /\ v4' = v4 /\ v5' = v5
  BY DEF LayoutInv
<1>5. \A b \in Process : v4[b].since' <= v5'
  BY <1>4 DEF LayoutInv
<1>6. \A b, c \in Process : LayoutBusy(v4[b])' /\ LayoutBusy(v4[c])' => b = c
  BY <1>2 DEF LayoutInv
<1>7. \A b \in Process : LayoutBusy(v4[b])' /\ v4[b].since' = v5' => LayoutSoFar(v4[b])'
  BY <1>2, <1>3, <1>4 DEF LayoutInv
<1>8. QED
  BY <1>1, <1>2, <1>4, <1>5, <1>6, <1>7 DEF LayoutInv

\* An attach that was between tabs is not done after any other step.
LEMMA LayoutQuiet ==
  ASSUME LayoutInv, NEW a \in Process, NEW b \in Process,
         \/ L!Begins(b) \/ L!FindsSpare(b) \/ L!Lists(b) \/ L!Finds(b) \/ L!Takes(b) \/ L!Creates(b)
         \/ L!Keeps(b) \/ L!Splits(b) \/ L!Names(b) \/ L!Runs(b) \/ L!TabDone(b) \/ L!TabFails(b)
         \/ L!ListingFails(b),
         v4[a].pc = "tab"
  PROVE  v4'[a].pc # "done"
<1>1. v4 = [c \in Process |-> v4[c]]
  BY DEF LayoutInv
<1>2. ASSUME v4[b].pc = "tab" PROVE v4'[b].pc \in {"tab", "pane"}
  <2>1. L!Finds(b) \/ L!Takes(b) \/ L!Creates(b) \/ L!TabFails(b)
    BY <1>2 DEF L!Begins, L!FindsSpare, L!Lists, L!Keeps, L!Splits, L!Names, L!Runs, L!TabDone,
       L!ListingFails, L!At
  <2>2. LayoutRecord(v4[b])
    BY DEF LayoutInv, LayoutAttach
  <2>3. CASE L!TabFails(b)
    BY <1>1, <2>2, <2>3 DEF L!TabFails, LayoutRecord
  <2>4. CASE L!Takes(b)
    <3>1. PICK d \in v4[b].spare :
            v4' = [v4 EXCEPT ![b].tab = d.tab, ![b].root = d.root, ![b].anchor = d.root,
                             ![b].spare = {}, ![b].k = 1, ![b].pc = "pane"]
      BY <2>4 DEF L!Takes
    <3>2. PICK s, x, r, e :
            /\ s = v4[b] /\ x = d.tab /\ r = d.root
            /\ e = [s EXCEPT !.tab = x, !.root = r, !.anchor = r, !.spare = {}, !.k = 1, !.pc = "pane"]
      OBVIOUS
    <3>3. e.pc = "pane" /\ v4' = [v4 EXCEPT ![b] = e]
      BY <1>1, <2>2, <3>1, <3>2 DEF LayoutRecord
    <3>4. QED
      BY <1>1, <3>3
  <2>5. ASSUME NEW x, NEW r, L!Opens(b, x, r) PROVE v4'[b].pc = "pane"
    BY <1>1, <2>2, <2>5 DEF L!Opens, LayoutRecord
  <2>6. CASE L!Finds(b) \/ L!Creates(b)
    BY <2>5, <2>6 DEF L!Finds, L!Creates
  <2>7. QED
    BY <2>1, <2>3, <2>4, <2>6
<1>3. b # a => v4'[a] = v4[a]
  BY <1>1 DEF L!Begins, L!FindsSpare, L!Lists, L!Finds, L!Takes, L!Creates, L!Keeps, L!Splits,
     L!Names, L!Runs, L!TabDone, L!TabFails, L!ListingFails, L!Opens, L!Goto
<1>4. QED
  BY <1>2, <1>3

LEMMA LayoutNext ==
  ASSUME LayoutInv, L!Next
  PROVE  LayoutInv' /\ L!LaysOut
<1>1. CASE L!ClosesPane \/ L!OpensPane
  <2>1. LayoutInv' /\ v4' = v4
    BY <1>1, LayoutUser
  <2>2. QED
    BY <2>1 DEF L!LaysOut, L!At
<1>2. ASSUME NEW b \in Process, L!Ends(b)
      PROVE  LayoutInv' /\ L!LaysOut
  <2>1. LayoutInv'
    BY <1>2, LayoutEnds
  <2>2. \A a \in Process : a # b => v4'[a] = v4[a]
    BY <1>2 DEF L!Ends, L!Goto, LayoutInv
  <2>3. ASSUME NEW a \in Process, v4[a].pc = "tab", v4'[a].pc = "done", v5 = v4[a].since,
               ~L!Renames(a), NEW i \in DOMAIN v4[a].layout
        PROVE  v4[a].layout[i].label \in v4[a].missed \/ L!Has(v4[a].layout[i])'
    <3>1. a = b
      BY <2>2, <2>3
    <3>2. L!Ends(a)
      BY <1>2, <3>1
    <3>3. QED
      BY <2>3, <3>2, LayoutEnds
  <2>4. QED
    BY <2>1, <2>3 DEF L!LaysOut, L!At
<1>3. ASSUME NEW b \in Process,
             \/ L!Begins(b) \/ L!FindsSpare(b) \/ L!Lists(b) \/ L!Finds(b) \/ L!Takes(b)
             \/ L!Creates(b) \/ L!Keeps(b) \/ L!Splits(b) \/ L!Names(b) \/ L!Runs(b)
             \/ L!TabDone(b) \/ L!TabFails(b) \/ L!ListingFails(b)
      PROVE  LayoutInv' /\ L!LaysOut
  <2>1. LayoutInv'
    BY <1>3, LayoutBegins, LayoutFindsSpare, LayoutLists, LayoutFinds, LayoutTakes, LayoutCreates,
       LayoutKeeps, LayoutSplits, LayoutNames, LayoutRuns, LayoutTabDone, LayoutTabFails,
       LayoutListingFails
  <2>2. \A a \in Process : v4[a].pc = "tab" => v4'[a].pc # "done"
    BY <1>3, LayoutQuiet
  <2>3. L!LaysOut
    BY <2>2 DEF L!LaysOut, L!At
  <2>4. QED
    BY <2>1, <2>3
<1>4. QED
  BY <1>1, <1>2, <1>3 DEF L!Next, L!Step

\* Every tab an attach did not report as failed is there with all its panes, also when it
\* took over a tab, when calls failed on the way, and when the default tab was closed.
THEOREM TabsAreLaidOut == SessionsSpec => LaidOut
<1> DEFINE I == part = "layout" => LayoutInv
<1>a. L!LayoutAssumption
  BY PartsAssumption DEF PartsAssumption
<1>1. PartInit => I
  BY <1>a, LayoutInit DEF PartInit
<1>2. I /\ [/\ \/ IssuesMove \/ Parts
            /\ UNCHANGED part]_all => I'
  <2> SUFFICES ASSUME I, part = "layout", [(IssuesMove \/ Parts) /\ UNCHANGED part]_all
               PROVE  LayoutInv'
    BY DEF all
  <2>1. CASE UNCHANGED all
    <3>1. UNCHANGED <<v1, v2, v3, v4, v5>>
      BY <2>1 DEF all
    <3>2. QED
      BY <3>1, LayoutStutters
  <2>2. CASE IssuesMove \/ Parts
    <3>1. L!Next
      BY <2>2 DEF Parts, IssuesMove, SeedingMoves, AgentMoves, LayoutMoves, AccessMoves,
         SetupMoves, ServingMoves, SidebarMoves
    <3>2. QED
      BY <3>1, LayoutNext
  <2>3. QED
    BY <2>1, <2>2
<1>3. I /\ [/\ \/ IssuesMove \/ Parts
            /\ UNCHANGED part]_all => [part = "layout" => L!LaysOut]_all
  <2> SUFFICES ASSUME I, part = "layout", IssuesMove \/ Parts
               PROVE  L!LaysOut
    OBVIOUS
  <2>1. L!Next
    BY DEF Parts, IssuesMove, SeedingMoves, AgentMoves, LayoutMoves, AccessMoves,
       SetupMoves, ServingMoves, SidebarMoves
  <2>2. QED
    BY <2>1, LayoutNext
<1>4. QED
  BY <1>1, <1>2, <1>3, PTL DEF SessionsSpec, Parts, LaidOut

===============================================================================
