---------------------------- MODULE ProvisionProofs ----------------------------
(***************************************************************************)
(* Proofs about Provision: the invariant that its safety properties follow *)
(* from, for any number of processes, invocations, lines and faults. The   *)
(* runs check Provision inside MCMachines, and MachinesProofs carries the  *)
(* two facts proved here, that the invariant starts and that every step    *)
(* keeps it, over to the properties of those runs.                         *)
(***************************************************************************)
EXTENDS Provision, FiniteSetTheorems, SequenceTheorems, TLAPS

Place == {"idle", "ship", "inside", "status", "stop", "start", "look", "drain", "poll",
          "last", "dolt", "gh", "failed"}
Held == [pc : Place, want : Nat, saw : Nat, inv : Nat, cursor : Nat, out : Seq(Nat),
         ok : BOOLEAN, mine : BOOLEAN]
Unit == [inv : Nat, sub : {"dead", "running", "exited", "failed"},
         result : {"success", "exit-code"}, builds : Nat, by : SUBSET Run]

Types ==
  /\ config \in Version /\ at \in [Run -> Held]
  /\ flake \in Nat /\ unit \in Unit /\ started \in Nat /\ journal \in Seq(Nat)
  /\ built \in SUBSET Nat

\* What systemd shows of the unit is consistent: a unit that is loaded has the
\* invocation of one of its starts, and one that exited has switched.
UnitShown ==
  /\ unit.inv <= started
  /\ unit.inv = 0 => unit = NoUnit
  /\ unit.sub = "dead" => unit.inv = 0
  /\ unit.sub = "exited" => unit.inv \in built
  /\ unit.sub = "failed" => unit.result # "success"

\* The places a run reaches before it knows an invocation, and those it only
\* reaches with one.
Before == {"idle", "ship", "inside", "status", "stop", "start", "look"}
Ended == {"last", "dolt", "gh", "failed"}

\* A run follows an invocation from the look at it on, never one the unit has
\* not come to yet.
Follow(p) ==
  /\ at[p].inv <= started /\ at[p].cursor <= Len(journal)
  /\ at[p].pc \in Before => at[p].inv = 0
  /\ at[p].pc \in Following => at[p].inv # 0
  /\ at[p].inv = 0 => at[p].out = <<>> /\ at[p].cursor = 0
  /\ unit.inv # 0 => at[p].inv <= unit.inv

\* What it has shown is exact up to the cursor, and whole once it left.
Shown(p) ==
  at[p].inv # 0 =>
    /\ at[p].out \in InOrder({n \in Lines(at[p].inv) : n <= at[p].cursor})
    /\ at[p].pc \in {"dolt", "gh", "failed"} => \A n \in Lines(at[p].inv) : n <= at[p].cursor

\* A run that saw the end of its invocation is right that it ended: nothing can
\* write a line of it any more. And right that it succeeded, if it did.
EndSeen(p) ==
  /\ at[p].pc \in Ended /\ at[p].inv # 0 => unit.sub # "running" \/ unit.inv # at[p].inv
  /\ (at[p].pc = "last" /\ at[p].ok) \/ (at[p].pc \in {"dolt", "gh"} /\ at[p].inv # 0)
       => \E i \in built : i >= at[p].inv

\* A run about to stop the unit saw it stopped: what runs by now was started
\* since, by another.
StopsSeen(p) ==
  at[p].pc = "stop" =>
    /\ at[p].saw <= started
    /\ unit.sub = "running" => unit.inv > at[p].saw /\ p \notin unit.by

PInv ==
  /\ Types /\ UnitShown /\ CredentialsComplete
  /\ \A p \in Run : Follow(p) /\ Shown(p) /\ EndSeen(p) /\ StopsSeen(p)
-------------------------------------------------------------------------------
(* InOrder *)

LEMMA InOrderEmpty == <<>> \in InOrder({})
<1>1. Cardinality({}) = 0
  BY FS_EmptySet
<1>2. <<>> \in [1..0 -> {}] /\ ToSet(<<>>) = {} /\ DOMAIN <<>> = {}
  BY DEF ToSet
<1> QED
  BY <1>1, <1>2 DEF InOrder

\* A set of lines in order is a sequence of as many, each of them once.
LEMMA InOrderSeq ==
  ASSUME NEW k \in Nat, NEW S \in SUBSET (1..k), NEW s \in InOrder(S)
  PROVE  /\ IsFiniteSet(S) /\ Cardinality(S) \in Nat
         /\ s \in Seq(S) /\ s \in Seq(Nat) /\ Len(s) = Cardinality(S)
         /\ DOMAIN s = 1..Len(s) /\ ToSet(s) = S
         /\ \A i, j \in 1..Len(s) : i < j => s[i] < s[j]
<1>1. IsFiniteSet(S) /\ Cardinality(S) \in Nat
  <2>1. IsFiniteSet(1..k)
    BY FS_Interval
  <2>2. IsFiniteSet(S)
    BY <2>1, FS_Subset
  <2> QED
    BY <2>2, FS_CardinalityType
<1>2. s \in [1..Cardinality(S) -> S] /\ ToSet(s) = S
      /\ \A i, j \in DOMAIN s : i < j => s[i] < s[j]
  BY DEF InOrder
<1>3. s \in Seq(S) /\ Len(s) = Cardinality(S) /\ DOMAIN s = 1..Cardinality(S)
  BY <1>1, <1>2
<1>4. s \in Seq(Nat)
  <2>1. S \subseteq Nat
    OBVIOUS
  <2> QED
    BY <1>3, <2>1, SeqMonotonic
<1> QED
  BY <1>1, <1>2, <1>3, <1>4

\* What was read first and what was read after it are in order together.
LEMMA InOrderJoins ==
  ASSUME NEW k \in Nat, NEW S \in SUBSET (1..k), NEW T \in SUBSET (1..k),
         \A m \in S, n \in T : m < n,
         NEW s \in InOrder(S), NEW t \in InOrder(T)
  PROVE  s \o t \in InOrder(S \cup T)
<1> DEFINE U == S \cup T
           u == s \o t
<1>1. /\ IsFiniteSet(S) /\ Cardinality(S) \in Nat /\ s \in Seq(S) /\ Len(s) = Cardinality(S)
      /\ DOMAIN s = 1..Len(s) /\ ToSet(s) = S /\ \A i, j \in 1..Len(s) : i < j => s[i] < s[j]
  BY InOrderSeq
<1>2. /\ IsFiniteSet(T) /\ Cardinality(T) \in Nat /\ t \in Seq(T) /\ Len(t) = Cardinality(T)
      /\ DOMAIN t = 1..Len(t) /\ ToSet(t) = T /\ \A i, j \in 1..Len(t) : i < j => t[i] < t[j]
  BY InOrderSeq
<1>3. Cardinality(U) = Len(s) + Len(t)
  <2>1. S \cap T = {}
    OBVIOUS
  <2>2. Cardinality(S \cap T) = 0
    BY <2>1, FS_EmptySet
  <2>3. Cardinality(U) = Cardinality(S) + Cardinality(T) - Cardinality(S \cap T)
    BY <1>1, <1>2, FS_Union
  <2> QED
    BY <1>1, <1>2, <2>2, <2>3
<1>4. s \in Seq(U) /\ t \in Seq(U)
  BY <1>1, <1>2
<1>5. /\ u \in Seq(U) /\ Len(u) = Len(s) + Len(t) /\ DOMAIN u = 1..Len(s) + Len(t)
      /\ \A i \in 1..Len(s) + Len(t) :
           (i <= Len(s) => u[i] = s[i]) /\ (i > Len(s) => u[i] = t[i - Len(s)])
  BY <1>4
<1>6. u \in [1..Cardinality(U) -> U]
  <2>1. u \in [1..Len(u) -> U]
    BY <1>5, LenProperties
  <2> QED
    BY <1>3, <1>5, <2>1
<1>7. ToSet(u) = U
  <2>1. \A x \in S : \E i \in DOMAIN u : u[i] = x
    <3> SUFFICES ASSUME NEW x \in S PROVE \E i \in DOMAIN u : u[i] = x
      OBVIOUS
    <3>1. PICK i \in 1..Len(s) : s[i] = x
      BY <1>1 DEF ToSet
    <3>2. i \in DOMAIN u /\ u[i] = x
      BY <1>1, <1>2, <1>5, <3>1
    <3> QED
      BY <3>2
  <2>2. \A x \in T : \E i \in DOMAIN u : u[i] = x
    <3> SUFFICES ASSUME NEW x \in T PROVE \E i \in DOMAIN u : u[i] = x
      OBVIOUS
    <3>1. PICK i \in 1..Len(t) : t[i] = x
      BY <1>2 DEF ToSet
    <3>2. Len(s) + i \in DOMAIN u /\ Len(s) + i > Len(s) /\ (Len(s) + i) - Len(s) = i
      BY <1>1, <1>2, <1>5, <3>1
    <3>3. u[Len(s) + i] = x
      BY <1>5, <3>1, <3>2
    <3> QED
      BY <3>2, <3>3
  <2>3. \A i \in DOMAIN u : u[i] \in U
    BY <1>3, <1>5, <1>6
  <2> QED
    BY <2>1, <2>2, <2>3 DEF ToSet
<1>8. \A i, j \in DOMAIN u : i < j => u[i] < u[j]
  <2> SUFFICES ASSUME NEW i \in DOMAIN u, NEW j \in DOMAIN u, i < j PROVE u[i] < u[j]
    OBVIOUS
  <2>0. i \in Nat \ {0} /\ j \in Nat \ {0} /\ i <= Len(s) + Len(t) /\ j <= Len(s) + Len(t)
        /\ Len(s) \in Nat /\ Len(t) \in Nat
    BY <1>1, <1>2, <1>5
  <2>1. CASE j <= Len(s)
    <3>1. i \in 1..Len(s) /\ j \in 1..Len(s) /\ u[i] = s[i] /\ u[j] = s[j]
      BY <1>5, <2>0, <2>1
    <3> QED
      BY <1>1, <3>1
  <2>2. CASE i > Len(s)
    <3>1. u[i] = t[i - Len(s)] /\ u[j] = t[j - Len(s)]
      BY <1>5, <2>0, <2>2
    <3>2. i - Len(s) \in 1..Len(t) /\ j - Len(s) \in 1..Len(t) /\ i - Len(s) < j - Len(s)
      BY <2>0, <2>2
    <3> QED
      BY <1>2, <3>1, <3>2
  <2>3. CASE i <= Len(s) /\ j > Len(s)
    <3>1. u[i] = s[i] /\ u[j] = t[j - Len(s)]
      BY <1>5, <2>0, <2>3
    <3>2. i \in 1..Len(s) /\ j - Len(s) \in 1..Len(t)
      BY <2>0, <2>3
    <3>3. s[i] \in S /\ t[j - Len(s)] \in T
      BY <1>1, <1>2, <3>2
    <3> QED
      BY <3>1, <3>3
  <2> QED
    BY <2>0, <2>1, <2>2, <2>3
<1> QED
  BY <1>6, <1>7, <1>8 DEF InOrder

\* The last of them is the highest.
LEMMA InOrderLast ==
  ASSUME NEW k \in Nat, NEW S \in SUBSET (1..k), NEW s \in InOrder(S), s # <<>>
  PROVE  Last(s) \in S /\ \A n \in S : n <= Last(s)
<1>1. /\ s \in Seq(S) /\ DOMAIN s = 1..Len(s) /\ ToSet(s) = S
      /\ \A i, j \in 1..Len(s) : i < j => s[i] < s[j]
  BY InOrderSeq
<1>2. Len(s) \in Nat /\ Len(s) # 0
  BY <1>1
<1>3. Len(s) \in 1..Len(s) /\ Last(s) = s[Len(s)]
  BY <1>2 DEF Last
<1>4. Last(s) \in S
  BY <1>1, <1>3, ElementOfSeq
<1>5. \A n \in S : n <= Last(s)
  <2> SUFFICES ASSUME NEW n \in S PROVE n <= Last(s)
    OBVIOUS
  <2>1. PICK i \in 1..Len(s) : s[i] = n
    BY <1>1 DEF ToSet
  <2>2. PICK m \in Nat : m = Last(s)
    <3>1. Last(s) \in 1..k
      BY <1>4
    <3>2. Last(s) \in Nat
      BY <3>1
    <3> QED
      BY <3>2
  <2>3. CASE i = Len(s)
    <3>1. n = m
      BY <1>3, <2>1, <2>2, <2>3
    <3> QED
      BY <2>2, <3>1
  <2>4. CASE i < Len(s)
    <3>1. s[i] < s[Len(s)]
      BY <1>1, <1>3, <2>4
    <3>2. n < m /\ n \in Nat
      BY <1>3, <2>1, <2>2, <3>1
    <3> QED
      BY <2>2, <3>2
  <2> QED
    BY <1>2, <2>3, <2>4
<1> QED
  BY <1>4, <1>5
-------------------------------------------------------------------------------
(* What a step changes, and whom it leaves as they were *)

\* A run keeps what the invariant speaks of; Ships takes only its claim on the
\* switch.
Kept(q) ==
  /\ at'[q].pc = at[q].pc /\ at'[q].saw = at[q].saw /\ at'[q].inv = at[q].inv
  /\ at'[q].cursor = at[q].cursor /\ at'[q].out = at[q].out /\ at'[q].ok = at[q].ok

\* The unit goes, stays what it is or ends, or is a new one that q did not
\* start; the journal gets a line of the invocation that runs, if any.
UnitGoesOn(q) ==
  \/ unit'.inv = 0 /\ unit'.sub # "running"
  \/ /\ unit'.inv = unit.inv /\ unit'.by = unit.by
     /\ unit'.sub = "running" => unit.sub = "running"
  \/ unit'.inv = started + 1 /\ q \notin unit'.by
JournalGoesOn ==
  \/ journal' = journal
  \/ unit.sub = "running" /\ journal' = Append(journal, unit.inv)
Moves(q) ==
  /\ started' \in Nat /\ started <= started' /\ built \subseteq built'
  /\ UnitGoesOn(q) /\ JournalGoesOn

LEMMA HeldParts ==
  ASSUME Types, NEW p \in Run
  PROVE  /\ at[p] \in Held /\ at[p].pc \in Place /\ at[p].want \in Nat /\ at[p].saw \in Nat
         /\ at[p].inv \in Nat /\ at[p].cursor \in Nat /\ at[p].out \in Seq(Nat)
         /\ at[p].ok \in BOOLEAN /\ at[p].mine \in BOOLEAN
<1>1. at[p] \in Held
  BY DEF Types
<1> QED
  BY <1>1 DEF Held

LEMMA UnitParts ==
  ASSUME Types
  PROVE  /\ unit.inv \in Nat /\ unit.sub \in {"dead", "running", "exited", "failed"}
         /\ unit.builds \in Nat /\ unit.by \in SUBSET Run
         /\ started \in Nat /\ journal \in Seq(Nat) /\ Len(journal) \in Nat
         /\ DOMAIN journal = 1..Len(journal) /\ built \in SUBSET Nat
  BY DEF Types, Unit

\* The lines below a place in the journal stay as they are.
LEMMA LinesStay ==
  ASSUME Types, JournalGoesOn, NEW i \in Nat, NEW c \in Nat, c <= Len(journal)
  PROVE  /\ journal' \in Seq(Nat) /\ Len(journal) <= Len(journal')
         /\ {n \in Lines(i)' : n <= c} = {n \in Lines(i) : n <= c}
         /\ unit.sub # "running" \/ unit.inv # i => Lines(i)' = Lines(i)
<1>0. journal \in Seq(Nat) /\ Len(journal) \in Nat /\ DOMAIN journal = 1..Len(journal)
      /\ unit.inv \in Nat
  BY UnitParts
<1>1. CASE journal' = journal
  BY <1>0, <1>1 DEF Lines
<1>2. CASE unit.sub = "running" /\ journal' = Append(journal, unit.inv)
  <2>1. /\ journal' \in Seq(Nat) /\ Len(journal') = Len(journal) + 1
        /\ DOMAIN journal' = 1..Len(journal) + 1
        /\ \A n \in 1..Len(journal) : journal'[n] = journal[n]
        /\ journal'[Len(journal) + 1] = unit.inv
    BY <1>0, <1>2
  <2>2. \A n \in 1..Len(journal) : n \in Lines(i)' <=> n \in Lines(i)
    BY <1>0, <2>1 DEF Lines
  <2>3. \A n \in Lines(i) : n \in 1..Len(journal)
    BY <1>0 DEF Lines
  <2>4. \A n \in Lines(i)' : n \in 1..Len(journal) \/ (n = Len(journal) + 1 /\ unit.inv = i)
    BY <1>0, <2>1 DEF Lines
  <2>5. \A n \in Lines(i)' : n <= c => n \in 1..Len(journal)
    BY <1>0, <2>4
  <2>6. {n \in Lines(i)' : n <= c} = {n \in Lines(i) : n <= c}
    BY <2>2, <2>3, <2>5
  <2>7. ASSUME unit.sub # "running" \/ unit.inv # i PROVE Lines(i)' = Lines(i)
    BY <1>2, <2>2, <2>3, <2>4, <2>7
  <2> QED
    BY <1>0, <2>1, <2>6, <2>7
<1> QED
  BY <1>1, <1>2 DEF JournalGoesOn

\* A run that is left alone keeps its part of the invariant, whatever becomes of
\* the unit.
LEMMA AloneStays ==
  ASSUME PInv, NEW q \in Run, Kept(q), Moves(q)
  PROVE  (Follow(q) /\ Shown(q) /\ EndSeen(q) /\ StopsSeen(q))'
<1>0. Types /\ Follow(q) /\ Shown(q) /\ EndSeen(q) /\ StopsSeen(q)
  BY DEF PInv
<1>1. PICK pc, saw, inv, cursor, out, ok :
        /\ at[q].pc = pc /\ at[q].saw = saw /\ at[q].inv = inv
        /\ at[q].cursor = cursor /\ at[q].out = out /\ at[q].ok = ok
  OBVIOUS
<1>2. /\ at'[q].pc = pc /\ at'[q].saw = saw /\ at'[q].inv = inv
      /\ at'[q].cursor = cursor /\ at'[q].out = out /\ at'[q].ok = ok
  BY <1>1 DEF Kept
<1>3. pc \in Place /\ saw \in Nat /\ inv \in Nat /\ cursor \in Nat
  BY <1>0, <1>1, HeldParts
<1>4. unit.inv \in Nat /\ started \in Nat /\ Len(journal) \in Nat
  BY <1>0, UnitParts
<1>5. inv <= started /\ cursor <= Len(journal)
  BY <1>0, <1>1 DEF Follow
<1>6. /\ journal' \in Seq(Nat) /\ Len(journal) <= Len(journal')
      /\ {n \in Lines(inv)' : n <= cursor} = {n \in Lines(inv) : n <= cursor}
      /\ unit.sub # "running" \/ unit.inv # inv => Lines(inv)' = Lines(inv)
  BY <1>0, <1>3, <1>5, LinesStay DEF Moves
<1>7. started' \in Nat /\ started <= started' /\ built \subseteq built' /\ UnitGoesOn(q)
  BY DEF Moves
<1>8. Follow(q)'
  <2>1. inv <= started' /\ cursor <= Len(journal')
    BY <1>3, <1>4, <1>5, <1>6, <1>7
  <2>2. /\ pc \in Before => inv = 0
        /\ pc \in Following => inv # 0
        /\ inv = 0 => out = <<>> /\ cursor = 0
        /\ unit.inv # 0 => inv <= unit.inv
    BY <1>0, <1>1 DEF Follow
  <2>3. unit'.inv # 0 => inv <= unit'.inv
    BY <1>3, <1>4, <1>5, <1>7, <2>2 DEF UnitGoesOn
  <2> QED
    BY <1>2, <2>1, <2>2, <2>3 DEF Follow
<1>9. EndSeen(q)'
  <2>1. pc \in Ended /\ inv # 0 => unit.sub # "running" \/ unit.inv # inv
    BY <1>0, <1>1 DEF EndSeen
  <2>2. pc \in Ended /\ inv # 0 => unit'.sub # "running" \/ unit'.inv # inv
    BY <1>3, <1>4, <1>5, <1>7, <2>1 DEF UnitGoesOn
  <2>3. (pc = "last" /\ ok) \/ (pc \in {"dolt", "gh"} /\ inv # 0) => \E i \in built' : i >= inv
    BY <1>0, <1>1, <1>7 DEF EndSeen
  <2> QED
    BY <1>2, <2>2, <2>3 DEF EndSeen
<1>10. Shown(q)'
  <2>1. ASSUME inv # 0 PROVE out \in InOrder({n \in Lines(inv) : n <= cursor})
    BY <1>0, <1>1, <2>1 DEF Shown
  <2>2. ASSUME inv # 0, pc \in {"dolt", "gh", "failed"} PROVE \A n \in Lines(inv)' : n <= cursor
    <3>1. unit.sub # "running" \/ unit.inv # inv
      BY <1>0, <1>1, <2>2 DEF EndSeen, Ended
    <3>2. \A n \in Lines(inv) : n <= cursor
      BY <1>0, <1>1, <2>2 DEF Shown
    <3> QED
      BY <1>6, <3>1, <3>2
  <2>3. ASSUME inv # 0 PROVE out \in InOrder({n \in Lines(inv)' : n <= cursor})
    BY <1>6, <2>1, <2>3
  <2>4. Lines(at[q].inv)' = Lines(inv)'
    BY <1>2 DEF Lines
  <2> QED
    BY <1>2, <2>2, <2>3, <2>4 DEF Shown, InOrder
<1>11. StopsSeen(q)'
  <2>1. ASSUME pc = "stop"
        PROVE  saw <= started /\ (unit.sub = "running" => unit.inv > saw /\ q \notin unit.by)
    BY <1>0, <1>1, <2>1 DEF StopsSeen
  <2>2. ASSUME pc = "stop"
        PROVE  saw <= started' /\ (unit'.sub = "running" => unit'.inv > saw /\ q \notin unit'.by)
    BY <1>3, <1>4, <1>7, <2>1, <2>2 DEF UnitGoesOn
  <2> QED
    BY <1>2, <2>2 DEF StopsSeen
<1> QED
  BY <1>8, <1>9, <1>10, <1>11

\* So does a run that follows no invocation yet and is not about to stop one.
LEMMA EarlyStays ==
  ASSUME NEW q \in Run, started' \in Nat, journal' \in Seq(Nat), unit'.inv \in Nat,
         at'[q].inv = 0,
         at'[q].out = <<>>, at'[q].cursor = 0,
         at'[q].pc \in (Before \cup {"dolt", "gh"}) \ {"stop"}
  PROVE  (Follow(q) /\ Shown(q) /\ EndSeen(q) /\ StopsSeen(q))'
<1>1. Len(journal') \in Nat
  OBVIOUS
<1>2. Follow(q)'
  BY <1>1 DEF Follow, Before, Following
<1>3. Shown(q)'
  BY DEF Shown
<1>4. EndSeen(q)'
  BY DEF EndSeen, Before
<1>5. StopsSeen(q)'
  BY DEF StopsSeen
<1> QED
  BY <1>2, <1>3, <1>4, <1>5

\* A read brings all that the invocation has written, in order.
LEMMA ReadShows ==
  ASSUME PInv, NEW p \in Run, at[p].inv # 0, NEW r \in Read(p)
  PROVE  /\ r \in Held /\ r.pc = at[p].pc /\ r.saw = at[p].saw /\ r.inv = at[p].inv
         /\ r.ok = at[p].ok /\ r.cursor <= Len(journal)
         /\ r.out \in InOrder({n \in Lines(at[p].inv) : n <= r.cursor})
         /\ \A n \in Lines(at[p].inv) : n <= r.cursor
<1>0. Types /\ Follow(p) /\ Shown(p)
  BY DEF PInv
<1> DEFINE i == at[p].inv
           c == at[p].cursor
           S == {n \in Lines(i) : n <= c}
           T == After(p)
<1>1. PICK k \in Nat : k = Len(journal) /\ DOMAIN journal = 1..k
  BY <1>0, UnitParts
<1>2. c \in Nat /\ c <= k
  BY <1>0, <1>1, HeldParts DEF Follow
<1>3. S \in SUBSET (1..k) /\ T \in SUBSET (1..k) /\ \A m \in S, n \in T : m < n
  BY <1>1, <1>2 DEF Lines, After
<1>4. S \cup T = Lines(i)
  <2>1. \A n \in Lines(i) : n \in Nat
    BY <1>1 DEF Lines
  <2> QED
    BY <1>2, <2>1 DEF After
<1>5. at[p].out \in InOrder(S)
  BY <1>0 DEF Shown
<1>6. PICK new \in InOrder(T) :
        r = [at[p] EXCEPT !.out = @ \o new, !.cursor = IF new = <<>> THEN @ ELSE Last(new)]
  BY DEF Read
<1>7. at[p].out \o new \in InOrder(Lines(i))
  BY <1>3, <1>4, <1>5, InOrderJoins
<1>8. new \in Seq(Nat) /\ ToSet(new) = T
  BY <1>3, InOrderSeq
<1>9. PICK d \in Nat : /\ d = IF new = <<>> THEN c ELSE Last(new)
                       /\ d <= k /\ \A n \in Lines(i) : n <= d
  <2>1. CASE new = <<>>
    <3>1. T = {}
      BY <1>8, <2>1 DEF ToSet
    <3> QED
      BY <1>2, <1>4, <2>1, <3>1
  <2>2. CASE new # <<>>
    <3>1. Last(new) \in T /\ \A n \in T : n <= Last(new)
      BY <1>3, <2>2, InOrderLast
    <3>2. PICK d \in Nat : d = Last(new)
      BY <1>3, <3>1
    <3>3. d \in T /\ \A n \in T : n <= d
      BY <3>1, <3>2
    <3>4. d <= k /\ \A n \in S : n < d
      BY <1>3, <3>3
    <3>5. \A n \in S : n <= d
      BY <1>3, <3>4
    <3> QED
      BY <1>4, <2>2, <3>2, <3>3, <3>4, <3>5
  <2> QED
    BY <2>1, <2>2
<1>10. {n \in Lines(i) : n <= d} = Lines(i)
  BY <1>9
<1>11. at[p] \in Held /\ at[p].out \o new \in Seq(Nat)
  BY <1>0, <1>8, HeldParts
<1>12. r = [at[p] EXCEPT !.out = @ \o new, !.cursor = d]
  BY <1>6, <1>9
<1> HIDE DEF i, c, S, T
<1>13. /\ r \in Held /\ r.pc = at[p].pc /\ r.saw = at[p].saw /\ r.inv = at[p].inv
       /\ r.ok = at[p].ok /\ r.cursor = d /\ r.out = at[p].out \o new
  BY <1>11, <1>12 DEF Held
<1> QED
  BY <1>1, <1>7, <1>9, <1>10, <1>13 DEF i
-------------------------------------------------------------------------------
(* How a step of one run changes what is held *)

Others(p) == at' \in [Run -> Held] /\ \A q \in Run \ {p} : Kept(q)

LEMMA GotoGoes ==
  ASSUME Types, NEW p \in Run, NEW k \in Place, Goto(p, k)
  PROVE  /\ Others(p) /\ at'[p].pc = k /\ at'[p].saw = at[p].saw /\ at'[p].inv = at[p].inv
         /\ at'[p].cursor = at[p].cursor /\ at'[p].out = at[p].out /\ at'[p].ok = at[p].ok
<1>1. at \in [Run -> Held] /\ at[p] \in Held
  BY DEF Types
<1>2. at' = [at EXCEPT ![p].pc = k]
  BY DEF Goto
<1>3. \A q \in Run \ {p} : at'[q] = at[q]
  BY <1>1, <1>2
<1>4. at'[p] = [at[p] EXCEPT !.pc = k]
  BY <1>1, <1>2
<1>5. at'[p] \in Held
  BY <1>1, <1>4 DEF Held
<1>6. at' \in [Run -> Held]
  BY <1>1, <1>2, <1>3, <1>5
<1>7. /\ at'[p].pc = k /\ at'[p].saw = at[p].saw /\ at'[p].inv = at[p].inv
      /\ at'[p].cursor = at[p].cursor /\ at'[p].out = at[p].out /\ at'[p].ok = at[p].ok
  BY <1>1, <1>4 DEF Held
<1> QED
  BY <1>3, <1>6, <1>7 DEF Others, Kept

LEMMA IdleHeld ==
  /\ Idle \in Held /\ Idle.pc = "idle" /\ Idle.inv = 0 /\ Idle.out = <<>> /\ Idle.cursor = 0
<1>1. <<>> \in Seq(Nat)
  OBVIOUS
<1> QED
  BY <1>1 DEF Idle, Held, Place

LEMMA EndsGoes ==
  ASSUME Types, NEW p \in Run, Ends(p)
  PROVE  Others(p) /\ at'[p] = Idle
<1>1. at \in [Run -> Held] /\ at' = [at EXCEPT ![p] = Idle]
  BY DEF Types, Ends
<1> QED
  BY <1>1, IdleHeld DEF Others, Kept

LEMMA PutsGoes ==
  ASSUME Types, NEW p \in Run, NEW h \in Held, at' = [at EXCEPT ![p] = h]
  PROVE  Others(p) /\ at'[p] = h
<1>1. at \in [Run -> Held]
  BY DEF Types
<1> QED
  BY <1>1 DEF Others, Kept

\* A run that ended keeps the invariant: it holds nothing.
LEMMA EndedStays ==
  ASSUME NEW p \in Run, at'[p] = Idle, started' \in Nat, journal' \in Seq(Nat),
         unit'.inv \in Nat
  PROVE  (Follow(p) /\ Shown(p) /\ EndSeen(p) /\ StopsSeen(p))'
<1>1. /\ at'[p].inv = 0 /\ at'[p].out = <<>> /\ at'[p].cursor = 0
      /\ at'[p].pc \in (Before \cup {"dolt", "gh"}) \ {"stop"}
  BY IdleHeld DEF Before
<1> QED
  BY <1>1, EarlyStays

\* A step of one run that the unit has no part in.
LEMMA RunSteps ==
  ASSUME PInv, NEW p \in Run, Others(p), config' \in Version, flake' \in Nat,
         UNCHANGED <<unit, started, journal, built>>, CredentialsComplete',
         (Follow(p) /\ Shown(p) /\ EndSeen(p) /\ StopsSeen(p))'
  PROVE  PInv'
<1>1. Types /\ UnitShown
  BY DEF PInv
<1>2. Types'
  BY <1>1 DEF Types, Others
<1>3. UnitShown'
  BY <1>1 DEF UnitShown
<1>4. \A q \in Run \ {p} : (Follow(q) /\ Shown(q) /\ EndSeen(q) /\ StopsSeen(q))'
  <2> SUFFICES ASSUME NEW q \in Run \ {p}
               PROVE  (Follow(q) /\ Shown(q) /\ EndSeen(q) /\ StopsSeen(q))'
    OBVIOUS
  <2>1. started' \in Nat /\ started <= started' /\ built \subseteq built' /\ JournalGoesOn
    BY <1>1, UnitParts DEF JournalGoesOn
  <2>2. UnitGoesOn(q)
    BY DEF UnitGoesOn
  <2>3. Kept(q) /\ Moves(q)
    BY <2>1, <2>2 DEF Others, Moves
  <2> QED
    BY <2>3, AloneStays
<1> QED
  BY <1>2, <1>3, <1>4 DEF PInv

\* A step of one run that changes the unit, or of the unit: everyone else keeps
\* theirs.
LEMMA UnitSteps ==
  ASSUME PInv, NEW P \in SUBSET Run, at' \in [Run -> Held], config' \in Version,
         flake' \in Nat, unit' \in Unit, journal' \in Seq(Nat), built' \in SUBSET Nat,
         UnitShown', CredentialsComplete',
         \A q \in Run \ P : Kept(q) /\ Moves(q),
         started' \in Nat,
         \A q \in P : (Follow(q) /\ Shown(q) /\ EndSeen(q) /\ StopsSeen(q))'
  PROVE  PInv'
<1>1. Types'
  BY DEF Types
<1>2. \A q \in Run \ P : (Follow(q) /\ Shown(q) /\ EndSeen(q) /\ StopsSeen(q))'
  BY AloneStays
<1> QED
  BY <1>1, <1>2 DEF PInv

LEMMA CredentialsStay ==
  ASSUME PInv, UNCHANGED tmpfs
  PROVE  CredentialsComplete'
  BY DEF PInv, CredentialsComplete

\* What a step of one run that leaves the unit alone has to show.
LEMMA RunFrame ==
  ASSUME PInv, ProvisionAssumption, UNCHANGED <<config, system>>
  PROVE  /\ config \in Version /\ config' \in Version /\ config \in Nat /\ flake \in Nat
         /\ unit' = unit /\ unit'.inv \in Nat /\ started' = started /\ started' \in Nat
         /\ journal' = journal /\ journal' \in Seq(Nat) /\ built' = built /\ Types
  BY UnitParts DEF PInv, Types, system, ProvisionAssumption

-------------------------------------------------------------------------------
(* Up to the switch *)

LEMMA BeginsStep ==
  ASSUME PInv, ProvisionAssumption, NEW p \in Run, Begins(p)
  PROVE  PInv'
<1>0. UNCHANGED <<config, flake, system, tmpfs>>
  BY DEF Begins, credentials
<1>1. /\ config \in Version /\ config' \in Version /\ config \in Nat /\ flake' \in Nat
      /\ unit' = unit /\ unit'.inv \in Nat /\ started' = started /\ started' \in Nat
      /\ journal' = journal /\ journal' \in Seq(Nat) /\ built' = built /\ Types
  BY <1>0, RunFrame
<1>2. at[p] \in Held /\ at[p].pc = "idle" /\ Follow(p)
  BY <1>1, HeldParts DEF PInv, Begins, At
<1>3. at[p].inv = 0 /\ at[p].out = <<>> /\ at[p].cursor = 0
  BY <1>2 DEF Follow, Before
<1>4. Others(p) /\ at'[p].inv = 0 /\ at'[p].out = <<>> /\ at'[p].cursor = 0
      /\ at'[p].pc \in (Before \cup {"dolt", "gh"}) \ {"stop"}
  <2>1. CASE checkLoginShell(config)
    <3> DEFINE h == [at[p] EXCEPT !.pc = "ship", !.want = config, !.mine = TRUE]
    <3>1. h \in Held /\ h.pc = "ship" /\ h.inv = at[p].inv /\ h.out = at[p].out
          /\ h.cursor = at[p].cursor
      BY <1>1, <1>2 DEF Held, Place
    <3>2. at' = [at EXCEPT ![p] = h]
      BY <1>1, <2>1 DEF Begins, Types
    <3> HIDE DEF h
    <3>3. Others(p) /\ at'[p] = h
      BY <1>1, <3>1, <3>2, PutsGoes
    <3> QED
      BY <1>3, <3>1, <3>3 DEF Before
  <2>2. CASE ~checkLoginShell(config)
    <3>1. at' = at
      BY <2>2 DEF Begins
    <3> QED
      BY <1>1, <1>2, <1>3, <3>1 DEF Others, Kept, Types, Before
  <2> QED
    BY <2>1, <2>2
<1>5. (Follow(p) /\ Shown(p) /\ EndSeen(p) /\ StopsSeen(p))'
  BY <1>1, <1>4, EarlyStays
<1> QED
  BY <1>0, <1>1, <1>4, <1>5, RunSteps, CredentialsStay

LEMMA ShipsStep ==
  ASSUME PInv, ProvisionAssumption, NEW p \in Run, Ships(p)
  PROVE  PInv'
<1>0. UNCHANGED <<config, system, tmpfs>>
  BY DEF Ships, credentials
<1>1. /\ config' \in Version /\ flake \in Nat
      /\ unit' = unit /\ unit'.inv \in Nat /\ started' = started /\ started' \in Nat
      /\ journal' = journal /\ journal' \in Seq(Nat) /\ built' = built /\ Types
  BY <1>0, RunFrame
<1>2. at[p] \in Held /\ at[p].pc = "ship" /\ Follow(p)
  BY <1>1, HeldParts DEF PInv, Ships, At
<1>3. at[p].inv = 0 /\ at[p].out = <<>> /\ at[p].cursor = 0
  BY <1>2 DEF Follow, Before
<1>4. flake' \in Nat
  BY <1>1, <1>2, HeldParts DEF Ships
<1>5. PICK k \in {"inside", "status"} : at' = [q \in Run |->
              IF q = p THEN [at[p] EXCEPT !.pc = k] ELSE [at[q] EXCEPT !.mine = FALSE]]
  BY DEF Ships
<1>6. \A q \in Run : at[q] \in Held
  BY <1>1 DEF Types
<1>7. [at[p] EXCEPT !.pc = k] \in Held /\ \A q \in Run : [at[q] EXCEPT !.mine = FALSE] \in Held
  BY <1>6 DEF Held, Place
<1>8. at' \in [Run -> Held]
  BY <1>5, <1>7
<1>9. \A q \in Run \ {p} : at'[q] = [at[q] EXCEPT !.mine = FALSE]
  BY <1>5
<1>10. \A q \in Run \ {p} : Kept(q)
  BY <1>6, <1>9 DEF Kept, Held
<1>11. at'[p] = [at[p] EXCEPT !.pc = k]
  BY <1>5
<1>12. at'[p].inv = 0 /\ at'[p].out = <<>> /\ at'[p].cursor = 0 /\ at'[p].pc = k
  BY <1>2, <1>3, <1>11 DEF Held
<1>13. (Follow(p) /\ Shown(p) /\ EndSeen(p) /\ StopsSeen(p))'
  <2>1. at'[p].pc \in (Before \cup {"dolt", "gh"}) \ {"stop"}
    BY <1>12 DEF Before
  <2> QED
    BY <1>1, <1>12, <2>1, EarlyStays
<1>14. Others(p)
  BY <1>8, <1>10 DEF Others
<1> QED
  BY <1>0, <1>1, <1>4, <1>13, <1>14, RunSteps, CredentialsStay

LEMMA InsideStep ==
  ASSUME PInv, ProvisionAssumption, NEW p \in Run, InsideStarts(p) \/ InsideEnds(p)
  PROVE  PInv'
<1>0. UNCHANGED <<config, flake, unit, started, journal, built, tmpfs>>
  BY DEF InsideStarts, InsideEnds, system, credentials
<1>1. /\ config' \in Version /\ flake' \in Nat /\ unit'.inv \in Nat /\ started' \in Nat
      /\ journal' \in Seq(Nat) /\ Types
  BY <1>0, UnitParts DEF PInv, Types
<1>2. at[p] \in Held /\ at[p].pc = "inside" /\ Follow(p)
  BY <1>1, HeldParts DEF PInv, InsideStarts, InsideEnds, At
<1>3. at[p].inv = 0 /\ at[p].out = <<>> /\ at[p].cursor = 0
  BY <1>2 DEF Follow, Before
<1>4. Others(p) /\ at'[p].inv = 0 /\ at'[p].out = <<>> /\ at'[p].cursor = 0
      /\ at'[p].pc \in {"inside", "dolt"}
  <2>1. CASE InsideStarts(p)
    <3>1. at' = at
      BY <2>1 DEF InsideStarts
    <3> QED
      BY <1>1, <1>2, <1>3, <3>1 DEF Others, Kept, Types
  <2>2. CASE InsideEnds(p)
    <3>1. Goto(p, "dolt") /\ "dolt" \in Place
      BY <2>2 DEF InsideEnds, Place
    <3> QED
      BY <1>1, <1>3, <3>1, GotoGoes
  <2> QED
    BY <2>1, <2>2
<1>5. (Follow(p) /\ Shown(p) /\ EndSeen(p) /\ StopsSeen(p))'
  <2>1. at'[p].pc \in (Before \cup {"dolt", "gh"}) \ {"stop"}
    BY <1>4 DEF Before
  <2> QED
    BY <1>1, <1>4, <2>1, EarlyStays
<1> QED
  BY <1>0, <1>1, <1>4, <1>5, RunSteps, CredentialsStay

-------------------------------------------------------------------------------
(* The start of the unit *)

LEMMA StatusStep ==
  ASSUME PInv, ProvisionAssumption, NEW p \in Run, Status(p)
  PROVE  PInv'
<1>0. UNCHANGED <<config, flake, system, tmpfs>>
  BY DEF Status, credentials
<1>1. /\ config' \in Version /\ flake' \in Nat
      /\ unit' = unit /\ unit'.inv \in Nat /\ started' = started /\ started' \in Nat
      /\ journal' = journal /\ journal' \in Seq(Nat) /\ built' = built /\ Types
  BY <1>0, RunFrame
<1>2. at[p] \in Held /\ at[p].pc = "status" /\ Follow(p)
  BY <1>1, HeldParts DEF PInv, Status, At
<1>3. at[p].inv = 0 /\ at[p].out = <<>> /\ at[p].cursor = 0
  BY <1>2 DEF Follow, Before
<1>4. CASE MayAttach
  <2> DEFINE h == [at[p] EXCEPT !.pc = "look", !.mine = FALSE]
  <2>1. h \in Held /\ h.pc = "look" /\ h.inv = at[p].inv /\ h.out = at[p].out
        /\ h.cursor = at[p].cursor
    BY <1>2 DEF Held, Place
  <2>2. at' = [at EXCEPT ![p] = h]
    BY <1>1, <1>4 DEF Status, Types
  <2> HIDE DEF h
  <2>3. Others(p) /\ at'[p] = h
    BY <1>1, <2>1, <2>2, PutsGoes
  <2>4. at'[p].inv = 0 /\ at'[p].out = <<>> /\ at'[p].cursor = 0
        /\ at'[p].pc \in (Before \cup {"dolt", "gh"}) \ {"stop"}
    BY <1>3, <2>1, <2>3 DEF Before
  <2>5. (Follow(p) /\ Shown(p) /\ EndSeen(p) /\ StopsSeen(p))'
    BY <1>1, <2>4, EarlyStays
  <2> QED
    BY <1>0, <1>1, <2>3, <2>5, RunSteps, CredentialsStay
<1>5. CASE ~MayAttach
  <2> DEFINE h == [at[p] EXCEPT !.pc = "stop", !.saw = started]
  <2>1. h \in Held /\ h.pc = "stop" /\ h.inv = at[p].inv /\ h.out = at[p].out
        /\ h.cursor = at[p].cursor /\ h.saw = started
    BY <1>1, <1>2, UnitParts DEF Held, Place
  <2>2. at' = [at EXCEPT ![p] = h]
    BY <1>1, <1>5 DEF Status, Types
  <2> HIDE DEF h
  <2>3. Others(p) /\ at'[p] = h
    BY <1>1, <2>1, <2>2, PutsGoes
  <2>4. at'[p].inv = 0 /\ at'[p].out = <<>> /\ at'[p].cursor = 0 /\ at'[p].pc = "stop"
        /\ at'[p].saw = started
    BY <1>3, <2>1, <2>3
  <2>5. Follow(p)'
    BY <1>1, <2>4 DEF Follow, Before, Following
  <2>6. Shown(p)' /\ EndSeen(p)'
    BY <2>4 DEF Shown, EndSeen
  <2>7. StopsSeen(p)'
    BY <1>1, <1>5, <2>4 DEF StopsSeen, MayAttach
  <2> QED
    BY <1>0, <1>1, <2>3, <2>5, <2>6, <2>7, RunSteps, CredentialsStay
<1> QED
  BY <1>4, <1>5

LEMMA NoUnitParts ==
  /\ NoUnit \in Unit /\ NoUnit.inv = 0 /\ NoUnit.sub = "dead" /\ NoUnit.by = {}
  BY DEF NoUnit, Unit

LEMMA UnitSame ==
  ASSUME PInv, UNCHANGED <<unit, started, journal, built>>
  PROVE  unit' \in Unit /\ UnitShown' /\ started' \in Nat /\ \A q \in Run : Moves(q)
<1>1. Types /\ UnitShown
  BY DEF PInv
<1>2. unit' \in Unit /\ UnitShown' /\ started' \in Nat
  BY <1>1 DEF UnitShown, Types
<1>3. \A q \in Run : Moves(q)
  BY <1>1, UnitParts DEF Moves, UnitGoesOn, JournalGoesOn
<1> QED
  BY <1>2, <1>3

LEMMA UnitGone ==
  ASSUME PInv, unit' = NoUnit, UNCHANGED <<started, journal, built>>
  PROVE  unit' \in Unit /\ UnitShown' /\ started' \in Nat /\ \A q \in Run : Moves(q)
<1>1. Types
  BY DEF PInv
<1>2. started \in Nat /\ started' \in Nat
  BY <1>1, UnitParts
<1>3. unit' \in Unit /\ unit'.inv = 0 /\ unit'.sub = "dead"
  BY NoUnitParts
<1>4. UnitShown'
  BY <1>2, <1>3 DEF UnitShown, NoUnit
<1>5. \A q \in Run : Moves(q)
  BY <1>2, <1>3 DEF Moves, UnitGoesOn, JournalGoesOn
<1> QED
  BY <1>2, <1>3, <1>4, <1>5

LEMMA UnitNew ==
  ASSUME PInv, ProvisionAssumption, NEW p \in Run, Starting(p), UNCHANGED <<journal, built>>
  PROVE  /\ unit' \in Unit /\ UnitShown' /\ started' \in Nat
         /\ \A q \in Run \ {p} : Moves(q)
<1>1. Types
  BY DEF PInv
<1>2. started \in Nat /\ started' = started + 1 /\ started' \in Nat
  BY <1>1, UnitParts DEF Starting
<1>3. PICK b \in Nat : b = Argument(at[p].want)
  BY <1>1, HeldParts DEF Argument
<1>4. unit' = [inv |-> started + 1, sub |-> "running", result |-> "success", builds |-> b,
               by |-> {p}]
  BY <1>2, <1>3 DEF Starting
<1>5. unit' \in Unit /\ unit'.inv = started + 1 /\ unit'.sub = "running" /\ unit'.by = {p}
  BY <1>2, <1>4 DEF Unit
<1>6. UnitShown'
  BY <1>2, <1>5 DEF UnitShown
<1>7. \A q \in Run \ {p} : Moves(q)
  BY <1>2, <1>5 DEF Moves, UnitGoesOn, JournalGoesOn
<1> QED
  BY <1>2, <1>5, <1>6, <1>7

\* Stop, start and a start that is lost: the run itself is back before the look.
LEMMA StartStep ==
  ASSUME PInv, ProvisionAssumption, NEW p \in Run, Stops(p) \/ Starts(p) \/ LosesStart(p)
  PROVE  PInv'
<1>0. UNCHANGED <<config, flake, journal, built, tmpfs>>
  BY DEF Stops, Starts, LosesStart, credentials
<1>1. /\ config' \in Version /\ flake' \in Nat /\ journal' \in Seq(Nat) /\ Types
      /\ built' \in SUBSET Nat
  BY <1>0 DEF PInv, Types
<1>2. at[p] \in Held /\ at[p].pc \in {"stop", "start"} /\ Follow(p)
  BY <1>1, HeldParts DEF PInv, Stops, Starts, LosesStart, At
<1>3. at[p].inv = 0 /\ at[p].out = <<>> /\ at[p].cursor = 0
  BY <1>2 DEF Follow, Before
<1>4. \/ UNCHANGED <<unit, started>>
      \/ unit' = NoUnit /\ UNCHANGED started
      \/ Starting(p)
  BY DEF Stops, Starts, LosesStart
<1>5. unit' \in Unit /\ UnitShown' /\ started' \in Nat /\ \A q \in Run \ {p} : Moves(q)
  BY <1>0, <1>4, UnitSame, UnitGone, UnitNew
<1>6. Others(p) /\ at'[p].inv = 0 /\ at'[p].out = <<>> /\ at'[p].cursor = 0
      /\ at'[p].pc \in (Before \cup {"dolt", "gh"}) \ {"stop"}
  <2>1. CASE Ends(p)
    <3>1. Others(p) /\ at'[p] = Idle
      BY <1>1, <2>1, EndsGoes
    <3> QED
      BY <3>1, IdleHeld DEF Before
  <2>2. CASE \E k \in {"start", "look", "status"} : Goto(p, k)
    <3>1. PICK k \in {"start", "look", "status"} : Goto(p, k)
      BY <2>2
    <3>2. k \in Place /\ k \in (Before \cup {"dolt", "gh"}) \ {"stop"}
      BY DEF Place, Before
    <3> QED
      BY <1>1, <1>3, <3>1, <3>2, GotoGoes
  <2> QED
    BY <2>1, <2>2 DEF Stops, Starts, LosesStart, AfterLostStart
<1>7. unit'.inv \in Nat
  BY <1>5 DEF Unit
<1>8. (Follow(p) /\ Shown(p) /\ EndSeen(p) /\ StopsSeen(p))'
  BY <1>1, <1>5, <1>6, <1>7, EarlyStays
<1>9. at' \in [Run -> Held] /\ \A q \in Run \ {p} : Kept(q)
  BY <1>6 DEF Others
<1>10. CredentialsComplete'
  BY <1>0, CredentialsStay
<1> DEFINE Q == {p}
<1>11. Q \in SUBSET Run /\ (\A q \in Run \ Q : Kept(q) /\ Moves(q))
       /\ \A q \in Q : (Follow(q) /\ Shown(q) /\ EndSeen(q) /\ StopsSeen(q))'
  BY <1>5, <1>8, <1>9
<1> QED
  BY <1>1, <1>5, <1>9, <1>10, <1>11, UnitSteps

-------------------------------------------------------------------------------
(* Following the invocation *)

LEMMA LooksStep ==
  ASSUME PInv, ProvisionAssumption, NEW p \in Run, Looks(p)
  PROVE  PInv'
<1>0. UNCHANGED <<config, flake, system, tmpfs>>
  BY DEF Looks, credentials
<1>1. /\ config' \in Version /\ flake' \in Nat
      /\ unit' = unit /\ unit'.inv \in Nat /\ started' = started /\ started' \in Nat
      /\ journal' = journal /\ journal' \in Seq(Nat) /\ built' = built /\ Types
  BY <1>0, RunFrame
<1>2. at[p] \in Held /\ at[p].pc = "look" /\ Follow(p) /\ UnitShown
  BY <1>1, HeldParts DEF PInv, Looks, At
<1>3. at[p].inv = 0 /\ at[p].out = <<>> /\ at[p].cursor = 0
  BY <1>2 DEF Follow, Before
<1>4. CASE Vanished
  <2>1. Others(p) /\ at'[p] = Idle
    BY <1>1, <1>4, EndsGoes DEF Looks
  <2>2. (Follow(p) /\ Shown(p) /\ EndSeen(p) /\ StopsSeen(p))'
    BY <1>1, <2>1, EndedStays
  <2> QED
    BY <1>0, <1>1, <2>1, <2>2, RunSteps, CredentialsStay
<1>5. CASE ~Vanished
  <2>0. PICK m \in BOOLEAN : m = (at[p].mine /\ unit.inv = started)
    BY <1>1, HeldParts
  <2> DEFINE h == [at[p] EXCEPT !.pc = "drain", !.inv = unit.inv, !.mine = m]
  <2>1. h \in Held /\ h.pc = "drain" /\ h.inv = unit.inv /\ h.out = at[p].out
        /\ h.cursor = at[p].cursor
    BY <1>1, <1>2, UnitParts DEF Held, Place
  <2>2. at' = [at EXCEPT ![p] = h]
    BY <1>1, <1>5, <2>0 DEF Looks, Types
  <2> HIDE DEF h
  <2>3. Others(p) /\ at'[p] = h
    BY <1>1, <2>1, <2>2, PutsGoes
  <2>4. at'[p].inv = unit.inv /\ at'[p].out = <<>> /\ at'[p].cursor = 0 /\ at'[p].pc = "drain"
    BY <1>3, <2>1, <2>3
  <2>5. unit.inv # 0 /\ unit.inv <= started /\ Len(journal) \in Nat /\ unit.inv \in Nat
    BY <1>1, <1>2, <1>5, UnitParts DEF UnitShown, Vanished
  <2>6. Follow(p)'
    BY <1>1, <2>4, <2>5 DEF Follow, Before, Following
  <2>7. EndSeen(p)' /\ StopsSeen(p)'
    BY <2>4 DEF EndSeen, StopsSeen, Ended
  <2>8. Shown(p)'
    <3>1. \A n \in Lines(unit.inv)' : n \in Nat \ {0}
      BY <1>1, UnitParts DEF Lines
    <3>2. {n \in Lines(unit.inv)' : n <= 0} = {}
      BY <3>1
    <3>3. Lines(at[p].inv)' = Lines(unit.inv)'
      BY <1>1, <2>4 DEF Lines
    <3>4. <<>> \in InOrder({n \in Lines(at[p].inv)' : n <= 0})
      BY <3>2, <3>3, InOrderEmpty
    <3> QED
      BY <2>4, <3>4 DEF Shown, InOrder
  <2> QED
    BY <1>0, <1>1, <2>3, <2>6, <2>7, <2>8, RunSteps, CredentialsStay
<1> QED
  BY <1>4, <1>5

\* A read leaves the run at k with all lines shown.
LEMMA ReadStays ==
  ASSUME PInv, NEW p \in Run, at[p].inv # 0, NEW r \in Read(p), NEW k \in Place,
         at' = [at EXCEPT ![p] = [r EXCEPT !.pc = k]],
         UNCHANGED <<unit, started, journal, built>>, k \notin Before, k # "last",
         k \in Ended => unit.sub # "running" \/ unit.inv # at[p].inv,
         k \in {"dolt", "gh"} => \E i \in built : i >= at[p].inv
  PROVE  Others(p) /\ (Follow(p) /\ Shown(p) /\ EndSeen(p) /\ StopsSeen(p))'
<1>0. Types /\ Follow(p)
  BY DEF PInv
<1> DEFINE h == [r EXCEPT !.pc = k]
<1>1. /\ r \in Held /\ r.inv = at[p].inv /\ r.cursor <= Len(journal)
      /\ r.out \in InOrder({n \in Lines(at[p].inv) : n <= r.cursor})
      /\ \A n \in Lines(at[p].inv) : n <= r.cursor
  BY ReadShows
<1>2. h \in Held /\ h.pc = k /\ h.inv = r.inv /\ h.out = r.out /\ h.cursor = r.cursor
  BY <1>1 DEF Held
<1> HIDE DEF h
<1>3. at' = [at EXCEPT ![p] = h]
  BY DEF h
<1>4. Others(p) /\ at'[p] = h
  BY <1>0, <1>2, <1>3, PutsGoes
<1>5. PICK inv \in Nat, cursor \in Nat, out \in Seq(Nat) :
        inv = at[p].inv /\ cursor = r.cursor /\ out = r.out
  BY <1>0, <1>1, HeldParts DEF Held
<1>6. at'[p].pc = k /\ at'[p].inv = inv /\ at'[p].out = out /\ at'[p].cursor = cursor
  BY <1>1, <1>2, <1>4, <1>5
<1>7. Follow(p)'
  <2>1. inv <= started /\ (unit.inv # 0 => inv <= unit.inv) /\ inv # 0
    BY <1>0, <1>5 DEF Follow
  <2> QED
    BY <1>1, <1>5, <1>6, <2>1 DEF Follow
<1>8. Shown(p)'
  <2>1. Lines(at[p].inv)' = Lines(inv)
    BY <1>6 DEF Lines
  <2>2. out \in InOrder({n \in Lines(inv) : n <= cursor}) /\ \A n \in Lines(inv) : n <= cursor
    BY <1>1, <1>5
  <2>3. out \in InOrder({n \in Lines(at[p].inv)' : n <= cursor})
    BY <2>1, <2>2
  <2>4. \A n \in Lines(at[p].inv)' : n <= cursor
    BY <2>1, <2>2
  <2> QED
    BY <1>6, <2>3, <2>4 DEF Shown, InOrder
<1>9. EndSeen(p)'
  BY <1>5, <1>6 DEF EndSeen
<1>10. StopsSeen(p)'
  BY <1>6 DEF StopsSeen, Before
<1> QED
  BY <1>4, <1>7, <1>8, <1>9, <1>10

LEMMA DrainsStep ==
  ASSUME PInv, ProvisionAssumption, NEW p \in Run, Drains(p)
  PROVE  PInv'
<1>0. UNCHANGED <<config, flake, system, tmpfs>>
  BY DEF Drains, credentials
<1>1. /\ config' \in Version /\ flake' \in Nat /\ UNCHANGED <<unit, started, journal, built>>
  BY <1>0, RunFrame
<1>2. at[p].inv # 0
  BY DEF Drains, At, PInv, Follow, Following
<1>3. PICK r \in Read(p) : at' = [at EXCEPT ![p] = [r EXCEPT !.pc = "poll"]]
  BY DEF Drains
<1>4. "poll" \in Place /\ "poll" \notin Before /\ "poll" \notin Ended
  BY DEF Place, Before, Ended
<1>5. Others(p) /\ (Follow(p) /\ Shown(p) /\ EndSeen(p) /\ StopsSeen(p))'
  BY <1>1, <1>2, <1>3, <1>4, ReadStays
<1> QED
  BY <1>0, <1>1, <1>5, RunSteps, CredentialsStay

LEMMA DrainsLastStep ==
  ASSUME PInv, ProvisionAssumption, NEW p \in Run, DrainsLast(p)
  PROVE  PInv'
<1>0. UNCHANGED <<config, flake, system, tmpfs>>
  BY DEF DrainsLast, credentials
<1>1. /\ config' \in Version /\ flake' \in Nat /\ UNCHANGED <<unit, started, journal, built>>
  BY <1>0, RunFrame
<1>2. at[p].pc = "last" /\ at[p].inv # 0
  BY DEF DrainsLast, At, PInv, Follow, Following
<1>3. PICK r \in Read(p) :
        at' = [at EXCEPT ![p] = [r EXCEPT !.pc = IF at[p].ok THEN "dolt" ELSE "failed"]]
  BY DEF DrainsLast, LastRead
<1>4. PICK k \in {"dolt", "failed"} : k = IF at[p].ok THEN "dolt" ELSE "failed"
  OBVIOUS
<1>5. k \in Place /\ k \notin Before /\ k # "last"
  BY DEF Place, Before
<1>6. unit.sub # "running" \/ unit.inv # at[p].inv
  BY <1>2 DEF PInv, EndSeen, Ended
<1>7. k \in {"dolt", "gh"} => \E i \in built : i >= at[p].inv
  BY <1>2, <1>4 DEF PInv, EndSeen
<1>8. at' = [at EXCEPT ![p] = [r EXCEPT !.pc = k]]
  BY <1>3, <1>4
<1>9. Others(p) /\ (Follow(p) /\ Shown(p) /\ EndSeen(p) /\ StopsSeen(p))'
  BY <1>1, <1>2, <1>5, <1>6, <1>7, <1>8, ReadStays
<1> QED
  BY <1>0, <1>1, <1>9, RunSteps, CredentialsStay

LEMMA PollsStep ==
  ASSUME PInv, ProvisionAssumption, NEW p \in Run, Polls(p)
  PROVE  PInv'
<1>0. UNCHANGED <<config, flake, system, tmpfs>>
  BY DEF Polls, credentials
<1>1. /\ config' \in Version /\ flake' \in Nat
      /\ unit' = unit /\ started' = started /\ started' \in Nat
      /\ journal' = journal /\ journal' \in Seq(Nat) /\ built' = built /\ Types
  BY <1>0, RunFrame
<1>2. at[p] \in Held /\ at[p].pc = "poll" /\ Follow(p) /\ UnitShown /\ Shown(p)
  BY <1>1, HeldParts DEF PInv, Polls, At
<1>3. at[p].inv # 0 /\ at[p].inv <= started /\ at[p].cursor <= Len(journal)
      /\ (unit.inv # 0 => at[p].inv <= unit.inv)
  BY <1>2 DEF Follow, Following
<1>4. PICK ok \in BOOLEAN : ok = (unit.result = "success")
  OBVIOUS
<1>5. PICK h \in Held :
        /\ at' = [at EXCEPT ![p] = h]
        /\ h.inv = at[p].inv /\ h.out = at[p].out /\ h.cursor = at[p].cursor
        /\ \/ h.pc = "drain"
           \/ h.pc = "last" /\ h.ok = ok /\ Finished
  <2>1. CASE Finished
    <3> DEFINE h == [at[p] EXCEPT !.pc = "last", !.ok = ok]
    <3>1. h \in Held /\ h.pc = "last" /\ h.inv = at[p].inv /\ h.out = at[p].out
          /\ h.cursor = at[p].cursor /\ h.ok = ok
      BY <1>2 DEF Held, Place
    <3>2. at' = [at EXCEPT ![p] = h]
      BY <1>1, <1>4, <2>1 DEF Polls, Types
    <3> HIDE DEF h
    <3> QED
      BY <2>1, <3>1, <3>2
  <2>2. CASE ~Finished
    <3> DEFINE h == [at[p] EXCEPT !.pc = "drain"]
    <3>1. h \in Held /\ h.pc = "drain" /\ h.inv = at[p].inv /\ h.out = at[p].out
          /\ h.cursor = at[p].cursor
      BY <1>2 DEF Held, Place
    <3>2. at' = [at EXCEPT ![p] = h]
      BY <1>1, <2>2 DEF Polls, Types
    <3> HIDE DEF h
    <3> QED
      BY <3>1, <3>2
  <2> QED
    BY <2>1, <2>2
<1>6. Others(p) /\ at'[p] = h
  BY <1>1, <1>5, PutsGoes
<1>7. Follow(p)'
  BY <1>1, <1>3, <1>5, <1>6 DEF Follow, Before, Following
<1>8. Shown(p)'
  <2>1. Lines(at[p].inv)' = Lines(at[p].inv)
    BY <1>1, <1>5, <1>6 DEF Lines
  <2>2. at[p].out \in InOrder({n \in Lines(at[p].inv) : n <= at[p].cursor})
    BY <1>2, <1>3 DEF Shown
  <2>3. at'[p].out = at[p].out /\ at'[p].cursor = at[p].cursor
        /\ at'[p].pc \notin {"dolt", "gh", "failed"}
    BY <1>5, <1>6
  <2> QED
    BY <2>1, <2>2, <2>3 DEF Shown, InOrder
<1>9. EndSeen(p)'
  <2>1. at'[p].inv = at[p].inv
    BY <1>5, <1>6
  <2>2. CASE h.pc = "drain"
    BY <1>6, <2>2 DEF EndSeen, Ended
  <2>3. CASE h.pc = "last" /\ h.ok = ok /\ Finished
    <3>1. unit.sub # "running" /\ unit.sub # "dead"
      BY <2>3 DEF Finished
    <3>2. unit.inv # 0 /\ at[p].inv <= unit.inv
      BY <1>1, <1>2, <1>3, <3>1, NoUnitParts DEF UnitShown
    <3>3. ok => unit.inv \in built
      BY <1>2, <1>4, <2>3 DEF UnitShown, Finished
    <3>4. ok => \E i \in built : i >= at[p].inv
      BY <1>1, <3>2, <3>3, UnitParts, HeldParts
    <3> QED
      BY <1>1, <1>6, <2>1, <2>3, <3>1, <3>4 DEF EndSeen
  <2> QED
    BY <1>5, <2>2, <2>3
<1>10. StopsSeen(p)'
  BY <1>5, <1>6 DEF StopsSeen
<1> QED
  BY <1>0, <1>1, <1>6, <1>7, <1>8, <1>9, <1>10, RunSteps, CredentialsStay

LEMMA FailsStep ==
  ASSUME PInv, ProvisionAssumption, NEW p \in Run, Fails(p) \/ Stop(p)
  PROVE  PInv'
<1>0. UNCHANGED <<config, flake, system, tmpfs>> /\ Ends(p)
  BY DEF Fails, Stop, credentials
<1>1. /\ config' \in Version /\ flake' \in Nat /\ unit'.inv \in Nat
      /\ UNCHANGED <<unit, started, journal, built>> /\ started' \in Nat
      /\ journal' \in Seq(Nat) /\ Types
  BY <1>0, RunFrame
<1>2. Others(p) /\ at'[p] = Idle
  BY <1>0, <1>1, EndsGoes
<1>3. (Follow(p) /\ Shown(p) /\ EndSeen(p) /\ StopsSeen(p))'
  BY <1>1, <1>2, EndedStays
<1> QED
  BY <1>0, <1>1, <1>2, <1>3, RunSteps, CredentialsStay
-------------------------------------------------------------------------------
(* The credentials *)

\* Whichever write fails, the files are written in an order in which the config
\* comes after what it names.
LEMMA PlacesComplete ==
  ASSUME CredentialsComplete, NEW p \in Run, NEW c \in {"dolt", "gh"},
         NEW n \in Nat, n <= 2, Places(p, c, n)
  PROVE  CredentialsComplete'
<1>1. CASE c \in Secret /\ Prepared(c)
  <2>1. n \in 0..Len(Files(c)) /\ tmpfs' = tmpfs \cup {Files(c)[i] : i \in 1..n}
    BY <1>1 DEF Places
  <2>2. CASE c = "dolt"
    <3>1. Files(c) = <<"jwk", "config">>
      BY <2>2 DEF Files, DoltFiles
    <3>2. Files(c)[1] = "jwk" /\ Files(c)[2] = "config"
      BY <3>1
    <3>3. \A i \in 1..n : Files(c)[i] = "config" => 1 \in 1..n
      BY <3>2
    <3> QED
      BY <2>1, <3>2, <3>3 DEF CredentialsComplete
  <2>3. CASE c = "gh"
    <3>1. Files(c) = <<"hosts">> /\ Len(Files(c)) = 1
      BY <2>3 DEF Files
    <3>2. \A i \in 1..n : Files(c)[i] = "hosts"
      BY <2>1, <3>1
    <3> QED
      BY <2>1, <3>2 DEF CredentialsComplete
  <2> QED
    BY <2>2, <2>3
<1>2. CASE ~(c \in Secret /\ Prepared(c))
  BY <1>2 DEF Places, credentials, CredentialsComplete
<1> QED
  BY <1>1, <1>2

LEMMA PlacesDoltStep ==
  ASSUME PInv, ProvisionAssumption, NEW p \in Run, PlacesDolt(p)
  PROVE  PInv'
<1>0. UNCHANGED <<config, flake, system>>
  BY DEF PlacesDolt
<1>1. /\ config' \in Version /\ flake' \in Nat
      /\ unit' = unit /\ started' = started /\ started' \in Nat
      /\ journal' = journal /\ journal' \in Seq(Nat) /\ built' = built /\ Types
  BY <1>0, RunFrame
<1>2. at[p] \in Held /\ at[p].pc = "dolt" /\ Follow(p) /\ Shown(p) /\ EndSeen(p)
  BY <1>1, HeldParts DEF PInv, PlacesDolt, At
<1>3. CredentialsComplete'
  <2>1. PICK n \in 0..2 : Places(p, "dolt", n)
    BY DEF PlacesDolt
  <2>2. n \in Nat /\ n <= 2
    OBVIOUS
  <2> QED
    BY <2>1, <2>2, PlacesComplete DEF PInv
<1>4. /\ Others(p) /\ at'[p].pc = "gh" /\ at'[p].inv = at[p].inv
      /\ at'[p].cursor = at[p].cursor /\ at'[p].out = at[p].out
  <2>1. Goto(p, "gh") /\ "gh" \in Place
    BY DEF PlacesDolt, Place
  <2> QED
    BY <1>1, <2>1, GotoGoes
<1>5. Follow(p)'
  BY <1>1, <1>2, <1>4 DEF Follow, Before, Following
<1>6. Shown(p)'
  <2>1. Lines(at[p].inv)' = Lines(at[p].inv)
    BY <1>1, <1>4 DEF Lines
  <2>2. ASSUME at[p].inv # 0
        PROVE  /\ at[p].out \in InOrder({n \in Lines(at[p].inv) : n <= at[p].cursor})
               /\ \A n \in Lines(at[p].inv) : n <= at[p].cursor
    BY <1>2, <2>2 DEF Shown
  <2>3. ASSUME at[p].inv # 0
        PROVE  /\ at[p].out \in InOrder({n \in Lines(at[p].inv)' : n <= at[p].cursor})
               /\ \A n \in Lines(at[p].inv)' : n <= at[p].cursor
    BY <2>1, <2>2, <2>3
  <2> QED
    BY <1>4, <2>3 DEF Shown, InOrder
<1>7. EndSeen(p)'
  BY <1>1, <1>2, <1>4 DEF EndSeen, Ended
<1>8. StopsSeen(p)'
  BY <1>4 DEF StopsSeen
<1> QED
  BY <1>1, <1>3, <1>4, <1>5, <1>6, <1>7, <1>8, RunSteps

LEMMA PlacesGitHubStep ==
  ASSUME PInv, ProvisionAssumption, NEW p \in Run, PlacesGitHub(p)
  PROVE  PInv'
<1>0. UNCHANGED <<config, flake, system>> /\ Ends(p)
  BY DEF PlacesGitHub
<1>1. /\ config' \in Version /\ flake' \in Nat /\ unit'.inv \in Nat
      /\ UNCHANGED <<unit, started, journal, built>> /\ started' \in Nat
      /\ journal' \in Seq(Nat) /\ Types
  BY <1>0, RunFrame
<1>2. Others(p) /\ at'[p] = Idle
  BY <1>0, <1>1, EndsGoes
<1>3. (Follow(p) /\ Shown(p) /\ EndSeen(p) /\ StopsSeen(p))'
  BY <1>1, <1>2, EndedStays
<1>4. CredentialsComplete'
  <2>1. PICK n \in 0..1 : Places(p, "gh", n)
    BY DEF PlacesGitHub
  <2>2. n \in Nat /\ n <= 2
    OBVIOUS
  <2> QED
    BY <2>1, <2>2, PlacesComplete DEF PInv
<1> QED
  BY <1>1, <1>2, <1>3, <1>4, RunSteps

-------------------------------------------------------------------------------
(* The instance and the user *)

\* A step in which no run moves.
LEMMA NobodyMoves ==
  ASSUME PInv, UNCHANGED <<at, flake, started, tmpfs>>, config' \in Version, unit' \in Unit,
         UnitShown', journal' \in Seq(Nat), built' \in SUBSET Nat, built \subseteq built',
         JournalGoesOn, \A q \in Run : UnitGoesOn(q)
  PROVE  PInv'
<1>1. Types
  BY DEF PInv
<1>2. at' \in [Run -> Held] /\ flake' \in Nat /\ started' \in Nat /\ started <= started'
  BY <1>1, UnitParts DEF Types
<1>3. CredentialsComplete'
  BY CredentialsStay
<1>4. \A q \in Run : Kept(q) /\ Moves(q)
  BY <1>2 DEF Kept, Moves
<1> DEFINE Q == {}
<1>5. Q \in SUBSET Run /\ (\A q \in Run \ Q : Kept(q) /\ Moves(q))
      /\ \A q \in Q : (Follow(q) /\ Shown(q) /\ EndSeen(q) /\ StopsSeen(q))'
  BY <1>4
<1> QED
  BY <1>2, <1>3, <1>5, UnitSteps

LEMMA UnitStep ==
  ASSUME PInv, ProvisionAssumption, UnitEvaluates \/ UnitSucceeds \/ UnitFails
  PROVE  PInv'
<1>0. UNCHANGED <<config, at, flake, started, journal, tmpfs>> /\ unit.sub = "running"
  BY DEF UnitEvaluates, UnitSucceeds, UnitFails, credentials
<1>1. Types /\ UnitShown /\ unit \in Unit
  BY DEF PInv, Types
<1>2. config' \in Version /\ journal' \in Seq(Nat) /\ JournalGoesOn /\ flake \in Nat
      /\ built \in SUBSET Nat
  BY <1>0, <1>1 DEF Types, JournalGoesOn
<1>3. unit.inv # 0 /\ unit.inv \in Nat /\ unit.inv <= started
  BY <1>0, <1>1, NoUnitParts, UnitParts DEF UnitShown
<1>4. /\ unit' \in Unit /\ unit'.inv = unit.inv /\ unit'.by = unit.by
      /\ built' \in SUBSET Nat /\ built \subseteq built' /\ UnitShown'
  <2>1. CASE UnitEvaluates
    <3>1. unit' = [unit EXCEPT !.builds = flake] /\ built' = built
      BY <2>1 DEF UnitEvaluates
    <3>2. unit' \in Unit /\ unit'.inv = unit.inv /\ unit'.by = unit.by /\ unit'.sub = "running"
      BY <1>0, <1>1, <1>2, <3>1 DEF Unit
    <3> QED
      BY <1>0, <1>2, <1>3, <3>1, <3>2 DEF UnitShown
  <2>2. CASE UnitSucceeds
    <3>1. unit' = [unit EXCEPT !.sub = "exited"] /\ built' = built \cup {unit.inv}
      BY <2>2 DEF UnitSucceeds
    <3>2. unit' \in Unit /\ unit'.inv = unit.inv /\ unit'.by = unit.by /\ unit'.sub = "exited"
      BY <1>1, <3>1 DEF Unit
    <3> QED
      BY <1>0, <1>2, <1>3, <3>1, <3>2 DEF UnitShown
  <2>3. CASE UnitFails
    <3>1. unit' = [unit EXCEPT !.sub = "failed", !.result = "exit-code"] /\ built' = built
      BY <2>3 DEF UnitFails
    <3>2. unit' \in Unit /\ unit'.inv = unit.inv /\ unit'.by = unit.by /\ unit'.sub = "failed"
          /\ unit'.result = "exit-code"
      BY <1>1, <3>1 DEF Unit
    <3> QED
      BY <1>0, <1>2, <1>3, <3>1, <3>2 DEF UnitShown
  <2> QED
    BY <2>1, <2>2, <2>3
<1>5. \A q \in Run : UnitGoesOn(q)
  BY <1>0, <1>4 DEF UnitGoesOn
<1> QED
  BY <1>0, <1>2, <1>4, <1>5, NobodyMoves

LEMMA UnitWritesStep ==
  ASSUME PInv, ProvisionAssumption, UnitWrites
  PROVE  PInv'
<1>0. /\ UNCHANGED <<config, at, flake, unit, started, built, tmpfs>> /\ unit.sub = "running"
      /\ journal' = Append(journal, unit.inv)
  BY DEF UnitWrites, credentials
<1>1. Types /\ UnitShown
  BY DEF PInv
<1>2. journal' \in Seq(Nat)
  BY <1>0, <1>1, UnitParts
<1>3. config' \in Version /\ unit' \in Unit /\ UnitShown' /\ built' \in SUBSET Nat
      /\ built \subseteq built'
  BY <1>0, <1>1 DEF Types, UnitShown
<1>4. JournalGoesOn /\ \A q \in Run : UnitGoesOn(q)
  BY <1>0 DEF JournalGoesOn, UnitGoesOn
<1> QED
  BY <1>0, <1>2, <1>3, <1>4, NobodyMoves

LEMMA UserEditsStep ==
  ASSUME PInv, ProvisionAssumption, UserEdits
  PROVE  PInv'
<1>0. /\ UNCHANGED <<at, flake, unit, started, built, journal, tmpfs>> /\ config' \in Version
  BY DEF UserEdits, system, credentials
<1>1. Types /\ UnitShown
  BY DEF PInv
<1>2. journal' \in Seq(Nat) /\ unit' \in Unit /\ UnitShown' /\ built' \in SUBSET Nat
      /\ built \subseteq built'
  BY <1>0, <1>1 DEF Types, UnitShown
<1>3. JournalGoesOn /\ \A q \in Run : UnitGoesOn(q)
  BY <1>0 DEF JournalGoesOn, UnitGoesOn
<1> QED
  BY <1>0, <1>2, <1>3, NobodyMoves

LEMMA RebootStep ==
  ASSUME PInv, ProvisionAssumption, Reboot
  PROVE  PInv'
<1>0. /\ UNCHANGED <<config, flake, started, journal, built>> /\ unit' = NoUnit /\ tmpfs' = {}
      /\ at' = [p \in Run |-> IF At(p, "inside") THEN Idle ELSE at[p]]
  BY DEF Reboot
<1>1. Types
  BY DEF PInv
<1>2. unit' \in Unit /\ UnitShown' /\ started' \in Nat /\ \A q \in Run : Moves(q)
  BY <1>0, UnitGone
<1>3. /\ config' \in Version /\ flake' \in Nat /\ journal' \in Seq(Nat)
      /\ built' \in SUBSET Nat /\ CredentialsComplete'
  BY <1>0, <1>1 DEF Types, CredentialsComplete
<1>4. at' \in [Run -> Held]
  BY <1>0, <1>1, IdleHeld DEF Types
<1> DEFINE Q == {p \in Run : At(p, "inside")}
<1>5. \A q \in Run \ Q : at'[q] = at[q]
  BY <1>0
<1>6. \A q \in Run \ Q : Kept(q) /\ Moves(q)
  BY <1>2, <1>5 DEF Kept
<1>7. \A q \in Q : at'[q] = Idle
  BY <1>0
<1>8. unit'.inv \in Nat
  BY <1>2 DEF Unit
<1>9. \A q \in Q : (Follow(q) /\ Shown(q) /\ EndSeen(q) /\ StopsSeen(q))'
  BY <1>2, <1>3, <1>7, <1>8, EndedStays
<1>10. Q \in SUBSET Run
  OBVIOUS
<1> QED
  BY <1>2, <1>3, <1>4, <1>6, <1>9, <1>10, UnitSteps
-------------------------------------------------------------------------------
(* The invariant, and what follows from it *)

LEMMA PInvInit ==
  ASSUME ProvisionAssumption, Init
  PROVE  PInv
<1>1. Types
  <2>1. config \in Version /\ at \in [Run -> Held] /\ flake \in Nat /\ unit \in Unit
    BY IdleHeld, NoUnitParts DEF Init, ProvisionAssumption
  <2>2. started \in Nat /\ journal \in Seq(Nat) /\ built \in SUBSET Nat
    BY DEF Init
  <2> QED
    BY <2>1, <2>2 DEF Types
<1>2. UnitShown /\ CredentialsComplete
  BY NoUnitParts DEF Init, UnitShown, CredentialsComplete
<1>3. ASSUME NEW p \in Run PROVE Follow(p) /\ Shown(p) /\ EndSeen(p) /\ StopsSeen(p)
  <2>1. at[p].pc = "idle" /\ at[p].inv = 0 /\ at[p].out = <<>> /\ at[p].cursor = 0
    BY IdleHeld DEF Init
  <2>2. unit.inv = 0 /\ started = 0 /\ Len(journal) = 0
    BY NoUnitParts DEF Init
  <2> QED
    BY <2>1, <2>2 DEF Follow, Shown, EndSeen, StopsSeen, Before, Following
<1> QED
  BY <1>1, <1>2, <1>3 DEF PInv

LEMMA PInvNext ==
  ASSUME ProvisionAssumption, PInv, [Next]_vars
  PROVE  PInv'
<1>1. ASSUME NEW p \in Run, Begins(p) PROVE PInv'
  BY <1>1, BeginsStep
<1>2. ASSUME NEW p \in Run, Continues(p) PROVE PInv'
  BY <1>2, ShipsStep, InsideStep, StatusStep, StartStep, LooksStep, DrainsStep, PollsStep,
     DrainsLastStep, FailsStep, PlacesDoltStep, PlacesGitHubStep
     DEF Continues, Follows
<1>3. ASSUME NEW p \in Run, LosesStart(p) \/ Stop(p) PROVE PInv'
  BY <1>3, StartStep, FailsStep
<1>4. CASE UnitRuns \/ UnitWrites \/ UnitFails \/ Reboot \/ UserEdits
  BY <1>4, UnitStep, UnitWritesStep, RebootStep, UserEditsStep DEF UnitRuns
<1>5. CASE UNCHANGED vars
  <2>1. UNCHANGED <<at, config, flake, started, tmpfs, unit, journal, built>>
    BY <1>5 DEF vars, system, credentials
  <2>2. /\ config' \in Version /\ unit' \in Unit /\ UnitShown' /\ journal' \in Seq(Nat)
        /\ built' \in SUBSET Nat /\ built \subseteq built'
    BY <2>1 DEF PInv, Types, UnitShown
  <2>3. JournalGoesOn /\ \A q \in Run : UnitGoesOn(q)
    BY <2>1 DEF JournalGoesOn, UnitGoesOn
  <2> QED
    BY <2>1, <2>2, <2>3, NobodyMoves
<1> QED
  BY <1>1, <1>2, <1>3, <1>4, <1>5 DEF Next

\* What a run has shown is exact up to the cursor; at the end there is no line
\* above it.
LEMMA PInvOutput ==
  ASSUME PInv
  PROVE  OutputExact
<1> SUFFICES ASSUME NEW p \in Run, at[p].inv # 0
             PROVE  /\ at[p].out \in InOrder({n \in Lines(at[p].inv) : n <= at[p].cursor})
                    /\ at[p].pc \in {"dolt", "gh", "failed"} => ToSet(at[p].out) = Lines(at[p].inv)
  BY DEF OutputExact
<1>1. at[p].out \in InOrder({n \in Lines(at[p].inv) : n <= at[p].cursor})
  BY DEF PInv, Shown
<1>2. ASSUME at[p].pc \in {"dolt", "gh", "failed"} PROVE ToSet(at[p].out) = Lines(at[p].inv)
  <2>1. \A n \in Lines(at[p].inv) : n <= at[p].cursor
    BY <1>2 DEF PInv, Shown
  <2>2. {n \in Lines(at[p].inv) : n <= at[p].cursor} = Lines(at[p].inv)
    BY <2>1
  <2>3. at[p].out \in InOrder(Lines(at[p].inv))
    BY <1>1, <2>2
  <2> QED
    BY <2>3 DEF InOrder
<1> QED
  BY <1>1, <1>2

LEMMA PInvSuccess ==
  ASSUME PInv
  PROVE  SuccessIsReal
  BY DEF PInv, EndSeen, SuccessIsReal

LEMMA PInvStopping ==
  ASSUME PInv
  PROVE  Stopping
  BY DEF PInv, StopsSeen, Stopping, Stops, At

\* The invariant holds of every behaviour of Provision: with what follows from it,
\* for any number of runs, starts of the unit, lines, versions and faults.
THEOREM ProvisionInvariant ==
  ASSUME ProvisionAssumption
  PROVE  Spec => []PInv
<1>1. PInv /\ [Next]_vars => PInv'
  BY PInvNext
<1>2. Init => PInv
  BY PInvInit
<1> QED
  BY <1>1, <1>2, PTL DEF Spec
================================================================================
