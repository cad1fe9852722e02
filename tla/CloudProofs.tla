------------------------------ MODULE CloudProofs ------------------------------
(***************************************************************************)
(* Proofs about Cloud, for any number of builds, images, kept builds, key  *)
(* files and edits by hand: the invariants that its two safety properties  *)
(* follow from. Retention is about the images (Retained); the machine that *)
(* up makes is about the keys as well (Approved). MachinesProofs carries   *)
(* both over to the specification the runs check.                          *)
(***************************************************************************)
EXTENDS Cloud, FiniteSetTheorems, TLAPS

Kinds == Kind \cup {Wanted}
ImageType == [kind : Kinds, tags : SUBSET Tags, pending : Nat]
EntryType == [id : Nat, kind : Kinds]
ListType == [page : Nat, seen : SUBSET EntryType, missed : BOOLEAN, stood : SUBSET Nat]
BuildType ==
  [pc : {"idle", "snapshot", "tag", "verify", "write", "list", "prune", "delete"},
   kind : Kinds, droplet : Nat, id : Nat, list : ListType, plan : SUBSET EntryType]
PruneType == [pc : {"idle", "list", "ask", "prune", "delete"}, list : ListType,
              plan : SUBSET EntryType]
KeyType == [id : Nat, fp : Fp]
KeyEntry == [path : Path, fp : Fp, registered : BOOLEAN]
UpType == [pc : {"idle", "keys", "resolve", "ask", "register", "key", "relist"},
           list : ListType, files : SUBSET [path : Path, fp : Fp],
           entries : SUBSET KeyEntry,
           image : Nat, account : SUBSET KeyType, ids : SUBSET Nat]

\* The images, and what knows of them.
ImageTypes ==
  /\ made \in [image : Nat, droplet : Nat, key : Nat]
  /\ DOMAIN images \subseteq 1..made.image /\ images \in [DOMAIN images -> ImageType]
  /\ touched \subseteq 1..made.image

Types ==
  /\ ImageTypes
  /\ build \in [Builder -> BuildType] /\ prune \in PruneType /\ up \in UpType
  /\ keys \subseteq KeyType /\ file \in [Path -> Fp]

-------------------------------------------------------------------------------
(* Retention *)

\* What stands in for image i of region r once it is gone: the newer builds of the
\* region, and what people took or changed.
Guards(i, r) ==
  {j \in touched : j > i} \cup
  {j \in DOMAIN images : j > i /\ Eligible(j) /\ images[j].kind.region = r}

Safe(e) == 1 + Keep <= Cardinality(Guards(e.id, e.kind.region))

\* An entry of a listing tells what its image is of, as long as it is there.
Truthful(e) ==
  e \in EntryType /\ e.id <= made.image
  /\ (e.id \in DOMAIN images => images[e.id].kind = e.kind)

\* A plan holds what may be deleted, however old it is.
PlanSafe(P) == IsFiniteSet(P) /\ \A e \in P : Truthful(e) /\ Safe(e)

\* What a listing has seen is still there, or was changed by hand, or was deleted
\* with enough newer ones behind it, which are behind any older image as well.
SeenStands(L) ==
  /\ IsFiniteSet(L) /\ \A e, f \in L : e.id = f.id => e = f
  /\ \A e \in L : Truthful(e) /\ (e.id \in touched \/ Eligible(e.id) \/ Safe(e))

\* A build or a prune, with its listing, its plan, and an image to delete when it
\* is about to.
HolderStands(h) ==
  SeenStands(h.list.seen) /\ PlanSafe(h.plan) /\ (h.pc = "delete" => h.plan # {})

Retained ==
  (\A b \in Builder : HolderStands(build[b])) /\ HolderStands(prune) /\ SeenStands(up.list.seen)

\* One step of the account's images: they keep their kind and, unless changed by
\* hand, go on being launched; new ones are newer; at most one is gone, by hand or
\* because it was safe to delete.
ImagesGoOn ==
  /\ ImageTypes /\ ImageTypes' /\ made.image <= made'.image /\ touched \subseteq touched'
  /\ \A i \in DOMAIN images \cap DOMAIN images' :
       /\ images'[i].kind = images[i].kind
       /\ Eligible(i) => Eligible(i)' \/ i \in touched'
  /\ \A i \in DOMAIN images' \ DOMAIN images : i > made.image
  /\ \A i, j \in DOMAIN images \ DOMAIN images' : i = j
  /\ \A i \in DOMAIN images \ (DOMAIN images' \cup touched') :
       \E e : e.id = i /\ Truthful(e) /\ Safe(e)

-------------------------------------------------------------------------------
(* The machine that up makes *)

\* The keys of the account, and of the account as up listed it, agree by number.
KeysAgree ==
  /\ setup.pc = "register" => setup.path \in Path
  /\ \A k \in keys \cup up.account : k.id <= made.key
  /\ \A k, l \in keys \cup up.account : k.id = l.id => k.fp = l.fp

\* Whatever key has the number, it is the key of the entry.
Means(e, id) ==
  id <= made.key /\ \A k \in keys \cup up.account : k.id = id => k.fp = e.fp

\* The entries that come before e.
Earlier(e) == {f \in up.entries : f.path < e.path}

\* Each file is planned once, each key once; up has taken one number for each of
\* the entries whose turn has been.
EntriesDiffer ==
  /\ IsFiniteSet(up.entries) /\ \A e, f \in up.files : e.path = f.path => e = f
  /\ \A e, f \in up.entries : (e.path = f.path \/ e.fp = f.fp) => e = f

TakesInTurn ==
  /\ IsFiniteSet(up.ids)
  /\ \E g \in [up.ids -> up.entries] :
       /\ \A i, j \in up.ids : g[i] = g[j] => i = j
       /\ \A i \in up.ids : Means(g[i], i)
       /\ \A e \in up.entries :
            (\E i \in up.ids : g[i] = e) <=> Cardinality(Earlier(e)) < Cardinality(up.ids)

\* The image that was shown fits, as long as it is there.
ImageFits ==
  up.image # Stock =>
    up.image <= made.image
    /\ (up.image \in DOMAIN images => images[up.image].kind.shell = Wanted.shell)

Approved ==
  /\ KeysAgree /\ EntriesDiffer /\ ImageFits /\ MachineIsApproved
  /\ up.pc \in {"key", "relist"} => TakesInTurn
  /\ up.pc = "relist" => Cardinality(up.ids) < Cardinality(up.entries)
  /\ up.pc \notin {"key", "relist"} => up.ids = {}

\* One step of the account's keys: a new one has a new number.
KeysGoOn ==
  /\ made.key \in Nat /\ made'.key \in Nat /\ made.key <= made'.key
  /\ \A k \in keys' \ keys : made.key < k.id /\ k.id <= made'.key
  /\ \A k, l \in keys' \ keys : k = l

\* What up has planned is what it had planned.
UpSame ==
  /\ up'.pc = up.pc /\ up'.files = up.files /\ up'.entries = up.entries /\ up'.image = up.image
  /\ up'.account = up.account /\ up'.ids = up.ids

CInv == Types /\ Retained /\ Approved

-------------------------------------------------------------------------------
(* Facts about numbers and finite sets *)

LEMMA NatMin == ASSUME NEW S \in SUBSET Nat, S # {} PROVE \E m \in S : \A n \in S : m <= n
<1> DEFINE R == {ss \in Nat \X Nat : ss[1] < ss[2]}
<1>1. IsWellFoundedOn(R, Nat)
  BY NatLessThanWellFounded DEF OpToRel
<1>2. \A x, y \in Nat : x < y => <<x, y>> \in R
  OBVIOUS
<1> HIDE DEF R
<1>3. PICK x \in S : \A y \in S : ~ (<<y, x>> \in R)
  BY <1>1, WFMin
<1>4. ASSUME NEW y \in S PROVE x <= y
  <2>1. x \in Nat /\ y \in Nat
    OBVIOUS
  <2>2. ~(y < x)
    BY <1>2, <1>3, <2>1, Zenon
  <2> QED
    BY <2>1, <2>2
<1> QED
  BY <1>4

LEMMA NatMax ==
  ASSUME NEW S \in SUBSET Nat, S # {}, NEW n \in Nat, \A m \in S : m <= n
  PROVE  \E x \in S : \A m \in S : m <= x
<1> DEFINE T == {n - m : m \in S}
<1>1. T \in SUBSET Nat /\ T # {}
  <2>1. \A m \in S : n - m \in Nat
    <3> TAKE m \in S
    <3>1. m \in Nat /\ m <= n
      OBVIOUS
    <3> QED
      BY <3>1
  <2>2. T \in SUBSET Nat
    BY <2>1
  <2>3. PICK m \in S : TRUE
    OBVIOUS
  <2>4. n - m \in T
    OBVIOUS
  <2> QED
    BY <2>2, <2>4
<1> HIDE DEF T
<1>2. PICK t \in T : \A u \in T : t <= u
  BY <1>1, NatMin
<1>3. PICK x \in S : t = n - x
  BY DEF T
<1>4. ASSUME NEW m \in S PROVE m <= x
  <2>1. n - m \in T
    BY DEF T
  <2>2. n - x <= n - m
    BY <1>2, <1>3, <2>1
  <2> QED
    BY <2>2
<1> QED
  BY <1>4

\* As many as there are in a set to which one maps into, without two alike.
LEMMA OneForOne ==
  ASSUME NEW S, NEW T, IsFiniteSet(T), NEW f \in [S -> T],
         \A a, b \in S : f[a] = f[b] => a = b
  PROVE  IsFiniteSet(S) /\ Cardinality(S) <= Cardinality(T)
<1>1. f \in Injection(S, T)
  BY DEF Injection, IsInjective
<1> QED
  BY <1>1, FS_Injection

\* The entries of a finite set of images.
LEMMA EntriesFinite ==
  ASSUME NEW S, IsFiniteSet(S)
  PROVE  IsFiniteSet({Entry(i) : i \in S})
<1> DEFINE T == {Entry(i) : i \in S}
           f == [i \in S |-> Entry(i)]
<1>1. f \in Surjection(S, T)
  BY DEF Surjection
<1> QED
  BY <1>1, FS_Surjection

-------------------------------------------------------------------------------
(* What the choices of the code choose *)

LEMMA NewestIsThere ==
  ASSUME NEW S \in SUBSET EntryType, S # {}, NEW n \in Nat, \A e \in S : e.id <= n
  PROVE  Newest(S) \in S
<1> DEFINE T == {e.id : e \in S}
<1>1. T \in SUBSET Nat /\ T # {} /\ \A m \in T : m <= n
  BY DEF EntryType
<1> HIDE DEF T
<1>2. PICK x \in T : \A m \in T : m <= x
  BY <1>1, NatMax
<1>3. PICK e \in S : x = e.id
  BY DEF T
<1>4. \A f \in S : f.id <= e.id
  BY <1>2, <1>3 DEF T
<1> QED
  BY <1>4 DEF Newest

LEMMA FirstIsThere ==
  ASSUME CloudAssumption, NEW S \in SUBSET EntryType, S # {}
  PROVE  First(S) \in S
<1> DEFINE T == {e.kind.region : e \in S}
<1>1. T \in SUBSET Nat /\ T # {}
  BY DEF EntryType, Kinds, CloudAssumption
<1> HIDE DEF T
<1>2. PICK r \in T : \A t \in T : r <= t
  BY <1>1, NatMin
<1> DEFINE U == {e.id : e \in {d \in S : d.kind.region = r}}
<1>3. U \in SUBSET Nat /\ U # {}
  BY DEF EntryType, T
<1> HIDE DEF U
<1>4. PICK x \in U : \A m \in U : x <= m
  BY <1>3, NatMin
<1>5. PICK c \in S : c.kind.region = r /\ c.id = x
  BY DEF U
<1>6. ASSUME NEW d \in S
      PROVE  \/ c.kind.region < d.kind.region
             \/ c.kind.region = d.kind.region /\ c.id <= d.id
  <2>1. d.kind.region \in T /\ r <= d.kind.region /\ r \in Nat /\ d.kind.region \in Nat
    BY <1>1, <1>2 DEF T
  <2>2. CASE d.kind.region = r
    <3>1. d.id \in U
      BY <2>2 DEF U
    <3> QED
      BY <3>1, <2>2, <1>4, <1>5
  <2>3. CASE d.kind.region # r
    BY <2>1, <2>3, <1>5
  <2> QED
    BY <2>2, <2>3
<1> QED
  BY <1>6 DEF First
-------------------------------------------------------------------------------
(* What stands, stands on *)

LEMMA GuardsFinite ==
  ASSUME ImageTypes, NEW i, NEW r
  PROVE  IsFiniteSet(Guards(i, r)) /\ Cardinality(Guards(i, r)) \in Nat
<1>1. made.image \in Nat
  BY DEF ImageTypes
<1>2. IsFiniteSet(1..made.image)
  BY <1>1, FS_Interval
<1>3. Guards(i, r) \subseteq 1..made.image
  BY DEF Guards, ImageTypes
<1>4. IsFiniteSet(Guards(i, r))
  BY <1>2, <1>3, FS_Subset
<1> QED
  BY <1>4, FS_CardinalityType

\* What stands behind one image stands behind any older one of the region.
LEMMA OlderIsSafe ==
  ASSUME CloudAssumption, ImageTypes, NEW d \in EntryType, NEW e \in EntryType, e.id < d.id,
         e.kind.region = d.kind.region, Safe(d)
  PROVE  Safe(e)
<1> DEFINE r == e.kind.region
<1>1. Guards(d.id, r) \subseteq Guards(e.id, r)
  <2>1. d.id \in Nat /\ e.id \in Nat /\ touched \subseteq Nat /\ DOMAIN images \subseteq Nat
    BY DEF EntryType, ImageTypes
  <2>2. \A j \in Nat : j > d.id => j > e.id
    BY <2>1
  <2> QED
    BY <2>1, <2>2 DEF Guards
<1>2. IsFiniteSet(Guards(e.id, r))
  BY GuardsFinite
<1>3. Cardinality(Guards(d.id, r)) <= Cardinality(Guards(e.id, r))
  BY <1>1, <1>2, FS_Subset
<1>4. Cardinality(Guards(d.id, r)) \in Nat /\ Cardinality(Guards(e.id, r)) \in Nat
  BY GuardsFinite
<1>5. 1 + Keep <= Cardinality(Guards(d.id, r)) /\ Keep \in Nat
  BY DEF Safe, CloudAssumption
<1> QED
  BY <1>3, <1>4, <1>5 DEF Safe

LEMMA EligibleIsTyped ==
  ASSUME ImageTypes, NEW i, Eligible(i)
  PROVE  i \in DOMAIN images
  BY DEF Eligible, Ready

\* A guard stands on, unless it is the one image that is deleted.
LEMMA GuardsStay ==
  ASSUME ImagesGoOn, NEW i, NEW r, NEW j \in Guards(i, r),
         j \in DOMAIN images' \/ j \in touched'
  PROVE  j \in Guards(i, r)'
<1>1. CASE j \in touched
  <2>1. j \in touched' /\ j > i
    BY <1>1 DEF ImagesGoOn, Guards
  <2> QED
    BY <2>1 DEF Guards
<1>2. CASE j \notin touched /\ j \in touched'
  BY <1>2 DEF Guards
<1>3. CASE j \notin touched'
  <2>1. j \in DOMAIN images /\ j > i /\ Eligible(j) /\ images[j].kind.region = r
    BY <1>3 DEF Guards, ImagesGoOn
  <2>2. j \in DOMAIN images' /\ images'[j].kind = images[j].kind /\ Eligible(j)'
    BY <1>3, <2>1 DEF ImagesGoOn
  <2> QED
    BY <2>1, <2>2 DEF Guards
<1> QED
  BY <1>1, <1>2, <1>3

LEMMA SafeStays ==
  ASSUME CloudAssumption, ImagesGoOn, NEW e \in EntryType, Safe(e)
  PROVE  Safe(e)'
<1> DEFINE r == e.kind.region
           G == Guards(e.id, r)
<1>t. ImageTypes /\ ImageTypes' /\ Keep \in Nat
  BY DEF ImagesGoOn, CloudAssumption
<1>f. Cardinality(G) \in Nat /\ 1 + Keep <= Cardinality(G)
  BY <1>t, GuardsFinite DEF Safe
<1>g. IsFiniteSet(G') /\ Cardinality(G') \in Nat
  <2>1. made'.image \in Nat /\ G' \subseteq 1..made'.image
    BY <1>t DEF Guards, ImageTypes
  <2>2. IsFiniteSet(1..made'.image)
    BY <2>1, FS_Interval
  <2> QED
    BY <2>1, <2>2, FS_Subset, FS_CardinalityType
<1>1. CASE G \subseteq G'
  <2>1. Cardinality(G) <= Cardinality(G')
    BY <1>1, <1>g, FS_Subset
  <2> QED
    BY <2>1, <1>f, <1>g, <1>t DEF Safe
<1>2. CASE \E j \in G : j \notin G'
  <2>1. PICK j \in G : j \notin G'
    BY <1>2
  <2>2. j \notin DOMAIN images' /\ j \notin touched'
    BY <2>1, GuardsStay
  <2>3. j \in DOMAIN images /\ images[j].kind.region = r /\ j > e.id
    BY <2>2 DEF Guards, ImagesGoOn
  <2>4. PICK d : d.id = j /\ Truthful(d) /\ Safe(d)
    BY <2>2, <2>3 DEF ImagesGoOn
  <2>5. d \in EntryType /\ d.kind.region = r
    BY <2>3, <2>4 DEF Truthful
  <2> DEFINE H == Guards(d.id, r)
  <2>6. H \subseteq G
    <3>1. d.id \in Nat /\ e.id \in Nat /\ touched \subseteq Nat /\ DOMAIN images \subseteq Nat
      BY <2>5, <1>t DEF EntryType, ImageTypes
    <3>2. \A k \in Nat : k > d.id => k > e.id
      BY <3>1, <2>3, <2>4
    <3> QED
      BY <3>1, <3>2 DEF Guards
  <2>7. ASSUME NEW k \in H PROVE k \in G'
    <3>1. k \in G
      BY <2>6
    <3>2. k > j /\ k # j
      <4>1. k \in Nat /\ j \in Nat
        BY <1>t, <2>3 DEF Guards, ImageTypes
      <4>2. k > j
        BY <2>4 DEF Guards
      <4> QED
        BY <4>1, <4>2
    <3>3. k \in DOMAIN images' \/ k \in touched'
      BY <3>2, <2>2, <2>3 DEF ImagesGoOn, Guards
    <3> QED
      BY <3>1, <3>3, GuardsStay
  <2>8. Cardinality(H) <= Cardinality(G')
    BY <2>7, <1>g, FS_Subset
  <2>9. 1 + Keep <= Cardinality(H) /\ Cardinality(H) \in Nat
    BY <2>4, <2>5, <1>t, GuardsFinite DEF Safe
  <2> QED
    BY <2>8, <2>9, <1>g, <1>t DEF Safe
<1> QED
  BY <1>1, <1>2

LEMMA TruthfulStays ==
  ASSUME ImagesGoOn, NEW e, Truthful(e)
  PROVE  Truthful(e)'
<1>1. e \in EntryType /\ e.id \in Nat /\ e.id <= made.image
  BY DEF Truthful, EntryType
<1>2. made.image \in Nat /\ made'.image \in Nat /\ made.image <= made'.image
  BY DEF ImagesGoOn, ImageTypes
<1>3. e.id <= made'.image
  BY <1>1, <1>2
<1>4. ASSUME e.id \in DOMAIN images' PROVE images'[e.id].kind = e.kind
  <2>1. e.id \in DOMAIN images
    BY <1>1, <1>2, <1>4 DEF ImagesGoOn
  <2> QED
    BY <2>1, <1>4 DEF ImagesGoOn, Truthful
<1> QED
  BY <1>1, <1>3, <1>4 DEF Truthful

LEMMA PlanStays ==
  ASSUME CloudAssumption, ImagesGoOn, NEW S, PlanSafe(S)
  PROVE  PlanSafe(S)'
<1>1. ASSUME NEW e \in S PROVE (Truthful(e) /\ Safe(e))'
  <2>1. Truthful(e) /\ Safe(e) /\ e \in EntryType
    BY DEF PlanSafe, Truthful
  <2> QED
    BY <2>1, TruthfulStays, SafeStays
<1> QED
  BY <1>1 DEF PlanSafe

LEMMA SeenStay ==
  ASSUME CloudAssumption, ImagesGoOn, NEW L, SeenStands(L)
  PROVE  SeenStands(L)'
<1>1. ASSUME NEW e \in L PROVE (Truthful(e) /\ (e.id \in touched \/ Eligible(e.id) \/ Safe(e)))'
  <2>1. Truthful(e) /\ (e.id \in touched \/ Eligible(e.id) \/ Safe(e)) /\ e \in EntryType
    BY DEF SeenStands, Truthful
  <2>2. Truthful(e)'
    BY <2>1, TruthfulStays
  <2>3. CASE e.id \in touched \/ e.id \in touched'
    BY <2>3, <2>2 DEF ImagesGoOn
  <2>4. CASE Safe(e)
    BY <2>1, <2>2, <2>4, SafeStays
  <2>5. CASE Eligible(e.id) /\ e.id \notin touched'
    <3>1. e.id \in DOMAIN images
      BY <2>5 DEF Eligible, Ready
    <3>2. CASE e.id \in DOMAIN images'
      BY <3>1, <3>2, <2>2, <2>5 DEF ImagesGoOn
    <3>3. CASE e.id \notin DOMAIN images'
      <4>1. PICK d : d.id = e.id /\ Truthful(d) /\ Safe(d)
        BY <3>1, <3>3, <2>5 DEF ImagesGoOn
      <4>2. d.kind = e.kind /\ d \in EntryType
        BY <4>1, <3>1, <2>1 DEF Truthful
      <4>3. d = e
        BY <4>1, <4>2, <2>1 DEF EntryType
      <4> QED
        BY <4>1, <4>3, <2>1, <2>2, SafeStays
    <3> QED
      BY <3>2, <3>3
  <2> QED
    BY <2>1, <2>3, <2>4, <2>5
<1> QED
  BY <1>1 DEF SeenStands

-------------------------------------------------------------------------------
(* What a listing sees stands, and what retention makes of it is safe *)

LEMMA TurnedStands ==
  ASSUME ImageTypes, NEW list, SeenStands(list.seen)
  PROVE  LET new == {Entry(i) : i \in {j \in Page(list.page) : Eligible(j)}}
         IN  /\ SeenStands(list.seen \cup new)
             /\ new \subseteq EntryType
<1> DEFINE T == {j \in Page(list.page) : Eligible(j)}
           new == {Entry(i) : i \in T}
           L == list.seen \cup new
<1>1. T \subseteq DOMAIN images
  BY DEF Eligible, Ready
<1>2. IsFiniteSet(T)
  <2>1. made.image \in Nat /\ T \subseteq 1..made.image
    BY <1>1 DEF ImageTypes
  <2> HIDE DEF T
  <2>2. IsFiniteSet(1..made.image)
    BY <2>1, FS_Interval
  <2> QED
    BY <2>1, <2>2, FS_Subset
<1>3. IsFiniteSet(new)
  BY <1>2, EntriesFinite
<1>4. IsFiniteSet(L)
  BY <1>3, FS_Union DEF SeenStands
<1>5. ASSUME NEW e \in new
      PROVE  /\ e \in EntryType /\ e.id \in DOMAIN images /\ images[e.id].kind = e.kind
             /\ Truthful(e) /\ Eligible(e.id)
  <2>1. PICK i \in T : e = Entry(i)
    OBVIOUS
  <2>2. i \in DOMAIN images /\ e.id = i /\ e.kind = images[i].kind /\ Eligible(i)
    BY <2>1, <1>1 DEF Entry
  <2>3. images[i].kind \in Kinds /\ i \in 1..made.image /\ made.image \in Nat
    BY <2>2 DEF ImageTypes, ImageType
  <2>4. e \in EntryType /\ e.id <= made.image
    BY <2>1, <2>2, <2>3 DEF Entry, EntryType
  <2> QED
    BY <2>2, <2>4 DEF Truthful
<1> HIDE DEF new
<1>6. ASSUME NEW e \in L, NEW f \in L, e.id = f.id PROVE e = f
  <2>1. CASE e \in list.seen /\ f \in list.seen
    BY <2>1, <1>6 DEF SeenStands
  <2>2. CASE e \in new \/ f \in new
    <3>1. e \in EntryType /\ f \in EntryType
      BY <1>5 DEF SeenStands, Truthful
    <3>2. e.kind = f.kind
      BY <2>2, <1>5, <1>6 DEF SeenStands, Truthful
    <3> QED
      BY <3>1, <3>2, <1>6 DEF EntryType
  <2> QED
    BY <2>1, <2>2
<1>7. \A e \in L : Truthful(e) /\ (e.id \in touched \/ Eligible(e.id) \/ Safe(e))
  BY <1>5 DEF SeenStands
<1>8. SeenStands(L)
  BY <1>4, <1>6, <1>7 DEF SeenStands
<1>9. new \subseteq EntryType
  BY <1>5
<1> QED
  BY <1>8, <1>9 DEF new

\* What is not kept back has enough newer builds behind it.
LEMMA PlanIsSafe ==
  ASSUME CloudAssumption, ImageTypes, NEW L, SeenStands(L), NEW S \in SUBSET L, NEW id
  PROVE  PlanSafe(PlanPrune(S, id)) /\ PlanPrune(S, id) \subseteq S
<1>1. PlanPrune(S, id) \subseteq S
  BY DEF PlanPrune
<1>2. IsFiniteSet(S)
  BY FS_Subset DEF SeenStands
<1>3. IsFiniteSet(PlanPrune(S, id))
  BY <1>1, <1>2, FS_Subset
<1>4. ASSUME NEW e \in PlanPrune(S, id) PROVE Safe(e) /\ Truthful(e)
  <2> DEFINE N == Newer(e, S)
             r == e.kind.region
             G == Guards(e.id, r)
  <2>1. e \in S /\ e \in L /\ ~(Cardinality(N) < 1 + Keep)
    BY DEF PlanPrune, KeptBack
  <2>2. Truthful(e) /\ e \in EntryType
    BY <2>1 DEF SeenStands, Truthful
  <2>3. \A f \in N : f \in L /\ f.kind.region = r /\ f.id > e.id /\ f \in EntryType /\ Truthful(f)
    BY DEF Newer, InRegion, SeenStands, Truthful
  <2>4. IsFiniteSet(N) /\ Cardinality(N) \in Nat
    <3>1. N \subseteq S
      BY DEF Newer, InRegion
    <3> QED
      BY <3>1, <1>2, FS_Subset, FS_CardinalityType
  <2>5. 1 + Keep <= Cardinality(N) /\ Keep \in Nat
    BY <2>1, <2>4 DEF CloudAssumption
  <2>6. CASE \E f \in N : Safe(f)
    <3>1. PICK f \in N : Safe(f)
      BY <2>6
    <3>2. e.id < f.id
      BY <2>2, <2>3 DEF EntryType
    <3> QED
      BY <3>1, <3>2, <2>2, <2>3, OlderIsSafe
  <2>7. CASE \A f \in N : ~Safe(f)
    <3>1. ASSUME NEW f \in N PROVE f.id \in G
      <4>1. f.id \in touched \/ Eligible(f.id)
        BY <2>3, <2>7 DEF SeenStands
      <4>2. CASE Eligible(f.id)
        <5>1. f.id \in DOMAIN images /\ images[f.id].kind.region = r
          BY <4>2, <2>3 DEF Eligible, Ready, Truthful
        <5> QED
          BY <5>1, <4>2, <2>3 DEF Guards
      <4> QED
        BY <4>1, <4>2, <2>3 DEF Guards
    <3> DEFINE m == [f \in N |-> f.id]
    <3>2. m \in [N -> G]
      BY <3>1
    <3>3. \A f, g \in N : m[f] = m[g] => f = g
      BY <2>3 DEF SeenStands
    <3>4. IsFiniteSet(G) /\ Cardinality(G) \in Nat
      BY GuardsFinite
    <3>5. Cardinality(N) <= Cardinality(G)
      BY <3>2, <3>3, <3>4, OneForOne
    <3> QED
      BY <3>4, <3>5, <2>4, <2>5, <2>2 DEF Safe
  <2> QED
    BY <2>2, <2>6, <2>7
<1> QED
  BY <1>1, <1>3, <1>4 DEF PlanSafe
-------------------------------------------------------------------------------
(* Each way the images change *)

LEMMA ReadGoesOn ==
  ASSUME ImageTypes, NEW S, images' = Read(S), UNCHANGED <<made, touched>>
  PROVE  ImagesGoOn
<1>1. DOMAIN images' = DOMAIN images
  BY DEF Read
<1>2. ASSUME NEW i \in DOMAIN images
      PROVE  /\ images'[i] \in ImageType /\ images'[i].kind = images[i].kind
             /\ images'[i].tags = images[i].tags
             /\ images[i].pending = 0 => images'[i].pending = 0
  <2>1. images[i] \in ImageType
    BY DEF ImageTypes
  <2>2. CASE i \in S /\ images[i].pending > 0
    <3>1. images'[i] = [images[i] EXCEPT !.pending = images[i].pending - 1]
      BY <2>2 DEF Read
    <3> QED
      BY <2>1, <2>2, <3>1 DEF ImageType
  <2>3. CASE ~(i \in S /\ images[i].pending > 0)
    BY <2>1, <2>3 DEF Read
  <2> QED
    BY <2>2, <2>3
<1>3. ImageTypes'
  <2>1. images' \in [DOMAIN images -> ImageType]
    BY <1>1, <1>2 DEF Read
  <2> QED
    BY <1>1, <2>1 DEF ImageTypes
<1>4. \A i \in DOMAIN images : Eligible(i) => Eligible(i)'
  BY <1>1, <1>2 DEF Eligible, Ready, Tagged
<1>5. made.image <= made'.image
  BY DEF ImageTypes
<1> QED
  BY <1>1, <1>2, <1>3, <1>4, <1>5 DEF ImagesGoOn

LEMMA TagGoesOn ==
  ASSUME ImageTypes, NEW i \in DOMAIN images, NEW ts \in SUBSET Tags, images' = TagImage(i, ts),
         UNCHANGED <<made, touched>>
  PROVE  ImagesGoOn
<1>1. DOMAIN images' = DOMAIN images
  BY DEF TagImage
<1>2. ASSUME NEW j \in DOMAIN images
      PROVE  /\ images'[j] \in ImageType /\ images'[j].kind = images[j].kind
             /\ images[j].tags \subseteq images'[j].tags
             /\ images'[j].pending = images[j].pending
  <2>1. images[j] \in ImageType
    BY DEF ImageTypes
  <2>2. CASE j = i
    <3>1. images'[j] = [images[j] EXCEPT !.tags = images[j].tags \cup ts]
      BY <2>2 DEF TagImage
    <3> QED
      BY <2>1, <3>1 DEF ImageType
  <2>3. CASE j # i
    BY <2>1, <2>3 DEF TagImage
  <2> QED
    BY <2>2, <2>3
<1>3. ImageTypes'
  <2>1. images' \in [DOMAIN images -> ImageType]
    BY <1>1, <1>2 DEF TagImage
  <2> QED
    BY <1>1, <2>1 DEF ImageTypes
<1>4. \A j \in DOMAIN images : Eligible(j) => Eligible(j)'
  BY <1>1, <1>2 DEF Eligible, Ready, Tagged
<1>5. made.image <= made'.image
  BY DEF ImageTypes
<1> QED
  BY <1>1, <1>2, <1>3, <1>4, <1>5 DEF ImagesGoOn

LEMMA SnapshotGoesOn ==
  ASSUME CloudAssumption, ImageTypes, NEW kind \in Kinds, images' = Snapshot(kind),
         made' = [made EXCEPT !.image = @ + 1], UNCHANGED touched
  PROVE  ImagesGoOn
<1> DEFINE n == made.image + 1
<1>1. made.image \in Nat /\ n \in Nat /\ made'.image = n /\ made' \in [image : Nat, droplet : Nat, key : Nat]
  BY DEF ImageTypes
<1>2. n \notin DOMAIN images /\ DOMAIN images' = DOMAIN images \cup {n}
  BY <1>1 DEF ImageTypes, Snapshot, With
<1>3. \A j \in DOMAIN images : images'[j] = images[j] /\ images[j] \in ImageType
  BY <1>2 DEF ImageTypes, Snapshot, With
<1>4. images'[n] \in ImageType
  BY DEF Snapshot, With, Img, ImageType, CloudAssumption
<1>5. ImageTypes'
  <2>1. images' \in [DOMAIN images \cup {n} -> ImageType]
    BY <1>2, <1>3, <1>4 DEF Snapshot, With
  <2>2. 1..made.image \subseteq 1..n /\ n \in 1..n
    BY <1>1
  <2> QED
    BY <1>1, <1>2, <2>1, <2>2 DEF ImageTypes
<1>6. \A j \in DOMAIN images : Eligible(j) => Eligible(j)'
  BY <1>2, <1>3 DEF Eligible, Ready, Tagged
<1>7. made.image <= made'.image /\ n > made.image
  BY <1>1
<1> QED
  BY <1>2, <1>3, <1>5, <1>6, <1>7 DEF ImagesGoOn

\* An image is gone; if not by hand, it was safe to delete.
LEMMA DeleteGoesOn ==
  ASSUME ImageTypes, NEW i, images' = DeleteImage(i), UNCHANGED made, touched \subseteq touched',
         touched' \subseteq 1..made.image,
         i \in touched' \/ \E e : e.id = i /\ Truthful(e) /\ Safe(e)
  PROVE  ImagesGoOn
<1>1. DOMAIN images' = DOMAIN images \ {i}
  BY DEF DeleteImage, Without
<1>2. \A j \in DOMAIN images' : images'[j] = images[j] /\ images[j] \in ImageType
  BY <1>1 DEF ImageTypes, DeleteImage, Without
<1>3. ImageTypes'
  <2>1. images' \in [DOMAIN images' -> ImageType]
    BY <1>1, <1>2 DEF DeleteImage, Without
  <2> QED
    BY <1>1, <2>1 DEF ImageTypes
<1>4. \A j \in DOMAIN images' : Eligible(j) => Eligible(j)'
  BY <1>1, <1>2 DEF Eligible, Ready, Tagged
<1>5. made.image <= made'.image
  BY DEF ImageTypes
<1> QED
  BY <1>1, <1>2, <1>3, <1>4, <1>5 DEF ImagesGoOn

LEMMA HandGoesOn ==
  ASSUME ImageTypes, NEW i \in DOMAIN images, touched' = touched \cup {i}, UNCHANGED made,
         \/ images' = DeleteImage(i)
         \/ \E t \in images[i].tags : images' = [images EXCEPT ![i].tags = @ \ {t}]
  PROVE  ImagesGoOn
<1>1. touched' \subseteq 1..made.image /\ touched \subseteq touched' /\ i \in touched'
  BY DEF ImageTypes
<1>2. CASE images' = DeleteImage(i)
  BY <1>1, <1>2, DeleteGoesOn
<1>3. ASSUME NEW t \in images[i].tags, images' = [images EXCEPT ![i].tags = @ \ {t}]
      PROVE  ImagesGoOn
  <2>1. DOMAIN images' = DOMAIN images
    BY <1>3
  <2>2. ASSUME NEW j \in DOMAIN images
        PROVE  /\ images'[j] \in ImageType /\ images'[j].kind = images[j].kind
               /\ j # i => images'[j] = images[j]
    <3>1. images[j] \in ImageType
      BY DEF ImageTypes
    <3>2. CASE j = i
      <4>1. images'[j] = [images[j] EXCEPT !.tags = images[j].tags \ {t}]
        BY <3>2, <1>3
      <4> QED
        BY <3>1, <3>2, <4>1 DEF ImageType
    <3>3. CASE j # i
      BY <3>1, <3>3, <1>3
    <3> QED
      BY <3>2, <3>3
  <2>3. ImageTypes'
    <3>1. images' \in [DOMAIN images -> ImageType]
      BY <2>1, <2>2, <1>3
    <3> QED
      BY <1>1, <2>1, <3>1 DEF ImageTypes
  <2>4. \A j \in DOMAIN images : Eligible(j) => Eligible(j)' \/ j \in touched'
    BY <1>1, <2>1, <2>2 DEF Eligible, Ready, Tagged
  <2>5. made.image <= made'.image
    BY DEF ImageTypes
  <2> QED
    BY <1>1, <2>1, <2>2, <2>3, <2>4, <2>5 DEF ImagesGoOn
<1> QED
  BY <1>2, <1>3

\* The images stay; the other numbers may go on.
LEMMA StillGoesOn ==
  ASSUME ImageTypes, UNCHANGED <<images, touched>>, made'.image = made.image,
         made' \in [image : Nat, droplet : Nat, key : Nat]
  PROVE  ImagesGoOn
<1>1. ImageTypes'
  BY DEF ImageTypes
<1>2. \A j \in DOMAIN images : Eligible(j) => Eligible(j)'
  BY DEF Eligible, Ready, Tagged
<1>3. made.image <= made'.image
  BY DEF ImageTypes
<1> QED
  BY <1>1, <1>2, <1>3 DEF ImagesGoOn

-------------------------------------------------------------------------------
(* Each way the holders of lists and plans change *)

LEMMA TurnedType ==
  ASSUME ImageTypes, NEW list \in ListType, SeenStands(list.seen)
  PROVE  Turned(list) \in ListType /\ SeenStands(Turned(list).seen)
<1> DEFINE new == {Entry(i) : i \in {j \in Page(list.page) : Eligible(j)}}
           old == IF list.page = 0 THEN {i \in DOMAIN images : Eligible(i)} ELSE list.stood
<1>1. SeenStands(list.seen \cup new) /\ new \subseteq EntryType
  BY TurnedStands
<1>2. old \subseteq Nat
  BY DEF ImageTypes, ListType
<1>3. Turned(list) = [list EXCEPT !.page = list.page + 1, !.seen = list.seen \cup new, !.stood = old]
  BY DEF Turned
<1> HIDE DEF new, old
<1>4. Turned(list).seen = list.seen \cup new
  BY <1>3 DEF ListType
<1>5. Turned(list) \in ListType
  <2> DEFINE B == BOOLEAN
             T == [page : Nat, seen : SUBSET EntryType, missed : B, stood : SUBSET Nat]
  <2>1. T = ListType
    BY DEF ListType
  <2> HIDE DEF B
  <2>2. list \in T
    BY <2>1
  <2>3. PICK page \in Nat, seen \in SUBSET EntryType, missed \in B, stood \in SUBSET Nat :
          list = [page |-> page, seen |-> seen, missed |-> missed, stood |-> stood]
    BY <2>2
  <2>4. /\ list.page + 1 \in Nat /\ list.seen \cup new \in SUBSET EntryType
        /\ old \in SUBSET Nat /\ list.missed \in B
    BY <2>3, <1>1, <1>2
  <2>5. Turned(list) = [page |-> list.page + 1, seen |-> list.seen \cup new,
                        missed |-> list.missed, stood |-> old]
    BY <2>3, <1>3
  <2>6. Turned(list) \in T
    BY <2>4, <2>5
  <2> QED
    BY <2>1, <2>6
<1> QED
  BY <1>1, <1>4, <1>5

LEMMA HolderStays ==
  ASSUME CloudAssumption, ImagesGoOn, NEW h, HolderStands(h)
  PROVE  HolderStands(h)'
  BY SeenStay, PlanStays DEF HolderStands

LEMMA EmptyStands == SeenStands({}) /\ PlanSafe({})
  BY FS_EmptySet DEF SeenStands, PlanSafe

LEMMA List0Type == List0 \in ListType /\ SeenStands(List0.seen)
  BY EmptyStands DEF List0, ListType

LEMMA Builder0Stands == Builder0 \in BuildType /\ HolderStands(Builder0)
<1>1. Builder0.list = List0 /\ Builder0.plan = {} /\ Builder0.pc = "idle"
  BY DEF Builder0
<1>2. HolderStands(Builder0)
  BY <1>1, EmptyStands, List0Type DEF HolderStands
<1>3. Builder0 \in BuildType
  BY List0Type DEF Builder0, BuildType, Kinds
<1> QED
  BY <1>2, <1>3

LEMMA Prune0Stands == Prune0 \in PruneType /\ HolderStands(Prune0)
<1>1. Prune0.list = List0 /\ Prune0.plan = {} /\ Prune0.pc = "idle"
  BY DEF Prune0
<1>2. HolderStands(Prune0)
  BY <1>1, EmptyStands, List0Type DEF HolderStands
<1>3. Prune0 \in PruneType
  BY List0Type DEF Prune0, PruneType
<1> QED
  BY <1>2, <1>3

LEMMA Up0Stands == Up0 \in UpType /\ SeenStands(Up0.list.seen)
<1>1. Up0.list = List0
  BY DEF Up0
<1>2. Up0 \in UpType
  BY List0Type DEF Up0, UpType, Stock
<1> QED
  BY <1>1, <1>2, List0Type

\* The rest follows from what becomes of each holder.
LEMMA RetainedGoesOn ==
  ASSUME CloudAssumption, ImagesGoOn,
         \A b \in Builder : \E h : HolderStands(h) /\ build'[b] = h,
         \E h : HolderStands(h) /\ prune' = h,
         \E L : SeenStands(L) /\ up'.list.seen = L
  PROVE  Retained'
<1>1. ASSUME NEW b \in Builder PROVE HolderStands(build[b])'
  <2>1. PICK h : HolderStands(h) /\ build'[b] = h
    OBVIOUS
  <2>2. HolderStands(h)'
    BY <2>1, HolderStays
  <2> QED
    BY <2>1, <2>2 DEF HolderStands
<1>2. HolderStands(prune)'
  <2>1. PICK h : HolderStands(h) /\ prune' = h
    OBVIOUS
  <2>2. HolderStands(h)'
    BY <2>1, HolderStays
  <2> QED
    BY <2>1, <2>2 DEF HolderStands
<1>3. SeenStands(up.list.seen)'
  <2>1. PICK L : SeenStands(L) /\ up'.list.seen = L
    OBVIOUS
  <2>2. SeenStands(L)'
    BY <2>1, SeenStay
  <2> QED
    BY <2>1, <2>2 DEF SeenStands
<1> QED
  BY <1>1, <1>2, <1>3 DEF Retained

UpListStays == up' \in UpType /\ up'.list.seen = up.list.seen

LEMMA BuilderMoves ==
  ASSUME CloudAssumption, Types, Retained, ImagesGoOn, NEW b \in Builder, NEW h \in BuildType,
         HolderStands(h), build' = [build EXCEPT ![b] = h], UNCHANGED <<prune, keys, file>>,
         UpListStays
  PROVE  Types' /\ Retained'
<1>1. \A c \in Builder : build'[c] \in BuildType /\ HolderStands(build'[c])
  BY DEF Types, Retained
<1>2. Retained'
  BY <1>1, RetainedGoesOn DEF Retained, UpListStays
<1>3. build' \in [Builder -> BuildType]
  BY <1>1 DEF Types
<1> QED
  BY <1>2, <1>3 DEF Types, ImagesGoOn, UpListStays

LEMMA PruneMoves ==
  ASSUME CloudAssumption, Types, Retained, ImagesGoOn, prune' \in PruneType,
         HolderStands(prune'), UNCHANGED <<build, keys, file>>, UpListStays
  PROVE  Types' /\ Retained'
<1>1. Retained'
  BY RetainedGoesOn DEF Retained, UpListStays
<1> QED
  BY <1>1 DEF Types, ImagesGoOn, UpListStays

LEMMA UpMoves ==
  ASSUME CloudAssumption, Types, Retained, ImagesGoOn, up' \in UpType,
         SeenStands(up'.list.seen), keys' \subseteq KeyType, UNCHANGED <<build, prune, file>>
  PROVE  Types' /\ Retained'
<1>1. Retained'
  BY RetainedGoesOn DEF Retained
<1> QED
  BY <1>1 DEF Types, ImagesGoOn

LEMMA UpStays == ASSUME Types, UNCHANGED up PROVE UpListStays
  BY DEF Types, UpListStays
-------------------------------------------------------------------------------
(* The builds keep what is retained *)

LEMMA BuilderParts ==
  ASSUME Types, Retained, NEW b \in Builder
  PROVE  /\ build[b] \in BuildType /\ HolderStands(build[b])
         /\ build[b].list \in ListType /\ SeenStands(build[b].list.seen)
         /\ build[b].plan \subseteq EntryType /\ PlanSafe(build[b].plan)
         /\ build[b].kind \in Kinds /\ build[b].id \in Nat
         /\ ImageTypes
  BY DEF Types, Retained, HolderStands, BuildType

\* No delete is under way after a change of the pc to another.
LEMMA AnotherPc ==
  ASSUME NEW h \in BuildType, HolderStands(h),
         NEW pc \in {"snapshot", "tag", "verify", "write", "list", "prune"},
         NEW id \in Nat
  PROVE  /\ [h EXCEPT !.pc = pc, !.id = id] \in BuildType
         /\ HolderStands([h EXCEPT !.pc = pc, !.id = id])
         /\ [h EXCEPT !.pc = pc] \in BuildType
         /\ HolderStands([h EXCEPT !.pc = pc])
<1>1. /\ [h EXCEPT !.pc = pc, !.id = id] \in BuildType
      /\ [h EXCEPT !.pc = pc] \in BuildType
  BY DEF BuildType
<1>2. ASSUME NEW k \in {[h EXCEPT !.pc = pc, !.id = id], [h EXCEPT !.pc = pc]}
      PROVE  HolderStands(k)
  <2>1. k.list = h.list /\ k.plan = h.plan /\ k.pc # "delete"
    BY DEF BuildType
  <2> QED
    BY <2>1 DEF HolderStands
<1> QED
  BY <1>1, <1>2

LEMMA BuildsKeeps ==
  ASSUME CloudAssumption, Types, Retained, NEW b \in Builder, Builds(b), UNCHANGED file
  PROVE  ImagesGoOn /\ Types' /\ Retained'
<1>1. made' \in [image : Nat, droplet : Nat, key : Nat] /\ made'.image = made.image
  BY DEF Builds, Types, ImageTypes
<1>2. ImagesGoOn
  BY <1>1, StillGoesOn DEF Builds, Types
<1>3. PICK k \in Kind :
        build' = [build EXCEPT ![b] = [Builder0 EXCEPT !.pc = "snapshot", !.kind = k,
                                                       !.droplet = made'.droplet]]
  BY DEF Builds
<1> DEFINE h == [Builder0 EXCEPT !.pc = "snapshot", !.kind = k, !.droplet = made'.droplet]
<1>4. h \in BuildType
  BY <1>1, Builder0Stands DEF BuildType, Kinds
<1>5. h.list = Builder0.list /\ h.plan = Builder0.plan /\ h.pc = "snapshot"
  BY DEF Builder0
<1>6. HolderStands(h)
  BY <1>5, Builder0Stands DEF HolderStands
<1>7. build' = [build EXCEPT ![b] = h]
  BY <1>3
<1> HIDE DEF h
<1>8. UpListStays
  BY UpStays DEF Builds
<1> QED
  BY <1>2, <1>4, <1>6, <1>7, <1>8, BuilderMoves DEF Builds

LEMMA SnapshotsKeeps ==
  ASSUME CloudAssumption, Types, Retained, NEW b \in Builder, Snapshots(b), UNCHANGED file
  PROVE  ImagesGoOn /\ Types' /\ Retained'
<1> DEFINE h == [build[b] EXCEPT !.pc = "tag", !.id = made'.image]
<1>1. ImagesGoOn
  BY BuilderParts, SnapshotGoesOn DEF Snapshots
<1>2. made'.image \in Nat
  BY <1>1 DEF ImagesGoOn, ImageTypes
<1>3. h \in BuildType /\ HolderStands(h)
  BY <1>2, BuilderParts, AnotherPc
<1>4. build' = [build EXCEPT ![b] = h]
  <2> DEFINE n == made'.image
             tag == [build[b] EXCEPT !.pc = "tag"]
             B == [build EXCEPT ![b] = tag]
  <2>1. build' = [build EXCEPT ![b].pc = "tag", ![b].id = n]
    BY DEF Snapshots
  <2> HIDE DEF n
  <2>2. build' = [B EXCEPT ![b].id = n]
    BY <2>1
  <2>3. B[b] = tag
    BY DEF Types
  <2> HIDE DEF tag
  <2>4. build' = [B EXCEPT ![b] = [tag EXCEPT !.id = n]]
    BY <2>2, <2>3
  <2>5. build' = [build EXCEPT ![b] = [tag EXCEPT !.id = n]]
    BY <2>4
  <2>6. h = [tag EXCEPT !.id = n]
    BY BuilderParts DEF tag, n, BuildType
  <2> QED
    BY <2>5, <2>6
<1> HIDE DEF h
<1>5. UpListStays
  BY UpStays DEF Snapshots
<1> QED
  BY <1>1, <1>3, <1>4, <1>5, BuilderMoves DEF Snapshots

LEMMA TagsKeeps ==
  ASSUME CloudAssumption, Types, Retained, NEW b \in Builder, Tags1(b), UNCHANGED file
  PROVE  ImagesGoOn /\ Types' /\ Retained'
<1>1. ImageTypes /\ made' = made /\ touched' = touched /\ UpListStays
      /\ made' \in [image : Nat, droplet : Nat, key : Nat] /\ made'.image = made.image
  BY UpStays DEF Types, ImageTypes, Tags1
<1>2. CASE build[b].id \notin DOMAIN images
  <2>1. ImagesGoOn /\ build' = [build EXCEPT ![b] = Builder0]
    BY <1>1, <1>2, StillGoesOn DEF Tags1
  <2> QED
    BY <1>1, <2>1, Builder0Stands, BuilderMoves DEF Tags1
<1>3. CASE build[b].id \in DOMAIN images /\ images[build[b].id].tags = Tags
  <2> DEFINE h == [build[b] EXCEPT !.pc = "verify"]
  <2>1. ImagesGoOn /\ build' = [build EXCEPT ![b] = h]
    BY <1>1, <1>3, StillGoesOn DEF Tags1
  <2>2. h \in BuildType /\ HolderStands(h)
    BY BuilderParts, AnotherPc
  <2> HIDE DEF h
  <2> QED
    BY <1>1, <2>1, <2>2, BuilderMoves DEF Tags1
<1>4. CASE build[b].id \in DOMAIN images /\ images[build[b].id].tags # Tags
  <2>1. PICK t \in Tags : images' = TagImage(build[b].id, {t})
    BY <1>4 DEF Tags1
  <2>2. ImagesGoOn
    BY <1>1, <1>4, <2>1, TagGoesOn
  <2>3. build' = [build EXCEPT ![b] = build[b]]
    BY <1>4 DEF Tags1, Types
  <2> QED
    BY <1>1, <2>2, <2>3, BuilderParts, BuilderMoves DEF Tags1
<1> QED
  BY <1>2, <1>3, <1>4

LEMMA VerifiesKeeps ==
  ASSUME CloudAssumption, Types, Retained, NEW b \in Builder, Verifies(b), UNCHANGED file
  PROVE  ImagesGoOn /\ Types' /\ Retained'
<1> DEFINE h == IF Verified(b) THEN [build[b] EXCEPT !.pc = "write"] ELSE Builder0
<1>1. ImagesGoOn
  BY BuilderParts, ReadGoesOn DEF Verifies
<1>2. h \in BuildType /\ HolderStands(h)
  BY BuilderParts, AnotherPc, Builder0Stands
<1>3. build' = [build EXCEPT ![b] = h]
  BY DEF Verifies
<1> HIDE DEF h
<1>4. UpListStays
  BY UpStays DEF Verifies
<1> QED
  BY <1>1, <1>2, <1>3, <1>4, BuilderMoves DEF Verifies

LEMMA WritesBackKeeps ==
  ASSUME CloudAssumption, Types, Retained, NEW b \in Builder, WritesBack(b), UNCHANGED file
  PROVE  ImagesGoOn /\ Types' /\ Retained'
<1> DEFINE h == [build[b] EXCEPT !.pc = "list"]
<1>1. ImagesGoOn
  BY StillGoesOn DEF WritesBack, Types, ImageTypes
<1>2. h \in BuildType /\ HolderStands(h)
  BY BuilderParts, AnotherPc
<1>3. build' = [build EXCEPT ![b] = h]
  BY DEF WritesBack
<1> HIDE DEF h
<1>4. UpListStays
  BY UpStays DEF WritesBack
<1> QED
  BY <1>1, <1>2, <1>3, <1>4, BuilderMoves DEF WritesBack

LEMMA PlansKeeps ==
  ASSUME CloudAssumption, Types, Retained, NEW b \in Builder, Plans(b), UNCHANGED file
  PROVE  ImagesGoOn /\ Types' /\ Retained'
<1> DEFINE list == Turned(build[b].list)
           S == InRegion(build[b].kind.region, list.seen)
           last == IsLastPage(build[b].list.page)
           plan == IF last THEN PlanPrune(S, build[b].id) ELSE {}
           h == [build[b] EXCEPT !.list = list, !.pc = IF last THEN "prune" ELSE build[b].pc,
                                 !.plan = plan]
<1>1. ImagesGoOn
  BY BuilderParts, ReadGoesOn DEF Plans, Lists
<1>2. list \in ListType /\ SeenStands(list.seen)
  BY BuilderParts, TurnedType
<1>3. PlanSafe(plan) /\ plan \subseteq EntryType
  <2>1. S \in SUBSET list.seen /\ list.seen \subseteq EntryType
    BY <1>2 DEF InRegion, ListType
  <2>2. PlanSafe(PlanPrune(S, build[b].id)) /\ PlanPrune(S, build[b].id) \subseteq S
    BY <2>1, <1>2, BuilderParts, PlanIsSafe
  <2> QED
    BY <2>1, <2>2, EmptyStands
<1>4. build[b].pc = "list"
  BY DEF Plans
<1>5. build' = [build EXCEPT ![b] = h]
  BY DEF Plans
<1> HIDE DEF list, plan, last
<1>6. h \in BuildType /\ h.list = list /\ h.plan = plan /\ h.pc # "delete"
  BY <1>2, <1>3, <1>4, BuilderParts DEF BuildType
<1>7. HolderStands(h)
  BY <1>2, <1>3, <1>6 DEF HolderStands
<1> HIDE DEF h
<1>8. UpListStays
  BY UpStays DEF Plans
<1> QED
  BY <1>1, <1>5, <1>6, <1>7, <1>8, BuilderMoves DEF Plans

\* A plan without one of its entries.
LEMMA PlanShrinks ==
  ASSUME NEW S, PlanSafe(S), NEW e
  PROVE  PlanSafe(S \ {e})
  BY FS_Subset DEF PlanSafe

LEMMA RechecksKeeps ==
  ASSUME CloudAssumption, Types, Retained, NEW b \in Builder, Rechecks(b), UNCHANGED file
  PROVE  ImagesGoOn /\ Types' /\ Retained'
<1>1. ImageTypes /\ UpListStays
      /\ made' \in [image : Nat, droplet : Nat, key : Nat] /\ made'.image = made.image
  BY UpStays DEF Types, ImageTypes, Rechecks
<1>2. CASE build[b].plan = {}
  <2>1. ImagesGoOn /\ build' = [build EXCEPT ![b] = Builder0]
    BY <1>1, <1>2, StillGoesOn DEF Rechecks
  <2> QED
    BY <1>1, <2>1, Builder0Stands, BuilderMoves DEF Rechecks
<1>3. CASE build[b].plan # {}
  <2> DEFINE e == First(build[b].plan)
             gone == [build[b] EXCEPT !.plan = build[b].plan \ {e}]
             delete == [build[b] EXCEPT !.pc = "delete"]
             h == CASE Recheck(e) = "gone" -> gone [] Recheck(e) = "delete" -> delete
                    [] Recheck(e) = "stop" -> Builder0
  <2>1. ImagesGoOn
    BY <1>1, <1>3, ReadGoesOn DEF Rechecks
  <2>2. build' = [build EXCEPT ![b] = h]
    BY <1>3 DEF Rechecks
  <2>3. build[b].pc = "prune"
    BY DEF Rechecks
  <2>4. gone \in BuildType /\ HolderStands(gone)
    <3>1. gone \in BuildType /\ gone.list = build[b].list /\ gone.pc = "prune"
          /\ gone.plan = build[b].plan \ {e}
      BY <2>3, BuilderParts DEF BuildType
    <3>2. PlanSafe(build[b].plan \ {e})
      BY BuilderParts, PlanShrinks
    <3> QED
      BY <3>1, <3>2, BuilderParts DEF HolderStands
  <2>5. delete \in BuildType /\ HolderStands(delete)
    <3>1. delete \in BuildType /\ delete.list = build[b].list /\ delete.plan = build[b].plan
      BY BuilderParts DEF BuildType
    <3> QED
      BY <3>1, <1>3, BuilderParts DEF HolderStands
  <2>6. h \in {gone, delete, Builder0}
    BY DEF Recheck
  <2> HIDE DEF h, gone, delete
  <2>7. h \in BuildType /\ HolderStands(h)
    BY <2>4, <2>5, <2>6, Builder0Stands
  <2> QED
    BY <1>1, <2>1, <2>2, <2>7, BuilderMoves DEF Rechecks
<1> QED
  BY <1>2, <1>3

\* The first of a plan may be deleted.
LEMMA FirstIsSafe ==
  ASSUME CloudAssumption, NEW S \in SUBSET EntryType, S # {}, PlanSafe(S)
  PROVE  Truthful(First(S)) /\ Safe(First(S))
  BY FirstIsThere DEF PlanSafe

LEMMA MissedKeepsList ==
  ASSUME Types, up' = [up EXCEPT !.list.missed = @ \/ (up.pc = "resolve" /\ up.list.page > 0)]
  PROVE  UpListStays
<1> DEFINE missed == up.list.missed \/ (up.pc = "resolve" /\ up.list.page > 0)
<1>1. up' = [up EXCEPT !.list.missed = missed]
  OBVIOUS
<1>2. up \in UpType /\ up.list \in ListType
  BY DEF Types, UpType
<1>3. missed \in BOOLEAN
  OBVIOUS
<1> HIDE DEF missed
<1> DEFINE l == [up.list EXCEPT !.missed = missed]
<1>4. l.seen = up.list.seen /\ l \in ListType
  BY <1>2, <1>3, Zenon DEF ListType
<1>5. up' = [up EXCEPT !.list = l]
  BY <1>1
<1> HIDE DEF l
<1>6. up' \in UpType /\ up'.list = l
  BY <1>2, <1>4, <1>5 DEF UpType
<1> QED
  BY <1>4, <1>6 DEF UpListStays

LEMMA RemovedKeepsList ==
  ASSUME Types, NEW i, Removed(i)
  PROVE  UpListStays
  BY MissedKeepsList DEF Removed

LEMMA BuildDeletesKeeps ==
  ASSUME CloudAssumption, Types, Retained, NEW b \in Builder, BuildDeletes(b), UNCHANGED file
  PROVE  ImagesGoOn /\ Types' /\ Retained'
<1> DEFINE S == build[b].plan
           e == First(S)
           h == [build[b] EXCEPT !.pc = "prune", !.plan = S \ {e}]
<1>1. S # {}
  BY BuilderParts DEF BuildDeletes, HolderStands
<1>2. Truthful(e) /\ Safe(e)
  BY <1>1, BuilderParts, FirstIsSafe
<1>3. ImagesGoOn
  BY <1>2, BuilderParts, DeleteGoesOn DEF BuildDeletes, Removed, ImageTypes
<1>4. UpListStays
  BY RemovedKeepsList DEF BuildDeletes
<1>5. build' = [build EXCEPT ![b] = h]
  BY DEF BuildDeletes
<1>6. h \in BuildType /\ h.list = build[b].list /\ h.pc = "prune" /\ h.plan = S \ {e}
  BY BuilderParts DEF BuildType
<1>7. PlanSafe(S \ {e})
  BY BuilderParts, PlanShrinks
<1>8. HolderStands(h)
  BY <1>6, <1>7, BuilderParts DEF HolderStands
<1> HIDE DEF h
<1> QED
  BY <1>3, <1>4, <1>5, <1>6, <1>8, BuilderMoves DEF BuildDeletes

LEMMA BuildingKeeps ==
  ASSUME CloudAssumption, Types, Retained, NEW b \in Builder, Building(b), UNCHANGED file
  PROVE  ImagesGoOn /\ Types' /\ Retained'
  BY BuildsKeeps, SnapshotsKeeps, TagsKeeps, VerifiesKeeps, WritesBackKeeps, PlansKeeps,
     RechecksKeeps, BuildDeletesKeeps DEF Building
-------------------------------------------------------------------------------
(* So do the prune, the tag, and what is done by hand *)

LEMMA PruneParts ==
  ASSUME Types, Retained
  PROVE  /\ prune \in PruneType /\ HolderStands(prune)
         /\ prune.list \in ListType /\ SeenStands(prune.list.seen)
         /\ prune.plan \subseteq EntryType /\ PlanSafe(prune.plan)
         /\ ImageTypes
  BY DEF Types, Retained, HolderStands, PruneType

LEMMA PruneBeginsKeeps ==
  ASSUME CloudAssumption, Types, Retained, PruneBegins, UNCHANGED <<made, build, keys, file, touched>>
  PROVE  ImagesGoOn /\ Types' /\ Retained'
<1>1. ImagesGoOn /\ UpListStays
  BY StillGoesOn, UpStays DEF PruneBegins, Types, ImageTypes
<1>2. prune' = [Prune0 EXCEPT !.pc = "list"]
  BY DEF PruneBegins
<1>3. prune' \in PruneType /\ prune'.list = List0 /\ prune'.plan = {} /\ prune'.pc = "list"
  BY <1>2, List0Type DEF Prune0, PruneType
<1>4. HolderStands(prune')
  BY <1>3, List0Type, EmptyStands DEF HolderStands
<1> QED
  BY <1>1, <1>3, <1>4, PruneMoves

LEMMA PrunePlansKeeps ==
  ASSUME CloudAssumption, Types, Retained, PrunePlans, UNCHANGED <<made, build, keys, file, touched>>
  PROVE  ImagesGoOn /\ Types' /\ Retained'
<1> DEFINE list == Turned(prune.list)
           plan == PlanPrune(list.seen, 0)
<1>1. ImagesGoOn /\ UpListStays
  BY PruneParts, ReadGoesOn, UpStays DEF PrunePlans, Lists
<1>2. list \in ListType /\ SeenStands(list.seen)
  BY PruneParts, TurnedType
<1>3. PlanSafe(plan) /\ plan \subseteq EntryType
  <2>1. PlanSafe(plan) /\ plan \subseteq list.seen
    BY <1>2, PruneParts, PlanIsSafe
  <2> QED
    BY <2>1, <1>2 DEF ListType
<1>4. /\ prune.pc = "list"
      /\ prune' \in {[prune EXCEPT !.list = list], Prune0, [Prune0 EXCEPT !.pc = "ask", !.plan = plan]}
  BY DEF PrunePlans
<1> HIDE DEF list, plan
<1>5. CASE prune' = [prune EXCEPT !.list = list]
  <2>1. prune' \in PruneType /\ prune'.list = list /\ prune'.plan = prune.plan /\ prune'.pc = "list"
    BY <1>2, <1>4, <1>5, PruneParts DEF PruneType
  <2>2. HolderStands(prune')
    BY <2>1, <1>2, PruneParts DEF HolderStands
  <2> QED
    BY <1>1, <2>1, <2>2, PruneMoves
<1>6. CASE prune' = Prune0
  BY <1>1, <1>6, Prune0Stands, PruneMoves
<1>7. CASE prune' = [Prune0 EXCEPT !.pc = "ask", !.plan = plan]
  <2>1. prune' \in PruneType /\ prune'.list = List0 /\ prune'.plan = plan /\ prune'.pc = "ask"
    BY <1>3, <1>7, List0Type DEF PruneType, Prune0
  <2>2. HolderStands(prune')
    BY <2>1, <1>3, List0Type DEF HolderStands
  <2> QED
    BY <1>1, <2>1, <2>2, PruneMoves
<1> QED
  BY <1>4, <1>5, <1>6, <1>7

LEMMA PruneAsksKeeps ==
  ASSUME CloudAssumption, Types, Retained, PruneAsks, UNCHANGED <<made, build, keys, file, touched>>
  PROVE  ImagesGoOn /\ Types' /\ Retained'
<1>1. ImagesGoOn /\ UpListStays
  BY StillGoesOn, UpStays DEF PruneAsks, Types, ImageTypes
<1>2. CASE prune' = Prune0
  BY <1>1, <1>2, Prune0Stands, PruneMoves
<1>3. CASE prune' = [prune EXCEPT !.pc = "prune"]
  <2>1. prune' \in PruneType /\ prune'.list = prune.list /\ prune'.plan = prune.plan
        /\ prune'.pc = "prune"
    BY <1>3, PruneParts DEF PruneType
  <2>2. HolderStands(prune')
    BY <2>1, PruneParts DEF HolderStands
  <2> QED
    BY <1>1, <2>1, <2>2, PruneMoves
<1> QED
  BY <1>2, <1>3 DEF PruneAsks

LEMMA PruneRechecksKeeps ==
  ASSUME CloudAssumption, Types, Retained, PruneRechecks,
         UNCHANGED <<made, build, keys, file, touched>>
  PROVE  ImagesGoOn /\ Types' /\ Retained'
<1>1. ImageTypes /\ UpListStays
      /\ made' \in [image : Nat, droplet : Nat, key : Nat] /\ made'.image = made.image
  BY UpStays DEF Types, ImageTypes, PruneRechecks
<1>2. CASE prune.plan = {}
  <2>1. ImagesGoOn /\ prune' = Prune0
    BY <1>1, <1>2, StillGoesOn DEF PruneRechecks
  <2> QED
    BY <1>1, <2>1, Prune0Stands, PruneMoves
<1>3. CASE prune.plan # {}
  <2> DEFINE e == First(prune.plan)
             gone == [prune EXCEPT !.plan = prune.plan \ {e}]
             delete == [prune EXCEPT !.pc = "delete"]
  <2>1. ImagesGoOn
    BY <1>1, <1>3, ReadGoesOn DEF PruneRechecks
  <2>2. prune' \in {gone, delete, Prune0}
    BY <1>3 DEF PruneRechecks, Recheck
  <2>3. prune.pc = "prune"
    BY DEF PruneRechecks
  <2>4. gone \in PruneType /\ HolderStands(gone)
    <3>1. gone \in PruneType /\ gone.list = prune.list /\ gone.pc = "prune"
          /\ gone.plan = prune.plan \ {e}
      BY <2>3, PruneParts DEF PruneType
    <3>2. PlanSafe(prune.plan \ {e})
      BY PruneParts, PlanShrinks
    <3> QED
      BY <3>1, <3>2, PruneParts DEF HolderStands
  <2>5. delete \in PruneType /\ HolderStands(delete)
    <3>1. delete \in PruneType /\ delete.list = prune.list /\ delete.plan = prune.plan
      BY PruneParts DEF PruneType
    <3> QED
      BY <3>1, <1>3, PruneParts DEF HolderStands
  <2> HIDE DEF gone, delete
  <2>6. prune' \in PruneType /\ HolderStands(prune')
    BY <2>2, <2>4, <2>5, Prune0Stands
  <2> QED
    BY <1>1, <2>1, <2>6, PruneMoves
<1> QED
  BY <1>2, <1>3

LEMMA PruneDeletesKeeps ==
  ASSUME CloudAssumption, Types, Retained, PruneDeletes,
         UNCHANGED <<made, build, keys, file, touched>>
  PROVE  ImagesGoOn /\ Types' /\ Retained'
<1> DEFINE S == prune.plan
           e == First(S)
<1>1. S # {}
  BY PruneParts DEF PruneDeletes, HolderStands
<1>2. Truthful(e) /\ Safe(e)
  BY <1>1, PruneParts, FirstIsSafe
<1>3. ImagesGoOn
  BY <1>2, PruneParts, DeleteGoesOn DEF PruneDeletes, Removed, ImageTypes
<1>4. UpListStays
  BY RemovedKeepsList DEF PruneDeletes
<1>5. prune' = [prune EXCEPT !.pc = "prune", !.plan = S \ {e}]
  BY DEF PruneDeletes
<1>6. prune' \in PruneType /\ prune'.list = prune.list /\ prune'.pc = "prune"
      /\ prune'.plan = S \ {e}
  BY <1>5, PruneParts DEF PruneType
<1>7. PlanSafe(S \ {e})
  BY PruneParts, PlanShrinks
<1>8. HolderStands(prune')
  BY <1>6, <1>7, PruneParts DEF HolderStands
<1> QED
  BY <1>3, <1>4, <1>6, <1>8, PruneMoves

LEMMA PruningKeeps ==
  ASSUME CloudAssumption, Types, Retained, Pruning, UNCHANGED file
  PROVE  ImagesGoOn /\ Types' /\ Retained'
<1>1. UNCHANGED <<made, build, keys, file, touched>>
  BY DEF Pruning
<1> QED
  BY <1>1, PruneBeginsKeeps, PrunePlansKeeps, PruneAsksKeeps, PruneRechecksKeeps,
     PruneDeletesKeeps DEF Pruning

LEMMA TaggingKeeps ==
  ASSUME CloudAssumption, Types, Retained, Tagging, UNCHANGED file
  PROVE  ImagesGoOn /\ Types' /\ Retained'
<1>1. UNCHANGED <<droplets, keys, made, build, prune, up, touched>>
  BY DEF Tagging
<1>2. /\ UpListStays /\ prune' \in PruneType /\ HolderStands(prune')
      /\ ImageTypes
  BY <1>1, UpStays, PruneParts
<1>3. ImagesGoOn
  <2>1. CASE images' = images
    BY <2>1, <1>1, <1>2, StillGoesOn DEF ImageTypes
  <2>2. CASE tagger \in DOMAIN images /\ images' = TagImage(tagger, {"user"})
    BY <2>2, <1>1, <1>2, TagGoesOn DEF Tags
  <2> QED
    BY <2>1, <2>2 DEF Tagging, TagChecks, TagAttaches
<1> QED
  BY <1>1, <1>2, <1>3, PruneMoves

LEMMA HandEditsImageKeeps ==
  ASSUME CloudAssumption, Types, Retained, HandEditsImage
  PROVE  ImagesGoOn /\ Types' /\ Retained'
<1>1. UNCHANGED <<droplets, keys, made, build, prune, file>>
  BY DEF HandEditsImage
<1>2. PICK i \in DOMAIN images :
        /\ touched' = touched \cup {i}
        /\ \/ Removed(i)
           \/ \E t \in images[i].tags :
                /\ images' = [images EXCEPT ![i].tags = @ \ {t}]
                /\ up' = [up EXCEPT !.list.missed = @ \/ (up.pc = "resolve" /\ up.list.page > 0)]
  BY DEF HandEditsImage
<1>3. ImagesGoOn
  BY <1>1, <1>2, HandGoesOn, PruneParts DEF Removed
<1>4. UpListStays
  <2>1. CASE Removed(i)
    BY <2>1, RemovedKeepsList
  <2>2. CASE up' = [up EXCEPT !.list.missed = @ \/ (up.pc = "resolve" /\ up.list.page > 0)]
    BY <2>2, MissedKeepsList
  <2> QED
    BY <1>2, <2>1, <2>2
<1>5. prune' \in PruneType /\ HolderStands(prune')
  BY <1>1, PruneParts
<1> QED
  BY <1>1, <1>3, <1>4, <1>5, PruneMoves

LEMMA DiesKeeps ==
  ASSUME CloudAssumption, Types, Retained, Dies
  PROVE  ImagesGoOn /\ Types' /\ Retained'
<1>1. UNCHANGED <<images, droplets, keys, made, file, touched>>
  BY DEF Dies
<1>2. ImagesGoOn
  BY <1>1, StillGoesOn DEF Types, ImageTypes
<1>3. ASSUME NEW b \in Builder, build' = [build EXCEPT ![b] = Builder0], UNCHANGED <<prune, up>>
      PROVE  Types' /\ Retained'
  BY <1>1, <1>2, <1>3, Builder0Stands, UpStays, BuilderMoves
<1>4. ASSUME prune' = Prune0, UNCHANGED <<build, up>>
      PROVE  Types' /\ Retained'
  BY <1>1, <1>2, <1>4, Prune0Stands, UpStays, PruneMoves
<1>5. ASSUME up' = Up0, UNCHANGED <<build, prune>>
      PROVE  Types' /\ Retained'
  BY <1>1, <1>2, <1>5, Up0Stands, UpMoves DEF Types
<1> QED
  BY <1>2, <1>3, <1>4, <1>5 DEF Dies
-------------------------------------------------------------------------------
(* The turns of the entries *)

LEMMA UpParts ==
  ASSUME CloudAssumption, Types, Approved
  PROVE  /\ up \in UpType /\ up.list \in ListType
         /\ up.entries \subseteq KeyEntry /\ up.account \subseteq KeyType /\ up.ids \subseteq Nat
         /\ \A e \in up.entries : e.path \in Nat /\ e.path \in Path /\ e.fp \in Fp
         /\ up.image \in Nat /\ made.key \in Nat /\ keys \subseteq KeyType
         /\ IsFiniteSet(up.entries)
         /\ ImageTypes
<1>1. /\ up \in UpType /\ up.list \in ListType
      /\ up.entries \subseteq KeyEntry /\ up.account \subseteq KeyType /\ up.ids \subseteq Nat
      /\ up.image \in Nat /\ keys \subseteq KeyType /\ ImageTypes
  BY DEF Types, UpType
<1>2. \A e \in up.entries : e.path \in Nat /\ e.path \in Path /\ e.fp \in Fp
  BY <1>1 DEF KeyEntry, CloudAssumption
<1>3. made.key \in Nat
  BY <1>1 DEF ImageTypes
<1> QED
  BY <1>1, <1>2, <1>3 DEF Approved, EntriesDiffer

LEMMA EarlierFinite ==
  ASSUME CloudAssumption, Types, Approved, NEW e \in up.entries
  PROVE  /\ IsFiniteSet(Earlier(e)) /\ Cardinality(Earlier(e)) \in Nat
         /\ Cardinality(Earlier(e)) < Cardinality(up.entries) /\ Cardinality(up.entries) \in Nat
<1>1. IsFiniteSet(up.entries) /\ Cardinality(up.entries) \in Nat
  BY UpParts, FS_CardinalityType
<1>2. Earlier(e) \subseteq up.entries /\ e \notin Earlier(e)
  BY UpParts DEF Earlier
<1>3. IsFiniteSet(Earlier(e)) /\ Cardinality(Earlier(e)) \in Nat
      /\ Cardinality(Earlier(e)) <= Cardinality(up.entries)
      /\ (Cardinality(up.entries) = Cardinality(Earlier(e)) => up.entries = Earlier(e))
  BY <1>1, <1>2, FS_Subset, FS_CardinalityType
<1> QED
  BY <1>1, <1>2, <1>3

\* No two entries have their turn at once.
LEMMA TurnsDiffer ==
  ASSUME CloudAssumption, Types, Approved, NEW e \in up.entries, NEW f \in up.entries,
         Cardinality(Earlier(e)) = Cardinality(Earlier(f))
  PROVE  e = f
<1>1. ASSUME NEW a \in up.entries, NEW b \in up.entries, a.path < b.path,
             Cardinality(Earlier(a)) = Cardinality(Earlier(b))
      PROVE  FALSE
  <2>1. Earlier(a) \subseteq Earlier(b) /\ a \in Earlier(b) /\ a \notin Earlier(a)
    BY <1>1, UpParts DEF Earlier
  <2>2. IsFiniteSet(Earlier(b))
    BY EarlierFinite
  <2>3. Cardinality(Earlier(b)) = Cardinality(Earlier(a)) => Earlier(b) = Earlier(a)
    BY <2>1, <2>2, FS_Subset
  <2> QED
    BY <2>1, <2>3, <1>1
<1>2. e.path = f.path
  <2>1. e.path \in Nat /\ f.path \in Nat
    BY UpParts
  <2>2. ~(e.path < f.path) /\ ~(f.path < e.path)
    BY <1>1
  <2> QED
    BY <2>1, <2>2
<1> QED
  BY <1>2 DEF Approved, EntriesDiffer

\* While not all have had their turn, it is an entry's turn.
LEMMA SomeonesTurn ==
  ASSUME CloudAssumption, Types, Approved, NEW n \in Nat, n < Cardinality(up.entries)
  PROVE  \E e \in up.entries : Cardinality(Earlier(e)) = n
<1> DEFINE c == Cardinality(up.entries)
           T == 0..(c - 1)
           rank == [e \in up.entries |-> Cardinality(Earlier(e))]
<1>1. IsFiniteSet(up.entries) /\ c \in Nat
  BY UpParts, FS_CardinalityType
<1>2. IsFiniteSet(T) /\ Cardinality(T) = c
  <2>1. Cardinality(T) = IF 0 > c - 1 THEN 0 ELSE c - 1 - 0 + 1
    BY <1>1, FS_Interval
  <2>2. IsFiniteSet(T)
    BY <1>1, FS_Interval
  <2> QED
    BY <1>1, <2>1, <2>2
<1>3. rank \in [up.entries -> T]
  <2>1. \A e \in up.entries : Cardinality(Earlier(e)) \in T
    BY <1>1, EarlierFinite
  <2> QED
    BY <2>1
<1>4. rank \in Injection(up.entries, T)
  BY <1>3, TurnsDiffer DEF Injection, IsInjective
<1>5. rank \in Surjection(up.entries, T)
  BY <1>2, <1>4, FS_Injection
<1>6. n \in T
  BY <1>1
<1> QED
  BY <1>5, <1>6 DEF Surjection

LEMMA CurrentIsThere ==
  ASSUME CloudAssumption, Types, Approved, IsFiniteSet(up.ids),
         Cardinality(up.ids) < Cardinality(up.entries)
  PROVE  Current \in up.entries /\ Cardinality(Earlier(Current)) = Cardinality(up.ids)
<1>1. Cardinality(up.ids) \in Nat
  BY FS_CardinalityType
<1>2. PICK e \in up.entries : Cardinality(Earlier(e)) = Cardinality(up.ids)
  BY <1>1, SomeonesTurn
<1> QED
  BY <1>2 DEF Current, Earlier

-------------------------------------------------------------------------------
(* What up has planned and taken goes on being right *)

LEMMA KeysGoOnAgree ==
  ASSUME KeysAgree, KeysGoOn, up'.account \subseteq keys \cup up.account,
         \A k \in keys \cup keys' \cup up.account : k.id \in Nat,
         setup'.pc = "register" => setup'.path \in Path
  PROVE  KeysAgree'
<1>1. \A k \in keys' \cup up'.account : k \in keys' \ keys \/ k \in keys \cup up.account
  OBVIOUS
<1>2. \A k \in keys \cup up.account : k.id <= made.key /\ k.id <= made'.key
  BY DEF KeysAgree, KeysGoOn
<1>3. \A k \in keys' \cup up'.account : k.id <= made'.key
  BY <1>1, <1>2 DEF KeysGoOn
<1>4. \A k \in keys' \ keys, l \in keys \cup up.account : k.id # l.id
  BY <1>2 DEF KeysGoOn
<1>5. \A k, l \in keys' \cup up'.account : k.id = l.id => k.fp = l.fp
  BY <1>1, <1>4 DEF KeysAgree, KeysGoOn
<1> QED
  BY <1>3, <1>5 DEF KeysAgree

LEMMA MeansStays ==
  ASSUME KeysGoOn, up'.account \subseteq keys \cup up.account, NEW e, NEW i \in Nat, Means(e, i),
         \A k \in keys' : k.id \in Nat
  PROVE  Means(e, i)'
<1>1. i <= made'.key
  BY DEF KeysGoOn, Means
<1>2. ASSUME NEW k \in keys' \cup up'.account, k.id = i PROVE k.fp = e.fp
  <2>1. k \in keys \cup up.account
    BY <1>2 DEF KeysGoOn, Means
  <2> QED
    BY <1>2, <2>1 DEF Means
<1> QED
  BY <1>1, <1>2 DEF Means

LEMMA TakesStays ==
  ASSUME KeysGoOn, up'.account \subseteq keys \cup up.account, TakesInTurn, up.ids \subseteq Nat,
         up'.entries = up.entries, up'.ids = up.ids, \A k \in keys' : k.id \in Nat
  PROVE  TakesInTurn'
<1>1. PICK g \in [up.ids -> up.entries] :
        /\ \A i, j \in up.ids : g[i] = g[j] => i = j
        /\ \A i \in up.ids : Means(g[i], i)
        /\ \A e \in up.entries :
             (\E i \in up.ids : g[i] = e) <=> Cardinality(Earlier(e)) < Cardinality(up.ids)
  BY DEF TakesInTurn
<1>2. \A i \in up.ids : Means(g[i], i)'
  BY <1>1, MeansStays
<1>3. \A e : Earlier(e)' = Earlier(e)
  BY DEF Earlier
<1>4. \A e \in up.entries :
        (\E i \in up.ids : g[i] = e) <=> Cardinality(Earlier(e)') < Cardinality(up.ids)
  BY <1>1, <1>3
<1> QED
  BY <1>1, <1>2, <1>4 DEF TakesInTurn, Means

LEMMA ImageFitsStays ==
  ASSUME ImagesGoOn, ImageFits, up.image \in Nat, up'.image = up.image \/ up'.image = Stock
  PROVE  ImageFits'
<1>1. made.image \in Nat /\ made'.image \in Nat /\ made.image <= made'.image
  BY DEF ImagesGoOn, ImageTypes
<1>2. CASE up'.image = Stock
  BY <1>2 DEF ImageFits, Stock
<1>3. CASE up'.image = up.image /\ up.image # Stock
  <2>1. up.image <= made.image
    BY <1>3 DEF ImageFits
  <2>2. up.image \in DOMAIN images' => up.image \in DOMAIN images
    BY <1>1, <2>1 DEF ImagesGoOn
  <2>3. up.image \in DOMAIN images' => images'[up.image].kind.shell = Wanted.shell
    BY <2>2, <1>3 DEF ImagesGoOn, ImageFits
  <2> QED
    BY <1>1, <1>3, <2>1, <2>3 DEF ImageFits, Stock
<1> QED
  BY <1>2, <1>3

\* What others do to the account leaves up's plan as right as it was.
LEMMA ApprovedStays ==
  ASSUME CloudAssumption, Types, Approved, ImagesGoOn, KeysGoOn, keys' \subseteq KeyType,
         UpSame \/ up' = Up0, setup'.pc = "register" => setup'.path \in Path, MachineIsApproved'
  PROVE  Approved'
<1>1. /\ up.image \in Nat /\ up.ids \subseteq Nat
      /\ \A k \in keys \cup keys' \cup up.account : k.id \in Nat
  BY UpParts DEF KeyType
<1>2. up'.account \subseteq keys \cup up.account
  BY DEF UpSame, Up0
<1>3. KeysAgree'
  BY <1>1, <1>2, KeysGoOnAgree DEF Approved
<1>4. ImageFits'
  BY <1>1, ImageFitsStays DEF Approved, UpSame, Up0
<1>5. CASE UpSame
  <2>1. EntriesDiffer'
    BY <1>5 DEF Approved, EntriesDiffer, UpSame
  <2>2. up'.pc \in {"key", "relist"} => TakesInTurn'
    BY <1>1, <1>2, <1>5, TakesStays DEF Approved, UpSame
  <2> QED
    BY <1>3, <1>4, <1>5, <2>1, <2>2 DEF Approved, UpSame
<1>6. CASE up' = Up0
  <2>1. EntriesDiffer'
    BY <1>6, FS_EmptySet DEF EntriesDiffer, Up0
  <2> QED
    BY <1>3, <1>4, <1>6, <2>1 DEF Approved, Up0
<1> QED
  BY <1>5, <1>6
-------------------------------------------------------------------------------
(* The builds, the prune, the tag, init and the people leave up's plan alone *)

LEMMA KeysStill ==
  ASSUME ImageTypes, UNCHANGED keys, made'.key = made.key
  PROVE  KeysGoOn
  BY DEF ImageTypes, KeysGoOn

LEMMA UpStill == ASSUME UNCHANGED up PROVE UpSame
  BY DEF UpSame

LEMMA MissedIsSame ==
  ASSUME Types, up' = [up EXCEPT !.list.missed = @ \/ (up.pc = "resolve" /\ up.list.page > 0)]
  PROVE  UpSame
<1> DEFINE l == [up.list EXCEPT !.missed = @ \/ (up.pc = "resolve" /\ up.list.page > 0)]
<1>1. up' = [up EXCEPT !.list = l]
  OBVIOUS
<1> HIDE DEF l
<1> QED
  BY <1>1 DEF Types, UpType, UpSame

\* A machine that Packer makes boots the stock image; it is deleted in the end.
LEMMA PackerIsApproved ==
  ASSUME CloudAssumption, Types, Approved, NEW b \in Builder, Building(b)
  PROVE  MachineIsApproved'
<1>1. MachineIsApproved
  BY DEF Approved
<1>2. CASE droplets' = droplets
  BY <1>1, <1>2 DEF MachineIsApproved
<1>3. CASE \E d : droplets' = DeleteDroplet(d)
  <2>1. \A c \in DOMAIN droplets' : c \in DOMAIN droplets /\ droplets'[c] = droplets[c]
    BY <1>3 DEF DeleteDroplet, Without
  <2> QED
    BY <1>1, <2>1 DEF MachineIsApproved
<1>4. CASE Builds(b)
  <2>1. PICK k \in Kind :
          droplets' = CreateDroplet(Machine(Stock, k, {}, [image |-> Stock, fps |-> {}]))
    BY <1>4 DEF Builds
  <2> DEFINE m == Machine(Stock, k, {}, [image |-> Stock, fps |-> {}])
  <2>2. m.boots = Stock /\ m.asked.image = Stock /\ m.admits = {} /\ m.asked.fps = {}
    BY DEF Machine
  <2> HIDE DEF m
  <2>3. \A d \in DOMAIN droplets' :
          (d \in DOMAIN droplets /\ droplets'[d] = droplets[d]) \/ droplets'[d] = m
    BY <2>1 DEF CreateDroplet, With, m
  <2> QED
    BY <1>1, <2>2, <2>3 DEF MachineIsApproved
<1> QED
  BY <1>2, <1>3, <1>4 DEF Building, Snapshots, Tags1, Verifies, WritesBack, Plans, Rechecks,
     BuildDeletes

LEMMA BuildingApproves ==
  ASSUME CloudAssumption, Types, Retained, Approved, NEW b \in Builder, Building(b),
         UNCHANGED <<setup, file>>
  PROVE  Approved'
<1>1. ImagesGoOn /\ keys' \subseteq KeyType
  BY BuildingKeeps DEF Types
<1>2. UNCHANGED keys /\ made'.key = made.key
  BY DEF Building, Builds, Snapshots, Tags1, Verifies, WritesBack, Plans, Rechecks, BuildDeletes,
     Types, ImageTypes
<1>3. UpSame
  BY UpStill, MissedIsSame DEF Building, Builds, Snapshots, Tags1, Verifies, WritesBack, Plans,
     Rechecks, BuildDeletes, Removed
<1>4. MachineIsApproved'
  BY PackerIsApproved
<1>5. KeysGoOn
  BY <1>2, KeysStill DEF Types
<1> QED
  BY <1>1, <1>3, <1>4, <1>5, ApprovedStays DEF Approved, KeysAgree

\* The machines stay as they are.
LEMMA SameMachines ==
  ASSUME Approved, UNCHANGED droplets
  PROVE  MachineIsApproved'
  BY DEF Approved, MachineIsApproved

LEMMA ImagesApprove ==
  ASSUME CloudAssumption, Types, Retained, Approved,
         \/ (Pruning \/ Tagging) /\ UNCHANGED <<setup, file>>
         \/ HandEditsImage
         \/ Dies
  PROVE  Approved'
<1>1. ImagesGoOn /\ Types'
  BY PruningKeeps, TaggingKeeps, HandEditsImageKeeps, DiesKeeps
<1>2. UNCHANGED <<droplets, keys, made, setup>>
  BY DEF Pruning, Tagging, HandEditsImage, Dies
<1>3. UpSame \/ up' = Up0
  <2>1. \A i : Removed(i) => UpSame
    BY MissedIsSame DEF Removed
  <2>2. Pruning => UpSame
    BY <2>1, UpStill DEF Pruning, PruneBegins, PrunePlans, PruneAsks, PruneRechecks, PruneDeletes
  <2>3. HandEditsImage => UpSame
    BY <2>1, MissedIsSame DEF HandEditsImage
  <2>4. Tagging => UpSame
    BY UpStill DEF Tagging
  <2>5. Dies => UpSame \/ up' = Up0
    BY UpStill DEF Dies
  <2> QED
    BY <2>2, <2>3, <2>4, <2>5
<1>4. KeysGoOn
  BY <1>2, KeysStill DEF Types
<1> QED
  BY <1>1, <1>2, <1>3, <1>4, SameMachines, ApprovedStays DEF Approved, KeysAgree, Types

\* A new key has a number of its own.
LEMMA KeyGoesOn ==
  ASSUME ImageTypes, keys \subseteq KeyType, NEW fp \in Fp, keys' = CreateKey(fp),
         made' = [made EXCEPT !.key = @ + 1]
  PROVE  /\ KeysGoOn /\ keys' \subseteq KeyType /\ made'.image = made.image
         /\ made' \in [image : Nat, droplet : Nat, key : Nat]
         /\ made'.key = made.key + 1
<1>1. made'.key = made.key + 1 /\ made.key \in Nat /\ made'.image = made.image
      /\ made' \in [image : Nat, droplet : Nat, key : Nat]
  BY DEF ImageTypes
<1> DEFINE k == [id |-> made.key + 1, fp |-> fp]
<1>2. keys' = keys \cup {k} /\ k \in KeyType /\ k.id = made.key + 1
  BY <1>1 DEF CreateKey, KeyType
<1> HIDE DEF k
<1>3. \A l \in keys' \ keys : l = k
  BY <1>2
<1>4. made.key <= made'.key /\ made.key < k.id /\ k.id <= made'.key
  BY <1>1, <1>2
<1> QED
  BY <1>1, <1>2, <1>3, <1>4 DEF KeysGoOn

LEMMA KeysMove ==
  ASSUME CloudAssumption, Types, Retained, Approved, UNCHANGED <<images, droplets, build, prune, up, touched>>,
         made'.image = made.image, made' \in [image : Nat, droplet : Nat, key : Nat],
         KeysGoOn, keys' \subseteq KeyType, file' \in [Path -> Fp],
         setup'.pc = "register" => setup'.path \in Path
  PROVE  ImagesGoOn /\ Types' /\ Retained' /\ Approved'
<1>1. ImagesGoOn
  BY StillGoesOn DEF Types
<1>2. Types'
  BY <1>1 DEF Types, ImagesGoOn
<1>3. Retained'
  BY <1>1, RetainedGoesOn DEF Retained
<1>4. UpSame
  BY UpStill
<1>5. Approved'
  BY <1>1, <1>4, SameMachines, ApprovedStays
<1> QED
  BY <1>1, <1>2, <1>3, <1>5

LEMMA SettingKeeps ==
  ASSUME CloudAssumption, Types, Retained, Approved, Setting, UNCHANGED file
  PROVE  ImagesGoOn /\ Types' /\ Retained' /\ Approved'
<1>1. UNCHANGED <<images, droplets, build, prune, up, touched>>
  BY DEF Setting
<1>2. ImageTypes /\ keys \subseteq KeyType /\ file' \in [Path -> Fp]
      /\ made \in [image : Nat, droplet : Nat, key : Nat]
  BY DEF Types, ImageTypes
<1>3. CASE SetupReads
  <2>1. setup'.path \in Path /\ made' = made /\ keys' = keys
    BY <1>3 DEF SetupReads, Setup0
  <2>2. KeysGoOn
    BY <1>2, <2>1, KeysStill
  <2> QED
    BY <1>1, <1>2, <2>1, <2>2, KeysMove
<1>4. CASE SetupRegisters
  <2>1. setup'.pc # "register"
    BY <1>4 DEF SetupRegisters, Setup0
  <2>2. CASE UNCHANGED <<keys, made>>
    <3>1. KeysGoOn
      BY <1>2, <2>2, KeysStill
    <3> QED
      BY <1>1, <1>2, <2>1, <2>2, <3>1, KeysMove
  <2>3. CASE /\ file[setup.path] = setup.fp /\ keys' = CreateKey(setup.fp)
             /\ made' = [made EXCEPT !.key = @ + 1]
    <3>1. setup.path \in Path
      BY <1>4 DEF SetupRegisters, Approved, KeysAgree
    <3>2. setup.fp \in Fp
      BY <2>3, <3>1 DEF Types
    <3>3. /\ KeysGoOn /\ keys' \subseteq KeyType /\ made'.image = made.image
          /\ made' \in [image : Nat, droplet : Nat, key : Nat]
      BY <1>2, <2>3, <3>2, KeyGoesOn
    <3> QED
      BY <1>1, <1>2, <2>1, <3>3, KeysMove
  <2> QED
    BY <1>4, <2>2, <2>3 DEF SetupRegisters
<1> QED
  BY <1>3, <1>4 DEF Setting

LEMMA HandEditsKeysKeeps ==
  ASSUME CloudAssumption, Types, Retained, Approved, HandEditsKeys
  PROVE  ImagesGoOn /\ Types' /\ Retained' /\ Approved'
<1>1. /\ UNCHANGED <<images, droplets, build, prune, up, touched, setup>>
      /\ setup'.pc = "register" => setup'.path \in Path
  BY DEF HandEditsKeys, Approved, KeysAgree
<1>2. ImageTypes /\ keys \subseteq KeyType /\ file \in [Path -> Fp]
      /\ made \in [image : Nat, droplet : Nat, key : Nat]
  BY DEF Types, ImageTypes
<1>3. ASSUME NEW k \in keys, keys' = keys \ {k}, UNCHANGED <<made, file>>
      PROVE  ImagesGoOn /\ Types' /\ Retained' /\ Approved'
  <2>1. KeysGoOn
    BY <1>2, <1>3 DEF KeysGoOn
  <2> QED
    BY <1>1, <1>2, <1>3, <2>1, KeysMove
<1>4. ASSUME NEW fp \in Fp, keys' = CreateKey(fp), made' = [made EXCEPT !.key = @ + 1],
             UNCHANGED file
      PROVE  ImagesGoOn /\ Types' /\ Retained' /\ Approved'
  <2>1. /\ KeysGoOn /\ keys' \subseteq KeyType /\ made'.image = made.image
        /\ made' \in [image : Nat, droplet : Nat, key : Nat]
    BY <1>2, <1>4, KeyGoesOn
  <2> QED
    BY <1>1, <1>2, <1>4, <2>1, KeysMove
<1>5. ASSUME NEW p \in Path, NEW fp \in Fp, file' = [file EXCEPT ![p] = fp], UNCHANGED <<keys, made>>
      PROVE  ImagesGoOn /\ Types' /\ Retained' /\ Approved'
  <2>1. KeysGoOn /\ file' \in [Path -> Fp]
    BY <1>2, <1>5, KeysStill
  <2> QED
    BY <1>1, <1>2, <1>5, <2>1, KeysMove
<1> QED
  BY <1>3, <1>4, <1>5 DEF HandEditsKeys
-------------------------------------------------------------------------------
(* up itself *)

\* What a step of up has to keep, and what it may leave to the lemmas.
LEMMA UpGoesOn ==
  ASSUME CloudAssumption, Types, Retained, Approved, ImagesGoOn, KeysGoOn, keys' \subseteq KeyType,
         UNCHANGED <<build, prune, setup, file>>, up' \in UpType, SeenStands(up'.list.seen),
         up'.account \subseteq keys \cup up.account, EntriesDiffer', ImageFits',
         MachineIsApproved',
         up'.pc \in {"key", "relist"} => TakesInTurn',
         up'.pc = "relist" => Cardinality(up'.ids) < Cardinality(up'.entries),
         up'.pc \notin {"key", "relist"} => up'.ids = {}
  PROVE  Types' /\ Retained' /\ Approved'
<1>1. Types' /\ Retained'
  BY UpMoves
<1>2. \A k \in keys \cup keys' \cup up.account : k.id \in Nat
  BY UpParts DEF KeyType
<1>3. KeysAgree'
  BY <1>2, KeysGoOnAgree DEF Approved, KeysAgree
<1> QED
  BY <1>1, <1>3 DEF Approved

LEMMA UpEnds ==
  ASSUME CloudAssumption, Types, Retained, Approved, ImagesGoOn, KeysGoOn, keys' \subseteq KeyType,
         UNCHANGED <<build, prune, setup, file>>, up' = Up0, MachineIsApproved'
  PROVE  Types' /\ Retained' /\ Approved'
<1>1. Types' /\ Retained'
  BY Up0Stands, UpMoves
<1>2. Approved'
  BY ApprovedStays DEF Approved, KeysAgree
<1> QED
  BY <1>1, <1>2

\* A step that plans nothing new.
LEMMA UpKeepsPlan ==
  ASSUME CloudAssumption, Types, Approved, ImagesGoOn, UNCHANGED droplets,
         up'.files \subseteq up.files, up'.entries = up.entries, up'.image = up.image
  PROVE  EntriesDiffer' /\ ImageFits' /\ MachineIsApproved'
<1>1. EntriesDiffer'
  BY DEF Approved, EntriesDiffer
<1>2. ImageFits'
  BY UpParts, ImageFitsStays DEF Approved
<1>3. MachineIsApproved'
  BY SameMachines
<1> QED
  BY <1>1, <1>2, <1>3

LEMMA UpStillGoes ==
  ASSUME Types, UNCHANGED <<images, touched, keys, made>>
  PROVE  ImagesGoOn /\ KeysGoOn /\ keys' \subseteq KeyType
  BY StillGoesOn, KeysStill DEF Types, ImageTypes

LEMMA UpBeginsKeeps ==
  ASSUME CloudAssumption, Types, Retained, Approved, UpBegins,
         UNCHANGED <<build, prune, setup, file, touched>>
  PROVE  ImagesGoOn /\ Types' /\ Retained' /\ Approved'
<1> DEFINE files == {[path |-> p, fp |-> file[p]] : p \in Path}
<1>1. ImagesGoOn /\ KeysGoOn /\ keys' \subseteq KeyType
  BY UpStillGoes DEF UpBegins
<1>2. up' = [Up0 EXCEPT !.pc = "keys", !.files = files]
  BY DEF UpBegins
<1>3. /\ files \subseteq [path : Path, fp : Fp]
      /\ \A e, f \in files : e.path = f.path => e = f
  BY DEF Types
<1> HIDE DEF files
<1>4. /\ up' \in UpType /\ up'.list = List0 /\ up'.files = files /\ up'.entries = {}
      /\ up'.image = Stock /\ up'.account = {} /\ up'.ids = {} /\ up'.pc = "keys"
  BY <1>2, <1>3, List0Type DEF Up0, UpType, Stock
<1>5. EntriesDiffer'
  BY <1>3, <1>4, FS_EmptySet DEF EntriesDiffer
<1>6. ImageFits' /\ MachineIsApproved'
  BY <1>4, SameMachines DEF ImageFits, UpBegins, Stock
<1> QED
  BY <1>1, <1>4, <1>5, <1>6, List0Type, UpGoesOn

LEMMA UpPlansKeysKeeps ==
  ASSUME CloudAssumption, Types, Retained, Approved, UpPlansKeys,
         UNCHANGED <<build, prune, setup, file, touched>>
  PROVE  ImagesGoOn /\ Types' /\ Retained' /\ Approved'
<1>1. ImagesGoOn /\ KeysGoOn /\ keys' \subseteq KeyType /\ MachineIsApproved'
  BY UpStillGoes, SameMachines DEF UpPlansKeys
<1>2. CASE up' = Up0
  BY <1>1, <1>2, UpEnds
<1>3. CASE up' # Up0
  <2> DEFINE first == {e \in up.files : \A f \in up.files : f.fp = e.fp => e.path <= f.path}
             entries == {[path |-> e.path, fp |-> e.fp, registered |-> Registered(e.fp)] : e \in first}
             pc == IF ref = "tag" THEN "resolve" ELSE "ask"
  <2>1. up' = [up EXCEPT !.pc = pc, !.files = {}, !.entries = entries] /\ up.pc = "keys"
    BY <1>3 DEF UpPlansKeys
  <2>2. ASSUME NEW e \in first
        PROVE  /\ e.path \in Path /\ e.path \in Nat /\ e.fp \in Fp
               /\ [path |-> e.path, fp |-> e.fp, registered |-> Registered(e.fp)] \in KeyEntry
    <3>1. e.path \in Path /\ e.path \in Nat /\ e.fp \in Fp
      BY UpParts DEF UpType, CloudAssumption
    <3>2. Registered(e.fp) \in BOOLEAN
      BY Zenon DEF Registered
    <3> QED
      BY <3>1, <3>2, Zenon DEF KeyEntry
  <2>3. entries \subseteq KeyEntry
    BY <2>2
  <2>4. ASSUME NEW e \in first, NEW f \in first, e.path = f.path \/ e.fp = f.fp PROVE e = f
    <3>1. (e.path <= f.path /\ f.path <= e.path) \/ e.path = f.path
      BY <2>4
    <3>2. e.path \in Nat /\ f.path \in Nat
      BY <2>2
    <3>3. e.path = f.path
      BY <3>1, <3>2
    <3> QED
      BY <3>3 DEF Approved, EntriesDiffer
  <2> DEFINE entry(e) == [path |-> e.path, fp |-> e.fp, registered |-> Registered(e.fp)]
  <2>5. ASSUME NEW d \in entries, NEW c \in entries, d.path = c.path \/ d.fp = c.fp PROVE d = c
    <3>1. PICK e \in first : d = entry(e)
      OBVIOUS
    <3>2. PICK f \in first : c = entry(f)
      OBVIOUS
    <3>3. d.path = e.path /\ d.fp = e.fp /\ c.path = f.path /\ c.fp = f.fp
      BY <3>1, <3>2
    <3>4. e = f
      BY <2>4, <2>5, <3>3
    <3> QED
      BY <3>1, <3>2, <3>4
  <2>6. IsFiniteSet(entries)
    <3> DEFINE m == [d \in entries |-> d.path]
    <3>1. m \in [entries -> Path]
      BY <2>2
    <3>2. \A d, c \in entries : m[d] = m[c] => d = c
      BY <2>5
    <3>3. IsFiniteSet(Path)
      BY DEF CloudAssumption
    <3> HIDE DEF m
    <3> QED
      BY <3>1, <3>2, <3>3, OneForOne
  <2>7. pc \in {"resolve", "ask"}
    OBVIOUS
  <2> HIDE DEF entries, pc
  <2>8. /\ up' \in UpType /\ up'.list = up.list /\ up'.files = {} /\ up'.entries = entries
        /\ up'.image = up.image /\ up'.account = up.account /\ up'.ids = up.ids /\ up'.pc = pc
    BY <2>1, <2>3, <2>7, UpParts DEF UpType
  <2>9. EntriesDiffer'
    BY <2>5, <2>6, <2>8 DEF EntriesDiffer
  <2>10. ImageFits'
    BY <1>1, <2>8, UpParts, ImageFitsStays DEF Approved
  <2>11. up'.ids = {}
    BY <2>1, <2>8 DEF Approved
  <2> QED
    BY <1>1, <2>7, <2>8, <2>9, <2>10, <2>11, UpGoesOn DEF Retained
<1> QED
  BY <1>2, <1>3

LEMMA UpResolvesKeeps ==
  ASSUME CloudAssumption, Types, Retained, Approved, UpResolves,
         UNCHANGED <<build, prune, setup, file, touched>>
  PROVE  ImagesGoOn /\ Types' /\ Retained' /\ Approved'
<1> DEFINE list == Turned(up.list)
           scope == InRegion(Wanted.region, list.seen)
           newest == Newest(scope)
<1>1. ImagesGoOn /\ KeysGoOn /\ keys' \subseteq KeyType /\ MachineIsApproved'
  BY ReadGoesOn, SameMachines, KeysStill DEF UpResolves, Lists, Types
<1>2. list \in ListType /\ SeenStands(list.seen)
  BY UpParts, TurnedType DEF Retained
<1>3. up.pc = "resolve" /\ up.ids = {}
  BY DEF UpResolves, Approved
<1>4. CASE up' = Up0
  BY <1>1, <1>4, UpEnds
<1>5. CASE up' = [up EXCEPT !.list = list]
  <2> HIDE DEF list
  <2>1. /\ up' \in UpType /\ up'.list = list /\ up'.files = up.files /\ up'.entries = up.entries
        /\ up'.image = up.image /\ up'.account = up.account /\ up'.ids = {} /\ up'.pc = "resolve"
    BY <1>2, <1>3, <1>5, UpParts DEF UpType
  <2>2. EntriesDiffer' /\ ImageFits'
    BY <1>1, <2>1, UpKeepsPlan DEF UpResolves
  <2> QED
    BY <1>1, <1>2, <2>1, <2>2, UpGoesOn
<1>6. CASE /\ scope # {} /\ newest.kind.shell = Wanted.shell
           /\ up' = [up EXCEPT !.pc = "ask", !.image = newest.id, !.list = List0]
  <2>1. scope \subseteq EntryType /\ made.image \in Nat
        /\ \A e \in scope : Truthful(e) /\ e.id <= made.image
    BY <1>2 DEF InRegion, ListType, SeenStands, Truthful, Types, ImageTypes
  <2> HIDE DEF scope
  <2>2. newest \in scope
    BY <1>6, <2>1, NewestIsThere
  <2>3. Truthful(newest) /\ newest \in EntryType
    BY <2>1, <2>2
  <2>n. PICK n : n = newest
    OBVIOUS
  <2>4. Truthful(n)' /\ n.id \in Nat /\ n.kind.shell = Wanted.shell
    BY <1>1, <1>6, <2>3, <2>n, TruthfulStays DEF EntryType
  <2>5. /\ up' \in UpType /\ up'.list = List0 /\ up'.files = up.files /\ up'.entries = up.entries
        /\ up'.image = n.id /\ up'.account = up.account /\ up'.ids = {} /\ up'.pc = "ask"
    BY <1>3, <1>6, <2>4, <2>n, UpParts, List0Type DEF UpType
  <2>6. EntriesDiffer'
    BY <2>5 DEF Approved, EntriesDiffer
  <2>7. ImageFits'
    BY <2>4, <2>5 DEF ImageFits, Truthful
  <2> QED
    BY <1>1, <2>5, <2>6, <2>7, List0Type, UpGoesOn
<1> QED
  BY <1>4, <1>5, <1>6 DEF UpResolves, Resolve

LEMMA UpAsksKeeps ==
  ASSUME CloudAssumption, Types, Retained, Approved, UpAsks,
         UNCHANGED <<build, prune, setup, file, touched>>
  PROVE  ImagesGoOn /\ Types' /\ Retained' /\ Approved'
<1>1. ImagesGoOn /\ KeysGoOn /\ keys' \subseteq KeyType /\ MachineIsApproved'
  BY UpStillGoes, SameMachines DEF UpAsks
<1>2. CASE up' = Up0
  BY <1>1, <1>2, UpEnds
<1>3. CASE up' = [up EXCEPT !.pc = "register"]
  <2>1. /\ up' \in UpType /\ up'.list = up.list /\ up'.files = up.files /\ up'.entries = up.entries
        /\ up'.image = up.image /\ up'.account = up.account /\ up'.ids = up.ids
        /\ up'.pc = "register"
    BY <1>3, UpParts DEF UpType
  <2>2. up'.ids = {}
    BY <2>1 DEF UpAsks, Approved
  <2>3. EntriesDiffer' /\ ImageFits'
    BY <1>1, <2>1, UpKeepsPlan DEF UpAsks
  <2> QED
    BY <1>1, <2>1, <2>2, <2>3, UpGoesOn DEF Retained
<1> QED
  BY <1>2, <1>3 DEF UpAsks

\* Before any of them is taken, it is the first one's turn.
LEMMA NothingTaken ==
  ASSUME CloudAssumption, Types, Approved, up'.entries = up.entries, up'.ids = {}
  PROVE  TakesInTurn'
<1>1. \A e : Earlier(e)' = Earlier(e)
  BY DEF Earlier
<1>2. \A e \in up.entries : ~(Cardinality(Earlier(e)') < 0)
  BY <1>1, EarlierFinite
<1>3. IsFiniteSet(up'.ids) /\ Cardinality(up'.ids) = 0
  BY FS_EmptySet
<1> DEFINE g == [i \in {} |-> 0]
<1>4. g \in [up'.ids -> up'.entries]
  OBVIOUS
<1>5. \A e \in up'.entries :
        (\E i \in up'.ids : g[i] = e) <=> Cardinality(Earlier(e)') < Cardinality(up'.ids)
  BY <1>2, <1>3
<1> HIDE DEF g
<1>6. /\ \A i, j \in up'.ids : g[i] = g[j] => i = j
      /\ \A i \in up'.ids : Means(g[i], i)'
  OBVIOUS
<1> QED
  BY <1>3, <1>4, <1>5, <1>6 DEF TakesInTurn

LEMMA UpListsKeysKeeps ==
  ASSUME CloudAssumption, Types, Retained, Approved, UpListsKeys,
         UNCHANGED <<build, prune, setup, file, touched>>
  PROVE  ImagesGoOn /\ Types' /\ Retained' /\ Approved'
<1>1. ImagesGoOn /\ KeysGoOn /\ keys' \subseteq KeyType /\ MachineIsApproved'
  BY UpStillGoes, SameMachines DEF UpListsKeys
<1>2. CASE up' = Up0
  BY <1>1, <1>2, UpEnds
<1>3. CASE up' = [up EXCEPT !.pc = "key", !.account = keys]
  <2>1. /\ up' \in UpType /\ up'.list = up.list /\ up'.files = up.files /\ up'.entries = up.entries
        /\ up'.image = up.image /\ up'.account = keys /\ up'.ids = up.ids /\ up'.pc = "key"
    BY <1>3, UpParts DEF UpType
  <2>2. up'.ids = {}
    BY <2>1 DEF UpListsKeys, Approved
  <2>3. TakesInTurn'
    BY <2>1, <2>2, NothingTaken
  <2>4. EntriesDiffer' /\ ImageFits'
    BY <1>1, <2>1, UpKeepsPlan DEF UpListsKeys
  <2> QED
    BY <1>1, <2>1, <2>3, <2>4, UpGoesOn DEF Retained
<1> QED
  BY <1>2, <1>3 DEF UpListsKeys

\* One more number, for the entry whose turn it is.
LEMMA TakesOneMore ==
  ASSUME CloudAssumption, Types, Approved, TakesInTurn, KeysGoOn, keys' \subseteq KeyType,
         up'.account \subseteq keys \cup up.account,
         NEW e \in up.entries, Cardinality(Earlier(e)) = Cardinality(up.ids),
         NEW id \in Nat, Means(e, id)',
         id > made.key \/ \E k \in keys \cup up.account : k.id = id /\ k.fp = e.fp,
         up'.entries = up.entries, up'.ids = up.ids \cup {id}
  PROVE  TakesInTurn'
<1>1. PICK g \in [up.ids -> up.entries] :
        /\ \A i, j \in up.ids : g[i] = g[j] => i = j
        /\ \A i \in up.ids : Means(g[i], i)
        /\ \A f \in up.entries :
             (\E i \in up.ids : g[i] = f) <=> Cardinality(Earlier(f)) < Cardinality(up.ids)
  BY DEF TakesInTurn
<1> DEFINE n == Cardinality(up.ids)
<1>2. IsFiniteSet(up.ids) /\ n \in Nat
  BY FS_CardinalityType DEF TakesInTurn
<1>3. \A i \in up.ids : g[i] # e
  BY <1>1, <1>2
<1>4. id \notin up.ids
  <2>1. SUFFICES ASSUME id \in up.ids PROVE FALSE
    OBVIOUS
  <2>2. Means(g[id], id) /\ g[id] \in up.entries /\ g[id] # e
    BY <1>1, <1>3, <2>1
  <2>3. ~(id > made.key)
    BY <2>2, UpParts DEF Means
  <2>4. g[id].fp = e.fp
    BY <2>2, <2>3 DEF Means
  <2> QED
    BY <2>2, <2>4 DEF Approved, EntriesDiffer
<1>5. IsFiniteSet(up'.ids) /\ Cardinality(up'.ids) = n + 1
  <2>1. /\ IsFiniteSet(up.ids \cup {id})
        /\ Cardinality(up.ids \cup {id}) = IF id \in up.ids THEN n ELSE n + 1
    BY <1>2, FS_AddElement
  <2> QED
    BY <2>1, <1>4
<1>6. PICK h \in [up'.ids -> up'.entries] : h[id] = e /\ \A i \in up.ids : h[i] = g[i]
  <2> DEFINE h == [i \in up.ids \cup {id} |-> IF i = id THEN e ELSE g[i]]
  <2>1. h \in [up'.ids -> up'.entries] /\ h[id] = e /\ \A i \in up.ids : h[i] = g[i]
    BY <1>1, <1>4
  <2> HIDE DEF h
  <2> QED
    BY <2>1
<1>7. \A i, j \in up'.ids : h[i] = h[j] => i = j
  BY <1>1, <1>3, <1>6
<1>8. \A i \in up'.ids : Means(h[i], i)'
  <2>1. \A k \in keys' : k.id \in Nat
    BY DEF KeyType
  <2>2. \A i \in up.ids : Means(g[i], i)'
    BY <1>1, <2>1, UpParts, MeansStays
  <2> QED
    BY <1>6, <2>2 DEF Means
<1>9. \A f : Earlier(f)' = Earlier(f)
  BY DEF Earlier
<1>10. ASSUME NEW f \in up.entries
       PROVE  (\E i \in up'.ids : h[i] = f) <=> Cardinality(Earlier(f)') < n + 1
  <2>1. Cardinality(Earlier(f)') = Cardinality(Earlier(f)) /\ Cardinality(Earlier(f)) \in Nat
    BY <1>9, EarlierFinite
  <2>2. CASE f = e
    <3>1. Cardinality(Earlier(f)') < n + 1
      BY <2>1, <2>2, <1>2
    <3> QED
      BY <3>1, <2>2, <1>6
  <2>3. CASE f # e
    <3>1. Cardinality(Earlier(f)) # n
      BY <2>3, TurnsDiffer
    <3>2. Cardinality(Earlier(f)) < n <=> Cardinality(Earlier(f)') < n + 1
      BY <3>1, <2>1, <1>2
    <3>3. (\E i \in up'.ids : h[i] = f) <=> (\E i \in up.ids : g[i] = f)
      BY <1>6, <2>3
    <3> QED
      BY <3>2, <3>3, <1>1
  <2> QED
    BY <2>2, <2>3
<1>11. \A f \in up'.entries :
         (\E i \in up'.ids : h[i] = f) <=> Cardinality(Earlier(f)') < Cardinality(up'.ids)
  BY <1>5, <1>10
<1> QED
  BY <1>5, <1>6, <1>7, <1>8, <1>11 DEF TakesInTurn, Means

LEMMA UpTakesKeeps ==
  ASSUME CloudAssumption, Types, Retained, Approved, ImagesGoOn, KeysGoOn, keys' \subseteq KeyType,
         UNCHANGED <<droplets, build, prune, setup, file>>, TakesInTurn,
         NEW e \in up.entries, Cardinality(Earlier(e)) = Cardinality(up.ids),
         NEW id \in Nat, UpTakes(id), id <= made'.key,
         \A k \in keys' \cup up.account : k.id = id => k.fp = e.fp,
         id > made.key \/ \E k \in keys \cup up.account : k.id = id /\ k.fp = e.fp
  PROVE  Types' /\ Retained' /\ Approved'
<1>1. up' = [up EXCEPT !.pc = "key", !.ids = up.ids \cup {id}]
  BY DEF UpTakes
<1>2. /\ up' \in UpType /\ up'.list = up.list /\ up'.files = up.files /\ up'.entries = up.entries
      /\ up'.image = up.image /\ up'.account = up.account /\ up'.ids = up.ids \cup {id}
      /\ up'.pc = "key"
  BY <1>1, UpParts DEF UpType
<1>3. Means(e, id)'
  BY <1>2 DEF Means
<1>4. TakesInTurn'
  BY <1>2, <1>3, TakesOneMore
<1>5. EntriesDiffer' /\ ImageFits' /\ MachineIsApproved'
  BY <1>2, UpKeepsPlan
<1> QED
  BY <1>2, <1>4, <1>5, UpGoesOn DEF Retained

LEMMA UpRegistersKeeps ==
  ASSUME CloudAssumption, Types, Retained, Approved, UpRegisters,
         UNCHANGED <<build, prune, setup, file, touched>>
  PROVE  ImagesGoOn /\ Types' /\ Retained' /\ Approved'
<1>1. TakesInTurn /\ Cardinality(up.ids) < Cardinality(up.entries) /\ UNCHANGED <<images, droplets>>
  BY DEF UpRegisters, Approved
<1>2. PICK e \in up.entries : e = Current /\ Cardinality(Earlier(e)) = Cardinality(up.ids)
  BY <1>1, CurrentIsThere DEF TakesInTurn
<1>3. CASE Known(e.fp) # {} /\ UpTakes((CHOOSE k \in Known(e.fp) : TRUE).id) /\ UNCHANGED <<keys, made>>
  <2>1. PICK k \in Known(e.fp) : UpTakes(k.id)
    BY <1>3
  <2>2. k \in up.account /\ k.fp = e.fp /\ k.id \in Nat
    BY <2>1, UpParts DEF Known, KeyType
  <2>3. ImagesGoOn /\ KeysGoOn /\ keys' \subseteq KeyType
    BY <1>1, <1>3, UpStillGoes
  <2>4. k.id <= made'.key /\ \A l \in keys' \cup up.account : l.id = k.id => l.fp = e.fp
    BY <1>3, <2>2 DEF Approved, KeysAgree
  <2> QED
    BY <1>1, <1>2, <2>1, <2>2, <2>3, <2>4, UpTakesKeeps
<1>4. CASE up' = Up0 /\ UNCHANGED <<keys, made>>
  <2>1. ImagesGoOn /\ KeysGoOn /\ keys' \subseteq KeyType /\ MachineIsApproved'
    BY <1>1, <1>4, UpStillGoes, SameMachines
  <2> QED
    BY <1>4, <2>1, UpEnds
<1>5. CASE up' = [up EXCEPT !.pc = "relist"] /\ UNCHANGED <<keys, made>>
  <2>1. ImagesGoOn /\ KeysGoOn /\ keys' \subseteq KeyType
    BY <1>1, <1>5, UpStillGoes
  <2>2. /\ up' \in UpType /\ up'.list = up.list /\ up'.files = up.files /\ up'.entries = up.entries
        /\ up'.image = up.image /\ up'.account = up.account /\ up'.ids = up.ids
        /\ up'.pc = "relist"
    BY <1>5, UpParts DEF UpType
  <2>3. TakesInTurn'
    BY <1>1, <2>1, <2>2, UpParts, TakesStays DEF KeyType
  <2>4. EntriesDiffer' /\ ImageFits' /\ MachineIsApproved'
    BY <1>1, <2>1, <2>2, UpKeepsPlan
  <2> QED
    BY <1>1, <2>1, <2>2, <2>3, <2>4, UpGoesOn DEF Retained
<1>6. CASE keys' = CreateKey(e.fp) /\ made' = [made EXCEPT !.key = @ + 1] /\ UpTakes(made'.key)
  <2>1. /\ KeysGoOn /\ keys' \subseteq KeyType /\ made'.image = made.image
        /\ made' \in [image : Nat, droplet : Nat, key : Nat] /\ made'.key = made.key + 1
    BY <1>6, UpParts, KeyGoesOn
  <2>2. ImagesGoOn
    BY <1>1, <2>1, UpParts, StillGoesOn
  <2>3. PICK id \in Nat : id = made.key + 1
    BY UpParts
  <2>4. id <= made'.key /\ id > made.key /\ UpTakes(id)
    BY <1>6, <2>1, <2>3, UpParts
  <2>5. \A k \in keys' \cup up.account : k.id = id => k.fp = e.fp
    <3>1. ASSUME NEW k \in keys \cup up.account PROVE k.id # id
      <4>1. k.id <= made.key /\ k.id \in Nat
        BY UpParts DEF Approved, KeysAgree, KeyType
      <4> QED
        BY <4>1, <2>3, UpParts
    <3> QED
      BY <3>1, <1>6 DEF CreateKey
  <2> QED
    BY <1>1, <1>2, <2>1, <2>2, <2>4, <2>5, UpTakesKeeps
<1> QED
  BY <1>2, <1>3, <1>4, <1>5, <1>6 DEF UpRegisters

LEMMA UpRelistsKeeps ==
  ASSUME CloudAssumption, Types, Retained, Approved, UpRelists,
         UNCHANGED <<build, prune, setup, file, touched>>
  PROVE  ImagesGoOn /\ Types' /\ Retained' /\ Approved'
<1>1. /\ TakesInTurn /\ Cardinality(up.ids) < Cardinality(up.entries)
      /\ UNCHANGED <<images, droplets, keys, made>>
  BY DEF UpRelists, Approved
<1>2. PICK e \in up.entries : e = Current /\ Cardinality(Earlier(e)) = Cardinality(up.ids)
  BY <1>1, CurrentIsThere DEF TakesInTurn
<1>3. ImagesGoOn /\ KeysGoOn /\ keys' \subseteq KeyType /\ MachineIsApproved'
  BY <1>1, UpStillGoes, SameMachines
<1>4. CASE up' = Up0
  BY <1>3, <1>4, UpEnds
<1>5. CASE Registered(e.fp) /\ UpTakes(KeyOf(e.fp).id)
  <2>1. PICK k \in keys : k.fp = e.fp /\ UpTakes(k.id)
    BY <1>5 DEF Registered, KeyOf
  <2>2. k.id \in Nat
    BY UpParts DEF KeyType
  <2>3. k.id <= made'.key /\ \A l \in keys' \cup up.account : l.id = k.id => l.fp = e.fp
    BY <1>1, <2>1 DEF Approved, KeysAgree
  <2> QED
    BY <1>1, <1>2, <1>3, <2>1, <2>2, <2>3, UpTakesKeeps
<1> QED
  BY <1>2, <1>4, <1>5 DEF UpRelists

\* All the entries have had their turn, so the numbers are theirs and nobody else's.
LEMMA AdmitsApproved ==
  ASSUME CloudAssumption, Types, Approved, TakesInTurn, Cardinality(up.ids) = Cardinality(up.entries),
         up.ids \subseteq {k.id : k \in keys}
  PROVE  {k.fp : k \in {l \in keys : l.id \in up.ids}} = {e.fp : e \in up.entries}
<1>1. PICK g \in [up.ids -> up.entries] :
        /\ \A i \in up.ids : Means(g[i], i)
        /\ \A e \in up.entries :
             (\E i \in up.ids : g[i] = e) <=> Cardinality(Earlier(e)) < Cardinality(up.ids)
  BY DEF TakesInTurn
<1>2. ASSUME NEW k \in keys, k.id \in up.ids PROVE \E e \in up.entries : k.fp = e.fp
  BY <1>1, <1>2 DEF Means
<1>3. ASSUME NEW e \in up.entries PROVE \E k \in keys : k.id \in up.ids /\ k.fp = e.fp
  <2>1. PICK i \in up.ids : g[i] = e
    BY <1>1, EarlierFinite
  <2>2. PICK k \in keys : k.id = i
    OBVIOUS
  <2> QED
    BY <1>1, <2>1, <2>2 DEF Means
<1> QED
  BY <1>2, <1>3

LEMMA UpCreatesKeeps ==
  ASSUME CloudAssumption, Types, Retained, Approved, UpCreates,
         UNCHANGED <<build, prune, setup, file, touched>>
  PROVE  ImagesGoOn /\ Types' /\ Retained' /\ Approved'
<1>1. TakesInTurn /\ Cardinality(up.ids) = Cardinality(up.entries) /\ up' = Up0
      /\ UNCHANGED <<images, keys>>
  BY DEF UpCreates, Approved
<1>2. /\ ImageTypes /\ keys' \subseteq KeyType /\ made'.image = made.image /\ made'.key = made.key
      /\ made' \in [image : Nat, droplet : Nat, key : Nat]
  BY DEF UpCreates, Types, ImageTypes
<1>3. ImagesGoOn /\ KeysGoOn
  BY <1>1, <1>2, StillGoesOn, KeysStill
<1>4. MachineIsApproved'
  <2>1. CASE droplets' = droplets
    BY <2>1, SameMachines
  <2>2. CASE Creatable(up.image, up.ids, Wanted) /\ droplets' # droplets
    <3> DEFINE m == Machine(up.image, IF up.image = Stock THEN Wanted ELSE images[up.image].kind,
                            up.ids, Asked)
    <3>1. \A d \in DOMAIN droplets' :
            (d \in DOMAIN droplets /\ droplets'[d] = droplets[d]) \/ droplets'[d] = m
      BY <2>2 DEF UpCreates
    <3>2. m.boots = up.image /\ m.asked.image = up.image
      BY DEF Machine, Asked
    <3>3. m.admits = m.asked.fps
      <4>1. up.ids \subseteq {k.id : k \in keys}
        BY <2>2 DEF Creatable
      <4>2. {k.fp : k \in {l \in keys : l.id \in up.ids}} = {e.fp : e \in up.entries}
        BY <1>1, <4>1, AdmitsApproved
      <4> QED
        BY <4>2 DEF Machine, Asked
    <3>4. m.boots # Stock => m.kind.region = Wanted.region /\ m.kind.shell = Wanted.shell
      <4>1. SUFFICES ASSUME up.image # Stock
                     PROVE  m.kind.region = Wanted.region /\ m.kind.shell = Wanted.shell
        BY <3>2
      <4>2. m.kind = images[up.image].kind
        BY <4>1 DEF Machine
      <4>3. up.image \in DOMAIN images /\ images[up.image].kind.region = Wanted.region
        BY <2>2, <4>1 DEF Creatable, Usable
      <4>4. images[up.image].kind.shell = Wanted.shell
        BY <4>1, <4>3 DEF Approved, ImageFits
      <4> QED
        BY <4>2, <4>3, <4>4
    <3> HIDE DEF m
    <3> QED
      BY <3>1, <3>2, <3>3, <3>4 DEF MachineIsApproved, Approved
  <2> QED
    BY <2>1, <2>2 DEF UpCreates
<1> QED
  BY <1>1, <1>2, <1>3, <1>4, UpEnds

LEMMA UppingKeeps ==
  ASSUME CloudAssumption, Types, Retained, Approved, Upping, UNCHANGED file
  PROVE  ImagesGoOn /\ Types' /\ Retained' /\ Approved'
  BY UpBeginsKeeps, UpPlansKeysKeeps, UpResolvesKeeps, UpAsksKeeps, UpListsKeysKeeps,
     UpRegistersKeeps, UpRelistsKeeps, UpCreatesKeeps DEF Upping

-------------------------------------------------------------------------------
(* Every step, and every behaviour *)

LEMMA CInvInit == ASSUME CloudAssumption, Init PROVE CInv
<1>1. DOMAIN images = 1..2 /\ made = [image |-> 2, droplet |-> 0, key |-> 0]
  BY DEF Init
<1>2. \A i \in 1..2 : images[i] \in ImageType
  <2>1. \A i \in 1..2 : <<{"user"}, Tags>>[i] \subseteq Tags
    BY DEF Tags
  <2> QED
    BY <2>1 DEF Init, Img, ImageType, Kinds
<1>3. ImageTypes
  BY <1>1, <1>2 DEF Init, ImageTypes
<1>4. Types
  <2>1. build \in [Builder -> BuildType]
    BY Builder0Stands DEF Init
  <2> QED
    BY <1>3, <2>1, Prune0Stands, Up0Stands DEF Types, Init
<1>5. Retained
  BY Builder0Stands, Prune0Stands, Up0Stands DEF Retained, Init
<1>6. Approved
  <2>1. up.files = {} /\ up.entries = {} /\ up.image = Stock /\ up.account = {} /\ up.ids = {}
        /\ up.pc = "idle" /\ keys = {} /\ DOMAIN droplets = {} /\ setup.pc = "idle"
    BY DEF Init, Up0, Setup0
  <2>2. KeysAgree
    BY <2>1 DEF KeysAgree
  <2>3. EntriesDiffer
    BY <2>1, FS_EmptySet DEF EntriesDiffer
  <2>4. ImageFits /\ MachineIsApproved
    BY <2>1 DEF ImageFits, MachineIsApproved
  <2> QED
    BY <2>1, <2>2, <2>3, <2>4 DEF Approved
<1> QED
  BY <1>4, <1>5, <1>6 DEF CInv

LEMMA NextKeeps ==
  ASSUME CloudAssumption, CInv, [Next]_vars
  PROVE  ImagesGoOn /\ CInv'
<1>1. Types /\ Retained /\ Approved
  BY DEF CInv
<1>2. CASE UNCHANGED vars
  <2>1. ImagesGoOn /\ KeysGoOn /\ keys' \subseteq KeyType
    BY <1>1, <1>2, UpStillGoes DEF vars
  <2> QED
    BY <1>1, <1>2, <2>1, KeysMove DEF vars, CInv, Types, ImageTypes, Approved, KeysAgree
<1>3. CASE UNCHANGED <<setup, file>> /\ (Pruning \/ Tagging \/ \E b \in Builder : Building(b))
  BY <1>1, <1>3, PruningKeeps, TaggingKeeps, BuildingKeeps, ImagesApprove, BuildingApproves DEF CInv
<1>4. CASE Setting /\ UNCHANGED file
  BY <1>1, <1>4, SettingKeeps DEF CInv
<1>5. CASE Upping /\ UNCHANGED file
  BY <1>1, <1>5, UppingKeeps DEF CInv
<1>6. CASE HandEditsImage
  BY <1>1, <1>6, HandEditsImageKeeps, ImagesApprove DEF CInv
<1>7. CASE HandEditsKeys
  BY <1>1, <1>7, HandEditsKeysKeeps DEF CInv
<1>8. CASE Dies
  BY <1>1, <1>8, DiesKeeps, ImagesApprove DEF CInv
<1> QED
  BY <1>2, <1>3, <1>4, <1>5, <1>6, <1>7, <1>8 DEF Next

\* An image that retention takes was safe to delete.
LEMMA StepsPrune ==
  ASSUME CloudAssumption, ImagesGoOn
  PROVE  Pruned
<1>1. ASSUME NEW i \in DOMAIN images \ (DOMAIN images' \cup touched')
      PROVE  1 + Keep <= Cardinality({j \in touched : j > i} \cup
                            {j \in DOMAIN images : j > i /\ Eligible(j) /\ SameRegion(i, j)})
  <2>1. PICK e : e.id = i /\ Truthful(e) /\ Safe(e)
    BY DEF ImagesGoOn
  <2>2. e.kind = images[i].kind
    BY <2>1 DEF Truthful
  <2>3. Guards(i, images[i].kind.region) =
          {j \in touched : j > i} \cup {j \in DOMAIN images : j > i /\ Eligible(j) /\ SameRegion(i, j)}
    BY DEF Guards, SameRegion
  <2> QED
    BY <2>1, <2>2, <2>3 DEF Safe
<1> QED
  BY <1>1 DEF Pruned

\* Whatever the processes and the people do, plans hold only what is safe to
\* delete, and the machine of up is the one approved.
THEOREM CloudInvariant == ASSUME CloudAssumption PROVE Spec => []CInv
<1>1. Init => CInv
  BY CInvInit
<1>2. CInv /\ [Next]_vars => CInv'
  BY NextKeeps
<1> QED
  BY <1>1, <1>2, PTL DEF Spec
================================================================================
