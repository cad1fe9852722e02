--------------------------------- MODULE Cloud ---------------------------------
(***************************************************************************)
(* The commands that share a provider account: `image build` with Packer   *)
(* and its own retention, `image prune` with its preview and confirmation, *)
(* `image tag`, the registration of keys by `init`, and `up` from its plan *)
(* to the machine. None of them locks anything: what one read may be stale *)
(* when it acts, and people edit the account and the key files meanwhile.  *)
(***************************************************************************)
EXTENDS Account

CONSTANTS
  Builder,   \* the processes that build images
  Path,      \* public-key files, numbered in their order
  Wanted,    \* [region, shell, disk] of the configuration that up reads
  Keep,      \* --keep-previous
  MaxTroubles \* bound: edits by hand, requests that fail and processes that die

CloudAssumption ==
  /\ {PageSize, Pending, MaxImages, MaxMachines, Keep, MaxTroubles} \subseteq Nat /\ PageSize > 0
  /\ Path \subseteq Nat /\ IsFiniteSet(Path)
  /\ \A k \in Kind \cup {Wanted} : k.region \in Nat

VARIABLES
  build,   \* the state of each image build
  prune,   \* of the one explicit prune
  tagger,  \* of the one image tag: the image it has checked, or 0
  up,      \* of the one up
  setup,   \* of the key registration of one init
  file,    \* the key in each public-key file
  ref,     \* whether the configuration asks for the tag or a stock image
  touched, \* images edited or removed by hand
  cast,    \* who takes part: those that change images, or those that change keys
  troubles

vars == <<images, droplets, keys, made, build, prune, tagger, up, setup, file, ref, touched,
          cast, troubles>>

\* A lister has the next page and what was eligible of the pages it read. For a
\* property only: what was there to launch when the listing began, and whether an
\* image has left the tag since.
List0 == [page |-> 0, seen |-> {}, missed |-> FALSE, stood |-> {}]
Builder0 == [pc |-> "idle", kind |-> Wanted, droplet |-> 0, id |-> 0, list |-> List0, plan |-> {}]
Prune0 == [pc |-> "idle", list |-> List0, plan |-> {}]
Up0 == [pc |-> "idle", list |-> List0, files |-> {}, entries |-> {}, image |-> Stock,
        account |-> {}, ids |-> {}]
Setup0 == [pc |-> "idle", account |-> {}, path |-> 0, fp |-> 0]

\* An image that somebody else made under the tag, and a build of ours. A bound:
\* either the images are busy or the keys.
Init ==
  /\ images = [i \in 1..2 |-> Img(Wanted, <<{"user"}, Tags>>[i], 0)]
  /\ droplets = <<>> /\ keys = {} /\ made = [image |-> 2, droplet |-> 0, key |-> 0]
  /\ build = [b \in Builder |-> Builder0] /\ prune = Prune0 /\ tagger = 0
  /\ up = Up0 /\ setup = Setup0
  /\ file \in [Path -> Fp] /\ ref \in {"stock", "tag"} /\ touched = {}
  /\ \/ cast = "images" /\ ref = "tag" /\ \A p, q \in Path : file[p] = file[q]
     \/ cast = "keys" /\ ref = "stock"
  /\ troubles = 0

-------------------------------------------------------------------------------
(* Listing, and what retention makes of it *)

Entry(i) == [id |-> i, kind |-> images[i].kind]

\* One page: what is read counts as read, and is kept if it is eligible.
Turned(list) ==
  [list EXCEPT !.page = @ + 1, !.seen = @ \cup {Entry(i) : i \in {j \in Page(list.page) : Eligible(j)}},
               !.stood = IF list.page = 0 THEN {i \in DOMAIN images : Eligible(i)} ELSE @]

InRegion(r, S) == {e \in S : e.kind.region = r}
Newer(e, S) == {f \in InRegion(e.kind.region, S) : f.id > e.id}
Newest(S) == CHOOSE e \in S : \A f \in S : f.id <= e.id

\* Mutant of KeptBack: the newest build does not count beside the previous ones.
OneLess(e, S) == Cardinality(Newer(e, S)) < Keep
KeptBack(e, S) == Cardinality(Newer(e, S)) < 1 + Keep
Protected(e, id) == e.id = id

PlanPrune(S, id) == {e \in S : ~KeptBack(e, S) /\ ~Protected(e, id)}

\* Scope by scope, oldest first.
First(plan) == CHOOSE c \in plan : \A d \in plan : \/ c.kind.region < d.kind.region
                                                   \/ c.kind.region = d.kind.region /\ c.id <= d.id

\* ExecutePrune of one candidate, which is read again first: gone is as good as
\* deleted, changed stops the run. The delete is a request of its own.
Recheck(e) == IF e.id \notin DOMAIN images THEN "gone"
              ELSE IF Eligible(e.id) THEN "delete" ELSE "stop"

\* A removed image may move another one off the pages a lister has yet to read.
Removed(i) ==
  /\ images' = DeleteImage(i)
  /\ up' = [up EXCEPT !.list.missed = @ \/ (up.pc = "resolve" /\ up.list.page > 0)]

\* A reading is a write here: it moves a pending image on.
Lists(list) == images' = Read(Page(list.page))

-------------------------------------------------------------------------------
(* image build *)

\* Packer, from its droplet to the tags of the snapshot it makes.
Builds(b) ==
  /\ build[b].pc = "idle" /\ made.image < MaxImages /\ made.droplet < MaxMachines
  /\ made' = [made EXCEPT !.droplet = @ + 1]
  /\ \E k \in Kind :
       /\ droplets' = CreateDroplet(Machine(Stock, k, {}, [image |-> Stock, fps |-> {}]))
       /\ build' = [build EXCEPT ![b] = [Builder0 EXCEPT !.pc = "snapshot", !.kind = k,
                                                         !.droplet = made'.droplet]]
  /\ UNCHANGED <<images, keys, prune, tagger, up, ref, touched>>

Snapshots(b) ==
  /\ build[b].pc = "snapshot" /\ made.image < MaxImages
  /\ images' = Snapshot(build[b].kind) /\ made' = [made EXCEPT !.image = @ + 1]
  /\ build' = [build EXCEPT ![b].pc = "tag", ![b].id = made'.image]
  /\ UNCHANGED <<droplets, keys, prune, tagger, up, ref, touched>>

\* Tag by tag, each its own request; the droplet goes when all are there.
Tags1(b) ==
  /\ build[b].pc = "tag"
  /\ IF build[b].id \notin DOMAIN images
     THEN build' = [build EXCEPT ![b] = Builder0] /\ UNCHANGED <<images, droplets>>
     ELSE IF images[build[b].id].tags = Tags
     THEN /\ droplets' = DeleteDroplet(build[b].droplet)
          /\ build' = [build EXCEPT ![b].pc = "verify"] /\ UNCHANGED images
     ELSE /\ \E t \in Tags \ images[build[b].id].tags : images' = TagImage(build[b].id, {t})
          /\ UNCHANGED <<build, droplets>>
  /\ UNCHANGED <<keys, made, prune, tagger, up, ref, touched>>

Verified(b) == Eligible(build[b].id)

\* The snapshot is read back; one that no launch would take ends the build here,
\* before the configuration and before retention.
Verifies(b) ==
  /\ build[b].pc = "verify"
  /\ images' = Read({build[b].id})
  /\ build' = [build EXCEPT ![b] = IF Verified(b) THEN [@ EXCEPT !.pc = "write"] ELSE Builder0]
  /\ UNCHANGED <<droplets, keys, made, prune, tagger, up, ref, touched>>

\* SetImage edits the file or leaves it alone; retention follows either way,
\* unless it was not asked for.
WritesBack(b) ==
  /\ build[b].pc = "write" /\ ref' \in {ref, "tag"}
  /\ build' = [build EXCEPT ![b] = [@ EXCEPT !.pc = "list"]]
  /\ UNCHANGED <<images, droplets, keys, made, prune, tagger, up, touched>>

Plans(b) ==
  /\ build[b].pc = "list" /\ Lists(build[b].list)
  /\ build' = [build EXCEPT ![b].list = Turned(@),
                 ![b].pc = IF IsLastPage(build[b].list.page) THEN "prune" ELSE @,
                 ![b].plan = IF IsLastPage(build[b].list.page)
                             THEN PlanPrune(InRegion(build[b].kind.region, Turned(build[b].list).seen),
                                            build[b].id)
                             ELSE {}]
  /\ UNCHANGED <<droplets, keys, made, prune, tagger, up, ref, touched>>

Rechecks(b) ==
  /\ build[b].pc = "prune"
  /\ IF build[b].plan = {} THEN build' = [build EXCEPT ![b] = Builder0] /\ UNCHANGED images
     ELSE LET e == First(build[b].plan) IN
          /\ images' = Read({e.id})
          /\ build' = [build EXCEPT ![b] = CASE Recheck(e) = "gone"   -> [build[b] EXCEPT !.plan = @ \ {e}]
                                            [] Recheck(e) = "delete" -> [build[b] EXCEPT !.pc = "delete"]
                                            [] Recheck(e) = "stop"   -> Builder0]
  /\ UNCHANGED <<droplets, keys, made, prune, tagger, up, ref, touched>>

BuildDeletes(b) ==
  /\ build[b].pc = "delete"
  /\ Removed(First(build[b].plan).id)
  /\ build' = [build EXCEPT ![b].pc = "prune", ![b].plan = @ \ {First(@)}]
  /\ UNCHANGED <<droplets, keys, made, prune, tagger, ref, touched>>

Building(b) == Builds(b) \/ Snapshots(b) \/ Tags1(b) \/ Verifies(b) \/ WritesBack(b)
               \/ Plans(b) \/ Rechecks(b) \/ BuildDeletes(b)

-------------------------------------------------------------------------------
(* image prune, and image tag *)

PruneBegins ==
  /\ prune.pc = "idle" /\ prune' = [Prune0 EXCEPT !.pc = "list"]
  /\ UNCHANGED <<images, up>>

\* GroupScopes and one plan a scope; nothing to delete is the end.
PrunePlans ==
  /\ prune.pc = "list" /\ Lists(prune.list) /\ UNCHANGED up
  /\ prune' = IF ~IsLastPage(prune.list.page) THEN [prune EXCEPT !.list = Turned(@)]
              ELSE LET plan == PlanPrune(Turned(prune.list).seen, 0) IN
                   IF plan = {} THEN Prune0 ELSE [Prune0 EXCEPT !.pc = "ask", !.plan = plan]

\* The preview is confirmed or not; a dry run ends with it.
PruneAsks ==
  /\ prune.pc = "ask" /\ prune' \in {Prune0, [prune EXCEPT !.pc = "prune"]}
  /\ UNCHANGED <<images, up>>

PruneRechecks ==
  /\ prune.pc = "prune" /\ UNCHANGED up
  /\ IF prune.plan = {} THEN prune' = Prune0 /\ UNCHANGED images
     ELSE LET e == First(prune.plan) IN
          /\ images' = Read({e.id})
          /\ prune' = CASE Recheck(e) = "gone"   -> [prune EXCEPT !.plan = @ \ {e}]
                       [] Recheck(e) = "delete" -> [prune EXCEPT !.pc = "delete"]
                       [] Recheck(e) = "stop"   -> Prune0

PruneDeletes ==
  /\ prune.pc = "delete" /\ Removed(First(prune.plan).id)
  /\ prune' = [prune EXCEPT !.pc = "prune", !.plan = @ \ {First(@)}]

Pruning == /\ PruneBegins \/ PrunePlans \/ PruneAsks \/ PruneRechecks \/ PruneDeletes
           /\ UNCHANGED <<droplets, keys, made, build, tagger, ref, touched>>

\* image tag adopts a ready build, and only that, under the user's tag.
TagChecks ==
  /\ tagger = 0 /\ \E i \in DOMAIN images \ Tagged : Ready(i) /\ tagger' = i
  /\ UNCHANGED images

TagAttaches ==
  /\ tagger # 0 /\ tagger' = 0
  /\ images' = IF tagger \in DOMAIN images THEN TagImage(tagger, {"user"}) ELSE images

Tagging == /\ TagChecks \/ TagAttaches
           /\ UNCHANGED <<droplets, keys, made, build, prune, up, ref, touched>>

-------------------------------------------------------------------------------
(* init: the registration of one selected key *)

SetupReads ==
  /\ setup.pc = "idle"
  /\ \E p \in Path : ~Registered(file[p])
       /\ setup' = [Setup0 EXCEPT !.pc = "register", !.path = p, !.fp = file[p]]
  /\ UNCHANGED <<keys, made>>

\* RegisterPublic, after the user approved: the file is read again, and it is the
\* approved key that is sent.
SetupRegisters ==
  /\ setup.pc = "register"
  /\ IF file[setup.path] = setup.fp /\ ~Registered(setup.fp)
     THEN /\ keys' = CreateKey(setup.fp) /\ made' = [made EXCEPT !.key = @ + 1]
     ELSE UNCHANGED <<keys, made>>
  /\ setup' = Setup0

Setting == /\ SetupReads \/ SetupRegisters
           /\ UNCHANGED <<images, droplets, build, prune, tagger, up, ref, touched>>

-------------------------------------------------------------------------------
(* up *)

Unchanged(es) == \A e \in es : file[e.path] = e.fp

UpBegins ==
  /\ up.pc = "idle"
  /\ up' = [Up0 EXCEPT !.pc = "keys", !.files = {[path |-> p, fp |-> file[p]] : p \in Path}]
  /\ UNCHANGED <<images, droplets, keys, made>>

\* keyplan.Build: the files once more, one entry a key, and the account.
UpPlansKeys ==
  /\ up.pc = "keys"
  /\ IF Unchanged(up.files)
     THEN LET first == {e \in up.files : \A f \in up.files : f.fp = e.fp => e.path <= f.path}
          IN  up' = [up EXCEPT !.pc = IF ref = "tag" THEN "resolve" ELSE "ask", !.files = {},
                       !.entries = {[path |-> e.path, fp |-> e.fp, registered |-> Registered(e.fp)] : e \in first}]
     ELSE up' = Up0
  /\ UNCHANGED <<images, droplets, keys, made>>

\* Of the scope, whatever its shell; PrepareUp refuses the wrong shell and
\* checkDisk a size that is too small.
Resolve(S) ==
  LET scope == InRegion(Wanted.region, S) IN
  IF scope = {} \/ Newest(scope).kind.shell # Wanted.shell \/ Newest(scope).kind.disk > Wanted.disk
  THEN Up0 ELSE [up EXCEPT !.pc = "ask", !.image = Newest(scope).id, !.list = List0]

UpResolves ==
  /\ up.pc = "resolve" /\ Lists(up.list)
  /\ up' = IF IsLastPage(up.list.page) THEN Resolve(Turned(up.list).seen)
           ELSE [up EXCEPT !.list = Turned(@)]
  /\ UNCHANGED <<droplets, keys, made>>

UpAsks ==
  /\ up.pc = "ask" /\ up' \in {Up0, [up EXCEPT !.pc = "register"]}
  /\ UNCHANGED <<images, droplets, keys, made>>

FilesHold == Unchanged(up.entries)

\* keyplan.Register: every file and the signers, then the account.
UpListsKeys ==
  /\ up.pc = "register"
  /\ up' = IF FilesHold THEN [up EXCEPT !.pc = "key", !.account = keys] ELSE Up0
  /\ UNCHANGED <<images, droplets, keys, made>>

\* The entry whose turn it is, in the order of the configuration.
Current == CHOOSE e \in up.entries :
             Cardinality({f \in up.entries : f.path < e.path}) = Cardinality(up.ids)
\* Mutant of Known: any key of the account will do, as if found by its name.
AnyKey(fp) == up.account
Known(fp) == {k \in up.account : k.fp = fp}

UpTakes(id) == up' = [up EXCEPT !.pc = "key", !.ids = @ \cup {id}]

\* An entry at a time. A key that was on the account when the plan was approved
\* and is not any more ends it; a refused creation lists the account again.
UpRegisters ==
  /\ up.pc = "key" /\ Cardinality(up.ids) < Cardinality(up.entries)
  /\ LET e == Current IN
     IF Known(e.fp) # {}
     THEN UpTakes((CHOOSE k \in Known(e.fp) : TRUE).id) /\ UNCHANGED <<keys, made>>
     ELSE IF e.registered \/ file[e.path] # e.fp
     THEN up' = Up0 /\ UNCHANGED <<keys, made>>
     ELSE IF Registered(e.fp)
     THEN up' = [up EXCEPT !.pc = "relist"] /\ UNCHANGED <<keys, made>>
     ELSE /\ keys' = CreateKey(e.fp) /\ made' = [made EXCEPT !.key = @ + 1]
          /\ UpTakes(made'.key)
  /\ UNCHANGED <<images, droplets>>

UpRelists ==
  /\ up.pc = "relist"
  /\ LET e == Current IN
     IF Registered(e.fp) THEN UpTakes(KeyOf(e.fp).id) ELSE up' = Up0
  /\ UNCHANGED <<images, droplets, keys, made>>

Asked == [image |-> up.image, fps |-> {e.fp : e \in up.entries}]

\* The provider checks everything before it makes the machine.
UpCreates ==
  /\ up.pc = "key" /\ Cardinality(up.ids) = Cardinality(up.entries) /\ up' = Up0
  /\ IF Creatable(up.image, up.ids, Wanted) /\ made.droplet < MaxMachines
     THEN /\ droplets' = [d \in DOMAIN droplets \cup {made.droplet + 1} |->
                            IF d \in DOMAIN droplets THEN droplets[d]
                            ELSE Machine(up.image, IF up.image = Stock THEN Wanted ELSE images[up.image].kind,
                                         up.ids, Asked)]
          /\ made' = [made EXCEPT !.droplet = @ + 1]
     ELSE UNCHANGED <<droplets, made>>
  /\ UNCHANGED <<images, keys>>

Upping == /\ UpBegins \/ UpPlansKeys \/ UpResolves \/ UpAsks \/ UpListsKeys \/ UpRegisters
             \/ UpRelists \/ UpCreates
          /\ UNCHANGED <<build, prune, tagger, setup, ref, touched>>
-------------------------------------------------------------------------------
Trouble == troubles < MaxTroubles /\ troubles' = troubles + 1

\* A request that fails for good, or a process that dies: what it made stays.
Dies ==
  /\ Trouble
  /\ \/ \E b \in Builder : build[b].pc # "idle" /\ build' = [build EXCEPT ![b] = Builder0]
                           /\ UNCHANGED <<prune, up>>
     \/ prune.pc # "idle" /\ prune' = Prune0 /\ UNCHANGED <<build, up>>
     \/ up.pc # "idle" /\ up' = Up0 /\ UNCHANGED <<build, prune>>
  /\ UNCHANGED <<images, droplets, keys, made, tagger, setup, file, ref, touched, cast>>


\* In the provider's console an image goes, or a tag of its.
HandEditsImage ==
  /\ Trouble
  /\ \E i \in DOMAIN images :
       /\ touched' = touched \cup {i}
       /\ \/ Removed(i)
          \/ \E t \in images[i].tags :
               /\ images' = [images EXCEPT ![i].tags = @ \ {t}]
               /\ up' = [up EXCEPT !.list.missed = @ \/ (up.pc = "resolve" /\ up.list.page > 0)]
  /\ UNCHANGED <<droplets, keys, made, build, prune, tagger, setup, file, ref, cast>>

HandEditsKeys ==
  /\ Trouble
  /\ \/ \E k \in keys : keys' = keys \ {k} /\ UNCHANGED <<made, file>>
     \/ \E fp \in Fp : /\ ~Registered(fp) /\ keys' = CreateKey(fp)
                       /\ made' = [made EXCEPT !.key = @ + 1] /\ UNCHANGED file
     \/ \E p \in Path, fp \in Fp : file' = [file EXCEPT ![p] = fp] /\ UNCHANGED <<keys, made>>
  /\ UNCHANGED <<images, droplets, build, prune, tagger, up, setup, ref, touched, cast>>

Next == \/ /\ cast = "images" /\ UNCHANGED <<setup, file, cast, troubles>>
           /\ Pruning \/ Tagging \/ \E b \in Builder : Building(b)
        \/ cast = "keys" /\ Setting /\ UNCHANGED <<file, cast, troubles>>
        \/ Upping /\ UNCHANGED <<file, cast, troubles>>
        \/ cast = "images" /\ HandEditsImage
        \/ cast = "keys" /\ HandEditsKeys
        \/ Dies

Spec == Init /\ [][Next]_vars

-------------------------------------------------------------------------------
(* Properties *)

\* Retention never takes an image while fewer than the current build and the
\* previous ones to keep are newer and of its scope, whoever prunes and builds at
\* the time and however old the plan is. What people took or changed by hand after
\* the plan is theirs to answer for.
SameRegion(i, j) == images[j].kind.region = images[i].kind.region
Pruned ==
  \A i \in DOMAIN images \ (DOMAIN images' \cup touched') :
    1 + Keep <= Cardinality({j \in touched : j > i} \cup
                            {j \in DOMAIN images : j > i /\ Eligible(j) /\ SameRegion(i, j)})

\* A machine boots the image that was shown, which fits what the configuration
\* asks for, and admits exactly the keys that were approved, whatever became of
\* the key files and the account since.
MachineIsApproved ==
  \A d \in DOMAIN droplets :
    LET m == droplets[d] IN
    /\ m.boots = m.asked.image /\ m.admits = m.asked.fps
    /\ m.boots # Stock => m.kind.region = Wanted.region /\ m.kind.shell = Wanted.shell
================================================================================
