-------------------------------- MODULE GCloud --------------------------------
(***************************************************************************)
(* Google Cloud as a provider (internal/provider/gcloud): `up` and `down`  *)
(* of machines that are known by their name, and `image tag` and `image    *)
(* prune` of images that carry labels. A request only begins an operation, *)
(* which the client waits for. What answers is either the service or the   *)
(* fake server of the tests (gcpfake), which takes a name twice, deletes   *)
(* what is not there and merges labels.                                    *)
(***************************************************************************)
EXTENDS Integers, FiniteSets

CONSTANTS
  Process,     \* the commands' processes
  Name,        \* of instances
  Image,       \* the images of the project
  UserTag,     \* the values of the label bivouac-tag
  MaxMachines, \* bound: machines ever made
  MaxTags,     \* bound: times an image is labelled by a command
  MaxFaults    \* bound: failed calls, crashes, and edits by hand

GCloudAssumption == MaxMachines \in Nat /\ MaxTags \in Nat /\ MaxFaults \in Nat
LabelsAssumption == "managed" \notin UserTag /\ "other" \notin UserTag

VARIABLES
  strict,   \* whether the service answers, not its fake
  external, \* gcloud.externalIP
  nat,      \* whether the region has a Cloud NAT
  instance, \* the machine under each name, 0 for none
  pending,  \* operations of the service that are under way
  record,   \* the machine of each instance on record, 0 for none
  image,    \* labels and their fingerprint, Gone for a deleted one
  at,       \* where each process is, and what it has read
  made, faults

vars == <<strict, external, nat, instance, pending, record, image, at, made, faults>>

Gone == [labels |-> {"gone"}, fingerprint |-> 0]
Idle == [pc |-> "idle", name |-> "none", no |-> 0, image |-> "none", tag |-> "none", read |-> Gone]
Fault == faults < MaxFaults /\ faults' = faults + 1

Init ==
  /\ strict \in BOOLEAN /\ external \in BOOLEAN /\ nat \in BOOLEAN
  /\ instance = [n \in Name |-> 0] /\ pending = {} /\ record = [n \in Name |-> 0]
  /\ image = [i \in Image |-> [labels |-> {"managed"}, fingerprint |-> 0]]
  /\ at = [p \in Process |-> Idle] /\ made = 0 /\ faults = 0

At(p, pc) == at[p].pc = pc
Goto(p, pc) == at' = [at EXCEPT ![p].pc = pc]
End(p) == at' = [at EXCEPT ![p] = Idle]
IsNotFound(i) == image[i] = Gone

-------------------------------------------------------------------------------
(* The service: operations *)

Operation(kind, n, no) == [kind |-> kind, name |-> n, no |-> no]

\* The fake's operations are done when they are answered.
Begin(op, after) ==
  IF strict THEN pending' = pending \cup {op} /\ UNCHANGED instance
            ELSE instance' = [instance EXCEPT ![op.name] = after] /\ UNCHANGED pending

Taken(n) == strict /\ (instance[n] # 0 \/ \E o \in pending : o.name = n)
Missing(n) == strict /\ instance[n] = 0

\* An operation ends: a machine comes or goes, or the service could not make it.
Finishes(o) ==
  /\ o \in pending /\ pending' = pending \ {o}
  /\ \/ /\ o.kind = "insert"
        /\ \/ instance' = [instance EXCEPT ![o.name] = o.no] /\ UNCHANGED faults
           \/ Fault /\ UNCHANGED instance
     \/ /\ o.kind = "delete" /\ UNCHANGED faults
        /\ instance' = IF instance[o.name] = o.no THEN [instance EXCEPT ![o.name] = 0] ELSE instance
  /\ UNCHANGED <<strict, external, nat, record, image, at, made>>

\* Mutant of Done: a delete that was accepted counts as done.
Accepted(p) == \A o \in pending : o.name = at[p].name => o.kind = "delete"
Done(p) == \A o \in pending : o.name # at[p].name

-------------------------------------------------------------------------------
(* up *)

\* Without an external address a machine needs a NAT to reach the internet.
HasCloudNAT == nat

UpBegins(p, n) ==
  /\ At(p, "idle") /\ record[n] = 0 /\ made < MaxMachines
  /\ external \/ HasCloudNAT
  /\ at' = [at EXCEPT ![p] = [Idle EXCEPT !.pc = "insert", !.name = n]]
  /\ UNCHANGED <<instance, pending, record, made, faults>>

UpInserts(p) ==
  /\ At(p, "insert") /\ made < MaxMachines
  /\ IF Taken(at[p].name) THEN End(p) /\ UNCHANGED <<instance, pending, made>>
     ELSE /\ made' = made + 1
          /\ Begin(Operation("insert", at[p].name, made'), made')
          /\ at' = [at EXCEPT ![p].pc = "wait", ![p].no = made']
  /\ UNCHANGED <<record, faults>>

\* The machine is read back by its name, which is its ID from then on.
UpWaits(p) ==
  /\ At(p, "wait") /\ Done(p)
  /\ IF instance[at[p].name] = 0 THEN End(p)
     ELSE at' = [at EXCEPT ![p].pc = "put", ![p].no = instance[at[p].name]]
  /\ UNCHANGED <<instance, pending, record, made, faults>>

UpPuts(p) ==
  /\ At(p, "put") /\ record' = [record EXCEPT ![at[p].name] = at[p].no] /\ End(p)
  /\ UNCHANGED <<instance, pending, made, faults>>

\* A record that cannot be written: the machine is destroyed again.
UpPutFails(p) ==
  /\ At(p, "put") /\ Fault /\ Goto(p, "undo")
  /\ UNCHANGED <<instance, pending, record, made>>

(* down, and the cleanup of a failed up *)

DownBegins(p, n) ==
  /\ At(p, "idle") /\ record[n] # 0
  /\ at' = [at EXCEPT ![p] = [Idle EXCEPT !.pc = "delete", !.name = n, !.no = record[n]]]
  /\ UNCHANGED <<instance, pending, record, made, faults>>

\* A machine that is not there is an error like any other. (An operation of the
\* name that is under way is waited for first.)
Destroys(p) ==
  /\ at[p].pc \in {"delete", "undo"} /\ Done(p)
  /\ IF Missing(at[p].name) THEN End(p) /\ UNCHANGED <<instance, pending>>
     ELSE /\ Begin(Operation("delete", at[p].name, instance[at[p].name]), 0)
          /\ Goto(p, IF At(p, "delete") THEN "gone" ELSE "undone")
  /\ UNCHANGED <<record, made, faults>>

DownClears(p) ==
  /\ At(p, "gone") /\ Done(p)
  /\ record' = [record EXCEPT ![at[p].name] = 0] /\ End(p)
  /\ UNCHANGED <<instance, pending, made, faults>>

Undone(p) ==
  /\ At(p, "undone") /\ Done(p) /\ End(p)
  /\ UNCHANGED <<instance, pending, record, made, faults>>

\* The wait, or any other call, fails and the command ends; what the service has
\* begun goes on.
GivesUp(p) ==
  /\ ~At(p, "idle") /\ Fault /\ End(p)
  /\ UNCHANGED <<instance, pending, record, made>>

Machines(p) == /\ \/ \E n \in Name : UpBegins(p, n) \/ DownBegins(p, n)
                  \/ UpInserts(p) \/ UpWaits(p) \/ UpPuts(p) \/ UpPutFails(p) \/ Destroys(p)
                  \/ DownClears(p) \/ Undone(p) \/ GivesUp(p)
               /\ UNCHANGED <<strict, external, nat, image>>

-------------------------------------------------------------------------------
(* Images *)

TagReads(p, i, t) ==
  /\ At(p, "idle") /\ ~IsNotFound(i) /\ image[i].fingerprint < MaxTags
  /\ at' = [at EXCEPT ![p] = [Idle EXCEPT !.pc = "label", !.image = i, !.tag = t, !.read = image[i]]]
  /\ UNCHANGED image

\* The one label holds one tag: the last.
NewLabels(p) == (at[p].read.labels \ UserTag) \cup {at[p].tag}
Matches(p) == image[at[p].image].fingerprint = at[p].read.fingerprint

Relabelled(i, labels) ==
  image' = [image EXCEPT ![i] = [labels |-> labels, fingerprint |-> @.fingerprint + 1]]

\* The service sets the labels that are sent if its own are still those that were
\* read; the fake adds them to what it has.
TagWrites(p) ==
  /\ At(p, "label") /\ End(p)
  /\ IF IsNotFound(at[p].image) THEN UNCHANGED image
     ELSE IF strict
     THEN IF Matches(p) THEN Relabelled(at[p].image, NewLabels(p)) ELSE UNCHANGED image
     ELSE Relabelled(at[p].image, (image[at[p].image].labels \ UserTag) \cup NewLabels(p))

\* toProviderImage: only labels of bivouac's own become tags.
TagsOf(i) == image[i].labels \cap ({"managed"} \cup UserTag)

\* image prune of one image of a tag; it is as well if it is gone by then.
ListImages(t) == {i \in Image : t \in TagsOf(i)}
PruneLists(p, t) ==
  /\ At(p, "idle")
  /\ \E i \in ListImages(t) : "managed" \in TagsOf(i)
       /\ at' = [at EXCEPT ![p] = [Idle EXCEPT !.pc = "check", !.image = i, !.tag = t]]
  /\ UNCHANGED image

StillEligible(p) == {"managed", at[p].tag} \subseteq TagsOf(at[p].image)
PruneChecks(p) ==
  /\ At(p, "check") /\ UNCHANGED image
  /\ IF StillEligible(p) THEN Goto(p, "remove") ELSE End(p)
PruneDeletes(p) ==
  /\ At(p, "remove") /\ image' = [image EXCEPT ![at[p].image] = Gone] /\ End(p)

Images(p) == /\ \/ \E i \in Image, t \in UserTag : TagReads(p, i, t)
                \/ \E t \in UserTag : PruneLists(p, t)
                \/ TagWrites(p) \/ PruneChecks(p) \/ PruneDeletes(p)
             /\ UNCHANGED <<strict, external, nat, instance, pending, record, made, faults>>

-------------------------------------------------------------------------------
\* In the console of the project: a machine or the NAT goes, a label comes.
ByHand ==
  /\ Fault
  /\ \/ \E n \in Name : instance[n] # 0 /\ instance' = [instance EXCEPT ![n] = 0]
                        /\ UNCHANGED <<nat, image>>
     \/ nat' = FALSE /\ UNCHANGED <<instance, image>>
     \/ \E i \in Image : ~IsNotFound(i) /\ Relabelled(i, image[i].labels \cup {"other"})
                         /\ UNCHANGED <<instance, nat>>
  /\ UNCHANGED <<strict, external, pending, record, at, made>>

Next == (\E p \in Process : Machines(p) \/ Images(p)) \/ (\E o \in pending : Finishes(o)) \/ ByHand
Spec == Init /\ [][Next]_vars

-------------------------------------------------------------------------------
(* Properties *)

\* down takes an instance off the record only when the machine it was made for no
\* longer runs, however slowly the service deletes it and whoever else asked.
ClearedIsGone ==
  \A p \in Process : At(p, "gone") /\ Done(p) => instance[at[p].name] # at[p].no
===============================================================================
