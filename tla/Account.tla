-------------------------------- MODULE Account --------------------------------
(***************************************************************************)
(* A provider account behind its API, as the calls of                      *)
(* internal/provider/digitalocean meet it and the fake server of its tests *)
(* (dofake) serves them: droplets, images that are pending for a while,    *)
(* public keys, and listings that come in pages. Each request is one step. *)
(***************************************************************************)
EXTENDS Integers, FiniteSets, FiniteSetsExt

CONSTANTS
  Kind,       \* [region, shell, disk] of an image
  Fp,         \* the fingerprints of public keys
  PageSize,   \* entries in a page of a listing
  Pending,    \* how many reads of a new snapshot find it pending
  MaxImages,  \* bound: images ever made
  MaxMachines \* bound: droplets ever made

VARIABLES
  images,   \* the account's images by number; a later one is newer
  droplets, \* the machines by number
  keys,     \* the account's public keys: [id, fp]
  made      \* the numbers given out so far

account == <<images, droplets, keys, made>>

Img(kind, tags, pending) == [kind |-> kind, tags |-> tags, pending |-> pending]
Tags == {"user", "markers"}

Without(f, x) == [i \in DOMAIN f \ {x} |-> f[i]]
With(f, x, v) == [i \in DOMAIN f \cup {x} |-> IF i = x THEN v ELSE f[i]]

-------------------------------------------------------------------------------
(* images *)

\* Every response that carries an image brings it closer to being available.
Read(S) == [i \in DOMAIN images |->
              IF i \in S /\ images[i].pending > 0 THEN [images[i] EXCEPT !.pending = @ - 1]
                                                  ELSE images[i]]

Tagged == {i \in DOMAIN images : "user" \in images[i].tags}
Position(i) == Cardinality({j \in Tagged : j < i})
Page(n) == {i \in Tagged : Position(i) \div PageSize = n}
IsLastPage(n) == Cardinality(Tagged) <= (n + 1) * PageSize

\* A ready snapshot with every marker; it is in the scope of its region if
\* tagged, too.
Ready(i) == i \in DOMAIN images /\ "markers" \in images[i].tags /\ images[i].pending = 0
Eligible(i) == Ready(i) /\ i \in Tagged

TagImage(i, ts) == [images EXCEPT ![i].tags = @ \cup ts]
DeleteImage(i) == Without(images, i)
Snapshot(kind) == With(images, made.image + 1, Img(kind, {}, Pending))

-------------------------------------------------------------------------------
(* droplets *)

Stock == 0
Usable(i, want) == i = Stock \/ (/\ i \in DOMAIN images /\ images[i].pending = 0
                                 /\ images[i].kind.region = want.region
                                 /\ images[i].kind.disk <= want.disk)

\* A create names keys by number; one that is not there refuses it.
Creatable(image, ids, want) == Usable(image, want) /\ ids \subseteq {k.id : k \in keys}

Machine(image, kind, ids, asked) ==
  [boots |-> image, kind |-> kind, admits |-> {k.fp : k \in {l \in keys : l.id \in ids}},
   asked |-> asked, on |-> TRUE]

CreateDroplet(m) == With(droplets, made.droplet + 1, m)
DeleteDroplet(d) == Without(droplets, d)

-------------------------------------------------------------------------------
(* keys *)

Registered(fp) == \E k \in keys : k.fp = fp
KeyOf(fp) == CHOOSE k \in keys : k.fp = fp
CreateKey(fp) == keys \cup {[id |-> made.key + 1, fp |-> fp]}
================================================================================
