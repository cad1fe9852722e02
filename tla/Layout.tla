--------------------------------- MODULE Layout ---------------------------------
(***************************************************************************)
(* Laying out a session's Herdr workspace (internal/lifecycle/herdrtabs.go,*)
(* called by cmd/run_attach.go): the configured tabs and panes are matched *)
(* by label, what is missing is made, and Herdr's own default tab is taken *)
(* over or closed. Nothing is locked while it runs: other attaches and the *)
(* user change the workspace between any two calls, each of which may fail.*)
(***************************************************************************)
EXTENDS Integers, Sequences, FiniteSets

CONSTANTS
  Attach,      \* the attaches of the workspace
  Overlap,     \* whether one may begin before another has ended
  Layouts,     \* the configurations: sequences of [label, away, panes]
  MaxPanes,    \* bound: panes ever made
  MaxUserActs, \* bound: things the user does in the workspace
  MaxFailures  \* bound: calls that fail

NoLabel == "none"

\* A label is not empty, and one that is repeated is skipped.
LayoutAssumption ==
  /\ Overlap \in BOOLEAN /\ MaxPanes \in Nat \ {0} /\ {MaxUserActs, MaxFailures} \subseteq Nat
  /\ \A l \in Layouts :
       /\ l \in Seq([label : STRING, away : BOOLEAN, panes : Seq(STRING)])
       /\ \A i \in DOMAIN l : \A k \in DOMAIN l[i].panes :
            /\ l[i].panes[k] # NoLabel
            /\ \A j \in DOMAIN l[i].panes : l[i].panes[j] = l[i].panes[k] => j = k
       /\ \A i, j \in DOMAIN l : l[i].label = l[j].label => i = j

VARIABLES
  tabs,   \* the tabs there are: their labels, by id
  panes,  \* the panes there are, [tab, label], by id
  made,   \* panes, and so tabs, made so far
  att,    \* the state of each attach
  acts,   \* what the user has done
  fails   \* calls that have failed

vars == <<tabs, panes, made, att, acts, fails>>

Pane(tab) == [tab |-> tab, label |-> NoLabel]

\* seenTabs, seenPanes: the listings an attach works from; spare: the default tab it may
\* take, with its pane; tab, anchor: where the next pane goes; root: the pane a new tab
\* opened with; missed: the tabs that failed; since: the user's acts before it.
New == [pc |-> "new", layout |-> <<>>, spare |-> {}, seenTabs |-> <<>>, seenPanes |-> <<>>,
        t |-> 1, k |-> 1, tab |-> 0, anchor |-> 0, root |-> 0, pane |-> 0, missed |-> {},
        since |-> 0]

\* herdr opens a workspace with a tab of its own.
Init ==
  /\ tabs = [t \in {1} |-> "1"] /\ panes = [p \in {1} |-> Pane(1)] /\ made = 1
  /\ att = [a \in Attach |-> New] /\ acts = 0 /\ fails = 0

At(a, pc) == att[a].pc = pc
Goto(a, pc) == att' = [att EXCEPT ![a].pc = pc]
Tab(a) == att[a].layout[att[a].t]
Wanted(a) == Tab(a).panes[att[a].k]
Listed(a, tab) == {p \in DOMAIN att[a].seenPanes : att[a].seenPanes[p].tab = tab}
Lowest(S) == CHOOSE x \in S : \A y \in S : x <= y
Named(listing, label) == {x \in DOMAIN listing : listing[x].label = label}
Without(f, S) == [x \in DOMAIN f \ S |-> f[x]]
With(f, x, y) == [z \in DOMAIN f \cup {x} |-> IF z = x THEN y ELSE f[z]]

-------------------------------------------------------------------------------
(* An attach *)

\* The tabs come from the configuration as it is at this moment.
Begins(a) ==
  /\ At(a, "new") /\ (Overlap \/ \A b \in Attach : att[b].pc \in {"new", "done"})
  /\ \E l \in Layouts :
       att' = [att EXCEPT ![a].layout = l, ![a].since = acts, ![a].pc = IF l = <<>> THEN "done" ELSE "spare"]
  /\ UNCHANGED <<tabs, panes, made, acts, fails>>

Configured(l) == {l[i].label : i \in DOMAIN l}

\* The only tab, with a single pane, and no configured tab has its label.
Pristine(l) ==
  {[tab |-> panes[p].tab, root |-> p] : p \in {q \in DOMAIN panes :
     /\ DOMAIN tabs = {panes[q].tab} /\ tabs[panes[q].tab] \notin Configured(l)
     /\ DOMAIN panes = {q}}}

\* The attach asks for it in every workspace, new or not.
FindsSpare(a) ==
  /\ At(a, "spare")
  /\ att' = [att EXCEPT ![a].spare = Pristine(att[a].layout), ![a].pc = "list"]
  /\ UNCHANGED <<tabs, panes, made, acts, fails>>

Lists(a) ==
  /\ At(a, "list")
  /\ att' = [att EXCEPT ![a].seenTabs = [t \in DOMAIN tabs |-> [label |-> tabs[t]]],
                        ![a].seenPanes = panes, ![a].pc = "tab"]
  /\ UNCHANGED <<tabs, panes, made, acts, fails>>

\* The next tab, or the end of them; one that has a tab already goes to its panes.
Opens(a, tab, root) ==
  att' = [att EXCEPT ![a].tab = tab, ![a].root = root, ![a].k = 1, ![a].pc = "pane",
                     ![a].anchor = IF Listed(a, tab) = {} THEN root ELSE Lowest(Listed(a, tab))]

Finds(a) ==
  /\ At(a, "tab") /\ att[a].t <= Len(att[a].layout)
  /\ Named(att[a].seenTabs, Tab(a).label) # {}
  /\ Opens(a, Lowest(Named(att[a].seenTabs, Tab(a).label)), 0)
  /\ UNCHANGED <<tabs, panes, made, acts, fails>>

MayTake(a) == att[a].spare # {} /\ ~Tab(a).away

\* The default tab is renamed, and its pane is the tab's first.
Takes(a) ==
  /\ At(a, "tab") /\ att[a].t <= Len(att[a].layout) /\ MayTake(a)
  /\ Named(att[a].seenTabs, Tab(a).label) = {}
  /\ \E s \in att[a].spare :
       /\ s.tab \in DOMAIN tabs
       /\ tabs' = [tabs EXCEPT ![s.tab] = Tab(a).label]
       /\ att' = [att EXCEPT ![a].tab = s.tab, ![a].root = s.root, ![a].anchor = s.root,
                             ![a].spare = {}, ![a].k = 1, ![a].pc = "pane"]
  /\ UNCHANGED <<panes, made, acts, fails>>

Creates(a) ==
  /\ At(a, "tab") /\ att[a].t <= Len(att[a].layout) /\ ~MayTake(a) /\ made < MaxPanes
  /\ Named(att[a].seenTabs, Tab(a).label) = {}
  /\ made' = made + 1
  /\ tabs' = With(tabs, made', Tab(a).label) /\ panes' = With(panes, made', Pane(made'))
  /\ Opens(a, made', made')
  /\ UNCHANGED <<acts, fails>>

-------------------------------------------------------------------------------
(* The panes of a tab *)

Here(a) == {p \in Listed(a, att[a].tab) : att[a].seenPanes[p].label = Wanted(a)}

IsThere(a) == Here(a) # {}

\* A pane that is there is left as it is, and the next one goes beside it.
Keeps(a) ==
  /\ At(a, "pane") /\ att[a].k <= Len(Tab(a).panes) /\ IsThere(a)
  /\ att' = [att EXCEPT ![a].anchor = Lowest(Here(a)), ![a].k = @ + 1]
  /\ UNCHANGED <<tabs, panes, made, acts, fails>>

UsesRoot(a) == att[a].k = 1 /\ att[a].root # 0

Splits(a) ==
  /\ At(a, "pane") /\ att[a].k <= Len(Tab(a).panes) /\ ~IsThere(a)
  /\ IF UsesRoot(a)
     THEN /\ att' = [att EXCEPT ![a].pane = att[a].root, ![a].pc = "name"]
          /\ UNCHANGED <<panes, made>>
     ELSE /\ att[a].anchor \in DOMAIN panes /\ made < MaxPanes
          /\ made' = made + 1 /\ panes' = With(panes, made', Pane(panes[att[a].anchor].tab))
          /\ att' = [att EXCEPT ![a].pane = made', ![a].pc = "name"]
  /\ UNCHANGED <<tabs, acts, fails>>

Names(a) ==
  /\ At(a, "name") /\ att[a].pane \in DOMAIN panes
  /\ panes' = [panes EXCEPT ![att[a].pane].label = Wanted(a)]
  /\ Goto(a, "run")
  /\ UNCHANGED <<tabs, made, acts, fails>>

\* Its command, or nothing if it has none.
Runs(a) ==
  /\ At(a, "run") /\ att[a].pane \in DOMAIN panes
  /\ att' = [att EXCEPT ![a].anchor = att[a].pane, ![a].k = @ + 1, ![a].pc = "pane"]
  /\ UNCHANGED <<tabs, panes, made, acts, fails>>

TabDone(a) ==
  /\ At(a, "pane") /\ att[a].k > Len(Tab(a).panes)
  /\ att' = [att EXCEPT ![a].t = @ + 1, ![a].pc = "tab"]
  /\ UNCHANGED <<tabs, panes, made, acts, fails>>

-------------------------------------------------------------------------------
(* The end, and failures *)

\* Mutant of AfterFailure: the first tab that fails is the last one tried.
Stops(a) == Len(att[a].layout) + 1
AfterFailure(a) == att[a].t + 1

\* What a call is about is no longer there.
Gone(a) ==
  \/ At(a, "tab") /\ MayTake(a) /\ \A s \in att[a].spare : s.tab \notin DOMAIN tabs
  \/ At(a, "pane") /\ ~UsesRoot(a) /\ att[a].anchor \notin DOMAIN panes
  \/ att[a].pc \in {"name", "run"} /\ att[a].pane \notin DOMAIN panes

\* The tabs after one that fails are still laid out.
TabFails(a) ==
  /\ att[a].pc \in {"tab", "pane", "name", "run"} /\ att[a].t <= Len(att[a].layout)
  /\ IF Gone(a) THEN UNCHANGED fails ELSE fails < MaxFailures /\ fails' = fails + 1
  /\ att' = [att EXCEPT ![a].missed = @ \cup {Tab(a).label}, ![a].t = AfterFailure(a),
                        ![a].pc = "tab"]
  /\ UNCHANGED <<tabs, panes, made, acts>>

\* Without its listings an attach lays out nothing; without the first, it takes no tab.
ListingFails(a) ==
  /\ att[a].pc \in {"spare", "list"} /\ fails < MaxFailures /\ fails' = fails + 1
  /\ att' = [att EXCEPT ![a].pc = IF @ = "spare" THEN "list" ELSE "done",
                        ![a].missed = IF att[a].pc = "list" THEN Configured(att[a].layout) ELSE {}]
  /\ UNCHANGED <<tabs, panes, made, acts>>

\* A default tab nothing has taken is closed, but only when every tab is there.
Ends(a) ==
  /\ At(a, "tab") /\ att[a].t > Len(att[a].layout) /\ Goto(a, "done")
  /\ LET shut == IF att[a].missed = {} THEN {s.tab : s \in att[a].spare} ELSE {}
     IN  /\ tabs' = Without(tabs, shut)
         /\ panes' = Without(panes, {p \in DOMAIN panes : panes[p].tab \in shut})
  /\ UNCHANGED <<made, acts, fails>>

-------------------------------------------------------------------------------
(* The user *)

\* A tab goes with its last pane.
ClosesPane ==
  /\ acts < MaxUserActs /\ acts' = acts + 1
  /\ \E p \in DOMAIN panes :
       /\ panes' = Without(panes, {p})
       /\ tabs' = Without(tabs, {t \in {panes[p].tab} : \A q \in DOMAIN panes' : panes'[q].tab # t})
  /\ UNCHANGED <<made, att, fails>>

OpensPane ==
  /\ acts < MaxUserActs /\ acts' = acts + 1 /\ made < MaxPanes /\ made' = made + 1
  /\ \E p \in DOMAIN panes : panes' = With(panes, made', Pane(panes[p].tab))
  /\ UNCHANGED <<tabs, att, fails>>

Step(a) == \/ Begins(a) \/ FindsSpare(a) \/ Lists(a) \/ Finds(a) \/ Takes(a) \/ Creates(a)
           \/ Keeps(a) \/ Splits(a) \/ Names(a) \/ Runs(a) \/ TabDone(a) \/ TabFails(a)
           \/ ListingFails(a) \/ Ends(a)

Next == (\E a \in Attach : Step(a)) \/ ClosesPane \/ OpensPane

Spec == Init /\ [][Next]_vars

-------------------------------------------------------------------------------
(* Properties *)

Has(tab) == \E t \in DOMAIN tabs :
              /\ tabs[t] = tab.label
              /\ \A k \in DOMAIN tab.panes :
                   \E p \in DOMAIN panes : panes[p].tab = t /\ panes[p].label = tab.panes[k]

\* The attach named a pane that had a name: the first pane of a tab it took over although
\* an earlier attach had laid it out. Its listing still has the old name.
Renames(a) ==
  \E p \in DOMAIN att[a].seenPanes \cap DOMAIN panes :
    att[a].seenPanes[p].label \notin {NoLabel, panes[p].label}

\* Every tab an attach did not report as failed is there, with all its panes, unless the
\* user has changed the workspace meanwhile, or the attach renamed a pane and so counts one
\* as there that is not (a hazard). With Overlap one attach may also take the tab that
\* another has just found (a hazard of its own).
LaysOut ==
  \A a \in Attach :
    At(a, "tab") /\ att'[a].pc = "done" /\ acts = att[a].since /\ ~Renames(a)
      => \A i \in DOMAIN att[a].layout : att[a].layout[i].label \in att[a].missed
                                         \/ Has(att[a].layout[i])'
================================================================================
