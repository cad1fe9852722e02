--------------------------------- MODULE Setup ---------------------------------
(***************************************************************************)
(* The configuration files and the commands that write them: the personal  *)
(* base.pkl that every project shares, one bivouac.pkl per project, the    *)
(* saved presets (cmd/init.go, init_keys.go, up.go, preset.go,             *)
(* internal/config, internal/wizard, internal/preset). A command asks its  *)
(* questions between reading a file and writing it back, takes no lock and *)
(* may be interrupted at any of them.                                      *)
(***************************************************************************)
EXTENDS Naturals

CONSTANTS
  Process,       \* the terminals a command runs in
  Project,       \* the repositories
  FirstProjects, \* bound: what a bivouac.pkl may hold at first
  FirstBases,    \* bound: what base.pkl may hold at first
  Answer,        \* Answer[f]: bound on what is answered to the question for f
  Key,           \* the public-key files that can be chosen
  Overlap,       \* whether two commands may run at the same time
  MaxCommands    \* bound: commands that are run

VARIABLES
  project,  \* each project's bivouac.pkl
  base,     \* base.pkl
  preset,   \* the one preset there may be
  cmd,      \* where each terminal is
  commands

vars == <<project, base, preset, cmd, commands>>

\* A file is the set of fields it declares and their values. provider stands for
\* the five fields that Config.pkl has and the renderer does not; size for the
\* personal scalars, template and beads for the project's, image for the fields
\* nobody is asked about. The keys are a set: the code's listing has an order.
File(values) == [there |-> TRUE, values |-> values]
NoFile == [there |-> FALSE, values |-> <<>>]

KnownField == {"provider", "size", "template", "image", "beads", "sshKeys", "instructions"}
Holding(file, values) == [there |-> file.there, values |-> values]

\* A file that is not there declares nothing, and Config.pkl amends no other field.
SetupAssumption ==
  /\ Overlap \in BOOLEAN /\ MaxCommands \in Nat /\ "old" \notin Key
  /\ \A file \in FirstProjects :
       /\ file = Holding(file, file.values) /\ file.there \in BOOLEAN
       /\ DOMAIN file.values \subseteq IF file.there THEN KnownField ELSE {}

fieldOrder == KnownField \ {"provider"}
PersonalFields == {"size", "sshKeys", "instructions"}
MovablePersonalFields == PersonalFields \ {"instructions"}
PersonalQuestions == {"size", "instructions"}
ProjectQuestions == {"template", "beads"}

IsDefault(f, v) == f = "beads" /\ v = "session"
isBlank(v) == v = ""

Only(v, fields) == [f \in DOMAIN v \cap fields |-> v[f]]
merge(under, over) ==
  [f \in DOMAIN under \cup DOMAIN over |-> IF f \in DOMAIN over THEN over[f] ELSE under[f]]
currentKeys(v) == IF "sshKeys" \in DOMAIN v THEN v["sshKeys"] ELSE {}

\* ReadValues and Render: the same fields are lost on either side.
declaredFields(v) == DOMAIN v \cap KnownField
ReadValues(v) == Only(v, declaredFields(v) \cap fieldOrder)
readIfPresent(file) == Holding(file, ReadValues(file.values))
Render(v) == Only(v, fieldOrder)

\* mergeConfig: a scalar is the project's if it declares one, lists add up.
Merged(under, over) ==
  IF "sshKeys" \in DOMAIN under \cup DOMAIN over
  THEN [merge(under, over) EXCEPT !["sshKeys"] = currentKeys(under) \cup currentKeys(over)]
  ELSE merge(under, over)

Set(v, f) == f \in DOMAIN v /\ ~isBlank(v[f])
\* validate, after the keys: no legacy entry is a path.
Valid(v) == /\ "old" \notin currentKeys(v)
            /\ Set(v, "template") /\ (Set(v, "provider") \/ Set(v, "size"))
Config(p) == Merged(base.values, project[p].values)
Resolves(p) == project[p].there /\ Valid(Config(p))

-------------------------------------------------------------------------------
Idle == [pc |-> "idle", at |-> "none", up |-> FALSE,
         existing |-> NoFile, lifted |-> <<>>, base |-> NoFile, values |-> <<>>]

Init ==
  /\ project \in [Project -> FirstProjects] /\ base \in FirstBases /\ preset = NoFile
  /\ cmd = [c \in Process |-> Idle] /\ commands = 0

At(c, pc) == cmd[c].pc = pc
Here(c) == cmd[c].at
Goto(c, pc) == cmd' = [cmd EXCEPT ![c].pc = pc]
Ends(c) == cmd' = [cmd EXCEPT ![c] = Idle]

\* ask: every question starts from what is there; an answer that is blank, or
\* the schema's default, adds no line.
Choices(q, seed) == Answer[q] \cup (IF q \in DOMAIN seed THEN {seed[q]} ELSE {})
Answers(questions, seed) ==
  {a \in [questions -> UNION {Choices(q, seed) : q \in questions}] :
     \A q \in questions : a[q] \in Choices(q, seed)}
Recorded(a, seed) ==
  {q \in DOMAIN a : q \in DOMAIN seed \/ ~(isBlank(a[q]) \/ IsDefault(q, a[q]))}
ask(questions, seed) == {merge(seed, Only(a, Recorded(a, seed))) : a \in Answers(questions, seed)}

\* askSSHKeys: the files that are chosen; with none the line is taken away.
WithKeys(v, keys) ==
  IF keys = {} THEN Only(v, KnownField \ {"sshKeys"}) ELSE merge(v, [sshKeys |-> keys])

\* repairLegacyKeys: only a file with an entry that is no path is asked about.
repaired(v) ==
  IF "old" \in currentKeys(v) THEN {WithKeys(v, k) : k \in SUBSET Key} ELSE {v}

Begins(c) ==
  /\ At(c, "idle") /\ commands < MaxCommands /\ commands' = commands + 1
  /\ Overlap \/ \A d \in Process : At(d, "idle")

StartsInit(c, p) ==
  /\ Begins(c)
  /\ cmd' = [cmd EXCEPT ![c] = [Idle EXCEPT !.pc = "move", !.at = p,
                                            !.existing = readIfPresent(project[p])]]
  /\ UNCHANGED <<project, base, preset>>

\* resolveOrInit: only a file that is not there starts the questions.
StartsUp(c, p) ==
  /\ Begins(c)
  /\ IF project[p].there /\ ~Resolves(p) THEN Ends(c)
     ELSE cmd' = [cmd EXCEPT ![c] = [Idle EXCEPT !.at = p, !.up = TRUE,
                                      !.pc = IF project[p].there THEN "ensure" ELSE "move"]]
  /\ UNCHANGED <<project, base, preset>>

\* offerMove, once the keys are repaired.
Moves(c) ==
  /\ At(c, "move")
  /\ \E v \in repaired(cmd[c].existing.values) :
       \/ cmd' = [cmd EXCEPT ![c].pc = "personal", ![c].existing = Holding(cmd[c].existing, v)]
       \/ /\ DOMAIN v \cap MovablePersonalFields # {}
          /\ cmd' = [cmd EXCEPT ![c].pc = "personal",
                                ![c].lifted = Only(v, MovablePersonalFields),
                                ![c].existing = Holding(cmd[c].existing,
                                                        Only(v, KnownField \ MovablePersonalFields))]
  /\ UNCHANGED <<project, base, preset, commands>>

\* settlePersonal reads base.pkl, the first moment it looks at it.
ReadsBase(c) ==
  /\ At(c, "personal")
  /\ cmd' = [cmd EXCEPT ![c].pc = "settle", ![c].base = readIfPresent(base)]
  /\ UNCHANGED <<project, base, preset, commands>>

askPersonal(v) == {WithKeys(w, k) : w \in ask(PersonalQuestions, v), k \in SUBSET Key}
askMissing(v) == ask(PersonalQuestions \ DOMAIN v, v)

Settles(c) ==
  /\ At(c, "settle")
  /\ \E b \in repaired(cmd[c].base.values) :
       LET v == merge(b, cmd[c].lifted) IN
       \E w \in (IF DOMAIN cmd[c].lifted # {} THEN askMissing(v)
                 ELSE IF cmd[c].base.there THEN askMissing(v) \cup askPersonal(v)
                 ELSE askPersonal(v)) : 
            cmd' = [cmd EXCEPT ![c].pc = "personalize", ![c].values = w]
  /\ UNCHANGED <<project, base, preset, commands>>

\* Mutant of Writes: only a new base.pkl is written.
OnlyNew(c) == ~cmd[c].base.there
Writes(c) == ~cmd[c].base.there \/ cmd[c].values # cmd[c].base.values

WritesBase(c) ==
  /\ At(c, "personalize")
  /\ IF DOMAIN cmd[c].values # {} /\ Writes(c) THEN base' = File(Render(cmd[c].values))
     ELSE UNCHANGED base
  /\ cmd' = [cmd EXCEPT ![c].pc = "ask", ![c].base = File(cmd[c].values)]
  /\ UNCHANGED <<project, preset, commands>>

\* offerPresets: a project that has no file may start from the preset.
Seeds(c) == IF cmd[c].existing.there THEN {cmd[c].existing.values} ELSE {<<>>, preset.values}

AsksProject(c) ==
  /\ At(c, "ask")
  /\ \E seed \in Seeds(c) : \E v \in ask(ProjectQuestions, seed) :
       cmd' = [cmd EXCEPT ![c].pc = "write", ![c].values = v]
  /\ UNCHANGED <<project, base, preset, commands>>

WritesProject(c) ==
  /\ At(c, "write")
  /\ project' = [project EXCEPT ![Here(c)] = File(Render(cmd[c].values))]
  /\ Goto(c, "check") /\ UNCHANGED <<base, preset, commands>>

\* The read-back; what it refuses has been written.
ReadsBack(c) ==
  /\ At(c, "check") /\ IF Resolves(Here(c)) THEN Goto(c, "preset") ELSE Ends(c)
  /\ UNCHANGED <<project, base, preset, commands>>

PresetValues(answers, under) ==
  Only(answers, ProjectQuestions \cup
                {f \in {"size"} : f \notin DOMAIN under \/ (f \in DOMAIN answers /\ answers[f] # under[f])})

\* offerPreset; init is done, and up goes on with what was written.
OffersPreset(c) ==
  /\ At(c, "preset")
  /\ \/ UNCHANGED preset
     \/ preset' = File(PresetValues(merge(cmd[c].base.values, cmd[c].values), cmd[c].base.values))
  /\ IF cmd[c].up THEN Goto(c, "ensure") ELSE Ends(c)
  /\ UNCHANGED <<project, base, commands>>

-------------------------------------------------------------------------------
(* up asks for a key when no file names one; preset edit; image build *)

Ensures(c) ==
  /\ At(c, "ensure")
  /\ IF Resolves(Here(c)) /\ currentKeys(Config(Here(c))) = {}
     THEN cmd' = [cmd EXCEPT ![c].pc = "keys", ![c].base = readIfPresent(base)]
     ELSE Ends(c)
  /\ UNCHANGED <<project, base, preset, commands>>

\* ensureSSHKeysWith writes what it read, before the question, and the keys.
ChoosesKeys(c) ==
  /\ At(c, "keys")
  /\ \E k \in SUBSET Key \ {{}} : base' = File(Render(WithKeys(cmd[c].base.values, k)))
  /\ Ends(c) /\ UNCHANGED <<project, preset, commands>>

EditsPreset(c) ==
  /\ Begins(c) /\ preset.there
  /\ cmd' = [cmd EXCEPT ![c].pc = "edit", ![c].values = ReadValues(preset.values)]
  /\ UNCHANGED <<project, base, preset>>

SavesEdit(c) ==
  /\ At(c, "edit") /\ \E v \in ask(ProjectQuestions, cmd[c].values) : preset' = File(Render(v))
  /\ Ends(c) /\ UNCHANGED <<project, base, commands>>

DeletesPreset(c) ==
  /\ Begins(c) /\ preset.there /\ preset' = NoFile /\ UNCHANGED <<project, base, cmd>>

\* image build's SetImage edits the one line of the file it was given.
WithImage(file) == Holding(file, merge(file.values, [image |-> "tag"]))
SetsImage(c) ==
  /\ Begins(c)
  /\ \/ \E p \in Project : /\ project[p].there /\ UNCHANGED base
                           /\ project' = [project EXCEPT ![p] = WithImage(@)]
     \/ base.there /\ base' = WithImage(base) /\ UNCHANGED project
  /\ UNCHANGED <<preset, cmd>>

Interrupted(c) == cmd[c].pc # "idle" /\ Ends(c) /\ UNCHANGED <<project, base, preset, commands>>

Next ==
  \E c \in Process :
    \/ \E p \in Project : StartsInit(c, p) \/ StartsUp(c, p)
    \/ Moves(c) \/ ReadsBase(c) \/ Settles(c) \/ WritesBase(c) \/ AsksProject(c)
    \/ WritesProject(c) \/ ReadsBack(c) \/ OffersPreset(c) \/ Ensures(c) \/ ChoosesKeys(c)
    \/ EditsPreset(c) \/ SavesEdit(c) \/ DeletesPreset(c) \/ SetsImage(c) \/ Interrupted(c)

Spec == Init /\ [][Next]_vars

-------------------------------------------------------------------------------
\* A setting that init takes out of a project's file is in base.pkl by then, with
\* the project's value instead of the one there, wherever the questions were
\* interrupted; only a size and the keys leave, since a path of instructions would
\* mean another file there. (The line of no renderer goes, and the keys that are
\* asked about anew because one was a legacy entry.)
Moving ==
  \A p \in Project : \A f \in DOMAIN project[p].values \ DOMAIN project'[p].values :
    \/ f = "provider"
    \/ /\ f \in {"size", "sshKeys"} /\ f \in DOMAIN base'.values
       /\ base'.values[f] = project[p].values[f]
    \/ f = "sshKeys" /\ "old" \in project[p].values[f]
===============================================================================
