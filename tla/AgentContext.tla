------------------------------ MODULE AgentContext ------------------------------
(***************************************************************************)
(* The instructions file of a coding agent on the instance                 *)
(* (internal/agentcontext): a managed block, spliced into whatever else    *)
(* the file holds. Provisioning writes it and so does every session start, *)
(* each as a read, a splice and a write over SSH, with nothing between     *)
(* them but the agent and the user, who may add lines of their own.        *)
(***************************************************************************)
EXTENDS Integers, Sequences, FiniteSets, SequencesExt

CONSTANTS
  Writer,       \* the processes that deliver the block
  Instructions, \* what the user's instructions files hold, version by version
  MaxLines,     \* bound: lines added to the file by hand
  MaxFaults     \* bound: reads that fail, writes cut short, processes that die

AgentContextAssumption ==
  /\ Instructions \in Seq(Seq(STRING)) /\ Len(Instructions) > 0
  /\ {MaxLines, MaxFaults} \subseteq Nat

VARIABLES
  file,    \* the lines of the file
  version, \* which of Instructions is current
  writer,  \* where each writer is, and what it rendered and read
  added,   \* lines added by hand so far
  faults

vars == <<file, version, writer, added, faults>>

Idle == [pc |-> "idle", version |-> 0, existing |-> <<>>]

Init ==
  /\ file \in {<<>>, <<"mine">>, <<"mine", "quoted end", "mine">>, <<"end", "mine">>}
  /\ version = 1 /\ writer = [w \in Writer |-> Idle] /\ added = 0 /\ faults = 0

At(w, pc) == writer[w].pc = pc
Ends(w) == writer' = [writer EXCEPT ![w] = Idle]

-------------------------------------------------------------------------------
(* Render and Splice *)

Render(v) == <<"begin", "facts">> \o Instructions[v] \o <<"end">>

IsMarker(line, marker) == line = marker

\* lineIndex: the first line from i on that is the marker (0: none).
LineIndex(f, marker, i) ==
  LET found == {n \in i..Len(f) : IsMarker(f[n], marker)}
  IN IF found = {} THEN 0 ELSE Min(found)

CloseFrom(start) == start + 1

\* Mutant of Splice: the block is appended whatever is there.
Appended(existing, block) ==
  IF existing = <<>> THEN block ELSE existing \o <<"blank">> \o block

\* A block that nothing closes is bivouac's own, cut short: it goes to the end.
Splice(existing, block) ==
  LET start == LineIndex(existing, "begin", 1)
      close == LineIndex(existing, "end", CloseFrom(start))
      head == SubSeq(existing, 1, start - 1)
  IN IF start = 0 THEN Appended(existing, block)
     ELSE IF close # 0 THEN head \o block \o SubSeq(existing, close + 1, Len(existing))
     ELSE head \o block

-------------------------------------------------------------------------------
(* Write, for one harness's file *)

\* The instructions are read on the user's machine when the block is rendered.
Renders(w) ==
  /\ At(w, "idle")
  /\ writer' = [writer EXCEPT ![w] = [Idle EXCEPT !.pc = "read", !.version = version]]
  /\ UNCHANGED <<file, version, added, faults>>

\* remote.ReadFile: every failure reads as an empty file.
Reads(w) ==
  /\ At(w, "read")
  /\ \/ writer' = [writer EXCEPT ![w].pc = "write", ![w].existing = file] /\ UNCHANGED faults
     \/ /\ faults < MaxFaults /\ faults' = faults + 1
        /\ writer' = [writer EXCEPT ![w].pc = "write", ![w].existing = <<>>]
  /\ UNCHANGED <<file, version, added>>

New(w) == Splice(writer[w].existing, Render(writer[w].version))

Writes(w) ==
  /\ At(w, "write")
  /\ file' = New(w) /\ Ends(w)
  /\ UNCHANGED <<version, added, faults>>

\* The connection is lost under `cat > file`: a prefix arrived, its last line
\* perhaps in part.
WritesPart(w) ==
  /\ At(w, "write") /\ faults < MaxFaults /\ faults' = faults + 1
  /\ \E n \in 0..Len(New(w)) - 1, part \in {<<>>, <<"part">>} :
       file' = SubSeq(New(w), 1, n) \o part
  /\ Ends(w)
  /\ UNCHANGED <<version, added>>

Dies(w) ==
  /\ At(w, "read") /\ faults < MaxFaults /\ faults' = faults + 1
  /\ Ends(w) /\ UNCHANGED <<file, version, added>>

\* An agent, or the user, adds a line above or below what is there.
Adds ==
  /\ added < MaxLines /\ added' = added + 1
  /\ \E line \in {"mine", "quoted begin"} : file' \in {<<line>> \o file, file \o <<line>>}
  /\ UNCHANGED <<version, writer, faults>>

EditsInstructions ==
  /\ version < Len(Instructions) /\ version' = version + 1
  /\ UNCHANGED <<file, writer, added, faults>>

Next == \/ \E w \in Writer : Renders(w) \/ Reads(w) \/ Writes(w) \/ WritesPart(w) \/ Dies(w)
        \/ Adds \/ EditsInstructions

Spec == Init /\ [][Next]_vars

-------------------------------------------------------------------------------
(* Properties *)

\* The places of a marker in a file, alone on its line.
Markers(f, m) == {n \in DOMAIN f : f[n] = m}
Begin(f) == IF Markers(f, "begin") = {} THEN Len(f) + 1 ELSE Min(Markers(f, "begin"))

\* A write that is not cut off leaves the instructions its writer rendered as the
\* block a reader finds first, never a stale one above it.
Delivery ==
  \A w \in Writer : Writes(w) =>
    LET block == Render(writer[w].version)
    IN SubSeq(file', Begin(file'), Begin(file') + Len(block) - 1) = block
================================================================================
