-------------------------------- MODULE Serving --------------------------------
(***************************************************************************)
(* Reaching a service of an instance (cmd/run_ports.go, internal/lifecycle *)
(* serve.go, connect.go, listeners.go, tailscale.go): connect forwards a   *)
(* port or names a tailnet address, serve and unserve publish one, and     *)
(* tailscale joins the tailnet. What a command has read from the instance  *)
(* may be out of date when it uses it: services, the tailnet and the local *)
(* ports change between its steps.                                         *)
(***************************************************************************)
EXTENDS Naturals, FiniteSets

CONSTANTS
  Process,    \* the terminals a command runs in
  Port,       \* the ports of services, here and on the instance
  InfraPorts, \* those of sshd and the resolver
  OtherPort,  \* a local port the system hands out
  Bind,       \* bound: the addresses services listen on
  MaxEvents   \* bound: changes nobody at these terminals made

ServingAssumption ==
  /\ InfraPorts \subseteq Port /\ OtherPort \notin Port /\ MaxEvents \in Nat
  /\ Bind \subseteq {"any", "loopback", "mapped", "lan", "tailnet"}
  /\ {"free", "user"} \cap Process = {}

VARIABLES
  sockets,  \* what listens on the instance
  entries,  \* the ports tailscale serve publishes
  tailnet,  \* joined: the record says so; up: there is an address; linked: it answers here
  key,      \* an auth key lies in the instance's runtime directory
  local,    \* who holds each local port
  cmd,      \* where each terminal is
  events

vars == <<sockets, entries, tailnet, key, local, cmd, events>>

Listener == [port : Port, bind : Bind]
Nobody == [port |-> OtherPort, bind |-> "none"]
Idle == [pc |-> "idle", named |-> OtherPort, chosen |-> Nobody, joined |-> FALSE, at |-> OtherPort]

Init ==
  /\ sockets \in SUBSET Listener /\ Cardinality(sockets) = 1
  /\ entries = {} /\ key = FALSE
  /\ tailnet \in [joined : BOOLEAN, up : BOOLEAN, linked : BOOLEAN]
  /\ tailnet.joined = tailnet.up /\ (tailnet.linked => tailnet.up)
  /\ local = [p \in Port \cup {OtherPort} |-> "free"]
  /\ cmd = [c \in Process |-> Idle] /\ events = 0

At(c, pc) == cmd[c].pc = pc
Goto(c, pc) == cmd' = [cmd EXCEPT ![c].pc = pc]
Ends(c) == cmd' = [cmd EXCEPT ![c] = Idle]
Remote == <<sockets, entries, tailnet, key>>

\* ::ffff:127.0.0.1 is a loopback address that neither prefix matches.
LoopbackOnly(l) == l.bind = "loopback"
Infrastructure(l) == l.port \in InfraPorts \/ l.bind = "tailnet"
VisibleListeners(all) == {l \in sockets : all \/ ~Infrastructure(l)}

-------------------------------------------------------------------------------
(* connect and serve *)

\* OtherPort stands for no port named. serve needs a tailnet on record.
Starts(c, verb, named) ==
  /\ At(c, "idle") /\ verb \in {"connect", "serve"} /\ (verb = "serve" => tailnet.joined)
  /\ cmd' = [cmd EXCEPT ![c] = [Idle EXCEPT !.pc = verb, !.named = named, !.joined = tailnet.joined]]
  /\ UNCHANGED <<Remote, local, events>>

Chose(c, l) == cmd' = [cmd EXCEPT ![c].pc = IF @ = "connect" THEN "target" ELSE "publish?",
                                  ![c].chosen = l]

\* discoverAndChoose: a named port is looked for among all of them, and only
\* connect makes do without the list, with an address it does not know.
chooseListener(c, l) ==
  IF cmd[c].named = OtherPort THEN \E all \in BOOLEAN : l \in VisibleListeners(all)
  ELSE l \in sockets /\ l.port = cmd[c].named
Chooses(c) ==
  /\ cmd[c].pc \in {"connect", "serve"}
  /\ \/ \E l \in Listener : chooseListener(c, l) /\ Chose(c, l)
     \/ /\ At(c, "connect") /\ cmd[c].named # OtherPort
        /\ Chose(c, [port |-> cmd[c].named, bind |-> "loopback"])
     \/ Ends(c)
  /\ UNCHANGED <<Remote, local, events>>

\* TailscaleIP, and for connect TailnetReachable: no address is no failure.
HasAddress(c) == cmd[c].joined /\ tailnet.up
ConnectTarget(c) == IF ~(HasAddress(c) /\ tailnet.linked) \/ LoopbackOnly(cmd[c].chosen)
                    THEN "forward" ELSE "named"
Targets(c) ==
  /\ At(c, "target") /\ Goto(c, ConnectTarget(c)) /\ UNCHANGED <<Remote, local, events>>

\* FreeLocalPort: the wanted number, or unless it was asked for one that is free.
FreeLocalPort(c) ==
  /\ At(c, "forward")
  /\ \/ \E p \in DOMAIN local : /\ local[p] = "free" /\ (p # cmd[c].chosen.port => p = OtherPort)
                                /\ cmd' = [cmd EXCEPT ![c].pc = "ssh", ![c].at = p]
     \/ local[cmd[c].chosen.port] # "free" /\ Ends(c)
  /\ UNCHANGED <<Remote, local, events>>

\* Mutant of MayForward: ssh runs on although it could not bind the port.
EvenTaken(c) == TRUE
\* forwardArgs: one address family, and a failed bind is a failed command.
MayForward(c) == local[cmd[c].at] = "free"
Forwards(c) ==
  /\ At(c, "ssh")
  /\ IF MayForward(c)
     THEN /\ Goto(c, "forwarding")
          /\ local' = [local EXCEPT ![cmd[c].at] = IF @ = "free" THEN c ELSE @]
     ELSE Ends(c) /\ UNCHANGED local
  /\ UNCHANGED <<Remote, events>>

\* Ctrl-C of a forward, and the end of a command that named its address.
Leaves(c) ==
  /\ cmd[c].pc \in {"forwarding", "named"} /\ Ends(c)
  /\ local' = [p \in DOMAIN local |-> IF local[p] = c THEN "free" ELSE local[p]]
  /\ UNCHANGED <<Remote, events>>

\* serveTarget: the bind address alone decides whether an entry is needed.
Serves(c) ==
  /\ At(c, "publish?")
  /\ IF ~HasAddress(c) THEN Ends(c)
     ELSE Goto(c, IF LoopbackOnly(cmd[c].chosen) THEN "publish" ELSE "named")
  /\ UNCHANGED <<Remote, local, events>>
Publishes(c) ==
  /\ At(c, "publish") /\ Ends(c)
  /\ \/ tailnet.up /\ entries' = entries \cup {cmd[c].chosen.port}
     \/ UNCHANGED entries
  /\ UNCHANGED <<sockets, tailnet, key, local, events>>

-------------------------------------------------------------------------------
(* unserve and tailscale *)

chooseServeEntry(c, named) ==
  /\ At(c, "idle") /\ tailnet.joined
  /\ \E p \in entries :
       /\ named \in {p, OtherPort}
       /\ cmd' = [cmd EXCEPT ![c] = [Idle EXCEPT !.pc = "remove", !.named = named, !.chosen.port = p]]
  /\ UNCHANGED <<Remote, local, events>>

Unserved(c) == entries \ {cmd[c].chosen.port}
Removes(c) ==
  /\ At(c, "remove") /\ Ends(c)
  /\ \/ tailnet.up /\ entries' = Unserved(c)
     \/ UNCHANGED entries
  /\ UNCHANGED <<sockets, tailnet, key, local, events>>

\* The key is written only once tailscale is found there.
WritesKey(c) ==
  /\ At(c, "idle") /\ key' = TRUE /\ Goto(c, "up")
  /\ UNCHANGED <<sockets, entries, tailnet, local, events>>
\* tailscale up runs under a trap that removes the key, whatever comes of it; a
\* connection lost before it leaves the key where it is.
GoesUp(c) ==
  /\ At(c, "up")
  /\ \/ key /\ key' = FALSE /\ tailnet' = [tailnet EXCEPT !.up = TRUE] /\ Goto(c, "record")
     \/ key' = FALSE /\ UNCHANGED tailnet /\ Ends(c)
     \/ UNCHANGED <<key, tailnet>> /\ Ends(c)
  /\ UNCHANGED <<sockets, entries, local, events>>
RecordsJoin(c) ==
  /\ At(c, "record") /\ tailnet' = [tailnet EXCEPT !.joined = TRUE] /\ Ends(c)
  /\ UNCHANGED <<sockets, entries, key, local, events>>

-------------------------------------------------------------------------------
Changes ==
  /\ events < MaxEvents /\ events' = events + 1 /\ UNCHANGED <<key, cmd>>
  /\ \/ /\ \E l \in Listener : sockets' \in {sockets \cup {l}, sockets \ {l}}
        /\ UNCHANGED <<entries, tailnet, local>>
     \/ \E p \in Port : entries' = entries \cup {p} /\ UNCHANGED <<sockets, tailnet, local>>
     \/ \E up, linked \in BOOLEAN : /\ tailnet' = [tailnet EXCEPT !.up = up, !.linked = up /\ linked]
                                    /\ UNCHANGED <<sockets, entries, local>>
     \/ \E p \in DOMAIN local : /\ local[p] \in {"free", "user"} /\ UNCHANGED <<sockets, entries, tailnet>>
                                /\ local' = [local EXCEPT ![p] = IF @ = "free" THEN "user" ELSE "free"]

Next ==
  \/ Changes
  \/ \E c \in Process :
       \/ \E verb \in {"connect", "serve"}, p \in Port \cup {OtherPort} : Starts(c, verb, p)
       \/ \E p \in Port \cup {OtherPort} : chooseServeEntry(c, p)
       \/ Chooses(c) \/ Targets(c) \/ FreeLocalPort(c) \/ Forwards(c) \/ Leaves(c) \/ Serves(c)
       \/ Publishes(c) \/ Removes(c) \/ WritesKey(c) \/ GoesUp(c) \/ RecordsJoin(c)

Spec == Init /\ [][Next]_vars

-------------------------------------------------------------------------------
\* The address connect prints is never another program's: as long as a forward
\* runs, the local port it names is held by its own ssh, although the port was
\* looked at before and freed again.
ForwardIsOurs == \A c \in Process : At(c, "forwarding") => local[cmd[c].at] = c
===============================================================================
