----------------------------- MODULE Forwarding -----------------------------
(***************************************************************************)
(* What a tunnel promises to the local clients of its ports, however it    *)
(* gets at its codes and however often it tries: a port takes those who    *)
(* connect to it one at a time and in their order; whoever is taken is     *)
(* bridged or dropped before the next one's turn; when the port is closed, *)
(* those still waiting, and no others, are reset; and once the tunnel has  *)
(* stopped, every port is closed, unless one could not be opened.          *)
(* SshTunnel implements this.                                              *)
(***************************************************************************)
EXTENDS Sequences

CONSTANTS
  Ports,     \* the forwarded ports
  Clients,   \* who connects to them
  NoConn     \* no connection

Conns == Ports \X Clients

VARIABLES
  port,      \* "none" yet, "open" or "closed"
  queue,     \* the connections waiting at a port, in their order
  serving,   \* the connection a port has taken, or NoConn
  fate,      \* what became of a connection
  phase      \* "running", or "stopped"

vars == <<port, queue, serving, fate, phase>>

Init ==
  /\ port    = [f \in Ports |-> "none"]
  /\ queue   = [f \in Ports |-> << >>]
  /\ serving = [f \in Ports |-> NoConn]
  /\ fate    = [c \in Conns |-> "idle"]
  /\ phase   = "running"

Open(f) ==
  /\ phase = "running" /\ port[f] = "none"
  /\ port' = [port EXCEPT ![f] = "open"]
  /\ UNCHANGED <<queue, serving, fate, phase>>

\* A port that cannot be opened: the others stay as they are.
GiveUp ==
  /\ phase = "running" /\ phase' = "stopped"
  /\ \E f \in Ports : port[f] = "none"
  /\ UNCHANGED <<port, queue, serving, fate>>

Connect(c) ==
  /\ port[c[1]] = "open" /\ fate[c] = "idle"
  /\ fate'  = [fate EXCEPT ![c] = "queued"]
  /\ queue' = [queue EXCEPT ![c[1]] = Append(@, c)]
  /\ UNCHANGED <<port, serving, phase>>

Take(f) ==
  /\ serving[f] = NoConn /\ queue[f] # << >>
  /\ serving' = [serving EXCEPT ![f] = Head(queue[f])]
  /\ fate'    = [fate EXCEPT ![Head(queue[f])] = "accepted"]
  /\ queue'   = [queue EXCEPT ![f] = Tail(@)]
  /\ UNCHANGED <<port, phase>>

Finish(f) ==
  /\ serving[f] # NoConn
  /\ \E s \in {"bridged", "dropped"} : fate' = [fate EXCEPT ![serving[f]] = s]
  /\ serving' = [serving EXCEPT ![f] = NoConn]
  /\ UNCHANGED <<port, queue, phase>>

\* The tunnel has stopped with its last port.
Close(f) ==
  /\ phase = "running" /\ port[f] = "open"
  /\ port'  = [port EXCEPT ![f] = "closed"]
  /\ queue' = [queue EXCEPT ![f] = << >>]
  /\ fate'  = [c \in Conns |-> IF c[1] = f /\ fate[c] = "queued" THEN "reset" ELSE fate[c]]
  /\ phase' = IF \A g \in Ports : port'[g] = "closed" THEN "stopped" ELSE phase
  /\ UNCHANGED serving

Next ==
  \/ \E f \in Ports : Open(f) \/ Take(f) \/ Finish(f) \/ Close(f)
  \/ \E c \in Conns : Connect(c)
  \/ GiveUp

Spec == Init /\ [][Next]_vars
=============================================================================
