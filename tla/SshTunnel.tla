----------------------------- MODULE SshTunnel ------------------------------
(***************************************************************************)
(* ssh/tunnel.go, with App.startSSHTunnels and App.Teardown as its driver: *)
(* the goroutines behind the local ports of one invocation.                *)
(*                                                                         *)
(* One accept loop per forwarded port takes local connections in turn and  *)
(* opens an SSH connection for each, trying again when that fails.  Every  *)
(* try takes a one-time code from a channel that one producer goroutine    *)
(* keeps full, so codes are asked for long before they are used and may be *)
(* stale by then.  util.Retry, util.WaitForConnection and Tunnel.WaitChan  *)
(* are part of the module.                                                 *)
(***************************************************************************)
EXTENDS Naturals, Sequences

CONSTANTS
  N,            \* number of forwarded ports, len(ForwardAddrs)
  Users,        \* local clients: each may connect once to each port
  PipeCap,      \* capacity of Tunnel.passwords: 3
  MaxRetries,   \* maxRetries of util.Retry: 10
  Faults,       \* may SSHCode, a dial or a probe fail for reasons of its own?
  AcceptFaults  \* may Listen or Accept fail on an open port?

ASSUME CountAssumption == N \in Nat \ {0} /\ PipeCap \in Nat \ {0} /\ MaxRetries \in Nat
\* There are more tries than codes can be waiting.
ASSUME RetryAssumption == MaxRetries > PipeCap
ASSUME FaultAssumption == Faults \in BOOLEAN /\ AcceptFaults \in BOOLEAN

Forwards == 1..N
Probe    == "probe"
Conns    == Forwards \X (Users \union {Probe})   \* <<port, client>>
NoConn   == <<0, Probe>>

VARIABLES
  driver,       \* the main goroutine: Start, the probes, ready, Stop
  at,           \* the forward its loop is at
  listener,     \* listener[f]: "none", "open" or "closed"
  shutdownChan, \* Tunnel.shutdownChan: "nil" or "open"
  shutdownErr,  \* Tunnel.shutdownErr: "nil" or "error"
  waiters,      \* goroutines of WaitChan that have not come to rest
  backlog,      \* backlog[f]: connections the kernel has queued for f
  conn,         \* conn[c]: what became of a local connection
  loop,         \* loop[f]: where the accept loop of f is
  cur,          \* cur[f]: the connection it serves
  try,          \* try[f]: the tries of util.Retry
  held,         \* held[f]: the code of this try, "none" for ""
  hand,         \* the producer: "off", "asking", or the code to send
  passwords,    \* Tunnel.passwords
  sessions,     \* sessions[c]: SSH connections opened for c, never closed
  behind,       \* history: codes on their way that were asked for before
                \* f accepted cur[f]
  stale         \* history: was held[f] asked for before f accepted cur[f]?

driverVars == <<driver, at, listener, shutdownChan>>
pipeVars   == <<hand, passwords>>
loopVars   == <<loop, cur, try, held, behind, stale>>
vars == <<driverVars, shutdownErr, waiters, backlog, conn, loopVars, pipeVars, sessions>>

Codes == {"code", "none"}

Init ==
  /\ driver = "start" /\ at = 1
  /\ listener = [f \in Forwards |-> "none"]
  /\ shutdownChan = "nil" /\ shutdownErr = "nil"
  /\ waiters = 0
  /\ backlog = [f \in Forwards |-> << >>]
  /\ conn = [c \in Conns |-> "idle"]
  /\ loop = [f \in Forwards |-> "off"]
  /\ cur = [f \in Forwards |-> NoConn]
  /\ try = [f \in Forwards |-> 0]
  /\ held = [f \in Forwards |-> "none"]
  /\ hand = "off" /\ passwords = << >>
  /\ sessions = [c \in Conns |-> 0]
  /\ behind = [f \in Forwards |-> 0]
  /\ stale = [f \in Forwards |-> FALSE]

\* Start and Stop hold the mutex from their first step to their last.
Locked == driver \in {"listen", "closing"}

-----------------------------------------------------------------------------
(* Tunnel.Start, as App.startSSHTunnels calls it.                          *)

\* Takes the mutex and starts the producer.
Start ==
  /\ driver = "start"
  /\ driver' = "listen" /\ hand' = "asking"
  /\ UNCHANGED <<at, listener, shutdownChan, shutdownErr, waiters, backlog, conn,
                 loopVars, passwords, sessions>>

\* forward: net.Listen, and the accept loop in a goroutine.  An error ends
\* Start with shutdownChan nil; Teardown then calls Stop, which does nothing.
Forward ==
  /\ driver = "listen"
  /\ \/ /\ listener' = [listener EXCEPT ![at] = "open"]
        /\ loop' = [loop EXCEPT ![at] = "accept"]
        /\ \/ /\ at < N /\ at' = at + 1 /\ UNCHANGED <<driver, shutdownChan>>
           \/ at = N /\ at' = 1 /\ driver' = "probe" /\ shutdownChan' = "open"
     \/ /\ AcceptFaults
        /\ driver' = "stopped" /\ UNCHANGED <<at, listener, shutdownChan, loop>>
  /\ UNCHANGED <<shutdownErr, waiters, backlog, conn, cur, try, held, behind, stale,
                 pipeVars, sessions>>

\* A client's connect(2) completes in the kernel while the listener is open.
Dials(c) ==
  /\ conn[c] = "idle" /\ listener[c[1]] = "open"
  /\ conn' = [conn EXCEPT ![c] = "queued"]
  /\ backlog' = [backlog EXCEPT ![c[1]] = Append(@, c)]

\* One round of the loop of startSSHTunnels: WaitForConnection's goroutine
\* dials the port, WaitChan's goroutine starts to wait, and the select takes
\* the result of the dial.
ProbePort ==
  /\ driver = "probe"
  /\ waiters' = waiters + 1
  /\ \/ /\ Dials(<<at, Probe>>)
        /\ \/ at < N /\ at' = at + 1 /\ UNCHANGED driver
           \/ at = N /\ at' = 1 /\ driver' = "ready"
     \/ /\ Faults
        /\ driver' = "stop" /\ UNCHANGED <<at, conn, backlog>>
  /\ UNCHANGED <<listener, shutdownChan, shutdownErr, loopVars, pipeVars, sessions>>

\* The command has ended, a signal has come, or a later step has failed.
Teardown ==
  /\ driver = "ready"
  /\ driver' = "stop"
  /\ UNCHANGED <<at, listener, shutdownChan, shutdownErr, waiters, backlog, conn,
                 loopVars, pipeVars, sessions>>

-----------------------------------------------------------------------------
(* Tunnel.Stop.                                                            *)

StopLock ==
  /\ driver = "stop"
  /\ driver' = "closing" /\ at' = 1
  /\ UNCHANGED <<listener, shutdownChan, shutdownErr, waiters, backlog, conn,
                 loopVars, pipeVars, sessions>>

\* Mutant: Stop returns after the first listener.
CloseListener_FirstOnly ==
  /\ driver = "closing"
  /\ listener' = [listener EXCEPT ![at] = "closed"]
  /\ backlog' = [backlog EXCEPT ![at] = << >>]
  /\ conn' = [c \in Conns |-> IF c[1] = at /\ conn[c] = "queued"
                              THEN "reset" ELSE conn[c]]
  /\ driver' = "stopped" /\ shutdownChan' = "nil"
  /\ UNCHANGED <<at, shutdownErr, waiters, loopVars, pipeVars, sessions>>

\* Closes one listener: the kernel resets what is queued on it.  After the
\* last one shutdownChan is closed and forgotten.
CloseListener ==
  /\ driver = "closing"
  /\ listener' = [listener EXCEPT ![at] = "closed"]
  /\ backlog' = [backlog EXCEPT ![at] = << >>]
  /\ conn' = [c \in Conns |-> IF c[1] = at /\ conn[c] = "queued"
                              THEN "reset" ELSE conn[c]]
  /\ \/ at < N /\ at' = at + 1 /\ UNCHANGED <<driver, shutdownChan>>
     \/ at = N /\ at' = 1 /\ driver' = "stopped" /\ shutdownChan' = "nil"
  /\ UNCHANGED <<shutdownErr, waiters, loopVars, pipeVars, sessions>>

-----------------------------------------------------------------------------
(* The goroutine of Tunnel.WaitChan.  Nobody receives from its channel once *)
(* the select has taken the probe's result.  After Stop it takes what       *)
(* shutdownErr is, and stays on its send for ever; or, when it looks at     *)
(* t.shutdownChan only now, it stays on a nil channel.                      *)

WaitChan ==
  /\ waiters > 0 /\ shutdownChan = "nil" /\ ~Locked
  /\ waiters' = waiters - 1
  /\ shutdownErr' \in {"nil", shutdownErr}
  /\ UNCHANGED <<driverVars, backlog, conn, loopVars, pipeVars, sessions>>

-----------------------------------------------------------------------------
(* The producer of passwordPipe.                                           *)

\* PasswordFunc returns a code; its error is logged and "" sent instead.
AskCode ==
  /\ hand = "asking"
  /\ hand' \in {"code"} \union (IF Faults THEN {"none"} ELSE {})
  /\ UNCHANGED <<driverVars, shutdownErr, waiters, backlog, conn, loopVars,
                 passwords, sessions>>

\* Mutant: more codes are prefetched than the tries allow for.
SendCode_OneMore ==
  /\ hand \in Codes /\ Len(passwords) <= PipeCap
  /\ passwords' = Append(passwords, hand)
  /\ hand' = "asking"
  /\ UNCHANGED <<driverVars, shutdownErr, waiters, backlog, conn, loopVars, sessions>>

\* Mutant: a code that finds no room is thrown away.
SendCode_Drops ==
  /\ hand \in Codes
  /\ passwords' = IF Len(passwords) < PipeCap THEN Append(passwords, hand) ELSE passwords
  /\ hand' = "asking"
  /\ UNCHANGED <<driverVars, shutdownErr, waiters, backlog, conn, loopVars, sessions>>

\* Mutant: the producer returns when it has filled the channel.
SendCode_Ends ==
  /\ hand \in Codes /\ Len(passwords) < PipeCap
  /\ passwords' = Append(passwords, hand)
  /\ hand' = IF Len(passwords') = PipeCap THEN "off" ELSE "asking"
  /\ UNCHANGED <<driverVars, shutdownErr, waiters, backlog, conn, loopVars, sessions>>

SendCode ==
  /\ hand \in Codes /\ Len(passwords) < PipeCap
  /\ passwords' = Append(passwords, hand)
  /\ hand' = "asking"
  /\ UNCHANGED <<driverVars, shutdownErr, waiters, backlog, conn, loopVars, sessions>>

-----------------------------------------------------------------------------
(* The accept loop of one port.                                            *)

UserDials(c) ==
  /\ c[2] \in Users /\ Dials(c)
  /\ UNCHANGED <<driverVars, shutdownErr, waiters, loopVars, pipeVars, sessions>>

\* Mutant: the next connection is accepted while one is being served.
Accept_InParallel(f) ==
  /\ loop[f] \in {"accept", "code"} /\ backlog[f] # << >>
  /\ cur' = [cur EXCEPT ![f] = Head(backlog[f])]
  /\ backlog' = [backlog EXCEPT ![f] = Tail(@)]
  /\ conn' = [conn EXCEPT ![Head(backlog[f])] = "accepted"]
  /\ loop' = [loop EXCEPT ![f] = "code"]
  /\ try' = [try EXCEPT ![f] = 0]
  /\ behind' = [behind EXCEPT ![f] = Len(passwords) + 1]
  /\ UNCHANGED <<driverVars, shutdownErr, waiters, held, stale, pipeVars, sessions>>

\* What is in the channel, and the code the producer has asked for already,
\* is older than this connection.
Accept(f) ==
  /\ loop[f] = "accept" /\ backlog[f] # << >>
  /\ cur' = [cur EXCEPT ![f] = Head(backlog[f])]
  /\ backlog' = [backlog EXCEPT ![f] = Tail(@)]
  /\ conn' = [conn EXCEPT ![Head(backlog[f])] = "accepted"]
  /\ loop' = [loop EXCEPT ![f] = "code"]
  /\ try' = [try EXCEPT ![f] = 0]
  /\ behind' = [behind EXCEPT ![f] = Len(passwords) + 1]
  /\ UNCHANGED <<driverVars, shutdownErr, waiters, held, stale, pipeVars, sessions>>

\* Mutant: an error of Accept is noted, and the loop goes on.
AcceptFails_Continues(f) ==
  /\ loop[f] = "accept"
  /\ listener[f] = "closed" \/ AcceptFaults
  /\ shutdownErr' = "error"
  /\ UNCHANGED <<driverVars, waiters, backlog, conn, loopVars, pipeVars, sessions>>

\* Accept fails, because Stop has closed the listener or the system is out
\* of descriptors: the loop ends, and the listener stays as it is.
AcceptFails(f) ==
  /\ loop[f] = "accept"
  /\ listener[f] = "closed" \/ AcceptFaults
  /\ loop' = [loop EXCEPT ![f] = "lock"]
  /\ UNCHANGED <<driverVars, shutdownErr, waiters, backlog, conn, cur, try, held,
                 behind, stale, pipeVars, sessions>>

LoopEnds(f) ==
  /\ loop[f] = "lock" /\ ~Locked
  /\ shutdownErr' = "error"
  /\ loop' = [loop EXCEPT ![f] = "ended"]
  /\ UNCHANGED <<driverVars, waiters, backlog, conn, cur, try, held, behind, stale,
                 pipeVars, sessions>>

\* util.Retry calls the closure, which takes the oldest code.
TakeCode(f) ==
  /\ loop[f] = "code" /\ passwords # << >>
  /\ held' = [held EXCEPT ![f] = Head(passwords)]
  /\ passwords' = Tail(passwords)
  /\ try' = [try EXCEPT ![f] = @ + 1]
  /\ stale' = [stale EXCEPT ![f] = behind[f] > 0]
  /\ behind' = [g \in Forwards |-> IF behind[g] = 0 THEN 0 ELSE behind[g] - 1]
  /\ loop' = [loop EXCEPT ![f] = "dial"]
  /\ UNCHANGED <<driverVars, shutdownErr, waiters, backlog, conn, cur, hand, sessions>>

\* Mutant: the goroutine returns after its first connection.
Settle_Returns(f, s) ==
  /\ conn' = [conn EXCEPT ![cur[f]] = s]
  /\ loop' = [loop EXCEPT ![f] = "lock"]
  /\ UNCHANGED <<cur, try, held, stale, behind>>

\* The loop turns to the next connection, leaving this one in state s.
Settle(f, s) ==
  /\ conn' = [conn EXCEPT ![cur[f]] = s]
  /\ loop' = [loop EXCEPT ![f] = "accept"]
  /\ cur' = [cur EXCEPT ![f] = NoConn]
  /\ try' = [try EXCEPT ![f] = 0]
  /\ held' = [held EXCEPT ![f] = "none"]
  /\ stale' = [stale EXCEPT ![f] = FALSE]
  /\ behind' = [behind EXCEPT ![f] = 0]

\* Mutant: Retry gives up one try early ...
TryFails_Early(f) ==
  \/ /\ try[f] >= MaxRetries
     /\ Settle(f, "dropped")
  \/ /\ try[f] < MaxRetries
     /\ loop' = [loop EXCEPT ![f] = "code"]
     /\ UNCHANGED <<conn, cur, try, held, stale, behind>>

\* Mutant: ... or one late.
TryFails_Late(f) ==
  \/ /\ try[f] > MaxRetries + 1
     /\ Settle(f, "dropped")
  \/ /\ try[f] <= MaxRetries + 1
     /\ loop' = [loop EXCEPT ![f] = "code"]
     /\ UNCHANGED <<conn, cur, try, held, stale, behind>>

\* The closure has failed: Retry calls it again, or gives up, and then the
\* local connection is closed.
TryFails(f) ==
  \/ /\ try[f] > MaxRetries
     /\ Settle(f, "dropped")
  \/ /\ try[f] <= MaxRetries
     /\ loop' = [loop EXCEPT ![f] = "code"]
     /\ UNCHANGED <<conn, cur, try, held, stale, behind>>

\* Mutant: the tries are counted anew once SSH is connected.
DialSSH_Recounts(f) ==
  /\ loop[f] = "dial"
  /\ \/ /\ held[f] = "code"
        /\ sessions' = [sessions EXCEPT ![cur[f]] = @ + 1]
        /\ loop' = [loop EXCEPT ![f] = "remote"]
        /\ try' = [try EXCEPT ![f] = 1]
        /\ UNCHANGED <<conn, cur, held, stale, behind>>
     \/ /\ held[f] = "none" \/ stale[f] \/ Faults
        /\ TryFails(f) /\ UNCHANGED sessions
  /\ UNCHANGED <<driverVars, shutdownErr, waiters, backlog, pipeVars>>

\* ssh.Dial with the code held.  The empty code is never accepted, an old
\* one may have expired or not.
DialSSH(f) ==
  /\ loop[f] = "dial"
  /\ \/ /\ held[f] = "code"
        /\ sessions' = [sessions EXCEPT ![cur[f]] = @ + 1]
        /\ loop' = [loop EXCEPT ![f] = "remote"]
        /\ UNCHANGED <<conn, cur, try, held, stale, behind>>
     \/ /\ held[f] = "none" \/ stale[f] \/ Faults
        /\ TryFails(f) /\ UNCHANGED sessions
  /\ UNCHANGED <<driverVars, shutdownErr, waiters, backlog, pipeVars>>

\* sshConn.Dial to the service; when it fails sshConn is not closed.  Two
\* goroutines copy both ways from then on, and the loop is free.
DialRemote(f) ==
  /\ loop[f] = "remote"
  /\ \/ Settle(f, "bridged")
     \/ Faults /\ TryFails(f)
  /\ UNCHANGED <<driverVars, shutdownErr, waiters, backlog, pipeVars, sessions>>

-----------------------------------------------------------------------------
AcceptLoop(f) ==
  \/ Accept(f) \/ AcceptFails(f) \/ LoopEnds(f)
  \/ TakeCode(f) \/ DialSSH(f) \/ DialRemote(f)

DriverStep   == Start \/ Forward \/ ProbePort \/ StopLock \/ CloseListener
ProducerStep == AskCode \/ SendCode

\* Teardown is over: the process may exit at any moment from here on.
Exits == driver = "stopped" /\ UNCHANGED vars

Next ==
  \/ DriverStep \/ Teardown \/ ProducerStep
  \/ \E c \in Conns : UserDials(c)
  \/ WaitChan
  \/ \E f \in Forwards : AcceptLoop(f)
  \/ Exits

Spec == Init /\ [][Next]_vars

\* What the goroutine of an accept loop does of itself: Accept on an open port
\* with nobody in its queue waits, and does not have to fail.
Proceeds(f) == AcceptLoop(f) /\ (AcceptFails(f) => listener[f] = "closed")

\* Go schedules every goroutine; SSHCode and both dials return (ssh.Dial has
\* no timeout of its own, TCP's applies).  Nobody has to connect or to stop.
FairSpec ==
  /\ Spec /\ WF_vars(DriverStep) /\ WF_vars(ProducerStep) /\ WF_vars(WaitChan)
  /\ \A f \in Forwards : WF_vars(Proceeds(f))

-----------------------------------------------------------------------------
(* Properties.                                                             *)

Serving == {"code", "dial", "remote"}

\* Every variable has its type, the channel keeps to its capacity and Retry
\* to its number of tries.
TypeOK ==
  /\ driver \in {"start", "listen", "probe", "ready", "stop", "closing", "stopped"}
  /\ at \in Forwards
  /\ listener \in [Forwards -> {"none", "open", "closed"}]
  /\ shutdownChan \in {"nil", "open"} /\ shutdownErr \in {"nil", "error"}
  /\ waiters \in 0..N
  /\ backlog \in [Forwards -> Seq(Conns)]
  /\ conn \in [Conns -> {"idle", "queued", "accepted", "bridged", "dropped", "reset"}]
  /\ loop \in [Forwards -> {"off", "accept", "lock", "ended"} \union Serving]
  /\ cur \in [Forwards -> Conns \union {NoConn}]
  /\ try \in [Forwards -> 0..(MaxRetries + 1)]
  /\ held \in [Forwards -> Codes]
  /\ hand \in {"off", "asking"} \union Codes
  /\ passwords \in Seq(Codes) /\ Len(passwords) <= PipeCap
  /\ sessions \in [Conns -> Nat]
  /\ behind \in [Forwards -> 0..(PipeCap + 1)]
  /\ stale \in [Forwards -> BOOLEAN]

\* A connection that was accepted is being served by the loop of its own
\* port, whatever the other loops, Stop or a failing Accept do: it is never
\* forgotten, and a port never serves two at once (ssh/tunnel.go:101-152).
AcceptedIsServed ==
  \A c \in Conns :
    conn[c] = "accepted" => loop[c[1]] \in Serving /\ cur[c[1]] = c

\* The tries of a connection get past the codes prefetched before it came
\* (ssh/tunnel.go:64, :113): an old code is only ever held in the first
\* PipeCap + 1 tries, however many loops draw on the channel.
StaleCodesRunOut ==
  \A f \in Forwards : stale[f] => try[f] <= PipeCap + 1

\* So no connection is dropped for old codes alone (ssh/tunnel.go:109-112):
\* when nothing but old codes goes wrong, nothing is dropped.
NoNeedlessDrop ==
  ~Faults => \A c \in Conns : conn[c] # "dropped"

\* A connection is given up only after the last try of Retry, and that try
\* failed with a code asked for after the connection was accepted.
DropIsGenuine ==
  [][\A f \in Forwards :
       cur[f] # NoConn /\ cur'[f] = NoConn /\ conn'[cur[f]] = "dropped"
         => try[f] = MaxRetries + 1 /\ ~stale[f]]_vars

\* What a failed sshConn.Dial leaves open (ssh/tunnel.go:139-143) is bounded:
\* a connection costs at most MaxRetries + 1 SSH connections, a connection
\* not yet accepted none, and one that is bridged has at least its own.
SessionsBounded ==
  \A c \in Conns :
    /\ sessions[c] <= MaxRetries + 1
    /\ conn[c] \in {"idle", "queued", "reset"} => sessions[c] = 0
    /\ conn[c] = "bridged" => sessions[c] > 0

\* What ConduitApp takes for single steps, its ListenSSH and StopTunnels.  After
\* a Start that returned nil, and until Stop, all ports are open; after Stop all
\* are closed; after a Start that failed those before the failure are open, and
\* Stop has nothing to go by (ssh/tunnel.go:76-98, :170-181).
StartsAndStops ==
  /\ driver \in {"probe", "ready", "stop"} =>
       shutdownChan = "open" /\ \A f \in Forwards : listener[f] = "open"
  /\ driver = "stopped" =>
       /\ shutdownChan = "nil"
       /\ \/ \A f \in Forwards : listener[f] = "closed"
          \/ \E k \in Forwards : \A f \in Forwards :
               listener[f] = IF f < k THEN "open" ELSE "none"

\* Once Stop has returned no client is left waiting for an accept loop that
\* has ended (ssh/tunnel.go:174-176), if Start had opened every port.
NobodyWaitsAfterStop ==
  driver = "stopped" /\ (\A f \in Forwards : listener[f] # "none")
    => \A c \in Conns : conn[c] # "queued"

\* No client waits at a dead port: whoever is queued is in the queue of an open
\* port whose loop has not ended, in Stop's midst too (while Accept itself does
\* not fail; ssh/tunnel.go:87-95, :101-105, :174-176).
WaitingAreServed ==
  ~AcceptFaults =>
    \A c \in Conns :
      conn[c] = "queued" =>
        /\ listener[c[1]] = "open" /\ loop[c[1]] \in {"accept"} \union Serving
        /\ \E i \in DOMAIN backlog[c[1]] : backlog[c[1]][i] = c

\* Every client that connects gets through or is told so: the loop of its
\* port comes to it and ends its tries.  Only a loop that a failing Accept has
\* ended comes to nobody any more (ssh/tunnel.go:101-152).
EveryoneServed ==
  \A c \in Conns :
    conn[c] = "queued" ~> \/ conn[c] \in {"bridged", "dropped", "reset"}
                          \/ AcceptFaults /\ loop[c[1]] = "ended"

\* Stop gets the mutex and returns, whatever loops and waiters compete for
\* it, and every accept loop then comes to its end.
StopEndsLoops ==
  driver = "stop" ~> driver = "stopped" /\ \A f \in Forwards : loop[f] = "ended"

\* "wait for port forwarding to become active" (conduit/app.go:462): when
\* startSSHTunnels returns, every port has forwarded its probe.
ReadyMeansForwarding ==
  driver = "ready" => \A f \in Forwards : conn[<<f, Probe>>] = "bridged"

\* What it does establish: every port is this tunnel's own open listener, and
\* the kernel has taken a connection on it (conduit/app.go:462-475).
ReadyMeansListening ==
  driver = "ready" => \A f \in Forwards : listener[f] = "open" /\ conn[<<f, Probe>>] # "idle"

\* The promise of Forwarding, read off this state.
PortService == INSTANCE Forwarding WITH
  Ports   <- Forwards, Clients <- Users \union {Probe},
  port    <- listener, queue   <- backlog,
  serving <- cur,      fate    <- conn,
  phase   <- IF driver = "stopped" THEN "stopped" ELSE "running"

\* Codes that go stale, tries, a mutex, and Stop in the middle of it: the ports
\* serve their clients in turn, and Stop leaves nobody waiting
\* (ssh/tunnel.go:76-181).
KeepsForwarding == PortService!Spec
=============================================================================
