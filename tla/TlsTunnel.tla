------------------------------ MODULE TlsTunnel ------------------------------
(***************************************************************************)
(* tls/tunnel.go, with App.startTLSTunnels and App.Teardown as its driver: *)
(* one TLS proxy, which stands between the clients that cannot speak TLS   *)
(* and the local port of the SSH tunnel.                                   *)
(*                                                                         *)
(* Its goroutines send their errors to errorChan, a channel of ErrCap      *)
(* places that nobody reads: app.go:488 throws it away.  The accept loop   *)
(* does not return when Accept fails, not even after Stop.                 *)
(***************************************************************************)
EXTENDS Naturals, Sequences

CONSTANTS
  Users,        \* local clients; each connects at most once
  Probe,        \* the connection of WaitForConnection
  ErrCap,       \* capacity of errorChan: 8
  Faults,       \* may Listen, the probe or a TLS dial fail for its own reasons?
  AcceptFaults  \* may Accept fail on an open listener?

Conns == Users \union {Probe}
Dirs  == {"up", "down"}
Goroutines == Conns \X ({"handle"} \union Dirs)

ASSUME ErrCapAssumption == ErrCap \in Nat \ {0}
ASSUME TlsFaultsAssumption == Faults \in BOOLEAN /\ AcceptFaults \in BOOLEAN

VARIABLES
  driver,   \* the main goroutine: Start, the probe, ready, Teardown, over
  loop,     \* run: "off", at "accept", or about to "report" an error
  errs,     \* how many errors errorChan holds
  conn,     \* what became of a client's connect(2)
  backlog,  \* the connections the kernel has queued
  work,     \* handleRequest and the two forwards of each connection
  misses    \* history: how often Accept has failed

vars == <<driver, loop, errs, conn, backlog, work, misses>>

Init ==
  /\ driver = "start" /\ loop = "off" /\ errs = 0 /\ misses = 0
  /\ conn = [c \in Conns |-> "idle"] /\ backlog = << >>
  /\ work = [g \in Goroutines |-> "none"]

Listening    == driver \in {"probe", "ready", "stop"}
SshListening == driver # "over"   \* Teardown stops the TLS tunnels first

-----------------------------------------------------------------------------
(* The main goroutine.                                                     *)

\* A tunnel whose Start fails is not in App.tlsTunnels and is never stopped.
Start ==
  /\ driver = "start"
  /\ \/ driver' = "probe" /\ loop' = "accept"
     \/ Faults /\ driver' = "stopSSH" /\ UNCHANGED loop
  /\ UNCHANGED <<errs, conn, backlog, work, misses>>

\* connect(2) completes in the kernel while the listener is open.
Dials(c) ==
  /\ Listening /\ conn[c] = "idle"
  /\ conn' = [conn EXCEPT ![c] = "queued"]
  /\ backlog' = Append(backlog, c)

WaitForConnection ==
  /\ driver = "probe"
  /\ \/ Dials(Probe) /\ driver' = "ready"
     \/ Faults /\ driver' = "stop" /\ UNCHANGED <<conn, backlog>>
  /\ UNCHANGED <<loop, errs, work, misses>>

Teardown ==
  /\ driver = "ready" /\ driver' = "stop"
  /\ UNCHANGED <<loop, errs, conn, backlog, work, misses>>

\* Closing the listener resets the connections still in the kernel's queue.
Stop ==
  /\ driver = "stop" /\ driver' = "stopSSH"
  /\ conn' = [c \in Conns |-> IF conn[c] = "queued" THEN "reset" ELSE conn[c]]
  /\ backlog' = << >>
  /\ UNCHANGED <<loop, errs, work, misses>>

StopSSH ==
  /\ driver = "stopSSH" /\ driver' = "over"
  /\ UNCHANGED <<loop, errs, conn, backlog, work, misses>>

UserDials(c) == Dials(c) /\ UNCHANGED <<driver, loop, errs, work, misses>>

-----------------------------------------------------------------------------
(* The accept loop.                                                        *)

\* Mutant: the connection is handled in the loop, not in a goroutine.
Accept_Inline ==
  /\ loop = "accept" /\ backlog # << >>
  /\ LET c == Head(backlog) IN
     /\ conn' = [conn EXCEPT ![c] = "accepted"]
     /\ \/ /\ SshListening
           /\ work' = [g \in Goroutines |->
                         IF g[1] # c THEN work[g] ELSE IF g[2] = "handle" THEN "ended" ELSE "run"]
           /\ UNCHANGED loop
        \/ (Faults \/ ~SshListening) /\ loop' = "report" /\ UNCHANGED work
  /\ backlog' = Tail(backlog)
  /\ UNCHANGED <<driver, errs, misses>>

\* Mutant: conn is declared outside the loop, so a handler that has not begun
\* sees the newest connection, and nobody sees its own.
Accept_Shared ==
  /\ loop = "accept" /\ backlog # << >>
  /\ conn' = [conn EXCEPT ![Head(backlog)] = "accepted"]
  /\ work' = [g \in Goroutines |->
                IF g = <<Head(backlog), "handle">> THEN "run"
                ELSE IF g[2] = "handle" /\ work[g] = "run" THEN "none" ELSE work[g]]
  /\ backlog' = Tail(backlog)
  /\ UNCHANGED <<driver, loop, errs, misses>>

\* A goroutine for each connection.
Accept ==
  /\ loop = "accept" /\ backlog # << >>
  /\ conn' = [conn EXCEPT ![Head(backlog)] = "accepted"]
  /\ work' = [work EXCEPT ![<<Head(backlog), "handle">>] = "run"]
  /\ backlog' = Tail(backlog)
  /\ UNCHANGED <<driver, loop, errs, misses>>

\* Mutant: the error of Accept is not sent anywhere.
AcceptFails_Silently ==
  /\ loop = "accept" /\ (AcceptFaults \/ ~Listening)
  /\ UNCHANGED vars

\* After Stop every Accept fails, at once.
AcceptFails ==
  /\ loop = "accept" /\ (AcceptFaults \/ ~Listening)
  /\ loop' = "report" /\ misses' = misses + 1
  /\ UNCHANGED <<driver, errs, conn, backlog, work>>

\* Mutant: the channel is one place larger than it was made.
SendError_OneMore == errs <= ErrCap /\ errs' = errs + 1

\* Sending to errorChan, which blocks for good once the channel is full.
SendError == errs < ErrCap /\ errs' = errs + 1

\* Mutant: select with a default, so that an error is dropped and not waited for.
LoopReports_Drops ==
  /\ loop = "report" /\ loop' = "accept"
  /\ \/ SendError
     \/ errs = ErrCap /\ UNCHANGED errs
  /\ UNCHANGED <<driver, conn, backlog, work, misses>>

LoopReports ==
  /\ loop = "report" /\ SendError /\ loop' = "accept"
  /\ UNCHANGED <<driver, conn, backlog, work, misses>>

-----------------------------------------------------------------------------
(* The goroutines of a connection.                                         *)

\* The root certificates of macOS cannot be read, or the TLS dial through the
\* SSH tunnel fails: the local connection is left as it is.  Otherwise the
\* two forwards take over.
HandleRequest(c) ==
  /\ work[<<c, "handle">>] = "run"
  /\ \/ /\ SshListening
        /\ work' = [work EXCEPT ![<<c, "handle">>] = "ended",
                                ![<<c, "up">>] = "run", ![<<c, "down">>] = "run"]
     \/ /\ Faults \/ ~SshListening
        /\ work' = [work EXCEPT ![<<c, "handle">>] = "report"]
  /\ UNCHANGED <<driver, loop, errs, conn, backlog, misses>>

\* io.Copy returns: at the end of the stream, or with an error.
Forward(c, d) ==
  /\ work[<<c, d>>] = "run"
  /\ \E s \in {"ended", "report"} : work' = [work EXCEPT ![<<c, d>>] = s]
  /\ UNCHANGED <<driver, loop, errs, conn, backlog, misses>>

Reports(g) ==
  /\ work[g] = "report" /\ SendError
  /\ work' = [work EXCEPT ![g] = "ended"]
  /\ UNCHANGED <<driver, loop, conn, backlog, misses>>

AcceptLoop == Accept \/ AcceptFails \/ LoopReports

\* Teardown goes on to delete the app, then the process exits, whatever
\* goroutines are left.
Exits == driver = "over" /\ UNCHANGED vars

Next ==
  \/ Start \/ WaitForConnection \/ Teardown \/ Stop \/ StopSSH \/ Exits
  \/ AcceptLoop
  \/ \E c \in Users : UserDials(c)
  \/ \E c \in Conns : HandleRequest(c) \/ \E d \in Dirs : Forward(c, d)
  \/ \E g \in Goroutines : Reports(g)

Spec == Init /\ [][Next]_vars

\* Go schedules the loop and the handlers; tls.Dial returns.  Nobody promises
\* that a copy ends or that the user ends the command.
FairSpec ==
  /\ Spec /\ WF_vars(AcceptLoop) /\ WF_vars(Stop) /\ WF_vars(StopSSH)
  /\ \A c \in Conns : WF_vars(HandleRequest(c))

-----------------------------------------------------------------------------
(* Properties.                                                             *)

\* Every variable has its type; errorChan holds what fits.
TypeOK ==
  /\ driver \in {"start", "probe", "ready", "stop", "stopSSH", "over"}
  /\ loop \in {"off", "accept", "report"}
  /\ errs \in 0..ErrCap
  /\ conn \in [Conns -> {"idle", "queued", "accepted", "reset"}]
  /\ backlog \in Seq(Conns)
  /\ work \in [Goroutines -> {"none", "run", "report", "ended"}]
  /\ misses \in Nat

\* run never returns, and yet it does not spin: however long the process lives
\* after Stop, Accept fails ErrCap + 1 times at most, since the unread channel
\* stops the loop.
LoopRests == misses <= ErrCap + 1

\* The two ways of a connection are forwarded together, and only behind a dial
\* that succeeded; where it failed, nobody works for the client any more.
BothWaysOrNone ==
  \A c \in Conns :
    /\ work[<<c, "up">>] # "none" <=> work[<<c, "down">>] # "none"
    /\ work[<<c, "up">>] # "none" => work[<<c, "handle">>] = "ended"

\* A connection is handled once, in the loop's own order: what the goroutines
\* of c do begins when c leaves the queue, and c leaves it only to be handled,
\* as a whole, or by Stop.
HandledOnce ==
  /\ \A c \in Conns :
       /\ conn[c] = "accepted" <=> work[<<c, "handle">>] # "none"
       /\ conn[c] = "queued" <=> \E i \in DOMAIN backlog : backlog[i] = c
  /\ \A i, j \in DOMAIN backlog : backlog[i] = backlog[j] => i = j
  /\ BothWaysOrNone

\* The errors of connections, which fill errorChan unread, never keep a client
\* waiting: while the queue is not empty the loop is at Accept (as long as
\* Accept itself does not fail; tls/tunnel.go:54-67).
WaitingAreAccepted ==
  ~AcceptFaults /\ backlog # << >> => Listening /\ loop = "accept"

Tunnelled(c)  == \A d \in Dirs : work[<<c, d>>] # "none"
DialFailed(c) == work[<<c, "handle">>] \in {"report", "ended"} /\ ~Tunnelled(c)

\* The end of a port: an Accept has failed with no place for its error.
Stuck == misses > 0 /\ loop = "report" /\ errs = ErrCap

\* However many dials have failed, and though their errors fill errorChan, the
\* loop goes on to serve: who has connected is tunnelled in both directions,
\* left alone by a dial of its own that failed, or reset by Stop.  Only a
\* failure of Accept itself can keep the loop from it.
EveryoneServed ==
  \A c \in Conns :
    conn[c] = "queued" ~> Tunnelled(c) \/ DialFailed(c) \/ conn[c] = "reset" \/ Stuck

\* Once the tunnels are stopped the loop comes to rest at the full channel.
StopQuietsLoop ==
  driver = "over" /\ loop # "off" ~> [](loop = "report" /\ errs = ErrCap)
=============================================================================
