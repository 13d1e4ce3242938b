-------------------------- MODULE ForwardingProofs --------------------------
(***************************************************************************)
(* SshTunnel implements Forwarding, for any number of ports, clients and   *)
(* tries; and two of its invariants that rest on the same argument.        *)
(***************************************************************************)
EXTENDS SshTunnelProofs

HIDE DEF Next, DriverStep, ProducerStep, AcceptLoop, Exits, vars, driverVars, pipeVars,
         loopVars, Start, Forward, Dials, ProbePort, Teardown, StopLock, CloseListener,
         WaitChan, AskCode, SendCode, UserDials, Accept, AcceptFails, LoopEnds, TakeCode,
         Settle, TryFails, DialSSH, DialRemote, Locked

-----------------------------------------------------------------------------
(* What is added to the invariant of SshTunnelProofs.                      *)

\* How far Start and Stop have come with the listeners.
ListenerAt ==
  /\ driver = "start" => at = 1
  /\ \A f \in Forwards :
       /\ driver = "start" => listener[f] = "none"
       /\ driver = "listen" => listener[f] = IF f < at THEN "open" ELSE "none"
       /\ driver \in {"probe", "ready", "stop"} => listener[f] = "open"
       /\ driver = "closing" => listener[f] = IF f < at THEN "closed" ELSE "open"
  /\ driver = "stopped" =>
       listener[at] = "none" \/ \A f \in Forwards : listener[f] = "closed"

\* A loop has a connection, and one of its own port, exactly while it serves.
ServesOwn ==
  \A f \in Forwards :
    /\ loop[f] \in Serving => cur[f] \in Conns /\ cur[f][1] = f
    /\ loop[f] \notin Serving => cur[f] = NoConn

\* The connection a loop serves is the accepted one.
ServesAccepted == \A f \in Forwards : loop[f] \in Serving => conn[cur[f]] = "accepted"

\* Who is queued waits at an open port.
QueuedAtOpen == \A c \in Conns : conn[c] = "queued" => listener[c[1]] = "open"

\* Who is in a queue is queued, and is there once.
Queues ==
  \A f \in Forwards : \A i, j \in 1..Len(backlog[f]) :
    /\ conn[backlog[f][i]] = "queued"
    /\ backlog[f][i] = backlog[f][j] => i = j

\* Each try of the connection a loop serves opens one SSH connection at most,
LoopCosts ==
  \A f \in Forwards : loop[f] \in Serving =>
    /\ sessions[cur[f]] <= IF loop[f] = "dial" THEN try[f] - 1 ELSE try[f]
    /\ loop[f] = "remote" => sessions[cur[f]] > 0

\* and nothing but its tries opens one for it.
ConnCosts ==
  \A c \in Conns :
    /\ conn[c] \in {"idle", "queued", "reset"} => sessions[c] = 0
    /\ conn[c] \in {"bridged", "dropped"} => sessions[c] <= MaxRetries + 1
    /\ conn[c] = "bridged" => sessions[c] > 0

FInv ==
  /\ IInv /\ ListenerAt /\ ServesOwn
  /\ ServesAccepted /\ QueuedAtOpen /\ Queues /\ LoopCosts /\ ConnCosts

-----------------------------------------------------------------------------
\* A step is one of these.
LEMMA Kinds ==
  ASSUME [Next]_vars
  PROVE  \/ Start \/ Forward \/ ProbePort \/ Teardown \/ StopLock \/ CloseListener
         \/ WaitChan \/ AskCode \/ SendCode \/ UNCHANGED vars
         \/ \E c \in Conns : UserDials(c)
         \/ \E f \in Forwards : \/ Accept(f) \/ AcceptFails(f) \/ LoopEnds(f)
                                \/ TakeCode(f) \/ DialSSH(f) \/ DialRemote(f)
  BY DEF Next, DriverStep, ProducerStep, AcceptLoop, Exits

\* A port is a number, a connection has a port, and NoConn is none.
LEMMA PortsAreNumbers ==
  /\ N \in Nat \ {0} /\ \A f \in Forwards : f \in Nat /\ f >= 1 /\ f <= N
  /\ N \in Forwards /\ 1 \in Forwards
  BY CountAssumption DEF Forwards

LEMMA NoConnIsNone == NoConn \notin Conns
  BY PortsAreNumbers DEF NoConn, Conns

LEMMA OwnPort == \A c \in Conns : c[1] \in Forwards
  BY DEF Conns

\* The listeners follow the loops of Start and Stop.
LEMMA ListenerStep == TypeOK /\ ListenerAt /\ [Next]_vars => ListenerAt'
<1> SUFFICES ASSUME TypeOK, ListenerAt, [Next]_vars PROVE ListenerAt'
  OBVIOUS
<1>t. /\ at \in Forwards /\ listener \in [Forwards -> {"none", "open", "closed"}]
      /\ driver \in {"start", "listen", "probe", "ready", "stop", "closing", "stopped"}
  BY DEF TypeOK
<1>1. CASE Start
  BY <1>1, <1>t, PortsAreNumbers DEF Start, ListenerAt
<1>2. CASE Forward
  <2>1. CASE listener' = [listener EXCEPT ![at] = "open"]
    BY <1>2, <1>t, <2>1, PortsAreNumbers DEF Forward, ListenerAt
  <2>2. CASE driver' = "stopped" /\ UNCHANGED <<at, listener>>
    BY <1>2, <1>t, <2>2, PortsAreNumbers DEF Forward, ListenerAt
  <2> QED
    BY <1>2, <2>1, <2>2 DEF Forward
<1>3. CASE ProbePort \/ Teardown \/ StopLock
  BY <1>3, <1>t, PortsAreNumbers DEF ProbePort, Teardown, StopLock, ListenerAt
<1>4. CASE CloseListener
  BY <1>4, <1>t, PortsAreNumbers DEF CloseListener, ListenerAt
<1>5. CASE UNCHANGED driverVars
  BY <1>5, <1>t DEF driverVars, ListenerAt
<1>6. ASSUME NEW c \in Conns, UserDials(c) PROVE UNCHANGED driverVars
  BY <1>6 DEF UserDials
<1>7. ASSUME NEW f \in Forwards,
             \/ Accept(f) \/ AcceptFails(f) \/ LoopEnds(f) \/ TakeCode(f) \/ DialSSH(f) \/ DialRemote(f)
      PROVE  UNCHANGED driverVars
  BY <1>7 DEF Accept, AcceptFails, LoopEnds, TakeCode, DialSSH, DialRemote
<1>8. CASE WaitChan \/ AskCode \/ SendCode \/ UNCHANGED vars
  BY <1>5, <1>8 DEF WaitChan, AskCode, SendCode, vars
<1> QED
  BY <1>1, <1>2, <1>3, <1>4, <1>5, <1>6, <1>7, <1>8, Kinds

-----------------------------------------------------------------------------
(* The three moves of a loop.                                              *)

\* A loop that serves goes on with the same connection, or settles it.
LEMMA Serves ==
  ASSUME TypeOK, NEW f \in Forwards, TakeCode(f) \/ DialSSH(f) \/ DialRemote(f)
  PROVE  /\ loop[f] \in Serving
         /\ \/ UNCHANGED <<conn, cur>> /\ \E s \in Serving : loop' = [loop EXCEPT ![f] = s]
            \/ \E s \in {"bridged", "dropped"} : Settle(f, s)
         /\ UNCHANGED <<driver, listener, backlog>>
  BY DEF TakeCode, DialSSH, DialRemote, TryFails, Serving, driverVars

\* A step that moves no loop that serves, or would begin to.
Aside ==
  /\ UNCHANGED <<cur, try, sessions>>
  /\ \A f \in Forwards : loop'[f] = loop[f] \/ (loop[f] \notin Serving /\ loop'[f] \notin Serving)

\* The other steps are such.
LEMMA AsideStep ==
  ASSUME TypeOK, LoopsBegin, [Next]_vars,
         \A f \in Forwards : ~(Accept(f) \/ TakeCode(f) \/ DialSSH(f) \/ DialRemote(f))
  PROVE  Aside
<1>t. /\ loop \in [Forwards -> {"off", "accept", "lock", "ended"} \union Serving] /\ at \in Forwards
  BY DEF TypeOK
<1>1. CASE Forward
  <2>1. loop[at] = "off"
    BY <1>1, <1>t, PortsAreNumbers DEF Forward, LoopsBegin
  <2> QED
    BY <1>1, <1>t, <2>1 DEF Forward, Aside, Serving
<1>2. ASSUME NEW f \in Forwards, AcceptFails(f) \/ LoopEnds(f) PROVE Aside
  BY <1>2, <1>t DEF AcceptFails, LoopEnds, Aside, Serving
<1>3. CASE UNCHANGED <<cur, loop, try, sessions>>
  BY <1>3 DEF Aside
<1>4. ASSUME NEW c \in Conns, UserDials(c) PROVE UNCHANGED <<cur, loop, try, sessions>>
  BY <1>4 DEF UserDials, loopVars
<1>5. CASE \/ Start \/ ProbePort \/ Teardown \/ StopLock \/ CloseListener
           \/ WaitChan \/ AskCode \/ SendCode \/ UNCHANGED vars
  BY <1>3, <1>5 DEF Start, ProbePort, Teardown, StopLock, CloseListener, WaitChan, AskCode,
                    SendCode, vars, loopVars
<1> QED
  BY <1>1, <1>2, <1>3, <1>4, <1>5, Kinds

\* A loop takes a connection from its own queue, and lets go of it when it is settled.
LEMMA ServesOwnStep ==
  TypeOK /\ OwnQueue /\ LoopsBegin /\ ServesOwn /\ [Next]_vars => ServesOwn'
<1> SUFFICES ASSUME TypeOK, OwnQueue, LoopsBegin, ServesOwn, [Next]_vars PROVE ServesOwn'
  OBVIOUS
<1>t. /\ loop \in [Forwards -> {"off", "accept", "lock", "ended"} \union Serving]
      /\ cur \in [Forwards -> Conns \union {NoConn}]
  BY DEF TypeOK
<1>1. ASSUME NEW f \in Forwards, Accept(f) PROVE ServesOwn'
  <2>1. Head(backlog[f]) \in Conns /\ Head(backlog[f])[1] = f
    <3>1. backlog[f] \in Seq({c \in Conns : c[1] = f}) /\ backlog[f] # << >>
      BY <1>1 DEF Accept, OwnQueue
    <3> QED
      BY <3>1, QueueStep
  <2> QED
    BY <1>1, <1>t, <2>1 DEF Accept, ServesOwn, Serving
<1>2. ASSUME NEW f \in Forwards, TakeCode(f) \/ DialSSH(f) \/ DialRemote(f) PROVE ServesOwn'
  <2>1. CASE cur' = cur /\ \E s \in Serving : loop' = [loop EXCEPT ![f] = s]
    BY <1>2, <1>t, <2>1, Serves DEF ServesOwn
  <2>2. ASSUME NEW s, Settle(f, s) PROVE ServesOwn'
    BY <1>t, <2>2 DEF Settle, ServesOwn, Serving
  <2> QED
    BY <1>2, <2>1, <2>2, Serves
<1>3. CASE Aside
  BY <1>3 DEF Aside, ServesOwn
<1> QED
  BY <1>1, <1>2, <1>3, AsideStep

-----------------------------------------------------------------------------
(* What becomes of a connection.                                           *)

\* What Append and Tail do to the elements of a queue.
LEMMA QueueElements ==
  ASSUME NEW S, NEW s \in Seq(S)
  PROVE  /\ Len(s) \in Nat /\ \A i \in 1..Len(s) : s[i] \in S
         /\ \A e \in S : /\ Len(Append(s, e)) = Len(s) + 1
                         /\ \A i \in 1..(Len(s) + 1) :
                              Append(s, e)[i] = IF i <= Len(s) THEN s[i] ELSE e
         /\ s # << >> => /\ Head(s) = s[1] /\ Len(s) >= 1
                         /\ Len(Tail(s)) = Len(s) - 1
                         /\ \A i \in 1..(Len(s) - 1) : Tail(s)[i] = s[i + 1]
  OBVIOUS

\* The ways a step changes what became of the connections.
LEMMA FateKinds ==
  ASSUME TypeOK, LoopsBegin, [Next]_vars
  PROVE  \/ Aside /\ CloseListener
         \/ Aside /\ listener' = listener /\ \E c \in Conns : Dials(c)
         \/ /\ Aside /\ UNCHANGED <<conn, backlog>>
            /\ listener' = listener \/ listener' = [listener EXCEPT ![at] = "open"]
         \/ \E f \in Forwards : Accept(f)
         \/ \E f \in Forwards : TakeCode(f) \/ DialSSH(f) \/ DialRemote(f)
<1> SUFFICES ASSUME \A f \in Forwards : ~(Accept(f) \/ TakeCode(f) \/ DialSSH(f) \/ DialRemote(f))
             PROVE  \/ Aside /\ CloseListener
                    \/ Aside /\ listener' = listener /\ \E c \in Conns : Dials(c)
                    \/ /\ Aside /\ UNCHANGED <<conn, backlog>>
                       /\ listener' = listener \/ listener' = [listener EXCEPT ![at] = "open"]
  OBVIOUS
<1>a. Aside
  BY AsideStep
<1>1. CASE ProbePort
  <2>1. <<at, Probe>> \in Conns
    BY DEF TypeOK, Conns
  <2>2. listener' = listener /\ (Dials(<<at, Probe>>) \/ UNCHANGED <<conn, backlog>>)
    BY <1>1 DEF ProbePort
  <2> QED
    BY <1>a, <2>1, <2>2
<1>2. ASSUME NEW c \in Conns, UserDials(c) PROVE listener' = listener /\ Dials(c)
  BY <1>2 DEF UserDials, driverVars
<1>3. ASSUME NEW f \in Forwards, AcceptFails(f) \/ LoopEnds(f)
      PROVE  UNCHANGED <<conn, backlog, listener>>
  BY <1>3 DEF AcceptFails, LoopEnds, driverVars
<1>4. CASE Forward
  BY <1>a, <1>4 DEF Forward
<1>5. CASE Start \/ Teardown \/ StopLock \/ WaitChan \/ AskCode \/ SendCode \/ UNCHANGED vars
  BY <1>a, <1>5 DEF Start, Teardown, StopLock, WaitChan, AskCode, SendCode, vars, driverVars
<1> QED
  BY <1>a, <1>1, <1>2, <1>3, <1>4, <1>5, Kinds

\* Who is queued is in the queue of an open port, and who is accepted is served,
\* whatever a step does.
LEMMA FatesStep ==
  ASSUME TypeOK, OwnQueue, LoopsBegin, ServesOwn, ServesAccepted, QueuedAtOpen, Queues, [Next]_vars
  PROVE  ServesAccepted' /\ QueuedAtOpen' /\ Queues'
<1>t. /\ at \in Forwards
      /\ conn \in [Conns -> {"idle", "queued", "accepted", "bridged", "dropped", "reset"}]
      /\ loop \in [Forwards -> {"off", "accept", "lock", "ended"} \union Serving]
      /\ cur \in [Forwards -> Conns \union {NoConn}]
      /\ listener \in [Forwards -> {"none", "open", "closed"}]
      /\ backlog \in [Forwards -> Seq(Conns)]
  BY DEF TypeOK
<1>q. \A f \in Forwards :
        /\ Len(backlog[f]) \in Nat
        /\ \A i \in 1..Len(backlog[f]) : backlog[f][i] \in Conns /\ backlog[f][i][1] = f
  <2> SUFFICES ASSUME NEW f \in Forwards
               PROVE  /\ Len(backlog[f]) \in Nat
                      /\ \A i \in 1..Len(backlog[f]) : backlog[f][i] \in Conns /\ backlog[f][i][1] = f
    OBVIOUS
  <2>1. backlog[f] \in Seq({c \in Conns : c[1] = f})
    BY DEF OwnQueue
  <2> QED
    BY <2>1, QueueElements
<1>1. CASE Aside /\ CloseListener
  <2>1. /\ \A c \in Conns : conn'[c] = IF c[1] = at /\ conn[c] = "queued" THEN "reset" ELSE conn[c]
        /\ backlog' = [backlog EXCEPT ![at] = << >>]
        /\ listener' = [listener EXCEPT ![at] = "closed"]
    BY <1>1 DEF CloseListener
  <2>2. ServesAccepted'
    BY <1>1, <1>t, <2>1 DEF ServesAccepted, ServesOwn, Aside
  <2>3. QueuedAtOpen'
    BY <1>t, <2>1, OwnPort DEF QueuedAtOpen
  <2>4. ASSUME NEW f \in Forwards PROVE
          \A i, j \in 1..Len(backlog'[f]) :
            /\ conn'[backlog'[f][i]] = "queued"
            /\ backlog'[f][i] = backlog'[f][j] => i = j
    <3>1. CASE f = at
      BY <1>t, <2>1, <3>1
    <3>2. CASE f # at
      BY <1>t, <1>q, <2>1, <3>2 DEF Queues
    <3> QED
      BY <3>1, <3>2
  <2> QED
    BY <2>2, <2>3, <2>4 DEF Queues
<1>2. ASSUME Aside, listener' = listener, NEW c \in Conns, Dials(c)
      PROVE  ServesAccepted' /\ QueuedAtOpen' /\ Queues'
  <2>1. /\ conn[c] = "idle" /\ listener[c[1]] = "open" /\ c[1] \in Forwards
        /\ conn' = [conn EXCEPT ![c] = "queued"]
        /\ backlog' = [backlog EXCEPT ![c[1]] = Append(@, c)]
    BY <1>2, OwnPort DEF Dials
  <2>2. ServesAccepted'
    BY <1>2, <1>t, <2>1 DEF ServesAccepted, ServesOwn, Aside
  <2>3. QueuedAtOpen'
    BY <1>2, <1>t, <2>1 DEF QueuedAtOpen
  <2>4. ASSUME NEW f \in Forwards PROVE
          \A i, j \in 1..Len(backlog'[f]) :
            /\ conn'[backlog'[f][i]] = "queued"
            /\ backlog'[f][i] = backlog'[f][j] => i = j
    <3>1. \A i, j \in 1..Len(backlog[f]) :
            /\ conn[backlog[f][i]] = "queued" /\ backlog[f][i] # c
            /\ backlog[f][i] = backlog[f][j] => i = j
      BY <2>1 DEF Queues
    <3>2. CASE f = c[1]
      <4>1. /\ Len(backlog'[f]) = Len(backlog[f]) + 1
            /\ \A i \in 1..(Len(backlog[f]) + 1) :
                 backlog'[f][i] = IF i <= Len(backlog[f]) THEN backlog[f][i] ELSE c
        BY <1>t, <2>1, <3>2, QueueElements
      <4> QED
        BY <1>t, <1>q, <2>1, <3>1, <4>1
    <3>3. CASE f # c[1]
      BY <1>t, <1>q, <2>1, <3>1, <3>3
    <3> QED
      BY <3>2, <3>3
  <2> QED
    BY <2>2, <2>3, <2>4 DEF Queues
<1>3. ASSUME Aside, UNCHANGED <<conn, backlog>>,
             listener' = listener \/ listener' = [listener EXCEPT ![at] = "open"]
      PROVE  ServesAccepted' /\ QueuedAtOpen' /\ Queues'
  BY <1>3, <1>t, OwnPort DEF ServesAccepted, QueuedAtOpen, Queues, Aside
<1>4. ASSUME NEW f \in Forwards, Accept(f) PROVE ServesAccepted' /\ QueuedAtOpen' /\ Queues'
  <2> DEFINE h == backlog[f][1]
  <2>1. /\ backlog[f] # << >> /\ Len(backlog[f]) >= 1 /\ Head(backlog[f]) = h
        /\ h \in Conns /\ h[1] = f
        /\ conn[h] = "queued"
        /\ \A i \in 1..Len(backlog[f]) : backlog[f][i] = h => i = 1
    BY <1>4, <1>t, <1>q, QueueElements DEF Accept, Queues
  <2>2. /\ conn' = [conn EXCEPT ![h] = "accepted"] /\ cur' = [cur EXCEPT ![f] = h]
        /\ backlog' = [backlog EXCEPT ![f] = Tail(@)]
        /\ loop' = [loop EXCEPT ![f] = "code"] /\ listener' = listener
    BY <1>4, <2>1 DEF Accept, driverVars
  <2> HIDE DEF h
  <2>3. ServesAccepted'
    BY <1>t, <2>1, <2>2 DEF ServesAccepted, ServesOwn
  <2>4. QueuedAtOpen'
    BY <1>t, <2>1, <2>2 DEF QueuedAtOpen
  <2>5. ASSUME NEW g \in Forwards PROVE
          \A i, j \in 1..Len(backlog'[g]) :
            /\ conn'[backlog'[g][i]] = "queued"
            /\ backlog'[g][i] = backlog'[g][j] => i = j
    <3>1. \A i, j \in 1..Len(backlog[g]) :
            /\ conn[backlog[g][i]] = "queued"
            /\ backlog[g][i] = backlog[g][j] => i = j
      BY DEF Queues
    <3>2. CASE g = f
      <4>1. /\ Len(backlog'[g]) = Len(backlog[g]) - 1
            /\ \A i \in 1..(Len(backlog[g]) - 1) : backlog'[g][i] = backlog[g][i + 1]
        BY <1>t, <2>1, <2>2, <3>2, QueueElements
      <4> QED
        BY <1>t, <1>q, <2>1, <2>2, <3>1, <3>2, <4>1
    <3>3. CASE g # f
      BY <1>t, <1>q, <2>1, <2>2, <3>1, <3>3
    <3> QED
      BY <3>2, <3>3
  <2> QED
    BY <2>3, <2>4, <2>5 DEF Queues
<1>5. ASSUME NEW f \in Forwards, TakeCode(f) \/ DialSSH(f) \/ DialRemote(f)
      PROVE  ServesAccepted' /\ QueuedAtOpen' /\ Queues'
  <2>0. /\ loop[f] \in Serving /\ cur[f] \in Conns /\ cur[f][1] = f /\ conn[cur[f]] = "accepted"
        /\ UNCHANGED <<listener, backlog>>
    BY <1>5, Serves DEF ServesOwn, ServesAccepted
  <2>1. CASE UNCHANGED <<conn, cur>> /\ \E s \in Serving : loop' = [loop EXCEPT ![f] = s]
    BY <1>t, <2>0, <2>1 DEF ServesAccepted, QueuedAtOpen, Queues
  <2>2. ASSUME NEW s \in {"bridged", "dropped"}, Settle(f, s)
        PROVE  ServesAccepted' /\ QueuedAtOpen' /\ Queues'
    <3>1. conn' = [conn EXCEPT ![cur[f]] = s] /\ loop' = [loop EXCEPT ![f] = "accept"]
          /\ cur' = [cur EXCEPT ![f] = NoConn]
      BY <2>2 DEF Settle
    <3>2. ServesAccepted'
      BY <1>t, <2>0, <3>1 DEF ServesAccepted, ServesOwn, Serving
    <3>3. QueuedAtOpen'
      BY <1>t, <2>0, <3>1 DEF QueuedAtOpen
    <3>4. Queues'
      BY <1>t, <1>q, <2>0, <3>1 DEF Queues
    <3> QED
      BY <3>2, <3>3, <3>4
  <2> QED
    BY <1>5, <2>1, <2>2, Serves
<1> QED
  BY <1>1, <1>2, <1>3, <1>4, <1>5, FateKinds

-----------------------------------------------------------------------------
(* What a connection costs.                                                *)

\* An SSH connection is opened by a try of the connection it is for.
LEMMA CostsStep ==
  ASSUME TypeOK, OwnQueue, LoopsBegin, ServesOwn, ServesAccepted, Queues,
         LoopCosts, ConnCosts, [Next]_vars
  PROVE  LoopCosts' /\ ConnCosts'
<1>t. /\ conn \in [Conns -> {"idle", "queued", "accepted", "bridged", "dropped", "reset"}]
      /\ loop \in [Forwards -> {"off", "accept", "lock", "ended"} \union Serving]
      /\ cur \in [Forwards -> Conns \union {NoConn}]
      /\ sessions \in [Conns -> Nat]
      /\ try \in [Forwards -> 0..(MaxRetries + 1)]
      /\ MaxRetries \in Nat
  BY CountAssumption DEF TypeOK
<1>1. CASE /\ Aside
           /\ \/ conn' = conn
              \/ \E c \in Conns : Dials(c)
              \/ CloseListener
  <2>1. LoopCosts'
    BY <1>1 DEF Aside, LoopCosts
  <2>2. ConnCosts'
    BY <1>1, <1>t DEF Aside, ConnCosts, Dials, CloseListener
  <2> QED
    BY <2>1, <2>2
<1>2. ASSUME NEW f \in Forwards, Accept(f) PROVE LoopCosts' /\ ConnCosts'
  <2> DEFINE h == Head(backlog[f])
  <2>1. h \in Conns /\ h[1] = f /\ conn[h] = "queued"
    <3>1. backlog[f] \in Seq({c \in Conns : c[1] = f}) /\ backlog[f] # << >>
      BY <1>2 DEF Accept, OwnQueue
    <3>2. h = backlog[f][1] /\ 1 \in 1..Len(backlog[f]) /\ h \in {c \in Conns : c[1] = f}
      BY <3>1, QueueElements, QueueStep
    <3> QED
      BY <3>2 DEF Queues
  <2>2. /\ loop[f] = "accept"
        /\ conn' = [conn EXCEPT ![h] = "accepted"] /\ cur' = [cur EXCEPT ![f] = h]
        /\ loop' = [loop EXCEPT ![f] = "code"] /\ try' = [try EXCEPT ![f] = 0]
        /\ sessions' = sessions
    BY <1>2 DEF Accept
  <2> HIDE DEF h
  <2>3. sessions[h] = 0
    BY <2>1 DEF ConnCosts
  <2> QED
    BY <1>t, <2>1, <2>2, <2>3 DEF LoopCosts, ConnCosts
<1>3. ASSUME NEW f \in Forwards, TakeCode(f) \/ DialSSH(f) \/ DialRemote(f)
      PROVE  LoopCosts' /\ ConnCosts'
  <2>0. /\ loop[f] \in Serving /\ cur[f] \in Conns /\ cur[f][1] = f /\ conn[cur[f]] = "accepted"
        /\ \A g \in Forwards : g # f /\ loop[g] \in Serving => cur[g] \in Conns /\ cur[g] # cur[f]
        /\ sessions[cur[f]] <= IF loop[f] = "dial" THEN try[f] - 1 ELSE try[f]
        /\ loop[f] = "remote" => sessions[cur[f]] > 0
    BY <1>3, Serves DEF ServesOwn, ServesAccepted, LoopCosts
  <2>1. CASE TakeCode(f)
    <3>1. /\ loop[f] = "code" /\ loop' = [loop EXCEPT ![f] = "dial"]
          /\ try' = [try EXCEPT ![f] = @ + 1] /\ UNCHANGED <<conn, cur, sessions>>
      BY <2>1 DEF TakeCode
    <3> QED
      BY <1>t, <2>0, <3>1 DEF LoopCosts, ConnCosts
  <2>2. CASE /\ loop[f] = "dial" /\ loop' = [loop EXCEPT ![f] = "remote"]
             /\ sessions' = [sessions EXCEPT ![cur[f]] = @ + 1] /\ UNCHANGED <<conn, cur, try>>
    BY <1>t, <2>0, <2>2 DEF LoopCosts, ConnCosts
  <2>3. CASE /\ loop' = [loop EXCEPT ![f] = "code"] /\ UNCHANGED <<conn, cur, try, sessions>>
    BY <1>t, <2>0, <2>3 DEF LoopCosts, ConnCosts
  <2>4. ASSUME sessions' = sessions, NEW s \in {"bridged", "dropped"}, Settle(f, s),
               s = "bridged" => loop[f] = "remote"
        PROVE  LoopCosts' /\ ConnCosts'
    <3>1. /\ conn' = [conn EXCEPT ![cur[f]] = s] /\ loop' = [loop EXCEPT ![f] = "accept"]
          /\ cur' = [cur EXCEPT ![f] = NoConn] /\ try' = [try EXCEPT ![f] = 0]
      BY <2>4 DEF Settle
    <3>2. LoopCosts'
      BY <1>t, <2>0, <2>4, <3>1 DEF LoopCosts, Serving
    <3>3. ConnCosts'
      BY <1>t, <2>0, <2>4, <3>1 DEF ConnCosts
    <3> QED
      BY <3>2, <3>3
  <2>5. CASE DialSSH(f)
    BY <2>2, <2>3, <2>4, <2>5 DEF DialSSH, TryFails
  <2>6. CASE DialRemote(f)
    BY <2>3, <2>4, <2>6 DEF DialRemote, TryFails
  <2> QED
    BY <1>3, <2>1, <2>5, <2>6
<1> QED
  BY <1>1, <1>2, <1>3, FateKinds

-----------------------------------------------------------------------------
(* The theorems.                                                           *)

\* The invariant holds at the start ...
LEMMA InitFInv == Init => FInv
<1> SUFFICES ASSUME Init PROVE FInv
  OBVIOUS
<1>1. ListenerAt /\ ServesOwn /\ ServesAccepted
  BY DEF Init, ListenerAt, ServesOwn, ServesAccepted, Serving
<1>2. QueuedAtOpen /\ Queues /\ LoopCosts /\ ConnCosts
  BY DEF Init, QueuedAtOpen, Queues, LoopCosts, ConnCosts, Serving
<1> QED
  BY <1>1, <1>2, InitIInv DEF FInv

\* ... and every step keeps it.
LEMMA FInvariance == Spec => []FInv
<1>1. IInv /\ [Next]_vars => IInv'
  BY TypeStep, AgeStep, DropStep, OwnQueueStep, BeginStep, ServeStep DEF IInv
<1>2. FInv /\ [Next]_vars => FInv'
  BY <1>1, ListenerStep, ServesOwnStep, FatesStep, CostsStep DEF FInv, IInv
<1> QED
  BY InitFInv, <1>2, PTL DEF Spec

\* A connection costs at most MaxRetries + 1 SSH connections, one not yet
\* accepted none, and one that is bridged has its own, for any number of ports
\* and tries (ssh/tunnel.go:131-151).
THEOREM SessionsBoundedCorrect == Spec => []SessionsBounded
<1>1. FInv => SessionsBounded
  <2> SUFFICES ASSUME FInv, NEW c \in Conns, conn[c] = "accepted"
               PROVE  sessions[c] <= MaxRetries + 1
    <3>1. ASSUME FInv, NEW c \in Conns
          PROVE  conn[c] \in {"idle", "queued", "accepted", "bridged", "dropped", "reset"}
      BY <3>1 DEF FInv, IInv, TypeOK
    <3> QED
      BY <3>1, CountAssumption DEF FInv, SessionsBounded, ConnCosts
  <2>1. c[1] \in Forwards /\ loop[c[1]] \in Serving /\ cur[c[1]] = c
    BY OwnPort DEF FInv, IInv, AcceptedIsServed
  <2>2. try[c[1]] \in 0..(MaxRetries + 1) /\ sessions[c] \in Nat
    BY <2>1 DEF FInv, IInv, TypeOK
  <2>3. sessions[c] <= IF loop[c[1]] = "dial" THEN try[c[1]] - 1 ELSE try[c[1]]
    BY <2>1 DEF FInv, LoopCosts
  <2> QED
    BY <2>2, <2>3, CountAssumption
<1> QED
  BY <1>1, FInvariance, PTL

\* Once Stop has returned no client waits for a loop that has ended, if Start
\* had opened every port (ssh/tunnel.go:174-176).
THEOREM NobodyWaitsCorrect == Spec => []NobodyWaitsAfterStop
<1>1. FInv => NobodyWaitsAfterStop
  BY OwnPort DEF FInv, IInv, TypeOK, ListenerAt, QueuedAtOpen, NobodyWaitsAfterStop
<1> QED
  BY <1>1, FInvariance, PTL

\* The tunnel keeps what Forwarding promises its clients: each of its steps is
\* one of Forwarding's, or a stutter (ssh/tunnel.go:76-181).
THEOREM KeepsForwardingCorrect == Spec => KeepsForwarding
<1>1. Init => PortService!Init
  BY DEF Init, PortService!Init, Conns, PortService!Conns
<1>2. FInv /\ [Next]_vars => [PortService!Next]_(PortService!vars)
  <2> SUFFICES ASSUME FInv, [Next]_vars
               PROVE  PortService!Next \/ UNCHANGED PortService!vars
    BY DEF PortService!vars
  <2>t. /\ TypeOK /\ LoopsBegin /\ ListenerAt /\ ServesOwn /\ at \in Forwards
        /\ Conns = PortService!Conns
        /\ listener \in [Forwards -> {"none", "open", "closed"}]
    BY DEF FInv, IInv, TypeOK, Conns, PortService!Conns
  <2>1. CASE Forward
    <3>1. driver = "listen" /\ listener[at] = "none"
      BY <2>1, <2>t, PortsAreNumbers DEF Forward, ListenerAt
    <3>2. CASE listener' = [listener EXCEPT ![at] = "open"] /\ driver' # "stopped"
      BY <2>1, <2>t, <3>1, <3>2 DEF Forward, PortService!Open, PortService!Next
    <3>3. CASE driver' = "stopped" /\ listener' = listener
      BY <2>1, <2>t, <3>1, <3>3 DEF Forward, PortService!GiveUp, PortService!Next
    <3> QED
      BY <2>1, <3>1, <3>2, <3>3 DEF Forward
  <2>2. ASSUME NEW c \in Conns, Dials(c), UNCHANGED <<listener, cur>>,
               driver # "stopped" \/ driver' = driver, driver' # "stopped" \/ driver' = driver
        PROVE  PortService!Next
    <3>1. PortService!Connect(c)
      BY <2>2 DEF Dials, PortService!Connect
    <3> QED
      BY <2>t, <3>1 DEF PortService!Next
  <2>3. CASE ProbePort
    <3>1. <<at, Probe>> \in Conns
      BY <2>t DEF Conns
    <3> QED
      BY <2>2, <2>3, <3>1 DEF ProbePort, PortService!vars, loopVars
  <2>4. CASE CloseListener
    <3>1. /\ driver = "closing" /\ listener[at] = "open"
          /\ \A f \in Forwards : listener[f] = IF f < at THEN "closed" ELSE "open"
      BY <2>4, <2>t, PortsAreNumbers DEF CloseListener, ListenerAt
    <3>2. listener' = [listener EXCEPT ![at] = "closed"]
      BY <2>4 DEF CloseListener
    <3>3. driver' = "stopped" <=> \A f \in Forwards : listener'[f] = "closed"
      <4>1. CASE at < N /\ driver' = driver
        BY <2>t, <3>1, <3>2, <4>1, PortsAreNumbers
      <4>2. CASE at = N /\ driver' = "stopped"
        BY <2>t, <3>1, <3>2, <4>2, PortsAreNumbers
      <4> QED
        BY <2>4, <4>1, <4>2 DEF CloseListener
    <3>4. PortService!Close(at)
      BY <2>4, <2>t, <3>1, <3>2, <3>3 DEF CloseListener, PortService!Close, PortService!Conns, Conns, loopVars
    <3> QED
      BY <2>t, <3>4 DEF PortService!Next
  <2>5. ASSUME NEW f \in Forwards, Accept(f) PROVE PortService!Next
    <3>1. cur[f] = NoConn
      BY <2>5, <2>t DEF Accept, ServesOwn, Serving
    <3>2. PortService!Take(f)
      BY <2>5, <3>1 DEF Accept, PortService!Take, driverVars
    <3> QED
      BY <3>2 DEF PortService!Next
  <2>6. ASSUME NEW f \in Forwards, TakeCode(f) \/ DialSSH(f) \/ DialRemote(f)
        PROVE  PortService!Next \/ UNCHANGED PortService!vars
    <3>1. cur[f] # NoConn /\ UNCHANGED <<driver, listener, backlog>>
      BY <2>6, <2>t, Serves, NoConnIsNone DEF ServesOwn
    <3>2. CASE UNCHANGED <<conn, cur>>
      BY <3>1, <3>2 DEF PortService!vars
    <3>3. ASSUME NEW s \in {"bridged", "dropped"}, Settle(f, s) PROVE PortService!Finish(f)
      BY <3>1, <3>3 DEF Settle, PortService!Finish
    <3> QED
      BY <2>6, <2>t, <3>2, <3>3, Serves DEF PortService!Next
  <2>7. ASSUME NEW f \in Forwards, AcceptFails(f) \/ LoopEnds(f)
        PROVE  UNCHANGED PortService!vars
    BY <2>7 DEF AcceptFails, LoopEnds, driverVars, PortService!vars
  <2>8. ASSUME NEW c \in Conns, UserDials(c) PROVE PortService!Next
    BY <2>2, <2>8 DEF UserDials, driverVars, loopVars
  <2>9. CASE Start \/ Teardown \/ StopLock
    BY <2>9 DEF Start, Teardown, StopLock, loopVars, PortService!vars
  <2>10. CASE WaitChan \/ AskCode \/ SendCode \/ UNCHANGED vars
    BY <2>10 DEF WaitChan, AskCode, SendCode, vars, driverVars, loopVars, PortService!vars
  <2> QED
    BY <2>1, <2>3, <2>4, <2>5, <2>6, <2>7, <2>8, <2>9, <2>10, Kinds
<1> QED
  BY <1>1, <1>2, FInvariance, PTL DEF Spec, KeepsForwarding, PortService!Spec

-----------------------------------------------------------------------------
(* Who waits, waits at a port that is served.                              *)

\* Who is queued is in the queue of the port it has connected to: the converse
\* of Queues.
InQueue(c)    == \E i \in 1..Len(backlog[c[1]]) : backlog[c[1]][i] = c
QueuedInQueue == \A c \in Conns : conn[c] = "queued" => InQueue(c)

\* The loop of an open port has not ended.
OpenAreServed == \A f \in Forwards : listener[f] = "open" => loop[f] \in {"accept"} \union Serving

\* Connections join their queue, leave it to be served, or all at once.
LEMMA QueuedInQueueStep ==
  ASSUME TypeOK, LoopsBegin, QueuedInQueue, [Next]_vars
  PROVE  QueuedInQueue'
<1>t. /\ at \in Forwards
      /\ conn \in [Conns -> {"idle", "queued", "accepted", "bridged", "dropped", "reset"}]
      /\ cur \in [Forwards -> Conns \union {NoConn}]
      /\ backlog \in [Forwards -> Seq(Conns)]
  BY DEF TypeOK
<1> SUFFICES ASSUME NEW c \in Conns, conn'[c] = "queued" PROVE InQueue(c)'
  BY DEF QueuedInQueue
<1>p. c[1] \in Forwards /\ backlog[c[1]] \in Seq(Conns)
  BY <1>t, OwnPort
<1>0. ASSUME conn[c] = "queued", backlog'[c[1]] = backlog[c[1]] PROVE InQueue(c)'
  BY <1>0 DEF QueuedInQueue, InQueue
<1>1. CASE CloseListener
  <2>1. conn'[c] = IF c[1] = at /\ conn[c] = "queued" THEN "reset" ELSE conn[c]
    BY <1>1 DEF CloseListener
  <2>2. conn[c] = "queued" /\ c[1] # at
    BY <2>1
  <2>3. backlog'[c[1]] = backlog[c[1]]
    BY <1>1, <1>t, <1>p, <2>2 DEF CloseListener
  <2> QED
    BY <1>0, <2>2, <2>3
<1>2. ASSUME NEW d \in Conns, Dials(d) PROVE InQueue(c)'
  <2>1. /\ conn' = [conn EXCEPT ![d] = "queued"] /\ d[1] \in Forwards
        /\ backlog' = [backlog EXCEPT ![d[1]] = Append(@, d)]
    BY <1>2, OwnPort DEF Dials
  <2>2. CASE c[1] = d[1]
    <3>1. /\ Len(backlog'[c[1]]) = Len(backlog[c[1]]) + 1 /\ Len(backlog[c[1]]) \in Nat
          /\ \A i \in 1..(Len(backlog[c[1]]) + 1) :
               backlog'[c[1]][i] = IF i <= Len(backlog[c[1]]) THEN backlog[c[1]][i] ELSE d
      BY <1>t, <1>p, <2>1, <2>2, QueueElements
    <3>2. CASE c = d
      <4>1. backlog'[c[1]][Len(backlog[c[1]]) + 1] = c
        BY <3>1, <3>2
      <4> QED
        BY <3>1, <4>1 DEF InQueue
    <3>3. CASE c # d
      <4>1. PICK i \in 1..Len(backlog[c[1]]) : backlog[c[1]][i] = c
        BY <1>t, <2>1, <3>3 DEF QueuedInQueue, InQueue
      <4>2. i \in 1..Len(backlog'[c[1]]) /\ backlog'[c[1]][i] = c
        BY <3>1, <4>1
      <4> QED
        BY <4>2 DEF InQueue
    <3> QED
      BY <3>2, <3>3
  <2>3. CASE c[1] # d[1]
    BY <1>0, <1>t, <1>p, <2>1, <2>3
  <2> QED
    BY <2>2, <2>3
<1>3. CASE UNCHANGED <<conn, backlog>>
  BY <1>0, <1>3
<1>4. ASSUME NEW f \in Forwards, Accept(f) PROVE InQueue(c)'
  <2> DEFINE h == Head(backlog[f])
  <2>1. /\ backlog[f] # << >> /\ backlog[f] \in Seq(Conns)
        /\ conn' = [conn EXCEPT ![h] = "accepted"]
        /\ backlog' = [backlog EXCEPT ![f] = Tail(@)]
    BY <1>4, <1>t DEF Accept
  <2>2. /\ h = backlog[f][1] /\ h \in Conns
        /\ Len(backlog[f]) \in Nat /\ Len(Tail(backlog[f])) = Len(backlog[f]) - 1
        /\ \A i \in 1..(Len(backlog[f]) - 1) : Tail(backlog[f])[i] = backlog[f][i + 1]
    BY <2>1, QueueElements
  <2> HIDE DEF h
  <2>3. conn[c] = "queued" /\ c # h
    BY <1>t, <2>1, <2>2
  <2>4. CASE c[1] = f
    <3>1. PICK i \in 1..Len(backlog[f]) : backlog[f][i] = c
      BY <2>3, <2>4 DEF QueuedInQueue, InQueue
    <3>2. i # 1
      BY <2>2, <2>3, <3>1
    <3>3. i - 1 \in 1..(Len(backlog[f]) - 1) /\ (i - 1) + 1 = i
      BY <2>2, <3>2
    <3>4. Tail(backlog[f])[i - 1] = c
      BY <2>2, <3>1, <3>3
    <3>5. backlog'[c[1]] = Tail(backlog[f])
      BY <1>t, <2>1, <2>4
    <3>6. i - 1 \in 1..Len(backlog'[c[1]]) /\ backlog'[c[1]][i - 1] = c
      BY <2>2, <3>3, <3>4, <3>5
    <3> QED
      BY <3>6 DEF InQueue
  <2>5. CASE c[1] # f
    BY <1>0, <1>t, <1>p, <2>1, <2>3, <2>5
  <2> QED
    BY <2>4, <2>5
<1>5. ASSUME NEW f \in Forwards, TakeCode(f) \/ DialSSH(f) \/ DialRemote(f)
      PROVE  InQueue(c)'
  <2>1. backlog' = backlog
    BY <1>5, Serves
  <2>2. conn[c] = "queued"
    <3>1. CASE conn' = conn
      BY <3>1
    <3>2. ASSUME NEW s \in {"bridged", "dropped"}, Settle(f, s) PROVE conn[c] = "queued"
      BY <1>t, <3>2 DEF Settle
    <3> QED
      BY <1>5, <3>1, <3>2, Serves
  <2> QED
    BY <1>0, <2>1, <2>2
<1> QED
  BY <1>1, <1>2, <1>3, <1>4, <1>5, FateKinds

\* A loop ends after its port is closed, as long as Accept does not fail.
LEMMA OpenAreServedStep ==
  ASSUME ~AcceptFaults, TypeOK, LoopsBegin, OpenAreServed, [Next]_vars
  PROVE  OpenAreServed'
<1>t. /\ at \in Forwards
      /\ loop \in [Forwards -> {"off", "accept", "lock", "ended"} \union Serving]
      /\ listener \in [Forwards -> {"none", "open", "closed"}]
  BY DEF TypeOK
<1>1. CASE Forward
  BY <1>1, <1>t DEF Forward, OpenAreServed
<1>2. CASE CloseListener
  BY <1>2, <1>t DEF CloseListener, OpenAreServed, loopVars
<1>3. ASSUME NEW f \in Forwards, Accept(f) PROVE OpenAreServed'
  BY <1>3, <1>t DEF Accept, OpenAreServed, driverVars, Serving
<1>4. ASSUME NEW f \in Forwards, AcceptFails(f) \/ LoopEnds(f) PROVE OpenAreServed'
  BY <1>4, <1>t DEF AcceptFails, LoopEnds, OpenAreServed, driverVars, Serving
<1>5. ASSUME NEW f \in Forwards, TakeCode(f) \/ DialSSH(f) \/ DialRemote(f)
      PROVE  OpenAreServed'
  <2>1. listener' = listener
    BY <1>5, Serves
  <2>2. ASSUME NEW s \in {"accept"} \union Serving, loop' = [loop EXCEPT ![f] = s]
        PROVE  OpenAreServed'
    BY <1>t, <2>1, <2>2 DEF OpenAreServed
  <2> QED
    BY <1>5, <2>2, Serves DEF Settle
<1>6. CASE UNCHANGED <<loop, listener>>
  BY <1>6 DEF OpenAreServed
<1>7. ASSUME NEW c \in Conns, UserDials(c) PROVE UNCHANGED <<loop, listener>>
  BY <1>7 DEF UserDials, driverVars, loopVars
<1>8. CASE \/ Start \/ ProbePort \/ Teardown \/ StopLock \/ WaitChan \/ AskCode \/ SendCode
           \/ UNCHANGED vars
  BY <1>6, <1>8 DEF Start, ProbePort, Teardown, StopLock, WaitChan, AskCode, SendCode, vars,
                    driverVars, loopVars
<1> QED
  BY <1>1, <1>2, <1>3, <1>4, <1>5, <1>6, <1>7, <1>8, Kinds

\* No client waits at a dead port, or is lost from its queue: what is safe of
\* EveryoneServed (ssh/tunnel.go:87-95, :101-105, :174-176).
THEOREM WaitingAreServedCorrect == Spec => []WaitingAreServed
<1>1. Init => QueuedInQueue /\ OpenAreServed
  BY DEF Init, QueuedInQueue, OpenAreServed
<1>2. FInv /\ QueuedInQueue /\ [Next]_vars => QueuedInQueue'
  BY QueuedInQueueStep DEF FInv, IInv
<1>3. FInv /\ QueuedInQueue /\ OpenAreServed => WaitingAreServed
  <2> SUFFICES ASSUME FInv, QueuedInQueue, OpenAreServed, NEW c \in Conns, conn[c] = "queued"
               PROVE  /\ listener[c[1]] = "open" /\ loop[c[1]] \in {"accept"} \union Serving
                      /\ \E i \in DOMAIN backlog[c[1]] : backlog[c[1]][i] = c
    BY DEF WaitingAreServed
  <2>1. c[1] \in Forwards /\ listener[c[1]] = "open"
    BY OwnPort DEF FInv, QueuedAtOpen
  <2>2. backlog[c[1]] \in Seq(Conns)
    BY <2>1 DEF FInv, IInv, TypeOK
  <2>3. DOMAIN backlog[c[1]] = 1..Len(backlog[c[1]])
    BY <2>2
  <2>4. InQueue(c)
    BY DEF QueuedInQueue
  <2> QED
    BY <2>1, <2>3, <2>4 DEF InQueue, OpenAreServed
<1>4. CASE AcceptFaults
  <2>1. WaitingAreServed
    BY <1>4 DEF WaitingAreServed
  <2> QED
    BY <2>1, PTL
<1>5. CASE ~AcceptFaults
  <2>1. FInv /\ OpenAreServed /\ [Next]_vars => OpenAreServed'
    BY <1>5, OpenAreServedStep DEF FInv, IInv
  <2> QED
    BY <1>1, <1>2, <1>3, <2>1, FInvariance, PTL DEF Spec
<1> QED
  BY <1>4, <1>5

-----------------------------------------------------------------------------
(* What App sees of Start and Stop.                                        *)

\* shutdownChan exists from the end of Start to the end of Stop, and a Start
\* that failed has got as far as at.
ChanAt ==
  /\ driver \in {"start", "listen", "stopped"} => shutdownChan = "nil"
  /\ driver \in {"probe", "ready", "stop"} => shutdownChan = "open"
  /\ driver = "stopped" =>
       \/ \A f \in Forwards : listener[f] = "closed"
       \/ \A f \in Forwards : listener[f] = IF f < at THEN "open" ELSE "none"

\* Only the driver's steps touch it.
LEMMA ChanStep == TypeOK /\ ListenerAt /\ ChanAt /\ [Next]_vars => ChanAt'
<1> SUFFICES ASSUME TypeOK, ListenerAt, ChanAt, [Next]_vars PROVE ChanAt'
  OBVIOUS
<1>t. /\ at \in Forwards /\ listener \in [Forwards -> {"none", "open", "closed"}]
      /\ driver \in {"start", "listen", "probe", "ready", "stop", "closing", "stopped"}
  BY DEF TypeOK
<1>1. CASE Start \/ Teardown \/ StopLock
  BY <1>1 DEF Start, Teardown, StopLock, ChanAt
<1>2. CASE Forward
  BY <1>2, <1>t, PortsAreNumbers DEF Forward, ListenerAt, ChanAt
<1>3. CASE ProbePort
  BY <1>3 DEF ProbePort, ChanAt
<1>4. CASE CloseListener
  BY <1>4, <1>t, PortsAreNumbers DEF CloseListener, ListenerAt, ChanAt
<1>5. CASE UNCHANGED driverVars
  BY <1>5 DEF driverVars, ChanAt
<1>6. ASSUME NEW c \in Conns, UserDials(c) PROVE UNCHANGED driverVars
  BY <1>6 DEF UserDials
<1>7. ASSUME NEW f \in Forwards,
             \/ Accept(f) \/ AcceptFails(f) \/ LoopEnds(f) \/ TakeCode(f) \/ DialSSH(f) \/ DialRemote(f)
      PROVE  UNCHANGED driverVars
  BY <1>7 DEF Accept, AcceptFails, LoopEnds, TakeCode, DialSSH, DialRemote
<1>8. CASE WaitChan \/ AskCode \/ SendCode \/ UNCHANGED vars
  BY <1>5, <1>8 DEF WaitChan, AskCode, SendCode, vars
<1> QED
  BY <1>1, <1>2, <1>3, <1>4, <1>5, <1>6, <1>7, <1>8, Kinds

\* The steps ConduitApp takes for Start and Stop are what comes of the mutex,
\* the loops over the ports and the failure of one of them (ssh/tunnel.go:76-98,
\* :170-181).
THEOREM StartsAndStopsCorrect == Spec => []StartsAndStops
<1>1. Init => ChanAt
  BY DEF Init, ChanAt
<1>2. FInv /\ ChanAt /\ [Next]_vars => ChanAt'
  BY ChanStep DEF FInv, IInv
<1>3. FInv /\ ChanAt => StartsAndStops
  BY DEF FInv, IInv, TypeOK, ListenerAt, ChanAt, StartsAndStops
<1> QED
  BY <1>1, <1>2, <1>3, FInvariance, PTL DEF Spec

-----------------------------------------------------------------------------
(* What the wait of startSSHTunnels establishes.                           *)

\* The ports probed so far have taken a connection.
Probed ==
  \A f \in Forwards :
    driver = "ready" \/ (driver = "probe" /\ f < at) => conn[<<f, Probe>>] # "idle"

\* Who has connected once is never idle again.
LEMMA NeverIdleAgain ==
  ASSUME TypeOK, LoopsBegin, [Next]_vars, NEW c \in Conns, conn[c] # "idle"
  PROVE  conn'[c] # "idle"
<1>t. /\ conn \in [Conns -> {"idle", "queued", "accepted", "bridged", "dropped", "reset"}]
      /\ cur \in [Forwards -> Conns \union {NoConn}]
  BY DEF TypeOK
<1>1. CASE CloseListener
  BY <1>1 DEF CloseListener
<1>2. ASSUME NEW d \in Conns, Dials(d) PROVE conn'[c] # "idle"
  BY <1>2, <1>t DEF Dials
<1>3. CASE conn' = conn
  BY <1>3
<1>4. ASSUME NEW f \in Forwards, Accept(f) PROVE conn'[c] # "idle"
  BY <1>4, <1>t DEF Accept
<1>5. ASSUME NEW f \in Forwards, TakeCode(f) \/ DialSSH(f) \/ DialRemote(f)
      PROVE  conn'[c] # "idle"
  <2>1. ASSUME NEW s \in {"bridged", "dropped"}, Settle(f, s) PROVE conn'[c] # "idle"
    BY <1>t, <2>1 DEF Settle
  <2> QED
    BY <1>3, <1>5, <2>1, Serves
<1> QED
  BY <1>1, <1>2, <1>3, <1>4, <1>5, FateKinds

\* The probes go through the ports one by one.
LEMMA ProbedStep == FInv /\ Probed /\ [Next]_vars => Probed'
<1> SUFFICES ASSUME FInv, Probed, [Next]_vars,
                    NEW f \in Forwards, driver' = "ready" \/ (driver' = "probe" /\ f < at')
             PROVE  conn'[<<f, Probe>>] # "idle"
  BY DEF Probed
<1>t. /\ TypeOK /\ LoopsBegin /\ at \in Forwards /\ <<f, Probe>> \in Conns
      /\ conn \in [Conns -> {"idle", "queued", "accepted", "bridged", "dropped", "reset"}]
  BY DEF FInv, IInv, TypeOK, Conns
<1>n. f \in Nat /\ at \in Nat /\ f >= 1 /\ f <= N /\ at >= 1 /\ at <= N /\ N \in Nat
  BY <1>t, PortsAreNumbers
<1>0. ASSUME driver = "ready" \/ (driver = "probe" /\ f < at) PROVE conn'[<<f, Probe>>] # "idle"
  <2>1. conn[<<f, Probe>>] # "idle"
    BY <1>0 DEF Probed
  <2> QED
    BY <1>t, <2>1, NeverIdleAgain
<1>1. CASE Start \/ Teardown \/ StopLock \/ CloseListener
  BY <1>1 DEF Start, Teardown, StopLock, CloseListener
<1>2. CASE Forward
  BY <1>2, <1>n DEF Forward
<1>3. CASE ProbePort
  <2>1. driver = "probe"
    BY <1>3 DEF ProbePort
  <2>2. CASE f < at
    BY <1>0, <2>1, <2>2
  <2>3. CASE ~(f < at)
    <3>1. f = at /\ Dials(<<at, Probe>>)
      BY <1>3, <1>n, <2>3 DEF ProbePort
    <3> QED
      BY <1>t, <3>1 DEF Dials
  <2> QED
    BY <2>2, <2>3
<1>4. CASE UNCHANGED driverVars
  BY <1>0, <1>4 DEF driverVars
<1>5. ASSUME NEW c \in Conns, UserDials(c) PROVE UNCHANGED driverVars
  BY <1>5 DEF UserDials
<1>6. ASSUME NEW g \in Forwards,
             \/ Accept(g) \/ AcceptFails(g) \/ LoopEnds(g) \/ TakeCode(g) \/ DialSSH(g) \/ DialRemote(g)
      PROVE  UNCHANGED driverVars
  BY <1>6 DEF Accept, AcceptFails, LoopEnds, TakeCode, DialSSH, DialRemote
<1>7. CASE WaitChan \/ AskCode \/ SendCode \/ UNCHANGED vars
  BY <1>4, <1>7 DEF WaitChan, AskCode, SendCode, vars
<1> QED
  BY <1>1, <1>2, <1>3, <1>4, <1>5, <1>6, <1>7, Kinds

\* When conduit goes on to what needs the ports, each of them is an open listener
\* of its own that has taken a connection (conduit/app.go:462-475): so much, and
\* by finding 2 no more.
THEOREM ReadyMeansListeningCorrect == Spec => []ReadyMeansListening
<1>1. Init => Probed
  BY DEF Init, Probed
<1>2. FInv /\ Probed => ReadyMeansListening
  BY DEF FInv, ListenerAt, Probed, ReadyMeansListening
<1> QED
  BY <1>1, <1>2, ProbedStep, FInvariance, PTL DEF Spec
=============================================================================
