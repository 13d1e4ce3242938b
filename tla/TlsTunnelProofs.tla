--------------------------- MODULE TlsTunnelProofs ---------------------------
(* Theorems about TlsTunnel, for any clients and any capacity.             *)
EXTENDS TlsTunnel, TLAPS

\* No error ever leaves errorChan, so each failed Accept takes one of its
\* places for good, the last one excepted, which the loop may still hold.
Counted == /\ misses <= errs + (IF loop = "report" THEN 1 ELSE 0)
           /\ driver = "start" => loop = "off"

\* What HandledOnce says of the queue, with what the steps of its end need.
InQueue(c) == \E i \in 1..Len(backlog) : backlog[i] = c
QueueOK ==
  /\ \A c \in Conns : conn[c] = "accepted" <=> work[<<c, "handle">>] # "none"
  /\ \A c \in Conns : conn[c] = "queued" <=> InQueue(c)
  /\ \A i, j \in 1..Len(backlog) : backlog[i] = backlog[j] => i = j

IInv == TypeOK /\ Counted /\ QueueOK /\ BothWaysOrNone

\* The steps keep the types.
LEMMA TypeStep == TypeOK /\ [Next]_vars => TypeOK'
  <1> SUFFICES ASSUME TypeOK, [Next]_vars PROVE TypeOK'
    OBVIOUS
  <1> USE DEF TypeOK
  <1>1. CASE Start
    BY <1>1 DEF Start
  <1>2. CASE WaitForConnection
    BY <1>2 DEF WaitForConnection, Dials, Conns
  <1>3. CASE Teardown \/ StopSSH \/ Exits \/ UNCHANGED vars
    BY <1>3 DEF Teardown, StopSSH, Exits, vars
  <1>10. CASE Stop
    <2>1. conn' \in [Conns -> {"idle", "queued", "accepted", "reset"}]
      BY <1>10 DEF Stop
    <2>2. backlog' \in Seq(Conns)
      BY <1>10 DEF Stop
    <2> QED
      BY <1>10, <2>1, <2>2 DEF Stop
  <1>4. CASE Accept
    BY <1>4 DEF Accept, Goroutines
  <1>5. CASE AcceptFails \/ LoopReports
    BY <1>5, ErrCapAssumption DEF AcceptFails, LoopReports, SendError
  <1>6. ASSUME NEW c \in Users, UserDials(c) PROVE TypeOK'
    BY <1>6 DEF UserDials, Dials, Conns
  <1>7. ASSUME NEW c \in Conns, HandleRequest(c) PROVE TypeOK'
    BY <1>7 DEF HandleRequest
  <1>8. ASSUME NEW c \in Conns, NEW d \in Dirs, Forward(c, d) PROVE TypeOK'
    BY <1>8 DEF Forward
  <1>9. ASSUME NEW g \in Goroutines, Reports(g) PROVE TypeOK'
    BY <1>9, ErrCapAssumption DEF Reports, SendError
  <1> QED
    BY <1>1, <1>2, <1>3, <1>4, <1>5, <1>6, <1>7, <1>8, <1>9, <1>10 DEF Next, AcceptLoop

\* A failed Accept is counted by the loop first and by errorChan then.
LEMMA CountedStep == TypeOK /\ Counted /\ [Next]_vars => Counted'
  <1> SUFFICES ASSUME TypeOK, Counted, [Next]_vars PROVE Counted'
    OBVIOUS
  <1>a. errs \in Nat /\ misses \in Nat
    BY ErrCapAssumption DEF TypeOK
  <1> USE <1>a DEF Counted
  <1>0. CASE Start
    BY <1>0 DEF Start
  <1>1. CASE WaitForConnection \/ Teardown \/ Stop \/ StopSSH
    BY <1>1 DEF WaitForConnection, Teardown, Stop, StopSSH
  <1>2. CASE Accept \/ Exits \/ UNCHANGED vars
    BY <1>2 DEF Accept, Exits, vars
  <1>3. CASE AcceptFails
    BY <1>3 DEF AcceptFails
  <1>4. CASE LoopReports
    BY <1>4 DEF LoopReports, SendError
  <1>5. ASSUME NEW c \in Users, UserDials(c) PROVE Counted'
    BY <1>5 DEF UserDials
  <1>6. ASSUME NEW c \in Conns, HandleRequest(c) PROVE Counted'
    BY <1>6 DEF HandleRequest
  <1>7. ASSUME NEW c \in Conns, NEW d \in Dirs, Forward(c, d) PROVE Counted'
    BY <1>7 DEF Forward
  <1>8. ASSUME NEW g \in Goroutines, Reports(g) PROVE Counted'
    BY <1>8 DEF Reports, SendError
  <1> QED
    BY <1>0, <1>1, <1>2, <1>3, <1>4, <1>5, <1>6, <1>7, <1>8 DEF Next, AcceptLoop

-----------------------------------------------------------------------------
(* The queue.                                                              *)

\* A connection joins the queue at its end, and is in it at most once.
LEMMA Joins ==
  ASSUME TypeOK, QueueOK, NEW c \in Conns, Dials(c), UNCHANGED work
  PROVE  QueueOK'
  <1> USE DEF TypeOK, QueueOK
  <1>1. /\ conn' = [conn EXCEPT ![c] = "queued"] /\ conn[c] = "idle"
        /\ backlog' = Append(backlog, c) /\ ~InQueue(c)
    BY DEF Dials
  <1>2. /\ Len(backlog') = Len(backlog) + 1 /\ backlog'[Len(backlog) + 1] = c
        /\ \A i \in 1..Len(backlog) : backlog'[i] = backlog[i]
    BY <1>1
  <1>3. \A b \in Conns : InQueue(b)' <=> InQueue(b) \/ b = c
    <2> SUFFICES ASSUME NEW b \in Conns PROVE InQueue(b)' <=> InQueue(b) \/ b = c
      OBVIOUS
    <2>1. 1..Len(backlog') = 1..Len(backlog) \union {Len(backlog) + 1}
      BY <1>2
    <2> QED
      BY <1>2, <2>1 DEF InQueue
  <1>4. \A i, j \in 1..Len(backlog') : backlog'[i] = backlog'[j] => i = j
    BY <1>1, <1>2 DEF InQueue
  <1> QED
    BY <1>1, <1>3, <1>4

\* Accept takes the head.
LEMMA Leaves ==
  ASSUME TypeOK, QueueOK, Accept
  PROVE  QueueOK'
  <1> USE DEF TypeOK, QueueOK
  <1> DEFINE c == Head(backlog)
  <1>1. /\ conn' = [conn EXCEPT ![c] = "accepted"]
        /\ work' = [work EXCEPT ![<<c, "handle">>] = "run"]
        /\ backlog' = Tail(backlog) /\ backlog # << >>
    BY DEF Accept
  <1>2. /\ Len(backlog) > 0 /\ backlog[1] = c /\ c \in Conns
        /\ Len(backlog') = Len(backlog) - 1
        /\ \A i \in 1..Len(backlog') : backlog'[i] = backlog[i + 1]
    BY <1>1
  <1>3. \A b \in Conns : InQueue(b)' <=> InQueue(b) /\ b # c
    <2> SUFFICES ASSUME NEW b \in Conns PROVE InQueue(b)' <=> InQueue(b) /\ b # c
      OBVIOUS
    <2>1. ASSUME InQueue(b)' PROVE InQueue(b) /\ b # c
      <3>1. PICK i \in 1..Len(backlog') : backlog'[i] = b
        BY <2>1 DEF InQueue
      <3>2. i + 1 \in 1..Len(backlog) /\ backlog[i + 1] = b
        BY <1>2, <3>1
      <3>3. 1 \in 1..Len(backlog) /\ i + 1 # 1
        BY <1>2
      <3> QED
        BY <1>2, <3>2, <3>3 DEF InQueue
    <2>2. ASSUME InQueue(b), b # c PROVE InQueue(b)'
      <3>1. PICK i \in 1..Len(backlog) : backlog[i] = b
        BY <2>2 DEF InQueue
      <3>2. i # 1
        BY <1>2, <2>2, <3>1
      <3>3. i - 1 \in 1..Len(backlog') /\ (i - 1) + 1 = i
        BY <1>2, <3>2
      <3>4. backlog'[i - 1] = b
        BY <1>2, <3>1, <3>3
      <3> QED
        BY <3>3, <3>4 DEF InQueue
    <2> QED
      BY <2>1, <2>2
  <1>4. \A i, j \in 1..Len(backlog') : backlog'[i] = backlog'[j] => i = j
    <2> SUFFICES ASSUME NEW i \in 1..Len(backlog'), NEW j \in 1..Len(backlog'),
                        backlog'[i] = backlog'[j]
                 PROVE  i = j
      OBVIOUS
    <2>1. i + 1 \in 1..Len(backlog) /\ j + 1 \in 1..Len(backlog)
      BY <1>2
    <2> QED
      BY <1>2, <2>1
  <1>5. \A b \in Conns : <<b, "handle">> \in Goroutines
    BY DEF Goroutines
  <1>6. \A b \in Conns : conn'[b] = "accepted" <=> work'[<<b, "handle">>] # "none"
    <2> SUFFICES ASSUME NEW b \in Conns
                 PROVE  conn'[b] = "accepted" <=> work'[<<b, "handle">>] # "none"
      OBVIOUS
    <2>1. CASE b = c
      BY <1>1, <1>2, <1>5, <2>1
    <2>2. CASE b # c
      BY <1>1, <1>2, <1>5, <2>2
    <2> QED
      BY <2>1, <2>2
  <1>7. \A b \in Conns : conn'[b] = "queued" <=> InQueue(b)'
    BY <1>1, <1>2, <1>3
  <1> QED
    BY <1>4, <1>6, <1>7

\* Nothing but Dials, Accept and Stop touches the queue, and a handler that
\* has begun is never unbegun.
LEMMA QueueStep == TypeOK /\ QueueOK /\ [Next]_vars => QueueOK'
  <1> SUFFICES ASSUME TypeOK, QueueOK, [Next]_vars PROVE QueueOK'
    OBVIOUS
  <1> DEFINE Apart == /\ UNCHANGED <<conn, backlog>>
                      /\ \A c \in Conns : work'[<<c, "handle">>] # "none"
                                            <=> work[<<c, "handle">>] # "none"
  <1>a. ASSUME Apart PROVE QueueOK'
    BY <1>a DEF QueueOK, InQueue
  <1>1. CASE Start \/ Teardown \/ StopSSH \/ AcceptFails \/ LoopReports
                \/ Exits \/ UNCHANGED vars
    BY <1>1, <1>a DEF Start, Teardown, StopSSH, AcceptFails, LoopReports, Exits, vars
  <1>2. CASE WaitForConnection
    <2>1. CASE Dials(Probe)
      BY <1>2, <2>1, Joins DEF WaitForConnection, Conns
    <2>2. CASE UNCHANGED <<conn, backlog>>
      BY <1>2, <2>2, <1>a DEF WaitForConnection
    <2> QED
      BY <1>2, <2>1, <2>2 DEF WaitForConnection
  <1>3. CASE Stop
    <2>1. /\ \A c \in Conns : /\ conn'[c] # "queued" /\ work' = work
                              /\ conn'[c] = "accepted" <=> conn[c] = "accepted"
          /\ Len(backlog') = 0
      BY <1>3 DEF Stop, TypeOK
    <2> QED
      BY <2>1 DEF QueueOK, InQueue
  <1>4. CASE Accept
    BY <1>4, Leaves
  <1>5. ASSUME NEW c \in Users, UserDials(c) PROVE QueueOK'
    BY <1>5, Joins DEF UserDials, Conns
  <1>6. ASSUME NEW c \in Conns, HandleRequest(c) PROVE QueueOK'
    <2>1. \A b \in Conns : <<b, "handle">> \in Goroutines
      BY DEF Goroutines
    <2> QED
      BY <1>6, <1>a, <2>1 DEF HandleRequest, TypeOK
  <1>7. ASSUME NEW c \in Conns, NEW d \in Dirs, Forward(c, d) PROVE QueueOK'
    <2>1. \A b \in Conns : <<b, "handle">> \in Goroutines
      BY DEF Goroutines
    <2> QED
      BY <1>7, <1>a, <2>1 DEF Forward, TypeOK
  <1>8. ASSUME NEW g \in Goroutines, Reports(g) PROVE QueueOK'
    <2>1. \A b \in Conns : <<b, "handle">> \in Goroutines
      BY DEF Goroutines
    <2> QED
      BY <1>8, <1>a, <2>1 DEF Reports, TypeOK
  <1> QED
    BY <1>1, <1>2, <1>3, <1>4, <1>5, <1>6, <1>7, <1>8 DEF Next, AcceptLoop

-----------------------------------------------------------------------------
(* The two forwards of a connection.                                       *)

\* A handler starts the two of them in one step, once, as its last act.
LEMMA ForwardStep ==
  TypeOK /\ QueueOK /\ BothWaysOrNone /\ [Next]_vars => BothWaysOrNone'
  <1> SUFFICES ASSUME TypeOK, QueueOK, BothWaysOrNone, [Next]_vars,
                      NEW b \in Conns
               PROVE  /\ work'[<<b, "up">>] # "none" <=> work'[<<b, "down">>] # "none"
                      /\ work'[<<b, "up">>] # "none" => work'[<<b, "handle">>] = "ended"
    BY DEF BothWaysOrNone
  <1>a. /\ work[<<b, "up">>] # "none" <=> work[<<b, "down">>] # "none"
        /\ work[<<b, "up">>] # "none" => work[<<b, "handle">>] = "ended"
    BY DEF BothWaysOrNone
  <1>b. /\ <<b, "up">> \in Goroutines /\ <<b, "down">> \in Goroutines
        /\ <<b, "handle">> \in Goroutines
    BY DEF Goroutines, Dirs
  <1>1. CASE Start \/ WaitForConnection \/ Teardown \/ Stop \/ StopSSH \/ AcceptFails
                \/ LoopReports \/ Exits \/ UNCHANGED vars
    BY <1>1, <1>a DEF Start, WaitForConnection, Teardown, Stop, StopSSH, AcceptFails,
                      LoopReports, Exits, vars
  <1>2. CASE Accept
    <2> DEFINE c == Head(backlog)
    <2>1. c \in Conns /\ conn[c] = "queued" /\ work' = [work EXCEPT ![<<c, "handle">>] = "run"]
      <3>1. Len(backlog) > 0 /\ backlog[1] = c /\ 1 \in 1..Len(backlog)
        BY <1>2 DEF Accept, TypeOK
      <3>2. c \in Conns
        BY <3>1 DEF TypeOK
      <3> QED
        BY <1>2, <3>1, <3>2 DEF Accept, QueueOK, InQueue
    <2>2. work[<<c, "handle">>] = "none"
      BY <2>1 DEF QueueOK
    <2> QED
      BY <1>a, <1>b, <2>1, <2>2 DEF TypeOK
  <1>3. ASSUME NEW c \in Users, UserDials(c) PROVE work' = work
    BY <1>3 DEF UserDials
  <1>4. ASSUME NEW c \in Conns, HandleRequest(c)
        PROVE  /\ work'[<<b, "up">>] # "none" <=> work'[<<b, "down">>] # "none"
               /\ work'[<<b, "up">>] # "none" => work'[<<b, "handle">>] = "ended"
    BY <1>a, <1>b, <1>4 DEF HandleRequest, TypeOK
  <1>5. ASSUME NEW c \in Conns, NEW d \in Dirs, Forward(c, d)
        PROVE  /\ work'[<<b, "up">>] # "none" <=> work'[<<b, "down">>] # "none"
               /\ work'[<<b, "up">>] # "none" => work'[<<b, "handle">>] = "ended"
    BY <1>a, <1>b, <1>5 DEF Forward, TypeOK, Dirs
  <1>6. ASSUME NEW g \in Goroutines, Reports(g)
        PROVE  /\ work'[<<b, "up">>] # "none" <=> work'[<<b, "down">>] # "none"
               /\ work'[<<b, "up">>] # "none" => work'[<<b, "handle">>] = "ended"
    BY <1>a, <1>b, <1>6 DEF Reports, TypeOK
  <1> QED
    BY <1>a, <1>1, <1>2, <1>3, <1>4, <1>5, <1>6 DEF Next, AcceptLoop

-----------------------------------------------------------------------------
(* The theorems.                                                           *)

\* The invariant holds at first.
LEMMA Initially == Init => IInv
  <1> SUFFICES ASSUME Init PROVE IInv
    OBVIOUS
  <1>1. \A c \in Conns : /\ <<c, "handle">> \in Goroutines /\ <<c, "up">> \in Goroutines
                         /\ <<c, "down">> \in Goroutines
    BY DEF Goroutines, Dirs
  <1>2. TypeOK
    BY ErrCapAssumption DEF Init, TypeOK
  <1>3. Counted
    BY DEF Init, Counted
  <1>4. QueueOK
    <2>1. Len(backlog) = 0 /\ \A c \in Conns : conn[c] = "idle"
      BY DEF Init
    <2>2. \A c \in Conns : work[<<c, "handle">>] = "none"
      BY <1>1 DEF Init
    <2> QED
      BY <2>1, <2>2 DEF QueueOK, InQueue
  <1>5. BothWaysOrNone
    BY <1>1 DEF Init, BothWaysOrNone
  <1> QED
    BY <1>2, <1>3, <1>4, <1>5 DEF IInv

\* Every step keeps the types, the count, the queue and the forwards in order.
THEOREM Invariance == Spec => []IInv
  <1>1. IInv /\ [Next]_vars => IInv'
    BY TypeStep, CountedStep, QueueStep, ForwardStep DEF IInv
  <1> QED
    BY <1>1, Initially, PTL DEF Spec

\* Types hold, and errorChan never holds more than its capacity.
THEOREM TypeCorrect == Spec => []TypeOK
  <1>1. IInv => TypeOK
    BY DEF IInv
  <1> QED
    BY <1>1, Invariance, PTL

\* For any capacity, the loop that never returns fails to accept once more
\* than errorChan has places, and then stands still.
THEOREM LoopRestsCorrect == Spec => []LoopRests
  <1>1. IInv => LoopRests
    BY ErrCapAssumption DEF IInv, TypeOK, Counted, LoopRests
  <1> QED
    BY <1>1, Invariance, PTL

\* No connection is handled twice, before its turn, in one direction only, or
\* lost from the queue.
THEOREM HandledOnceCorrect == Spec => []HandledOnce
  <1>1. IInv => HandledOnce
    <2> SUFFICES ASSUME IInv PROVE HandledOnce
      OBVIOUS
    <2>1. DOMAIN backlog = 1..Len(backlog)
      BY DEF IInv, TypeOK
    <2>2. QueueOK /\ BothWaysOrNone
      BY DEF IInv
    <2>3. \A c \in Conns : conn[c] = "queued" <=> \E i \in DOMAIN backlog : backlog[i] = c
      BY <2>1, <2>2 DEF QueueOK, InQueue
    <2>4. \A i, j \in DOMAIN backlog : backlog[i] = backlog[j] => i = j
      BY <2>1, <2>2 DEF QueueOK
    <2> QED
      BY <2>2, <2>3, <2>4 DEF QueueOK, HandledOnce
  <1> QED
    BY <1>1, Invariance, PTL

-----------------------------------------------------------------------------
(* When Accept itself does not fail.                                       *)

\* The loop is at Accept for as long as there is a listener, and without one
\* there is no queue.
AtAccept == IF Listening THEN loop = "accept" ELSE backlog = << >>

\* Only the loop moves the loop, and only an Accept that fails stops it.
LEMMA AtAcceptStep ==
  ASSUME ~AcceptFaults
  PROVE  AtAccept /\ [Next]_vars => AtAccept'
  <1> SUFFICES ASSUME AtAccept, [Next]_vars PROVE AtAccept'
    OBVIOUS
  <1> USE DEF AtAccept, Listening
  <1>1. CASE Start
    BY <1>1 DEF Start
  <1>2. CASE WaitForConnection
    BY <1>2 DEF WaitForConnection
  <1>3. CASE Teardown \/ Stop \/ StopSSH
    BY <1>3 DEF Teardown, Stop, StopSSH
  <1>4. CASE Accept
    BY <1>4 DEF Accept
  <1>5. CASE AcceptFails
    BY <1>5 DEF AcceptFails
  <1>6. CASE LoopReports \/ Exits \/ UNCHANGED vars
    BY <1>6 DEF LoopReports, Exits, vars
  <1>7. ASSUME NEW c \in Users, UserDials(c) PROVE AtAccept'
    BY <1>7 DEF UserDials, Dials
  <1>8. ASSUME NEW c \in Conns, HandleRequest(c) \/ \E d \in Dirs : Forward(c, d) PROVE AtAccept'
    BY <1>8 DEF HandleRequest, Forward
  <1>9. ASSUME NEW g \in Goroutines, Reports(g) PROVE AtAccept'
    BY <1>9 DEF Reports
  <1> QED
    BY <1>1, <1>2, <1>3, <1>4, <1>5, <1>6, <1>7, <1>8, <1>9 DEF Next, AcceptLoop

\* However many errors of connections fill errorChan, whatever its capacity, a
\* client in the queue has the loop at Accept (tls/tunnel.go:54-67): what is
\* safe of EveryoneServed.
THEOREM WaitingAreAcceptedCorrect == Spec => []WaitingAreAccepted
  <1>1. Init => AtAccept
    BY DEF Init, AtAccept, Listening
  <1>2. AtAccept => WaitingAreAccepted
    BY DEF AtAccept, WaitingAreAccepted
  <1>3. CASE AcceptFaults
    <2>1. WaitingAreAccepted
      BY <1>3 DEF WaitingAreAccepted
    <2> QED
      BY <2>1, PTL
  <1>4. CASE ~AcceptFaults
    <2>1. AtAccept /\ [Next]_vars => AtAccept'
      BY <1>4, AtAcceptStep
    <2> QED
      BY <1>1, <1>2, <2>1, PTL DEF Spec
  <1> QED
    BY <1>3, <1>4
=============================================================================
