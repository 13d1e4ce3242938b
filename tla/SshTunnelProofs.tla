-------------------------- MODULE SshTunnelProofs ---------------------------
(***************************************************************************)
(* Proofs about SshTunnel, for any number of ports and clients, any        *)
(* capacity of the code channel and any larger number of tries.            *)
(***************************************************************************)
EXTENDS SshTunnel, TLAPS

-----------------------------------------------------------------------------
(* The inductive invariant.                                                *)

\* A loop that is about to take a code has a try left.
TryLeft == \A f \in Forwards : loop[f] = "code" => try[f] <= MaxRetries

\* One goroutine of WaitChan for each probe that has been made.
WaiterCount ==
  /\ driver \in {"start", "listen"} => waiters = 0
  /\ driver = "probe" => waiters = at - 1 /\ shutdownChan = "open"

\* Each try uses up one of the codes that were ahead of the connection.
CodesAge ==
  \A f \in Forwards : behind[f] > 0 => try[f] + behind[f] <= PipeCap + 1

\* Without faults the empty code never enters the pipe.
NoEmptyCode ==
  ~Faults => /\ hand # "none"
             /\ passwords \in Seq({"code"})
             /\ \A f \in Forwards : loop[f] = "dial" => held[f] = "code"

\* A port's queue holds connections to that port.
OwnQueue == \A f \in Forwards : backlog[f] \in Seq({c \in Conns : c[1] = f})

\* The loop of a port that is not yet open has not begun.
LoopsBegin ==
  \A f \in Forwards :
    driver = "start" \/ (driver = "listen" /\ at <= f) => loop[f] = "off"

IInv ==
  /\ TypeOK /\ WaiterCount /\ TryLeft /\ CodesAge /\ StaleCodesRunOut
  /\ NoEmptyCode /\ NoNeedlessDrop /\ OwnQueue /\ LoopsBegin
  /\ AcceptedIsServed

-----------------------------------------------------------------------------
(* What the pieces of a step do.                                           *)

LEMMA FlagStep ==
  ASSUME NEW f \in [Forwards -> BOOLEAN], NEW p \in Forwards, NEW b \in BOOLEAN
  PROVE  [f EXCEPT ![p] = b] \in [Forwards -> BOOLEAN]
  OBVIOUS

LEMMA QueueStep ==
  ASSUME NEW S, NEW s \in Seq(S)
  PROVE  /\ \A e \in S : Append(s, e) \in Seq(S) /\ Len(Append(s, e)) = Len(s) + 1
         /\ s # << >> => /\ Head(s) \in S /\ Tail(s) \in Seq(S)
                        /\ Len(Tail(s)) = Len(s) - 1
         /\ << >> \in Seq(S)
         /\ Len(s) \in Nat
  OBVIOUS

-----------------------------------------------------------------------------
USE DEF Next, DriverStep, ProducerStep, AcceptLoop, Exits, vars, driverVars, pipeVars,
        loopVars, Start, Forward, Dials, ProbePort, Teardown, StopLock, CloseListener,
        WaitChan, AskCode, SendCode, UserDials, Accept, AcceptFails, LoopEnds, TakeCode,
        Settle, TryFails, DialSSH, DialRemote, Locked

\* The ways a step changes a queue, the code channel and the flag.
LEMMA Shapes ==
  ASSUME [Next]_vars, at \in Forwards
  PROVE  /\ \/ passwords' = passwords
            \/ hand \in Codes /\ Len(passwords) < PipeCap /\ passwords' = Append(passwords, hand)
            \/ passwords # << >> /\ passwords' = Tail(passwords)
         /\ \/ backlog' = backlog
            \/ \E c \in Conns : backlog' = [backlog EXCEPT ![c[1]] = Append(@, c)]
            \/ backlog' = [backlog EXCEPT ![at] = << >>]
            \/ \E f \in Forwards : /\ backlog[f] # << >>
                                   /\ backlog' = [backlog EXCEPT ![f] = Tail(@)]
         /\ \/ stale' = stale
            \/ \E f \in Forwards : stale' = [stale EXCEPT ![f] = behind[f] > 0]
            \/ \E f \in Forwards : stale' = [stale EXCEPT ![f] = FALSE]
<1>1. \/ passwords' = passwords
      \/ hand \in Codes /\ Len(passwords) < PipeCap /\ passwords' = Append(passwords, hand)
      \/ passwords # << >> /\ passwords' = Tail(passwords)
  OBVIOUS
<1>2. \/ backlog' = backlog
      \/ \E c \in Conns : backlog' = [backlog EXCEPT ![c[1]] = Append(@, c)]
      \/ backlog' = [backlog EXCEPT ![at] = << >>]
      \/ \E f \in Forwards : /\ backlog[f] # << >>
                             /\ backlog' = [backlog EXCEPT ![f] = Tail(@)]
  <2>1. ASSUME ProbePort, backlog' # backlog
        PROVE  \E c \in Conns : backlog' = [backlog EXCEPT ![c[1]] = Append(@, c)]
    <3>1. <<at, Probe>> \in Conns /\ backlog' = [backlog EXCEPT ![<<at, Probe>>[1]] = Append(@, <<at, Probe>>)]
      BY <2>1 DEF Conns
    <3> QED
      BY ONLY <3>1
  <2> QED
    BY <2>1
<1>3. \/ stale' = stale
      \/ \E f \in Forwards : stale' = [stale EXCEPT ![f] = behind[f] > 0]
      \/ \E f \in Forwards : stale' = [stale EXCEPT ![f] = FALSE]
  OBVIOUS
<1> QED
  BY <1>1, <1>2, <1>3

LEMMA TypeStep == TypeOK /\ WaiterCount /\ TryLeft /\ [Next]_vars
                    => TypeOK' /\ WaiterCount' /\ TryLeft'
<1>n. /\ N \in Nat \ {0} /\ PipeCap \in Nat \ {0} /\ MaxRetries \in Nat
      /\ Faults \in BOOLEAN
  BY CountAssumption, FaultAssumption
<1>b. SUFFICES ASSUME [Next]_vars
               PROVE  TypeOK /\ WaiterCount /\ TryLeft => TypeOK' /\ WaiterCount' /\ TryLeft'
  OBVIOUS
<1>1. LET T == {"start", "listen", "probe", "ready", "stop", "closing", "stopped"}
      IN driver \in T => driver' \in T
  BY <1>b
<1>2. at \in Forwards => at' \in Forwards
  BY <1>b, <1>n DEF Forwards
<1>3. LET T == {"none", "open", "closed"}
      IN listener \in [Forwards -> T] => listener' \in [Forwards -> T]
  BY <1>b
<1>4. /\ shutdownChan \in {"nil", "open"} => shutdownChan' \in {"nil", "open"}
      /\ shutdownErr \in {"nil", "error"} => shutdownErr' \in {"nil", "error"}
  BY <1>b
<1>6. at \in Forwards /\ backlog \in [Forwards -> Seq(Conns)] => backlog' \in [Forwards -> Seq(Conns)]
  <2> HIDE DEF Next
  <2>a. SUFFICES ASSUME at \in Forwards, backlog \in [Forwards -> Seq(Conns)]
                 PROVE  backlog' \in [Forwards -> Seq(Conns)]
    OBVIOUS
  <2>1. ASSUME NEW c \in Conns, backlog' = [backlog EXCEPT ![c[1]] = Append(@, c)]
        PROVE  backlog' \in [Forwards -> Seq(Conns)]
    <3>1. c[1] \in Forwards
      BY DEF Conns
    <3>2. Append(backlog[c[1]], c) \in Seq(Conns)
      BY <3>1, <2>a, QueueStep
    <3> QED
      BY <2>a, <2>1, <3>1, <3>2
  <2>2. ASSUME NEW f \in Forwards, backlog[f] # << >>, backlog' = [backlog EXCEPT ![f] = Tail(@)]
        PROVE  backlog' \in [Forwards -> Seq(Conns)]
    <3>1. Tail(backlog[f]) \in Seq(Conns)
      BY <2>a, <2>2, QueueStep
    <3> QED
      BY <2>a, <2>2, <3>1
  <2>3. CASE backlog' = [backlog EXCEPT ![at] = << >>]
    BY <2>a, <2>3
  <2> QED
    BY <1>b, <2>a, <2>1, <2>2, <2>3, Shapes
<1>7. LET T == {"idle", "queued", "accepted", "bridged", "dropped", "reset"}
      IN conn \in [Conns -> T] => conn' \in [Conns -> T]
  BY <1>b
<1>8. LET T == {"off", "accept", "lock", "ended"} \union Serving
      IN loop \in [Forwards -> T] => loop' \in [Forwards -> T]
  BY <1>b DEF Serving
<1>9. cur \in [Forwards -> Conns \union {NoConn}] /\ backlog \in [Forwards -> Seq(Conns)]
        => cur' \in [Forwards -> Conns \union {NoConn}]
  BY <1>b
<1>10. try \in [Forwards -> 0..(MaxRetries + 1)] /\ TryLeft
        => try' \in [Forwards -> 0..(MaxRetries + 1)]
  BY <1>b, <1>n DEF TryLeft
<1>11. held \in [Forwards -> Codes] /\ passwords \in Seq(Codes) => held' \in [Forwards -> Codes]
  BY <1>b DEF Codes
<1>12. hand \in {"off", "asking"} \union Codes => hand' \in {"off", "asking"} \union Codes
  BY <1>b DEF Codes
<1>13. at \in Forwards /\ passwords \in Seq(Codes) /\ Len(passwords) <= PipeCap
         => passwords' \in Seq(Codes) /\ Len(passwords') <= PipeCap
  <2> HIDE DEF Next
  <2> QED
    BY <1>b, <1>n, Shapes, QueueStep
<1>14. sessions \in [Conns -> Nat] => sessions' \in [Conns -> Nat]
  BY <1>b
<1>15. behind \in [Forwards -> 0..(PipeCap + 1)] /\ passwords \in Seq(Codes) /\ Len(passwords) <= PipeCap
         => behind' \in [Forwards -> 0..(PipeCap + 1)]
  BY <1>b, <1>n
<1>16. at \in Forwards /\ stale \in [Forwards -> BOOLEAN] => stale' \in [Forwards -> BOOLEAN]
  <2> SUFFICES ASSUME at \in Forwards, stale \in [Forwards -> BOOLEAN] PROVE stale' \in [Forwards -> BOOLEAN]
    OBVIOUS
  <2>1. CASE stale' = stale
    BY <2>1
  <2>2. ASSUME NEW f \in Forwards, stale' = [stale EXCEPT ![f] = behind[f] > 0]
        PROVE  stale' \in [Forwards -> BOOLEAN]
    BY <2>2, FlagStep
  <2>3. ASSUME NEW f \in Forwards, stale' = [stale EXCEPT ![f] = FALSE]
        PROVE  stale' \in [Forwards -> BOOLEAN]
    BY <2>3, FlagStep
  <2> QED
    BY <1>b, <2>1, <2>2, <2>3, Shapes
<1>17. try \in [Forwards -> 0..(MaxRetries + 1)] /\ loop \in [Forwards -> {"off", "accept", "lock", "ended"} \union Serving] /\ TryLeft => TryLeft'
  BY <1>b, <1>n DEF TryLeft, Serving
<1>18. /\ at \in Forwards /\ waiters \in 0..N /\ WaiterCount => waiters' \in 0..N
       /\ at \in Forwards /\ waiters \in 0..N /\ WaiterCount => WaiterCount'
  BY <1>b, <1>n DEF WaiterCount, Forwards
<1> QED
  BY <1>1, <1>2, <1>3, <1>4, <1>6, <1>7, <1>8, <1>9, <1>10, <1>11, <1>12, <1>13,
     <1>14, <1>15, <1>16, <1>17, <1>18 DEF TypeOK

-----------------------------------------------------------------------------
(* Old codes.                                                              *)

LEMMA AgeStep ==
  TypeOK /\ CodesAge /\ StaleCodesRunOut /\ [Next]_vars => CodesAge' /\ StaleCodesRunOut'
<1>a. SUFFICES ASSUME [Next]_vars, TypeOK, CodesAge, StaleCodesRunOut
               PROVE  CodesAge' /\ StaleCodesRunOut'
  OBVIOUS
<1>b. SUFFICES ASSUME NEW f \in Forwards
               PROVE  /\ behind'[f] > 0 => try'[f] + behind'[f] <= PipeCap + 1
                      /\ stale'[f] => try'[f] <= PipeCap + 1
  BY DEF CodesAge, StaleCodesRunOut
<1>t. /\ PipeCap \in Nat \ {0} /\ MaxRetries \in Nat
      /\ try \in [Forwards -> 0..(MaxRetries + 1)]
      /\ behind \in [Forwards -> 0..(PipeCap + 1)]
      /\ stale \in [Forwards -> BOOLEAN]
      /\ Len(passwords) \in Nat /\ Len(passwords) <= PipeCap
  <2> HIDE DEF Next
  <2> QED
    BY <1>a, CountAssumption, QueueStep DEF TypeOK
<1>0. /\ behind[f] > 0 => try[f] + behind[f] <= PipeCap + 1
      /\ stale[f] => try[f] <= PipeCap + 1
  <2> HIDE DEF Next
  <2> QED
    BY <1>a DEF CodesAge, StaleCodesRunOut
<1>1. \/ /\ try'[f] = try[f] /\ behind'[f] <= behind[f] /\ behind'[f] \in Nat
         /\ stale'[f] => stale[f]
      \/ /\ try'[f] = try[f] + 1 /\ behind'[f] \in Nat
         /\ behind'[f] > 0 => behind'[f] = behind[f] - 1
         /\ stale'[f] => behind[f] > 0
      \/ try'[f] = 0 /\ behind'[f] \in Nat /\ behind'[f] <= PipeCap + 1
  <2>1. ASSUME NEW g \in Forwards, TakeCode(g), g = f
        PROVE  /\ try'[f] = try[f] + 1
               /\ behind'[f] = IF behind[f] = 0 THEN 0 ELSE behind[f] - 1
               /\ stale'[f] => behind[f] > 0
    BY <1>t, <2>1
  <2>2. ASSUME NEW g \in Forwards, TakeCode(g), g # f
        PROVE  /\ try'[f] = try[f] /\ stale'[f] = stale[f]
               /\ behind'[f] = IF behind[f] = 0 THEN 0 ELSE behind[f] - 1
    BY <1>t, <2>2
  <2>3. ASSUME NEW g \in Forwards, Accept(g)
        PROVE  /\ stale'[f] = stale[f]
               /\ \/ try'[f] = try[f] /\ behind'[f] = behind[f]
                  \/ try'[f] = 0 /\ behind'[f] = Len(passwords) + 1
    BY <1>t, <2>3
  <2>4. ASSUME NEW g \in Forwards, NEW s, Settle(g, s)
        PROVE  \/ try'[f] = try[f] /\ behind'[f] = behind[f] /\ stale'[f] = stale[f]
               \/ try'[f] = 0 /\ behind'[f] = 0
    BY <1>t, <2>4
  <2>5. \/ \E g \in Forwards : TakeCode(g) \/ Accept(g) \/ (\E s \in {"bridged", "dropped"} : Settle(g, s))
        \/ UNCHANGED <<try, behind, stale>>
    <3> HIDE DEF Settle, TakeCode, Accept
    <3> QED
      BY <1>a
  <2> HIDE DEF Next, Settle, TakeCode, Accept
  <2>6. CASE UNCHANGED <<try, behind, stale>>
    BY <2>6, <1>t
  <2>7. ASSUME NEW g \in Forwards, TakeCode(g)
        PROVE  \/ /\ try'[f] = try[f] + 1 /\ behind'[f] \in Nat
                  /\ behind'[f] > 0 => behind'[f] = behind[f] - 1
                  /\ stale'[f] => behind[f] > 0
               \/ /\ try'[f] = try[f] /\ behind'[f] <= behind[f] /\ behind'[f] \in Nat
                  /\ stale'[f] => stale[f]
    BY <2>1, <2>2, <2>7, <1>t
  <2> QED
    BY <1>t, <2>7, <2>3, <2>4, <2>5, <2>6
<1> QED
  BY <1>t, <1>0, <1>1

-----------------------------------------------------------------------------
(* Dropped connections.                                                    *)

\* A connection is dropped by the loop that serves it, out of tries.
LEMMA Drops ==
  ASSUME TypeOK, StaleCodesRunOut, [Next]_vars,
         NEW c \in Conns, conn'[c] = "dropped", conn[c] # "dropped"
  PROVE  \E f \in Forwards :
           /\ cur[f] = c /\ cur'[f] = NoConn
           /\ try[f] > MaxRetries /\ ~stale[f]
           /\ (loop[f] = "dial" /\ held[f] = "none") \/ Faults
<1>t. /\ conn \in [Conns -> {"idle", "queued", "accepted", "bridged", "dropped", "reset"}]
      /\ cur \in [Forwards -> Conns \union {NoConn}]
      /\ try \in [Forwards -> 0..(MaxRetries + 1)]
      /\ stale \in [Forwards -> BOOLEAN]
      /\ PipeCap \in Nat \ {0} /\ MaxRetries \in Nat /\ MaxRetries > PipeCap
  <2> HIDE DEF Next
  <2> QED
    BY CountAssumption, RetryAssumption DEF TypeOK
<1>1. PICK f \in Forwards : /\ DialSSH(f) \/ DialRemote(f)
                            /\ TryFails(f) /\ conn' # conn
  BY <1>t
<1>2. /\ try[f] > MaxRetries /\ Settle(f, "dropped")
      /\ cur[f] = c /\ cur'[f] = NoConn
  <2> HIDE DEF Next, DialSSH, DialRemote
  <2> QED
    BY <1>1, <1>t
<1>3. ~stale[f]
  <2> HIDE DEF Next
  <2>1. stale[f] => try[f] <= PipeCap + 1
    BY DEF StaleCodesRunOut
  <2> QED
    BY <2>1, <1>2, <1>t
<1>4. (loop[f] = "dial" /\ held[f] = "none") \/ Faults
  <2> HIDE DEF Next
  <2> QED
    BY <1>1, <1>3, <1>2, <1>t
<1> QED
  BY ONLY <1>2, <1>3, <1>4

LEMMA DropStep ==
  TypeOK /\ StaleCodesRunOut /\ NoEmptyCode /\ NoNeedlessDrop /\ [Next]_vars
    => NoEmptyCode' /\ NoNeedlessDrop'
<1>a. SUFFICES ASSUME TypeOK, StaleCodesRunOut, NoEmptyCode, NoNeedlessDrop, [Next]_vars, ~Faults
               PROVE  /\ hand' # "none"
                      /\ passwords' \in Seq({"code"})
                      /\ \A f \in Forwards : loop'[f] = "dial" => held'[f] = "code"
                      /\ \A c \in Conns : conn'[c] # "dropped"
  BY DEF NoEmptyCode, NoNeedlessDrop
<1>0. /\ hand # "none" /\ passwords \in Seq({"code"})
      /\ \A f \in Forwards : loop[f] = "dial" => held[f] = "code"
      /\ \A c \in Conns : conn[c] # "dropped"
  <2> HIDE DEF Next
  <2> QED
    BY <1>a DEF NoEmptyCode, NoNeedlessDrop
<1>t. /\ at \in Forwards /\ hand \in {"off", "asking"} \union Codes
      /\ loop \in [Forwards -> {"off", "accept", "lock", "ended"} \union Serving]
      /\ held \in [Forwards -> Codes]
  <2> HIDE DEF Next
  <2> QED
    BY <1>a DEF TypeOK
<1>1. hand' # "none"
  BY <1>a, <1>0 DEF Codes
<1>2. passwords' \in Seq({"code"})
  <2> HIDE DEF Next
  <2>1. CASE passwords' = passwords
    BY <1>0, <2>1
  <2>2. CASE hand \in Codes /\ passwords' = Append(passwords, hand)
    BY <1>0, <2>2, QueueStep DEF Codes
  <2>3. CASE passwords # << >> /\ passwords' = Tail(passwords)
    BY <1>0, <2>3, QueueStep
  <2> QED
    BY <1>a, <1>t, <2>1, <2>2, <2>3, Shapes
<1>3. ASSUME NEW f \in Forwards, loop'[f] = "dial" PROVE held'[f] = "code"
  <2>1. passwords # << >> => Head(passwords) = "code"
    <3> HIDE DEF Next
    <3> QED
      BY <1>0, QueueStep
  <2>2. \/ TakeCode(f)
        \/ loop[f] = "dial" /\ held'[f] = held[f]
    BY <1>a, <1>3, <1>t
  <2> HIDE DEF Next
  <2> QED
    BY <1>0, <1>t, <2>1, <2>2
<1>4. ASSUME NEW c \in Conns PROVE conn'[c] # "dropped"
  <2> HIDE DEF Next
  <2> QED
    BY <1>a, <1>0, Drops
<1> QED
  BY <1>1, <1>2, <1>3, <1>4

-----------------------------------------------------------------------------
(* Accepted connections.                                                   *)

\* Only a port's own connections enter its queue.
LEMMA OwnQueueStep == TypeOK /\ OwnQueue /\ [Next]_vars => OwnQueue'
<1>a. SUFFICES ASSUME TypeOK, OwnQueue, [Next]_vars, NEW f \in Forwards
               PROVE  backlog'[f] \in Seq({c \in Conns : c[1] = f})
  BY DEF OwnQueue
<1> DEFINE Own == {c \in Conns : c[1] = f}
<1> HIDE DEF Next
<1>t. at \in Forwards /\ backlog \in [Forwards -> Seq(Conns)]
  <2> HIDE DEF Next
  <2> QED
    BY <1>a DEF TypeOK
<1>0. backlog[f] \in Seq(Own)
  BY <1>a DEF OwnQueue
<1>1. CASE backlog' = backlog
  BY <1>0, <1>1
<1>2. ASSUME NEW c \in Conns, backlog' = [backlog EXCEPT ![c[1]] = Append(@, c)]
      PROVE  backlog'[f] \in Seq(Own)
  <2>1. CASE c[1] = f
    <3>1. Append(backlog[f], c) \in Seq(Own)
      BY <1>0, <2>1, QueueStep
    <3> HIDE DEF Own
    <3> QED
      BY <1>t, <1>2, <2>1, <3>1
  <2>2. CASE c[1] # f
    BY <1>t, <1>0, <1>2, <2>2
  <2> QED
    BY <2>1, <2>2
<1>3. CASE backlog' = [backlog EXCEPT ![at] = << >>]
  BY <1>t, <1>0, <1>3
<1>4. ASSUME NEW g \in Forwards, backlog[g] # << >>, backlog' = [backlog EXCEPT ![g] = Tail(@)]
      PROVE  backlog'[f] \in Seq(Own)
  <2>1. g = f => Tail(backlog[f]) \in Seq(Own)
    BY <1>0, <1>4, QueueStep
  <2> HIDE DEF Own
  <2> QED
    BY <1>t, <1>0, <1>4, <2>1
<1> QED
  BY <1>a, <1>t, <1>1, <1>2, <1>3, <1>4, Shapes

LEMMA BeginStep == TypeOK /\ LoopsBegin /\ [Next]_vars => LoopsBegin'
<1>a. SUFFICES ASSUME TypeOK, LoopsBegin, [Next]_vars, NEW f \in Forwards,
                      driver' = "start" \/ (driver' = "listen" /\ at' <= f)
               PROVE  loop'[f] = "off"
  BY DEF LoopsBegin
<1>t. /\ at \in Forwards /\ N \in Nat \ {0} /\ f \in Nat /\ at \in Nat
      /\ loop \in [Forwards -> {"off", "accept", "lock", "ended"} \union Serving]
  <2> HIDE DEF Next
  <2> QED
    BY <1>a, CountAssumption DEF TypeOK, Forwards
<1>1. driver = "start" \/ (driver = "listen" /\ at <= f)
  BY <1>a, <1>t
<1>2. loop[f] = "off"
  <2> HIDE DEF Next
  <2> QED
    BY <1>a, <1>1 DEF LoopsBegin
<1>3. CASE Forward
  <2> HIDE DEF Next
  <2> QED
    BY <1>a, <1>t, <1>2, <1>3
<1>4. CASE ~Forward
  <2>1. loop' = loop \/ \E g \in Forwards : AcceptLoop(g)
    <3> HIDE DEF Forward, AcceptLoop
    <3> QED
      BY <1>a, <1>4
  <2> HIDE DEF Next
  <2>2. ASSUME NEW g \in Forwards, AcceptLoop(g) PROVE loop'[f] = loop[f]
    BY <1>t, <1>2, <2>2
  <2> HIDE DEF AcceptLoop
  <2> QED
    BY <1>2, <2>1, <2>2
<1> HIDE DEF Next
<1> QED
  BY <1>3, <1>4

LEMMA ServeStep ==
  TypeOK /\ OwnQueue /\ LoopsBegin /\ AcceptedIsServed /\ [Next]_vars => AcceptedIsServed'
<1>a. SUFFICES ASSUME TypeOK, OwnQueue, LoopsBegin, AcceptedIsServed, [Next]_vars,
                      NEW c \in Conns, conn'[c] = "accepted"
               PROVE  loop'[c[1]] \in Serving /\ cur'[c[1]] = c
  BY DEF AcceptedIsServed
<1>t. /\ c[1] \in Forwards
      /\ conn \in [Conns -> {"idle", "queued", "accepted", "bridged", "dropped", "reset"}]
      /\ loop \in [Forwards -> {"off", "accept", "lock", "ended"} \union Serving]
      /\ cur \in [Forwards -> Conns \union {NoConn}]
  <2> HIDE DEF Next
  <2> QED
    BY <1>a DEF TypeOK, Conns
<1>0. conn[c] = "accepted" => loop[c[1]] \in Serving /\ cur[c[1]] = c
  <2> HIDE DEF Next
  <2> QED
    BY <1>a DEF AcceptedIsServed
<1>b. driver = "listen" => loop[at] = "off"
  <2> HIDE DEF Next
  <2>1. at \in Forwards /\ at <= at
    BY <1>a, CountAssumption DEF TypeOK, Forwards
  <2> QED
    BY <1>a, <2>1 DEF LoopsBegin
<1>h. \A f \in Forwards : backlog[f] # << >> => Head(backlog[f]) \in {d \in Conns : d[1] = f}
  <2> HIDE DEF Next
  <2> QED
    BY <1>a, QueueStep DEF OwnQueue
<1>1. ASSUME NEW f \in Forwards, Accept(f) PROVE loop'[c[1]] \in Serving /\ cur'[c[1]] = c
  <2> HIDE DEF Next
  <2>1. /\ loop[f] = "accept" /\ backlog[f] # << >>
        /\ conn' = [conn EXCEPT ![Head(backlog[f])] = "accepted"]
        /\ loop' = [loop EXCEPT ![f] = "code"]
        /\ cur' = [cur EXCEPT ![f] = Head(backlog[f])]
    BY <1>1
  <2> HIDE DEF Accept
  <2>2. PICK h : h = Head(backlog[f]) /\ h \in Conns /\ h[1] = f
    BY <1>h, <2>1
  <2>3. CASE c = h
    BY <1>t, <2>1, <2>2, <2>3 DEF Serving
  <2>4. CASE c # h
    <3>1. conn[c] = "accepted"
      BY <1>a, <1>t, <2>1, <2>2, <2>4
    <3>2. c[1] # f
      BY <1>0, <3>1, <2>1 DEF Serving
    <3> QED
      BY <1>0, <1>t, <2>1, <3>1, <3>2
  <2> QED
    BY <2>3, <2>4
<1>2. ASSUME NEW f \in Forwards, NEW s \in {"bridged", "dropped"}, Settle(f, s)
      PROVE  loop'[c[1]] \in Serving /\ cur'[c[1]] = c
  <2> HIDE DEF Next
  <2>1. conn'[c] = conn[c] /\ cur[f] # c
    BY <1>a, <1>t, <1>2
  <2>2. f # c[1]
    BY <1>a, <1>0, <2>1
  <2> QED
    BY <1>a, <1>t, <1>0, <1>2, <2>1, <2>2
<1>3. \/ \E f \in Forwards : Accept(f) \/ \E s \in {"bridged", "dropped"} : Settle(f, s)
      \/ /\ conn[c] = "accepted" /\ cur' = cur
         /\ loop[c[1]] \in Serving => loop'[c[1]] \in Serving
  <2> SUFFICES ASSUME \A f \in Forwards : ~Accept(f) /\ \A s \in {"bridged", "dropped"} : ~Settle(f, s)
               PROVE  /\ conn[c] = "accepted" /\ cur' = cur
                      /\ loop[c[1]] \in Serving => loop'[c[1]] \in Serving
    OBVIOUS
  <2> HIDE DEF Settle, Accept
  <2>1. cur' = cur
    BY <1>a
  <2>2. conn[c] = "accepted"
    BY <1>a, <1>t
  <2>3. loop[c[1]] \in Serving => loop'[c[1]] \in Serving
    BY <1>a, <1>t, <1>b DEF Serving
  <2> QED
    BY <2>1, <2>2, <2>3
<1> HIDE DEF Next, Settle, Accept
<1> QED
  BY <1>0, <1>1, <1>2, <1>3

-----------------------------------------------------------------------------
(* The theorems.                                                           *)

LEMMA InitIInv == Init => IInv
<1> SUFFICES ASSUME Init PROVE IInv
  OBVIOUS
<1> USE CountAssumption DEF Init
<1>1. TypeOK
  BY DEF TypeOK, Forwards, Codes
<1>2. WaiterCount /\ TryLeft /\ CodesAge /\ StaleCodesRunOut
  BY DEF WaiterCount, TryLeft, CodesAge, StaleCodesRunOut
<1>3. NoEmptyCode /\ NoNeedlessDrop /\ OwnQueue /\ LoopsBegin /\ AcceptedIsServed
  BY DEF LoopsBegin, NoEmptyCode, NoNeedlessDrop, OwnQueue, AcceptedIsServed
<1> QED
  BY <1>1, <1>2, <1>3 DEF IInv

LEMMA Invariance == Spec => []IInv
<1> HIDE DEF Next, vars
<1>1. IInv /\ [Next]_vars => IInv'
  BY TypeStep, AgeStep, DropStep, OwnQueueStep, BeginStep, ServeStep DEF IInv
<1> QED
  BY InitIInv, <1>1, PTL DEF Spec

\* Every variable has its type: Retry makes at most MaxRetries + 1 tries and
\* at most N goroutines of WaitChan wait (util/retry.go:5-20, app.go:462-475).
THEOREM TypeCorrect == Spec => []TypeOK
<1> HIDE DEF Next, vars
<1>1. IInv => TypeOK
  BY DEF IInv
<1> QED
  BY Invariance, <1>1, PTL

\* However many ports share the code channel, the tries of a connection get
\* past the codes prefetched before it came (ssh/tunnel.go:64, :113).
THEOREM StaleCodesRunOutCorrect == Spec => []StaleCodesRunOut
<1> HIDE DEF Next, vars
<1>1. IInv => StaleCodesRunOut
  BY DEF IInv
<1> QED
  BY Invariance, <1>1, PTL

\* With more retries than the channel holds codes, old codes alone never
\* cost a client its connection (ssh/tunnel.go:109-112).
THEOREM NoNeedlessDropCorrect == Spec => []NoNeedlessDrop
<1> HIDE DEF Next, vars
<1>1. IInv => NoNeedlessDrop
  BY DEF IInv
<1> QED
  BY Invariance, <1>1, PTL

\* An accepted connection is always in the hands of its port's loop
\* (ssh/tunnel.go:101-152).
THEOREM AcceptedIsServedCorrect == Spec => []AcceptedIsServed
<1> HIDE DEF Next, vars
<1>1. IInv => AcceptedIsServed
  BY DEF IInv
<1> QED
  BY Invariance, <1>1, PTL

\* A connection is only given up after the last try, made with a code newer
\* than the connection (ssh/tunnel.go:109-151, util/retry.go:5-20).
THEOREM DropIsGenuineCorrect == Spec => DropIsGenuine
<1> DEFINE Genuine ==
      \A f \in Forwards :
        cur[f] # NoConn /\ cur'[f] = NoConn /\ conn'[cur[f]] = "dropped"
          => try[f] = MaxRetries + 1 /\ ~stale[f]
<1>1. IInv /\ [Next]_vars => Genuine
  <2>a. SUFFICES ASSUME TypeOK, StaleCodesRunOut, [Next]_vars, NEW f \in Forwards,
                        cur[f] # NoConn, cur'[f] = NoConn, conn'[cur[f]] = "dropped"
                 PROVE  try[f] = MaxRetries + 1 /\ ~stale[f]
    BY DEF IInv
  <2>t. /\ cur \in [Forwards -> Conns \union {NoConn}]
        /\ conn \in [Conns -> {"idle", "queued", "accepted", "bridged", "dropped", "reset"}]
        /\ try \in [Forwards -> 0..(MaxRetries + 1)]
        /\ PipeCap \in Nat \ {0} /\ MaxRetries \in Nat /\ MaxRetries > PipeCap
    BY <2>a, CountAssumption, RetryAssumption DEF TypeOK
  <2>1. PICK s \in {"bridged", "dropped"} : Settle(f, s) /\ (s = "dropped" => try[f] > MaxRetries)
    <3>1. ~Accept(f)
      <4> HIDE DEF Next
      <4>1. backlog[f] # << >> => Head(backlog[f]) \in Conns
        BY <2>a, QueueStep DEF TypeOK
      <4>2. NoConn \notin Conns
        BY DEF NoConn, Conns, Forwards
      <4> QED
        BY <2>a, <2>t, <4>1, <4>2
    <3>2. ASSUME NEW g \in Forwards, NEW s, Settle(g, s) \/ Accept(g) PROVE g = f
      <4> HIDE DEF Next
      <4> QED
        BY <2>a, <2>t, <3>2
    <3>3. \E g \in Forwards : \/ Accept(g)
                              \/ \E s \in {"bridged", "dropped"} :
                                   Settle(g, s) /\ (s = "dropped" => try[g] > MaxRetries)
      <4>1. cur' # cur
        BY <2>a
      <4> HIDE DEF Settle, Accept
      <4> QED
        BY <2>a, <4>1
    <3> HIDE DEF Next, Settle, Accept
    <3> QED
      BY <3>1, <3>2, <3>3
  <2> HIDE DEF Next
  <2>2. s = "dropped"
    BY <2>a, <2>t, <2>1
  <2>3. stale[f] => try[f] <= PipeCap + 1
    BY <2>a DEF StaleCodesRunOut
  <2> QED
    BY <2>t, <2>1, <2>2, <2>3
<1> HIDE DEF Next, vars
<1>2. IInv /\ [Next]_vars => [Genuine]_vars
  BY <1>1
<1> QED
  BY Invariance, <1>2, PTL DEF Spec, DropIsGenuine
=============================================================================
