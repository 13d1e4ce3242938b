-------------------------- MODULE TokenTunnelProofs --------------------------
(* Theorems about TokenTunnel, for any number of ports, clients and tries. *)
EXTENDS TokenTunnel, SshTunnelProofs, FiniteSetTheorems

HIDE DEF Next, DriverStep, ProducerStep, AcceptLoop, Exits, vars, driverVars, pipeVars, loopVars

-----------------------------------------------------------------------------
(* The composition is a tunnel.                                            *)

\* Every step of the composition is one of the tunnel's, or leaves it alone.
LEMMA TunnelSteps == [TokenNext]_allVars => [Next]_vars
  <1> SUFFICES ASSUME [TokenNext]_allVars PROVE [Next]_vars
    OBVIOUS
  <1>1. CASE Expires \/ DestroyApp \/ RefreshAccessToken
    BY <1>1 DEF Expires, DestroyApp, RefreshAccessToken
  <1>2. CASE SSHCode
    BY <1>2 DEF SSHCode, Next, ProducerStep
  <1>3. CASE TunnelStep
    BY <1>3 DEF TunnelStep, Next, ProducerStep
  <1>4. CASE UNCHANGED allVars
    BY <1>4 DEF allVars
  <1> QED
    BY <1>1, <1>2, <1>3, <1>4 DEF TokenNext

\* So the tunnel's theorems hold whatever becomes of the token.
LEMMA TunnelSimulated == TokenSpec => Spec
  <1>1. TokenInit => Init
    BY DEF TokenInit
  <1> QED
    BY <1>1, TunnelSteps, PTL DEF TokenSpec, Spec

\* In particular, no connection that was accepted is lost in the composition.
THEOREM AcceptedIsServedWithToken == TokenSpec => []AcceptedIsServed
  BY TunnelSimulated, AcceptedIsServedCorrect, PTL

-----------------------------------------------------------------------------
(* What an expired token leaves.  The codes that may still be good are in   *)
(* the first g places of the channel, in the producer's hand (then the      *)
(* channel holds none that is not), and with the loops about to dial.       *)

Held == {f \in Forwards : loop[f] = "dial" /\ held[f] = "code"}
InHand(h) == IF h = "code" THEN 1 ELSE 0

Left(g) ==
  /\ g \in 0..Len(passwords)
  /\ \A i \in DOMAIN passwords : i > g => passwords[i] = "none"
  /\ hand = "code" => g = Len(passwords)
  /\ late + g + InHand(hand) + Cardinality(Held) <= PipeCap + 1 + N

LateInv ==
  /\ late \in Nat /\ token \in {"valid", "expired"}
  /\ token = "valid" /\ deleting = "no" => late = 0
  /\ token = "valid" => LateBounded
  /\ token = "expired" => \E g \in Nat : Left(g)

\* A loop holds one code at most.
LEMMA HeldSize ==
  /\ IsFiniteSet(Held) /\ Cardinality(Held) \in Nat /\ Cardinality(Held) <= N
  /\ \A T : T \subseteq Held => IsFiniteSet(T) /\ Cardinality(T) \in Nat
                               /\ Cardinality(T) <= Cardinality(Held)
  <1>1. N \in Nat /\ IsFiniteSet(1..N) /\ Cardinality(1..N) = N
    <2>1. N \in Nat /\ N >= 1 /\ N \in Int /\ 1 \in Int
      BY CountAssumption
    <2>2. Cardinality(1..N) = IF 1 > N THEN 0 ELSE N - 1 + 1
      BY <2>1, FS_Interval
    <2> QED
      BY <2>1, <2>2, FS_Interval
  <1>2. Held \subseteq 1..N
    BY DEF Held, Forwards
  <1>3. IsFiniteSet(Held) /\ Cardinality(Held) <= N
    BY <1>1, <1>2, FS_Subset
  <1>4. \A T : T \subseteq Held => IsFiniteSet(T) /\ Cardinality(T) <= Cardinality(Held)
    BY <1>3, FS_Subset
  <1> QED
    BY <1>3, <1>4, FS_CardinalityType

\* What is left bounds what has been spent.
LEMMA LeftBounds ==
  ASSUME TypeOK, late \in Nat, NEW g, Left(g)
  PROVE  LateBounded
  <1>1. g \in Nat /\ Len(passwords) \in Nat /\ N \in Nat /\ PipeCap \in Nat
    BY CountAssumption DEF Left, TypeOK
  <1>2. Cardinality(Held) \in Nat /\ InHand(hand) \in Nat
    BY HeldSize DEF InHand
  <1> QED
    BY <1>1, <1>2 DEF Left, LateBounded

-----------------------------------------------------------------------------
(* The steps of the tunnel.                                                *)

\* A step that neither takes a code nor opens an SSH connection.
Quiet ==
  /\ passwords' = passwords /\ hand' \in {hand, "asking"}
  /\ Held' \subseteq Held /\ ~SshDialed

\* A code goes to a loop, or a loop opens its SSH connection with it.
Takes(f) ==
  /\ passwords # << >> /\ passwords' = Tail(passwords) /\ hand' = hand
  /\ Held' \subseteq Held \union (IF Head(passwords) = "code" THEN {f} ELSE {})
  /\ ~SshDialed
Opens(f) ==
  /\ passwords' = passwords /\ hand' = hand
  /\ f \in Held /\ Held' = Held \ {f} /\ SshDialed

\* Steps that change no loop, or none that is about to dial.
LEMMA QuietSteps ==
  ASSUME TypeOK,
         DriverStep \/ Teardown \/ WaitChan \/ Exits \/ (\E c \in Conns : UserDials(c))
  PROVE  Quiet
  <1>1. CASE Forward
    <2>1. passwords' = passwords /\ hand' = hand /\ held' = held
      BY <1>1 DEF Forward, pipeVars
    <2>2. \A f \in Forwards : loop'[f] = loop[f] \/ loop'[f] = "accept"
      BY <1>1 DEF Forward, TypeOK
    <2> QED
      BY <2>1, <2>2 DEF Quiet, Held, SshDialed
  <1>2. CASE Start
    <2>1. passwords' = passwords /\ hand' = "asking" /\ held' = held /\ loop' = loop
      BY <1>2 DEF Start, loopVars
    <2> QED
      BY <2>1 DEF Quiet, Held, SshDialed
  <1>3. CASE \/ ProbePort \/ StopLock \/ CloseListener \/ Teardown \/ WaitChan \/ Exits
             \/ \E c \in Conns : UserDials(c)
    <2>1. passwords' = passwords /\ hand' = hand /\ held' = held /\ loop' = loop
      BY <1>3 DEF ProbePort, StopLock, CloseListener, Teardown, WaitChan, Exits, UserDials,
                  vars, loopVars, pipeVars
    <2> QED
      BY <2>1 DEF Quiet, Held, SshDialed
  <1> QED
    BY <1>1, <1>2, <1>3 DEF DriverStep

\* Where the loop of f goes decides what it holds.
LEMMA LoopMoves ==
  ASSUME TypeOK, NEW f \in Forwards, passwords' = passwords, hand' = hand,
         \A g \in Forwards : g # f => loop'[g] = loop[g] /\ held'[g] = held[g]
  PROVE  /\ loop'[f] # "dial" /\ ~(loop[f] = "dial" /\ loop'[f] = "remote") => Quiet
         /\ loop[f] = "dial" /\ held[f] = "code" /\ loop'[f] = "remote" => Opens(f)
  <1>1. ASSUME loop'[f] # "dial", ~(loop[f] = "dial" /\ loop'[f] = "remote") PROVE Quiet
    <2>1. Held' \subseteq Held
      BY <1>1 DEF Held
    <2>2. ~SshDialed
      BY <1>1 DEF SshDialed
    <2> QED
      BY <2>1, <2>2 DEF Quiet
  <1>2. ASSUME loop[f] = "dial", held[f] = "code", loop'[f] = "remote" PROVE Opens(f)
    <2>1. f \in Held /\ Held' = Held \ {f}
      BY <1>2 DEF Held
    <2>2. SshDialed
      BY <1>2 DEF SshDialed
    <2> QED
      BY <2>1, <2>2 DEF Opens
  <1> QED
    BY <1>1, <1>2

\* The steps of an accept loop.
LEMMA LoopSteps ==
  ASSUME TypeOK, NEW f \in Forwards, AcceptLoop(f)
  PROVE  Quiet \/ Takes(f) \/ Opens(f)
  <1>0. loop \in [Forwards -> {"off", "accept", "lock", "ended"} \union Serving]
        /\ held \in [Forwards -> Codes] /\ passwords \in Seq(Codes)
    BY DEF TypeOK
  <1>1. CASE Accept(f)
    <2>1. /\ passwords' = passwords /\ hand' = hand /\ held' = held
          /\ loop' = [loop EXCEPT ![f] = "code"]
      BY <1>1 DEF Accept, pipeVars
    <2> QED
      BY <1>0, <2>1, LoopMoves
  <1>2. CASE AcceptFails(f)
    <2>1. /\ passwords' = passwords /\ hand' = hand /\ held' = held
          /\ loop' = [loop EXCEPT ![f] = "lock"]
      BY <1>2 DEF AcceptFails, pipeVars
    <2> QED
      BY <1>0, <2>1, LoopMoves
  <1>3. CASE LoopEnds(f)
    <2>1. /\ passwords' = passwords /\ hand' = hand /\ held' = held
          /\ loop' = [loop EXCEPT ![f] = "ended"]
      BY <1>3 DEF LoopEnds, pipeVars
    <2> QED
      BY <1>0, <2>1, LoopMoves
  <1>4. CASE TakeCode(f)
    <2>1. /\ passwords # << >> /\ passwords' = Tail(passwords) /\ hand' = hand
          /\ held' = [held EXCEPT ![f] = Head(passwords)]
          /\ loop' = [loop EXCEPT ![f] = "dial"]
      BY <1>4 DEF TakeCode
    <2>2. /\ loop'[f] = "dial" /\ held'[f] = Head(passwords)
          /\ \A g \in Forwards : g # f => loop'[g] = loop[g] /\ held'[g] = held[g]
      BY <1>0, <2>1
    <2>3. Held' \subseteq Held \union (IF Head(passwords) = "code" THEN {f} ELSE {})
      BY <2>2 DEF Held
    <2>4. ~SshDialed
      BY <2>2 DEF SshDialed
    <2> QED
      BY <2>1, <2>3, <2>4 DEF Takes
  <1>5. CASE DialSSH(f)
    <2>1. loop[f] = "dial" /\ passwords' = passwords /\ hand' = hand
      BY <1>5 DEF DialSSH, pipeVars
    <2>2. CASE held[f] = "code" /\ loop' = [loop EXCEPT ![f] = "remote"] /\ held' = held
      BY <1>0, <2>1, <2>2, LoopMoves
    <2>3. CASE TryFails(f)
      <3>1. /\ loop'[f] \in {"accept", "code"}
            /\ \A g \in Forwards : g # f => loop'[g] = loop[g] /\ held'[g] = held[g]
        BY <1>0, <2>3 DEF TryFails, Settle
      <3> QED
        BY <2>1, <3>1, LoopMoves
    <2> QED
      BY <1>5, <2>2, <2>3 DEF DialSSH
  <1>6. CASE DialRemote(f)
    <2>1. loop[f] = "remote" /\ passwords' = passwords /\ hand' = hand
      BY <1>6 DEF DialRemote, pipeVars
    <2>2. /\ loop'[f] \in {"accept", "code"}
          /\ \A g \in Forwards : g # f => loop'[g] = loop[g] /\ held'[g] = held[g]
      BY <1>0, <1>6 DEF DialRemote, TryFails, Settle
    <2> QED
      BY <2>1, <2>2, LoopMoves
  <1> QED
    BY <1>1, <1>2, <1>3, <1>4, <1>5, <1>6 DEF AcceptLoop

-----------------------------------------------------------------------------
(* What each kind of step leaves.                                          *)

\* A quiet step spends nothing.
LEMMA QuietLeaves ==
  ASSUME TypeOK, TypeOK', late \in Nat, Quiet, late' = late, NEW g \in Nat, Left(g)
  PROVE  Left(g)'
  <1>1. /\ Cardinality(Held) \in Nat /\ Cardinality(Held') \in Nat
        /\ Cardinality(Held') <= Cardinality(Held)
    BY HeldSize DEF Quiet
  <1>2. InHand(hand') <= InHand(hand) /\ InHand(hand') \in Nat /\ InHand(hand) \in Nat
    BY DEF Quiet, InHand
  <1>3. N \in Nat /\ PipeCap \in Nat
    BY CountAssumption
  <1>4. late' + g + InHand(hand') + Cardinality(Held') <= PipeCap + 1 + N
    BY <1>1, <1>2, <1>3 DEF Left
  <1> QED
    BY <1>4 DEF Left, Quiet

\* The producer's code takes the last place.
LEMMA SendLeaves ==
  ASSUME TypeOK, TypeOK', late \in Nat, SendCode, late' = late, NEW g \in Nat, Left(g)
  PROVE  \E n \in Nat : Left(n)'
  <1>1. /\ hand \in Codes /\ hand' = "asking" /\ passwords' = Append(passwords, hand)
        /\ Held' = Held
    BY DEF SendCode, loopVars, Held
  <1>2. /\ passwords \in Seq(Codes) /\ Len(passwords) \in Nat
        /\ Len(passwords') = Len(passwords) + 1
        /\ DOMAIN passwords = 1..Len(passwords) /\ DOMAIN passwords' = 1..(Len(passwords) + 1)
        /\ \A i \in DOMAIN passwords : passwords'[i] = passwords[i]
        /\ passwords'[Len(passwords) + 1] = hand
    <2>1. passwords \in Seq(Codes) /\ hand \in Codes /\ passwords' = Append(passwords, hand)
      BY <1>1 DEF TypeOK
    <2>2. /\ Len(passwords) \in Nat /\ Len(passwords') = Len(passwords) + 1
          /\ DOMAIN passwords = 1..Len(passwords)
      BY <2>1
    <2>3. DOMAIN passwords' = 1..(Len(passwords) + 1)
      BY <2>1, <2>2
    <2>4. passwords'[Len(passwords) + 1] = hand
      BY <2>1, <2>2
    <2>5. \A i \in DOMAIN passwords : passwords'[i] = passwords[i]
      BY <2>1, <2>2
    <2> QED
      BY <2>1, <2>2, <2>3, <2>4, <2>5
  <1>3. N \in Nat /\ PipeCap \in Nat /\ Cardinality(Held) \in Nat
    BY CountAssumption, HeldSize
  <1>4. CASE hand = "code"
    <2>1. Left(g + 1)'
      <3>1. g = Len(passwords) /\ g + 1 = Len(passwords')
        BY <1>2, <1>4 DEF Left
      <3>2. late' + (g + 1) + InHand(hand') + Cardinality(Held') <= PipeCap + 1 + N
        BY <1>1, <1>3, <1>4 DEF Left, InHand
      <3>3. \A i \in DOMAIN passwords' : ~(i > g + 1)
        BY <1>2, <3>1
      <3> QED
        BY <1>1, <1>2, <3>1, <3>2, <3>3 DEF Left
    <2> QED
      BY <2>1
  <1>5. CASE hand = "none"
    <2>1. Left(g)'
      <3>1. late' + g + InHand(hand') + Cardinality(Held') <= PipeCap + 1 + N
        BY <1>1, <1>3, <1>5 DEF Left, InHand
      <3>2. g \in 0..Len(passwords')
        <4>1. g \in 0..Len(passwords)
          BY DEF Left
        <4> QED
          BY <4>1, <1>2
      <3>3. ASSUME NEW i \in DOMAIN passwords', i > g PROVE passwords'[i] = "none"
        <4>1. CASE i = Len(passwords) + 1
          BY <4>1, <1>2, <1>5
        <4>2. CASE i \in DOMAIN passwords
          BY <4>2, <1>2, <3>3 DEF Left
        <4> QED
          BY <4>1, <4>2, <1>2
      <3> QED
        BY <1>1, <3>1, <3>2, <3>3 DEF Left
    <2> QED
      BY <2>1
  <1> QED
    BY <1>1, <1>4, <1>5 DEF Codes

\* A code that a loop takes is one less in the channel.
LEMMA TakeLeaves ==
  ASSUME TypeOK, TypeOK', late \in Nat, NEW f \in Forwards, Takes(f), late' = late,
         NEW g \in Nat, Left(g)
  PROVE  \E n \in Nat : Left(n)'
  <1>1. /\ passwords \in Seq(Codes) /\ Len(passwords) \in Nat /\ Len(passwords) > 0
        /\ Len(passwords') = Len(passwords) - 1
        /\ DOMAIN passwords = 1..Len(passwords) /\ DOMAIN passwords' = 1..(Len(passwords) - 1)
        /\ \A i \in DOMAIN passwords' : passwords'[i] = passwords[i + 1]
        /\ Head(passwords) = passwords[1]
    <2>1. passwords \in Seq(Codes) /\ passwords # << >> /\ passwords' = Tail(passwords)
      BY DEF TypeOK, Takes
    <2> QED
      BY <2>1
  <1>2. /\ N \in Nat /\ PipeCap \in Nat /\ Cardinality(Held) \in Nat /\ IsFiniteSet(Held)
        /\ hand' = hand /\ InHand(hand) \in Nat
    <2>1. hand' = hand /\ InHand(hand) \in Nat
      BY DEF Takes, InHand
    <2> QED
      BY <2>1, CountAssumption, HeldSize
  <1>5. /\ IsFiniteSet(Held \union {f}) /\ Cardinality(Held \union {f}) \in Nat
        /\ Cardinality(Held \union {f}) <= Cardinality(Held) + 1
    <2>1. IsFiniteSet(Held \union {f})
      BY <1>2, FS_AddElement
    <2>2. Cardinality(Held \union {f}) = Cardinality(Held)
          \/ Cardinality(Held \union {f}) = Cardinality(Held) + 1
      BY <1>2, FS_AddElement
    <2> QED
      BY <1>2, <2>1, <2>2
  <1>6. /\ Cardinality(Held') \in Nat
        /\ Cardinality(Held') <= Cardinality(Held \union {f})
    <2>1. Held' \subseteq Held \union {f}
      BY DEF Takes
    <2> QED
      BY <1>5, <2>1, FS_Subset, FS_CardinalityType
  <1>3. CASE g > 0
    <2>1. Left(g - 1)'
      <3>1. Cardinality(Held') <= Cardinality(Held) + 1
        BY <1>2, <1>5, <1>6
      <3>2. late' + (g - 1) + InHand(hand') + Cardinality(Held') <= PipeCap + 1 + N
        BY <1>2, <1>3, <1>6, <3>1 DEF Left
      <3>3. /\ g - 1 \in 0..Len(passwords')
            /\ hand' = "code" => g - 1 = Len(passwords')
        BY <1>1, <1>2, <1>3 DEF Left
      <3>4. ASSUME NEW i \in DOMAIN passwords', i > g - 1 PROVE passwords'[i] = "none"
        <4>1. i + 1 \in DOMAIN passwords /\ i + 1 > g
          BY <1>1, <3>4
        <4> QED
          BY <1>1, <4>1 DEF Left
      <3> QED
        BY <3>2, <3>3, <3>4 DEF Left
    <2>2. g - 1 \in Nat
      BY <1>3
    <2> QED
      BY <2>1, <2>2
  <1>4. CASE g = 0
    <2>1. Left(0)'
      <3>1. 1 \in DOMAIN passwords /\ Head(passwords) = "none"
        BY <1>1, <1>4 DEF Left
      <3>2. Held' \subseteq Held /\ Cardinality(Held') <= Cardinality(Held)
        BY <3>1, HeldSize DEF Takes
      <3>3. late' + 0 + InHand(hand') + Cardinality(Held') <= PipeCap + 1 + N
        BY <1>2, <1>4, <1>6, <3>2 DEF Left
      <3>4. 0 \in 0..Len(passwords') /\ hand' # "code"
        BY <1>1, <1>2, <1>4 DEF Left
      <3>5. ASSUME NEW i \in DOMAIN passwords' PROVE passwords'[i] = "none"
        <4>1. i + 1 \in DOMAIN passwords /\ i + 1 > g
          BY <1>1, <1>4
        <4> QED
          BY <1>1, <4>1 DEF Left
      <3> QED
        BY <3>3, <3>4, <3>5 DEF Left
    <2> QED
      BY <2>1
  <1> QED
    BY <1>3, <1>4

\* An SSH connection costs the code its loop held.
LEMMA OpenLeaves ==
  ASSUME TypeOK, TypeOK', late \in Nat, NEW f \in Forwards, Opens(f), late' = late + 1,
         NEW g \in Nat, Left(g)
  PROVE  Left(g)'
  <1>1. /\ IsFiniteSet(Held) /\ Cardinality(Held) \in Nat
        /\ Cardinality(Held') = Cardinality(Held) - 1
    BY HeldSize, FS_RemoveElement DEF Opens
  <1>2. N \in Nat /\ PipeCap \in Nat /\ InHand(hand) \in Nat /\ hand' = hand
    BY CountAssumption DEF Opens, InHand
  <1>3. late' + g + InHand(hand') + Cardinality(Held') <= PipeCap + 1 + N
    BY <1>1, <1>2 DEF Left
  <1> QED
    BY <1>3 DEF Left, Opens

-----------------------------------------------------------------------------
\* LateInv is inductive, relative to the types of the tunnel.
LEMMA LateStep ==
  ASSUME TypeOK, TypeOK', LateInv, [TokenNext]_allVars
  PROVE  LateInv'
  <1> USE DEF LateInv
  <1>0. late \in Nat /\ N \in Nat /\ PipeCap \in Nat
    BY CountAssumption
  <1>1. CASE UNCHANGED allVars
    <2>1. UNCHANGED <<vars, token, deleting, late>>
      BY <1>1 DEF allVars, clientVars
    <2>2. UNCHANGED <<passwords, hand, loop, held, token, deleting, late>>
      BY <2>1 DEF vars, pipeVars, loopVars
    <2>3. Quiet
      BY <2>2 DEF Quiet, Held, SshDialed
    <2>4. token = "expired" => \E g \in Nat : Left(g)'
      BY <2>2, <2>3, QuietLeaves
    <2> QED
      BY <2>2, <2>4 DEF LateBounded
  <1>2. CASE SSHCode
    <2>1. /\ UNCHANGED <<token, deleting, late, passwords, loop, held>>
          /\ token = "expired" => hand' = "none"
      BY <1>2 DEF SSHCode, clientVars, AskCode, loopVars
    <2>2. ASSUME token = "expired" PROVE \E g \in Nat : Left(g)'
      <3>1. PICK g \in Nat : Left(g)
        BY <2>2
      <3>2. /\ InHand(hand') = 0 /\ InHand(hand) \in Nat /\ hand' # "code"
            /\ Held' = Held /\ Cardinality(Held) \in Nat
        BY <2>1, <2>2, HeldSize DEF InHand, Held
      <3>3. late' + g + InHand(hand') + Cardinality(Held') <= PipeCap + 1 + N
        BY <1>0, <2>1, <3>1, <3>2 DEF Left
      <3>4. g \in 0..Len(passwords') /\ \A i \in DOMAIN passwords' : i > g => passwords'[i] = "none"
        BY <2>1, <3>1 DEF Left
      <3>5. Left(g)'
        BY <3>2, <3>3, <3>4 DEF Left
      <3> QED
        BY <3>5
    <2> QED
      BY <2>1, <2>2 DEF LateBounded
  <1>3. CASE Expires
    <2>1. /\ UNCHANGED <<vars, deleting, late>> /\ late = 0 /\ token' = "expired"
      BY <1>3 DEF Expires
    <2>2. UNCHANGED <<passwords, hand, loop, held>>
      BY <2>1 DEF vars, pipeVars, loopVars
    <2>3. Left(Len(passwords))'
      <3>1. /\ Len(passwords) \in Nat /\ Len(passwords) <= PipeCap
            /\ DOMAIN passwords = 1..Len(passwords)
        BY DEF TypeOK
      <3>2. /\ Held' = Held /\ Cardinality(Held) \in Nat /\ Cardinality(Held) <= N
            /\ InHand(hand) \in {0, 1}
        BY <2>2, HeldSize DEF Held, InHand
      <3>3. late' + Len(passwords') + InHand(hand') + Cardinality(Held') <= PipeCap + 1 + N
        BY <1>0, <2>1, <2>2, <3>1, <3>2
      <3>4. /\ Len(passwords') \in 0..Len(passwords')
            /\ \A i \in DOMAIN passwords' : ~(i > Len(passwords'))
        BY <2>2, <3>1
      <3> QED
        BY <3>3, <3>4 DEF Left
    <2>4. Len(passwords') \in Nat
      BY DEF TypeOK
    <2> QED
      BY <2>1, <2>2, <2>3, <2>4
  <1>4. CASE DestroyApp
    <2>1. UNCHANGED <<vars, token, late>> /\ deleting' # "no"
      BY <1>4 DEF DestroyApp
    <2>2. UNCHANGED <<passwords, hand, loop, held>>
      BY <2>1 DEF vars, pipeVars, loopVars
    <2>3. Quiet
      BY <2>2 DEF Quiet, Held, SshDialed
    <2>4. token = "expired" => \E g \in Nat : Left(g)'
      BY <2>1, <2>3, QuietLeaves
    <2> QED
      BY <2>1, <2>4 DEF LateBounded
  <1>5. CASE RefreshAccessToken
    <2>1. /\ UNCHANGED <<vars, late>> /\ deleting' = "over" /\ token' \in {token, "valid"}
      BY <1>5 DEF RefreshAccessToken
    <2>2. UNCHANGED <<passwords, hand, loop, held>>
      BY <2>1 DEF vars, pipeVars, loopVars
    <2>3. Quiet
      BY <2>2 DEF Quiet, Held, SshDialed
    <2>4. token = "expired" => \E g \in Nat : Left(g)'
      BY <2>1, <2>3, QuietLeaves
    <2>5. LateBounded
      BY <1>0, LeftBounds
    <2> QED
      BY <2>1, <2>4, <2>5 DEF LateBounded
  <1>6. CASE TunnelStep
    <2>1. /\ UNCHANGED <<token, deleting>>
          /\ late' = IF token = "expired" /\ SshDialed THEN late + 1 ELSE late
      BY <1>6 DEF TunnelStep, clientVars
    <2>2. CASE token = "valid"
      BY <2>1, <2>2 DEF LateBounded
    <2>3. CASE token = "expired"
      <3>1. PICK g \in Nat : Left(g)
        BY <2>3
      <3>2. ASSUME Quiet PROVE \E n \in Nat : Left(n)'
        <4>1. late' = late
          BY <2>1, <3>2 DEF Quiet
        <4>2. Left(g)'
          BY <1>0, <3>1, <3>2, <4>1, QuietLeaves
        <4> QED
          BY <4>2
      <3>3. ASSUME SendCode PROVE \E n \in Nat : Left(n)'
        <4>1. ~SshDialed
          BY <3>3 DEF SendCode, loopVars, SshDialed
        <4>2. late' = late
          BY <2>1, <4>1
        <4> QED
          BY <1>0, <3>1, <3>3, <4>2, SendLeaves
      <3>4. ASSUME NEW f \in Forwards, Takes(f) PROVE \E n \in Nat : Left(n)'
        <4>1. late' = late
          BY <2>1, <3>4 DEF Takes
        <4> QED
          BY <1>0, <3>1, <3>4, <4>1, TakeLeaves
      <3>5. ASSUME NEW f \in Forwards, Opens(f) PROVE \E n \in Nat : Left(n)'
        <4>1. late' = late + 1
          BY <2>1, <2>3, <3>5 DEF Opens
        <4>2. Left(g)'
          BY <1>0, <3>1, <3>5, <4>1, OpenLeaves
        <4> QED
          BY <4>2
      <3>6. Quiet \/ SendCode \/ (\E f \in Forwards : Takes(f) \/ Opens(f))
        BY <1>6, QuietSteps, LoopSteps DEF TunnelStep
      <3>7. late' \in Nat
        BY <1>0, <2>1
      <3>8. \E n \in Nat : Left(n)'
        BY <3>2, <3>3, <3>4, <3>5, <3>6
      <3>9. token' = "expired"
        BY <2>1, <2>3
      <3> QED
        BY <3>7, <3>8, <3>9
    <2> QED
      BY <2>2, <2>3
  <1> QED
    BY <1>1, <1>2, <1>3, <1>4, <1>5, <1>6 DEF TokenNext

\* After the token has expired, no more SSH connections are opened than codes
\* were on their way then, for any number of ports and any channel.
THEOREM LateBoundedCorrect == TokenSpec => []LateBounded
  <1>1. TokenSpec => []TypeOK
    BY TunnelSimulated, TypeCorrect, PTL
  <1>2. TokenInit => LateInv
    <2>1. N \in Nat /\ PipeCap \in Nat
      BY CountAssumption
    <2> QED
      BY <2>1 DEF TokenInit, LateInv, LateBounded
  <1>3. TypeOK /\ TypeOK' /\ LateInv /\ [TokenNext]_allVars => LateInv'
    BY LateStep
  <1>4. TypeOK /\ LateInv => LateBounded
    BY LeftBounds DEF LateInv
  <1> QED
    BY <1>1, <1>2, <1>3, <1>4, PTL DEF TokenSpec
=============================================================================
