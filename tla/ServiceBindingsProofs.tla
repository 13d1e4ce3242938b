------------------------ MODULE ServiceBindingsProofs ------------------------
(* Theorems about ServiceBindings, for any space, request and program.     *)
EXTENDS ServiceBindings, TLAPS

USE BaseAssumption, SpaceAssumption

\* The credentials of the space have their members.
LEMMA SpaceTypes ==
  ASSUME NEW i \in Positions
  PROVE  /\ Space[i].type \in STRING /\ Space[i].name \in STRING
         /\ Space[i].creds.host \in Hosts /\ Space[i].creds.hostname \in Hosts
         /\ Space[i].creds.port \in Nat
         /\ Host(Space[i].creds) \in Hosts
         /\ Address(Space[i].creds) \in Addresses
         /\ \A n \in DOMAIN Space[i].creds.texts : Space[i].creds.texts[n] \in Addresses
  <1>1. Space[i] \in Instances
    BY DEF Positions
  <1>2. Space[i].creds \in Credentials /\ Space[i].type \in STRING /\ Space[i].name \in STRING
    BY <1>1 DEF Instances
  <1>3. /\ Space[i].creds.host \in Hosts /\ Space[i].creds.hostname \in Hosts
        /\ Space[i].creds.port \in Nat /\ Space[i].creds.texts \in Seq(Addresses)
    BY <1>2 DEF Credentials
  <1>4. NoHost \in Hosts
    BY DEF NoHost, Hosts
  <1>5. Host(Space[i].creds) \in Hosts
    BY <1>3, <1>4, Zenon DEF Host
  <1>6. Address(Space[i].creds) \in Addresses
    BY <1>3, <1>5 DEF Address, Addresses, Port
  <1>7. \A n \in DOMAIN Space[i].creds.texts : Space[i].creds.texts[n] \in Addresses
    BY <1>3
  <1> QED
    BY <1>2, <1>3, <1>5, <1>6, <1>7

-----------------------------------------------------------------------------
(* The invariant.                                                          *)

\* Where the loop is: nothing is kept before it, and only what it has passed.
Passed ==
  /\ kept \subseteq 1..(at - 1)
  /\ pc = "prepare" => at = 1

\* Every forward is that of one instance kept, and what the loop has done to
\* the credentials is SetAddress with the port of that forward, or nothing.
Written ==
  /\ DOMAIN creds = Positions
  /\ \A i \in Positions : i \notin kept => creds[i] = Space[i].creds
  /\ \A j \in DOMAIN forwardAddrs :
       LET f == forwardAddrs[j] IN
       /\ f.at \in kept /\ f.RemoteAddr = Address(Space[f.at].creds)
       /\ creds[f.at] = SetAddress(Space[f.at].creds, [host |-> Local, port |-> ConnectPort(f)])
  /\ \A i \in kept : \E j \in DOMAIN forwardAddrs : forwardAddrs[j].at = i

\* The address that BindServices has seen is there when the loop comes to it.
Checked == ~existing => \A i \in bound : HasAddress(Space[i].creds)

IInv == TypeOK /\ Base <= nextPort /\ PortsDistinct /\ Passed /\ Written /\ Checked
                /\ DeployedHaveAddress

-----------------------------------------------------------------------------
(* One step of the loop.                                                   *)

\* The forward of the instance the loop is at.
LEMMA ForwardType ==
  ASSUME TypeOK, Written, Passed, at \in Positions
  PROVE  /\ at \notin kept /\ creds[at] = Space[at].creds
         /\ Forward \in ForwardAddr
         /\ Forward.at = at /\ Forward.RemoteAddr = Address(Space[at].creds)
         /\ Forward.LocalPort = nextPort
         /\ Forward.TLSTunnelPort = IF NeedsTLSTunnel THEN nextPort + 1 ELSE 0
  <1>1. at \notin kept /\ creds[at] = Space[at].creds
    BY DEF Passed, Written, Positions
  <1>2. Address(creds[at]) \in Addresses
    BY <1>1, SpaceTypes
  <1>3. nextPort \in Nat /\ (IF NeedsTLSTunnel THEN nextPort + 1 ELSE 0) \in Nat
    BY DEF TypeOK
  <1> QED
    BY <1>1, <1>2, <1>3 DEF Forward, ForwardAddr

\* What Keep appends.
LEMMA Appended ==
  ASSUME TypeOK, Written, Passed, Keep
  PROVE  /\ forwardAddrs' \in Seq(ForwardAddr)
         /\ Len(forwardAddrs) \in Nat /\ DOMAIN forwardAddrs = 1..Len(forwardAddrs)
         /\ DOMAIN forwardAddrs' = 1..(Len(forwardAddrs) + 1)
         /\ \A j \in 1..Len(forwardAddrs) : forwardAddrs'[j] = forwardAddrs[j]
         /\ forwardAddrs'[Len(forwardAddrs) + 1] = Forward
         /\ at \in Positions
  <1>1. at \in Positions /\ forwardAddrs' = Append(forwardAddrs, Forward)
    BY DEF Keep, Visiting, TakePorts
  <1>2. Forward \in ForwardAddr /\ forwardAddrs \in Seq(ForwardAddr)
    BY <1>1, ForwardType DEF TypeOK
  <1> QED
    BY <1>1, <1>2

\* The members of the forwards there are.
LEMMA ForwardMembers ==
  ASSUME TypeOK, NEW j \in DOMAIN forwardAddrs
  PROVE  /\ forwardAddrs[j].at \in Positions /\ forwardAddrs[j].RemoteAddr \in Addresses
         /\ forwardAddrs[j].LocalPort \in Nat /\ forwardAddrs[j].TLSTunnelPort \in Nat
  <1>1. forwardAddrs \in Seq(ForwardAddr)
    BY DEF TypeOK
  <1>2. forwardAddrs[j] \in ForwardAddr
    BY <1>1
  <1> QED
    BY <1>2 DEF ForwardAddr

\* Keep keeps the types.
LEMMA KeepTypes ==
  ASSUME TypeOK, Written, Passed, Keep
  PROVE  TypeOK'
  <1>1. at \in Positions /\ at + 1 \in 1..(Len(Space) + 1)
    <2>1. at \in Positions /\ Len(Space) \in Nat
      BY Appended
    <2> QED
      BY <2>1 DEF Positions
  <1>2. nextPort' \in Nat
    BY DEF Keep, TakePorts, TypeOK
  <1>3. satisfied' \in BOOLEAN
    BY DEF Keep, TellProgram, TypeOK, told
  <1>4. /\ kept' \subseteq Positions /\ unsatisfied' \subseteq request'
        /\ request' \in Requests /\ program' \in Programs /\ existing' \in BOOLEAN
        /\ pc' \in {"prepare", "fetch", "visit", "ready", "error"}
        /\ bound' \subseteq Positions /\ at' \in 1..(Len(Space) + 1)
    BY <1>1 DEF Keep, TypeOK, input
  <1> QED
    BY <1>2, <1>3, <1>4, Appended DEF TypeOK

\* Keep hands out ports above those before.
LEMMA KeepPorts ==
  ASSUME TypeOK, Written, Passed, Keep, Base <= nextPort, PortsDistinct
  PROVE  Base <= nextPort' /\ PortsDistinct'
  <1> DEFINE n == Len(forwardAddrs)
             q == nextPort
  <1>1. q \in Nat /\ n \in Nat /\ nextPort' \in Nat
    BY Appended, KeepTypes DEF TypeOK
  <1>2. /\ Forward.LocalPort = q /\ Forward.LocalPort < nextPort'
        /\ Forward.TLSTunnelPort # 0 => q < Forward.TLSTunnelPort /\ Forward.TLSTunnelPort < nextPort'
    <2>1. nextPort' = nextPort + (IF NeedsTLSTunnel THEN 2 ELSE 1)
      BY DEF Keep, TakePorts
    <2>2. /\ Forward.LocalPort = nextPort
          /\ Forward.TLSTunnelPort = IF NeedsTLSTunnel THEN nextPort + 1 ELSE 0
      BY ForwardType, Appended
    <2>3. CASE NeedsTLSTunnel
      BY <1>1, <2>1, <2>2, <2>3
    <2>4. CASE ~NeedsTLSTunnel
      BY <1>1, <2>1, <2>2, <2>4
    <2> QED
      BY <2>3, <2>4
  <1>3. ASSUME NEW j \in 1..n
        PROVE  /\ forwardAddrs[j].LocalPort < q /\ forwardAddrs[j].LocalPort \in Nat
               /\ forwardAddrs[j].TLSTunnelPort < q /\ forwardAddrs[j].TLSTunnelPort \in Nat
    <2>1. /\ j \in DOMAIN forwardAddrs
          /\ forwardAddrs[j].LocalPort \in Nat /\ forwardAddrs[j].TLSTunnelPort \in Nat
      BY Appended, ForwardMembers
    <2>2. /\ forwardAddrs[j].LocalPort < nextPort
          /\ forwardAddrs[j].TLSTunnelPort # 0 => forwardAddrs[j].TLSTunnelPort < nextPort
      BY <2>1 DEF PortsDistinct
    <2> QED
      BY <2>1, <2>2, <1>1
  <1>4. q < nextPort'
    BY <1>1 DEF Keep, TakePorts
  <1>5. ASSUME NEW j \in DOMAIN forwardAddrs'
        PROVE  LET f == forwardAddrs'[j] IN
               /\ Base <= f.LocalPort /\ f.LocalPort < nextPort'
               /\ f.TLSTunnelPort # 0 => f.LocalPort < f.TLSTunnelPort /\ f.TLSTunnelPort < nextPort'
               /\ \A i \in 1..(j - 1) : /\ forwardAddrs'[i].LocalPort < f.LocalPort
                                        /\ forwardAddrs'[i].TLSTunnelPort < f.LocalPort
    <2>1. CASE j = n + 1
      <3>1. forwardAddrs'[j] = Forward /\ j - 1 = n
        BY <2>1, <1>1, Appended
      <3>2. \A i \in 1..(j - 1) : forwardAddrs'[i] = forwardAddrs[i]
        BY <3>1, Appended
      <3>3. \A i \in 1..(j - 1) : forwardAddrs'[i].LocalPort < q /\ forwardAddrs'[i].TLSTunnelPort < q
        BY <3>1, <3>2, <1>3
      <3> QED
        BY <3>1, <3>3, <1>2, <1>4
    <2>2. CASE j \in 1..n
      <3>1. j \in DOMAIN forwardAddrs /\ forwardAddrs'[j] = forwardAddrs[j]
        BY <2>2, Appended
      <3>2. \A i \in 1..(j - 1) : forwardAddrs'[i] = forwardAddrs[i]
        BY <2>2, <1>1, Appended
      <3>3. /\ Base <= forwardAddrs[j].LocalPort
            /\ forwardAddrs[j].TLSTunnelPort # 0 => forwardAddrs[j].LocalPort < forwardAddrs[j].TLSTunnelPort
            /\ \A i \in 1..(j - 1) : /\ forwardAddrs[i].LocalPort < forwardAddrs[j].LocalPort
                                     /\ forwardAddrs[i].TLSTunnelPort < forwardAddrs[j].LocalPort
        BY <3>1 DEF PortsDistinct
      <3>4. forwardAddrs[j].LocalPort < nextPort' /\ forwardAddrs[j].TLSTunnelPort < nextPort'
        BY <2>2, <1>3, <1>1, <1>4
      <3> QED
        BY <3>1, <3>2, <3>3, <3>4
    <2>3. j \in 1..(n + 1)
      BY Appended
    <2>4. j = n + 1 \/ j \in 1..n
      BY <2>3, <1>1
    <2> HIDE DEF n, q
    <2> QED
      BY <2>1, <2>2, <2>4, Zenon
  <1>6. Base <= nextPort'
    BY <1>1, <1>4
  <1> QED
    BY <1>5, <1>6 DEF PortsDistinct

\* Keep writes the address of its own forward, and no other.
LEMMA KeepWrites ==
  ASSUME TypeOK, Written, Passed, Keep
  PROVE  Written'
  <1> DEFINE n == Len(forwardAddrs)
             new == [host |-> Local, port |-> ConnectPort(Forward)]
  <1>1. /\ at \in Positions /\ at \notin kept /\ creds[at] = Space[at].creds
        /\ kept' = kept \union {at}
    BY Appended, ForwardType DEF Keep
  <1>2. /\ DOMAIN creds' = Positions /\ creds'[at] = SetAddress(creds[at], new)
        /\ \A i \in Positions : i # at => creds'[i] = creds[i]
    BY <1>1 DEF Keep, Written
  <1>3. \A i \in Positions : i \notin kept' => creds'[i] = Space[i].creds
    BY <1>1, <1>2 DEF Written
  <1>4. ASSUME NEW j \in DOMAIN forwardAddrs'
        PROVE  LET f == forwardAddrs'[j] IN
               /\ f.at \in kept' /\ f.RemoteAddr = Address(Space[f.at].creds)
               /\ creds'[f.at] = SetAddress(Space[f.at].creds, [host |-> Local, port |-> ConnectPort(f)])
    <2>1. CASE j = n + 1
      BY <2>1, <1>1, <1>2, Appended, ForwardType
    <2>2. CASE j \in 1..n
      <3>1. j \in DOMAIN forwardAddrs /\ forwardAddrs'[j] = forwardAddrs[j]
        BY <2>2, Appended
      <3>2. forwardAddrs[j].at \in kept /\ forwardAddrs[j].at \in Positions
        BY <3>1, ForwardMembers DEF Written
      <3>3. creds'[forwardAddrs[j].at] = creds[forwardAddrs[j].at]
        BY <3>2, <1>1, <1>2
      <3> QED
        BY <3>1, <3>2, <3>3, <1>1 DEF Written
    <2> QED
      BY <2>1, <2>2, Appended
  <1>5. ASSUME NEW i \in kept' PROVE \E j \in DOMAIN forwardAddrs' : forwardAddrs'[j].at = i
    <2>1. CASE i = at
      <3>1. n + 1 \in DOMAIN forwardAddrs' /\ forwardAddrs'[n + 1].at = at
        BY Appended, ForwardType
      <3> QED
        BY <2>1, <3>1
    <2>2. CASE i \in kept
      <3>1. PICK j \in DOMAIN forwardAddrs : forwardAddrs[j].at = i
        BY <2>2 DEF Written
      <3>2. j \in DOMAIN forwardAddrs' /\ forwardAddrs'[j] = forwardAddrs[j]
        BY Appended
      <3> QED
        BY <3>1, <3>2
    <2> QED
      BY <2>1, <2>2, <1>1
  <1> QED
    BY <1>2, <1>3, <1>4, <1>5 DEF Written

\* Keep forwards to an address that was checked.
LEMMA KeepAddressed ==
  ASSUME TypeOK, Written, Passed, Checked, DeployedHaveAddress, Keep
  PROVE  DeployedHaveAddress'
  <1> SUFFICES ASSUME ~existing', NEW j \in DOMAIN forwardAddrs'
               PROVE  forwardAddrs'[j].RemoteAddr.host # NoHost /\ forwardAddrs'[j].RemoteAddr.port # 0
    BY DEF DeployedHaveAddress
  <1>1. ~existing /\ at \in bound
    BY DEF Keep, input, Visiting
  <1>2. CASE j = Len(forwardAddrs) + 1
    <2>1. forwardAddrs'[j].RemoteAddr = Address(Space[at].creds)
      BY <1>2, Appended, ForwardType
    <2>2. HasAddress(Space[at].creds)
      BY <1>1 DEF Checked
    <2> DEFINE b == Space[at].creds
    <2>3. Address(b).host = Host(b) /\ Address(b).port = Port(b)
      BY DEF Address
    <2> HIDE DEF b
    <2> QED
      BY <2>1, <2>2, <2>3 DEF HasAddress, b
  <1>3. CASE j \in 1..Len(forwardAddrs)
    BY <1>1, <1>3, Appended DEF DeployedHaveAddress
  <1>4. Len(forwardAddrs) \in Nat /\ j \in 1..(Len(forwardAddrs) + 1)
    BY Appended
  <1>5. j = Len(forwardAddrs) + 1 \/ j \in 1..Len(forwardAddrs)
    BY <1>4
  <1> QED
    BY <1>2, <1>3, <1>5

-----------------------------------------------------------------------------
(* The other steps hand out nothing.                                       *)

\* What a step that leaves the ports and the credentials alone keeps.
LEMMA Frame ==
  ASSUME IInv, UNCHANGED <<ports, creds, kept, existing>>
  PROVE  /\ Base <= nextPort' /\ PortsDistinct' /\ DeployedHaveAddress'
         /\ (pc' # "prepare" /\ at \in Nat /\ at' \in {at, at + 1} => Passed') /\ Written'
  <1>1. UNCHANGED <<nextPort, forwardAddrs, creds, kept, existing>>
    BY DEF ports
  <1>2. ASSUME pc' # "prepare", at \in Nat, at' \in {at, at + 1} PROVE Passed'
    <2>1. kept \subseteq 1..(at - 1) /\ kept' = kept
      BY <1>1 DEF IInv, Passed
    <2>2. 1..(at - 1) \subseteq 1..(at' - 1)
      <3>1. CASE at' = at
        BY <3>1
      <3>2. CASE at' = at + 1
        BY <1>2, <3>2
      <3> QED
        BY <1>2, <3>1, <3>2
    <2> QED
      BY <1>2, <2>1, <2>2 DEF Passed
  <1>3. Base <= nextPort' /\ PortsDistinct'
    BY <1>1 DEF IInv, PortsDistinct
  <1>4. DeployedHaveAddress'
    <2>1. forwardAddrs' = forwardAddrs /\ existing' = existing
      BY <1>1
    <2>2. SUFFICES ASSUME ~existing', NEW j \in DOMAIN forwardAddrs'
                   PROVE  /\ forwardAddrs'[j].RemoteAddr.host # NoHost
                          /\ forwardAddrs'[j].RemoteAddr.port # 0
      BY DEF DeployedHaveAddress
    <2>3. ~existing /\ j \in DOMAIN forwardAddrs
      BY <2>1, <2>2
    <2>4. forwardAddrs[j].RemoteAddr.host # NoHost /\ forwardAddrs[j].RemoteAddr.port # 0
      BY <2>3 DEF IInv, DeployedHaveAddress
    <2> QED
      BY <2>1, <2>4
  <1>5. Written'
    BY <1>1, Zenon DEF IInv, Written
  <1> QED
    BY <1>2, <1>3, <1>4, <1>5

\* What BindServices binds has an address: names are unique in a space.
LEMMA BindChecks ==
  ASSUME IInv, BindServices
  PROVE  Checked' /\ bound' \subseteq Positions
  <1>1. CASE pc' = "error"
    BY <1>1 DEF BindServices, Fail, IInv, Checked, TypeOK, input
  <1>2. CASE pc' # "error"
    <2>1. /\ \A n \in request : \E i \in Named(n) : HasAddress(creds[i])
          /\ bound' = UNION {Named(n) : n \in request}
      BY <1>2 DEF BindServices, Fail
    <2>2. bound' \subseteq Positions
      BY <2>1 DEF Named
    <2>3. kept = {}
      BY DEF IInv, Passed, BindServices
    <2>4. ASSUME NEW i \in bound' PROVE HasAddress(Space[i].creds)
      <3>1. PICK n \in request : i \in Named(n)
        BY <2>1
      <3>2. PICK k \in Named(n) : HasAddress(creds[k])
        BY <2>1
      <3>3. i = k
        BY <3>1, <3>2 DEF Named
      <3>4. creds[k] = Space[k].creds
        BY <3>2, <2>3 DEF IInv, Written, Named
      <3> QED
        BY <3>2, <3>3, <3>4
    <2> QED
      BY <2>2, <2>4 DEF Checked
  <1> QED
    BY <1>1, <1>2

-----------------------------------------------------------------------------
\* The command line leaves nothing done.
LEMMA InitIInv == Init => IInv
  <1> SUFFICES ASSUME Init PROVE IInv
    OBVIOUS
  <1>1. Len(Space) \in Nat /\ 1 \in 1..(Len(Space) + 1)
    OBVIOUS
  <1>2. /\ request \in Requests /\ program \in Programs /\ existing \in BOOLEAN
        /\ pc = "prepare" /\ at = 1 /\ kept = {} /\ satisfied = FALSE
        /\ unsatisfied = request /\ nextPort = Base /\ forwardAddrs = << >>
        /\ creds = [i \in Positions |-> Space[i].creds]
    BY DEF Init
  <1>3. bound \subseteq Positions /\ (~existing => bound = {})
    BY DEF Init
  <1>4. forwardAddrs \in Seq(ForwardAddr)
    BY <1>2
  <1>5. TypeOK
    BY <1>1, <1>2, <1>3, <1>4 DEF TypeOK
  <1> QED
    BY <1>2, <1>3, <1>5 DEF IInv, PortsDistinct, Passed, Written, Checked, DeployedHaveAddress

\* A step keeps it, one case per action.
LEMMA NextIInv == IInv /\ [Next]_vars => IInv'
  <1> SUFFICES ASSUME IInv, [Next]_vars PROVE IInv'
    OBVIOUS
  <1> USE DEF IInv
  <1>0. at \in Nat /\ Len(Space) \in Nat
    BY DEF TypeOK
  <1>1. CASE BindServices
    <2>1. pc' # "prepare" /\ UNCHANGED <<ports, creds, kept, existing, at>>
      BY <1>1 DEF BindServices, Fail, input
    <2>2. TypeOK'
      BY <1>1, <2>1, BindChecks DEF BindServices, Fail, TypeOK, input, ports, told
    <2> QED
      BY <1>0, <1>1, <2>1, <2>2, Frame, BindChecks
  <1>2. CASE PrepareForExistingApp
    <2>1. pc' # "prepare" /\ UNCHANGED <<ports, creds, kept, existing, at, bound>>
      BY <1>2 DEF PrepareForExistingApp, Fail, input
    <2>2. TypeOK' /\ Checked'
      BY <1>2, <2>1 DEF PrepareForExistingApp, Fail, TypeOK, Checked, input, ports, told
    <2> QED
      BY <1>0, <2>1, <2>2, Frame
  <1>3. CASE GetAppEnv
    <2>1. /\ pc' # "prepare" /\ UNCHANGED <<ports, creds, kept, existing, at>>
          /\ bound' \subseteq bound
      BY <1>3 DEF GetAppEnv, input
    <2>2. TypeOK' /\ Checked'
      BY <1>3, <2>1 DEF GetAppEnv, TypeOK, Checked, input, ports, told
    <2> QED
      BY <1>0, <2>1, <2>2, Frame
  <1>4. CASE Skip \/ UnknownType \/ Check
    <2>1. /\ pc' # "prepare" /\ UNCHANGED <<ports, creds, kept, existing, bound>>
          /\ at' \in {at, at + 1}
      BY <1>4 DEF Skip, UnknownType, Check, Visiting, Fail, input
    <2>2. at' \in 1..(Len(Space) + 1)
      <3>1. at \in 1..(Len(Space) + 1)
        BY DEF TypeOK
      <3>2. at' = at \/ (at' = at + 1 /\ at \in 1..Len(Space))
        BY <1>4 DEF Skip, UnknownType, Check, Visiting, Positions
      <3> QED
        BY <1>0, <3>1, <3>2
    <2>3. unsatisfied' \subseteq unsatisfied /\ UNCHANGED <<input, told>>
      BY <1>4 DEF Skip, UnknownType, Check, told
    <2>4. pc' \in {"visit", "ready", "error"}
      BY <1>4 DEF Skip, UnknownType, Check, Visiting, Fail
    <2>5. TypeOK' /\ Checked'
      BY <2>1, <2>2, <2>3, <2>4 DEF TypeOK, Checked, input, ports, told
    <2> QED
      BY <1>0, <2>1, <2>5, Frame
  <1>5. CASE Keep
    <2>1. UNCHANGED <<existing, bound, pc>> /\ at' = at + 1 /\ kept' = kept \union {at}
      BY <1>5 DEF Keep, input
    <2>2. pc # "prepare"
      BY <1>5 DEF Keep, Visiting
    <2>3. at \in Positions
      BY <1>5, Appended
    <2>4. Passed' /\ Checked'
      BY <1>0, <2>1, <2>2, <2>3 DEF Passed, Checked, Positions
    <2> QED
      BY <1>5, <2>4, KeepTypes, KeepPorts, KeepWrites, KeepAddressed
  <1>6. CASE Done \/ UNCHANGED vars
    <2>1. UNCHANGED vars
      BY <1>6 DEF Done
    <2> QED
      BY <2>1 DEF vars, input, ports, told, TypeOK, PortsDistinct, Passed, Written,
                  Checked, DeployedHaveAddress
  <1> QED
    BY <1>1, <1>2, <1>3, <1>4, <1>5, <1>6 DEF Next

\* IInv is inductive.
THEOREM Invariance == Spec => []IInv
  BY InitIInv, NextIInv, PTL DEF Spec

\* Every variable has its type, for any space.
THEOREM TypeCorrect == Spec => []TypeOK
  BY Invariance, PTL DEF IInv

\* No local port is handed out twice, however many services there are and
\* whichever of them need a TLS tunnel.
THEOREM PortsDistinctCorrect == Spec => []PortsDistinct
  BY Invariance, PTL DEF IInv

\* With an app of its own conduit forwards to known addresses only, although
\* bindings may go between the check and the loop.
THEOREM DeployedHaveAddressCorrect == Spec => []DeployedHaveAddress
  BY Invariance, PTL DEF IInv

-----------------------------------------------------------------------------
(* What SetAddress does to an address in a text.                           *)

\* A port that goes on from another one's digits is that port, or ten times as
\* large at least.
LEMMA BeginsBounds ==
  ASSUME NEW m \in Nat, NEW n \in Nat, NEW k \in 1..5, Begins(m, n, k)
  PROVE  n # 0 /\ ((m = n /\ k = 1) \/ (k # 1 /\ m >= 10 * n))
  <1>1. n # 0 /\ m \div Tens[k] = n
    BY DEF Begins
  <1>2. k = 1 \/ k = 2 \/ k = 3 \/ k = 4 \/ k = 5
    OBVIOUS
  <1>3. /\ Tens[1] = 1 /\ Tens[2] = 10 /\ Tens[3] = 100 /\ Tens[4] = 1000 /\ Tens[5] = 10000
    BY DEF Tens
  <1>4. CASE k = 1
    BY <1>1, <1>3, <1>4
  <1>5. CASE k = 2
    BY <1>1, <1>3, <1>5
  <1>6. CASE k = 3
    BY <1>1, <1>3, <1>6
  <1>7. CASE k = 4
    BY <1>1, <1>3, <1>7
  <1>8. CASE k = 5
    BY <1>1, <1>3, <1>8
  <1> QED
    BY <1>2, <1>4, <1>5, <1>6, <1>7, <1>8

\* The old address itself, if it has a port, becomes the new one: nothing stands
\* before it and nothing behind.
LEMMA OldBecomesNew ==
  ASSUME NEW old \in Addresses, old.port # 0,
         NEW new, new = [host |-> Local, port |-> new.port], new.port \in Nat
  PROVE  Rewritten(old, old, new) = new
  <1>1. old.host \in Seq(STRING) /\ old.port \in Nat
    BY DEF Addresses, Hosts
  <1>2. IsSuffix(old.host, old.host)
    <2>1. Reverse(old.host) \in Seq(STRING)
      BY <1>1 DEF Reverse
    <2> QED
      BY <2>1 DEF IsSuffix, IsPrefix
  <1>3. Begins(old.port, old.port, 1) /\ Tens[1] = 1
    BY <1>1 DEF Begins, Tens
  <1>4. \A k \in 1..5 : Begins(old.port, old.port, k) => k = 1
    BY <1>1, BeginsBounds
  <1>5. (CHOOSE k \in 1..5 : Begins(old.port, old.port, k)) = 1
    BY <1>3, <1>4
  <1>6. Catches(old, old)
    BY <1>2, <1>3 DEF Catches
  <1>7. SubSeq(old.host, 1, Len(old.host) - Len(old.host)) \o new.host = Local
    <2>1. Len(old.host) - Len(old.host) = 0
      BY <1>1
    <2>2. SubSeq(old.host, 1, 0) = << >>
      BY <1>1
    <2>3. << >> \o Local = Local
      BY DEF Local
    <2>4. new.host = Local
      OBVIOUS
    <2> QED
      BY <2>1, <2>2, <2>3, <2>4, Zenon
  <1>8. (new.port * Tens[1]) + (old.port % Tens[1]) = new.port
    BY <1>1, <1>3
  <1> QED
    BY <1>5, <1>6, <1>7, <1>8, Zenon DEF Rewritten

\* The credentials of every service kept lead into the tunnel: each string that
\* was the service's address is now its tunnel's.
THEOREM CredentialsReachTunnelCorrect == Spec => []CredentialsReachTunnel
  <1>1. IInv => CredentialsReachTunnel
    <2> SUFFICES ASSUME IInv, NEW j \in DOMAIN forwardAddrs
                 PROVE  LET f      == forwardAddrs[j]
                            c      == creds[f.at]
                            before == Space[f.at].creds
                        IN  /\ f.RemoteAddr = Address(before)
                            /\ Port(c) = ConnectPort(f)
                            /\ Host(before) # NoHost => Host(c) = Local
                            /\ \A n \in DOMAIN before.texts :
                                 before.texts[n] = Address(before) /\ Port(before) # 0
                                   => c.texts[n] = [host |-> Local, port |-> ConnectPort(f)]
      BY DEF CredentialsReachTunnel
    <2> DEFINE f == forwardAddrs[j]
               b == Space[f.at].creds
               c == creds[f.at]
               old == Address(b)
               new == [host |-> Local, port |-> ConnectPort(f)]
    <2>1. f.at \in Positions
      BY ForwardMembers DEF IInv
    <2>2. f.RemoteAddr = old /\ c = SetAddress(b, new)
      BY DEF IInv, Written
    <2>3. old \in Addresses /\ old.host = Host(b) /\ old.port = Port(b)
      BY <2>1, SpaceTypes DEF Address
    <2>t. ConnectPort(f) \in Nat
      BY ForwardMembers DEF IInv, ConnectPort
    <2> HIDE DEF f, b, c
    <2>4. Port(c) = ConnectPort(f)
      BY <2>2 DEF SetAddress, Addressed, Port
    <2>5. Host(b) # NoHost => Host(c) = Local
      <3>1. /\ c.host = IF b.host = Absent THEN Absent ELSE Local
            /\ c.hostname = IF b.hostname = Absent THEN Absent ELSE Local
        BY <2>2 DEF SetAddress, Addressed
      <3>2. Host(b) # NoHost => b.host # Absent \/ b.hostname # Absent
        BY DEF Host
      <3>3. Local # Absent
        BY DEF Local, Absent
      <3> QED
        BY <3>1, <3>2, <3>3, Zenon DEF Host
    <2>6. ASSUME NEW n \in DOMAIN b.texts, b.texts[n] = old, Port(b) # 0
          PROVE  c.texts[n] = new
      <3>1. c.texts = [k \in DOMAIN b.texts |-> Rewritten(b.texts[k], old, new)]
        BY <2>2 DEF SetAddress, Addressed
      <3>2. c.texts[n] = Rewritten(old, old, new)
        BY <2>6, <3>1
      <3>3. old.port # 0 /\ new = [host |-> Local, port |-> new.port] /\ new.port \in Nat
        BY <2>3, <2>6, <2>t
      <3> HIDE DEF old, new
      <3> QED
        BY <2>3, <3>2, <3>3, OldBecomesNew
    <2> QED
      BY <2>2, <2>4, <2>5, <2>6 DEF f, b, c
  <1> QED
    BY <1>1, Invariance, PTL

\* Nothing is changed that does not end with the service's host, and nothing
\* whose port neither is the service's nor goes on from its digits; and nothing
\* at all in a service that is not kept.
THEOREM OthersUntouchedCorrect == Spec => []OthersUntouched
  <1>1. IInv => OthersUntouched
    <2> SUFFICES ASSUME IInv, NEW i \in Positions
                 PROVE  LET before == Space[i].creds IN
                        /\ i \notin kept => creds[i] = before
                        /\ \A n \in DOMAIN before.texts :
                             LET t == before.texts[n] IN
                             \/ ~IsSuffix(Host(before), t.host)
                             \/ t.port # Port(before) /\ t.port < 10 * Port(before)
                             => creds[i].texts[n] = t
      BY DEF OthersUntouched
    <2> DEFINE b == Space[i].creds
    <2>1. i \notin kept => creds[i] = b
      BY DEF IInv, Written
    <2>2. ASSUME i \in kept, NEW n \in DOMAIN b.texts,
                 \/ ~IsSuffix(Host(b), b.texts[n].host)
                 \/ b.texts[n].port # Port(b) /\ b.texts[n].port < 10 * Port(b)
          PROVE  creds[i].texts[n] = b.texts[n]
      <3>1. PICK j \in DOMAIN forwardAddrs : forwardAddrs[j].at = i
        BY <2>2 DEF IInv, Written
      <3> DEFINE new == [host |-> Local, port |-> ConnectPort(forwardAddrs[j])]
      <3>2. creds[i] = SetAddress(b, new)
        BY <3>1 DEF IInv, Written
      <3>3. b.texts[n].port \in Nat /\ Port(b) \in Nat
        BY <2>2, SpaceTypes DEF Port, Addresses
      <3> HIDE DEF b, new
      <3>4. creds[i].texts[n] = Rewritten(b.texts[n], Address(b), new)
        <4>1. creds[i].texts = [k \in DOMAIN b.texts |-> Rewritten(b.texts[k], Address(b), new)]
          BY <3>2 DEF SetAddress, Addressed
        <4> QED
          BY <4>1, <2>2
      <3>5. Address(b).host = Host(b) /\ Address(b).port = Port(b)
        BY DEF Address
      <3>6. ~Catches(b.texts[n], Address(b))
        <4> SUFFICES ASSUME Catches(b.texts[n], Address(b)) PROVE FALSE
          OBVIOUS
        <4>1. PICK k \in 1..5 : Begins(b.texts[n].port, Port(b), k)
          BY <3>5 DEF Catches
        <4>2. b.texts[n].port = Port(b) \/ b.texts[n].port >= 10 * Port(b)
          BY <3>3, <4>1, BeginsBounds
        <4>3. IsSuffix(Host(b), b.texts[n].host)
          BY <3>5 DEF Catches
        <4> QED
          BY <2>2, <3>3, <4>2, <4>3
      <3> QED
        BY <3>4, <3>6 DEF Rewritten
    <2> QED
      BY <2>1, <2>2
  <1> QED
    BY <1>1, Invariance, PTL
=============================================================================
