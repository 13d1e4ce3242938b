------------------------- MODULE ServiceOutcomeProofs -------------------------
(***************************************************************************)
(* What the loop of initServiceBindings comes to, for any space, request   *)
(* and program: the ports it has counted out, the services it has kept and *)
(* forwarded, and what it has told the program.  Each property speaks of   *)
(* the end; behind it is a loop invariant, relative to the IInv of         *)
(* ServiceBindingsProofs.                                                  *)
(***************************************************************************)
EXTENDS ServiceBindingsProofs, FiniteSetTheorems

-----------------------------------------------------------------------------
(* The loop invariants.                                                    *)

\* The forwards with a TLS tunnel, among the first n; the ports counted out.
WithTLS(n) == {i \in 1..n : forwardAddrs[i].TLSTunnelPort # 0}
Counted    == nextPort = Base + Len(forwardAddrs) + Cardinality(WithTLS(Len(forwardAddrs)))

Knows(i)   == program \in KnownClients(Space[i].type)
NamesOf(S) == {Space[i].name : i \in S}
AllIn      == unsatisfied = {} /\ (program # "" => satisfied)

\* Is the loop ended by an instance of a type that conduit does not know?
Unknown == pc = "error" /\ at \in Wanted /\ at \notin Served

\* What every turn of the loop keeps: all that was wanted so far has been
\* served, in the order of the loop, and the rest is what is still unsatisfied.
Looped ==
  /\ pc \in {"prepare", "fetch"} => at = 1
  /\ kept = {i \in Served : i < at}
  /\ \A i \in Wanted : i < at => i \in Served
  /\ Unknown \/ unsatisfied = request \ NamesOf(kept)
  /\ satisfied <=> \E i \in kept : Knows(i)
  /\ \A k \in DOMAIN forwardAddrs : \A j \in 1..(k - 1) : forwardAddrs[j].at < forwardAddrs[k].at

\* How it ends.
Ended ==
  /\ pc = "ready" => at \notin Positions /\ AllIn
  /\ pc = "error" => at = 1 \/ Unknown \/ (at \notin Positions /\ ~AllIn)

\* What the program has been told is about the first forward it can use, with
\* the credentials as SetAddress has left them; if InitEnv failed, it is nothing.
ToldAbout(j) ==
  LET i == forwardAddrs[j].at IN
  /\ Knows(i)
  /\ \A k \in 1..(j - 1) : ~Knows(forwardAddrs[k].at)
  /\ \/ runEnv = InitEnv(Space[i].type, Space[i].name, creds[i])
     \/ InitEnvMayFail(Space[i].type) /\ runEnv = Nothing
Told ==
  /\ ~satisfied => runEnv = Nothing
  /\ satisfied => \E j \in DOMAIN forwardAddrs : ToldAbout(j)

LoopInv == Counted /\ PortsAsPlanned /\ Looped /\ Ended /\ Told

-----------------------------------------------------------------------------
(* The ports.                                                              *)

\* The forwards with a TLS tunnel can be counted.
LEMMA WithTLSFinite ==
  ASSUME NEW n \in Nat
  PROVE  IsFiniteSet(WithTLS(n)) /\ Cardinality(WithTLS(n)) \in Nat
  <1>1. n \in Int /\ 1 \in Int
    OBVIOUS
  <1>2. IsFiniteSet(1..n)
    BY <1>1, FS_Interval
  <1>3. WithTLS(n) \in SUBSET (1..n)
    BY DEF WithTLS
  <1>4. IsFiniteSet(WithTLS(n))
    BY <1>2, <1>3, FS_Subset
  <1> QED
    BY <1>4, FS_CardinalityType

\* Keep counts one port more, or two.
LEMMA KeepCounts ==
  ASSUME IInv, Counted, PortsAsPlanned, Keep
  PROVE  Counted' /\ PortsAsPlanned'
  <1>0. PICK n \in Nat : n = Len(forwardAddrs)
    BY Appended DEF IInv
  <1> DEFINE c == Cardinality(WithTLS(n))
  <1>1. /\ DOMAIN forwardAddrs = 1..n /\ DOMAIN forwardAddrs' = 1..(n + 1)
        /\ forwardAddrs' \in Seq(ForwardAddr)
        /\ \A j \in 1..n : forwardAddrs'[j] = forwardAddrs[j]
        /\ forwardAddrs'[n + 1] = Forward
    BY <1>0, Appended DEF IInv
  <1>2. Len(forwardAddrs') = n + 1
    BY <1>1
  <1>3. c \in Nat /\ IsFiniteSet(WithTLS(n)) /\ nextPort \in Nat /\ nextPort = Base + n + c
    BY <1>0, WithTLSFinite DEF Counted, IInv, TypeOK
  <1>4. \A m \in 0..n : WithTLS(m)' = WithTLS(m)
    BY <1>1 DEF WithTLS
  <1>5. /\ Forward.LocalPort = nextPort
        /\ Forward.TLSTunnelPort = IF NeedsTLSTunnel THEN nextPort + 1 ELSE 0
        /\ nextPort' = nextPort + (IF NeedsTLSTunnel THEN 2 ELSE 1)
    BY ForwardType, Appended DEF IInv, Keep, TakePorts
  <1>6. Counted'
    <2>1. n + 1 \notin WithTLS(n)
      BY <1>1 DEF WithTLS
    <2>2. ASSUME NEW i \in 1..(n + 1) PROVE i \in 1..n \/ i = n + 1
      BY <1>1
    <2>3. CASE NeedsTLSTunnel
      <3>1. forwardAddrs'[n + 1].TLSTunnelPort # 0 /\ nextPort' = nextPort + 2
        BY <1>1, <1>3, <1>5, <2>3
      <3>2. WithTLS(n + 1)' = WithTLS(n) \cup {n + 1}
        BY <1>1, <2>2, <3>1 DEF WithTLS
      <3>3. Cardinality(WithTLS(n) \cup {n + 1}) = c + 1
        BY <1>3, <2>1, FS_AddElement
      <3> HIDE DEF c
      <3>4. nextPort' = Base + (n + 1) + (c + 1)
        BY <1>3, <3>1, BaseAssumption
      <3> QED
        BY <1>2, <3>2, <3>3, <3>4 DEF Counted
    <2>4. CASE ~NeedsTLSTunnel
      <3>1. forwardAddrs'[n + 1].TLSTunnelPort = 0 /\ nextPort' = nextPort + 1
        BY <1>1, <1>5, <2>4
      <3>2. WithTLS(n + 1)' = WithTLS(n)
        BY <1>1, <2>2, <3>1 DEF WithTLS
      <3>3. nextPort' = Base + (n + 1) + c
        BY <1>3, <3>1, BaseAssumption
      <3> QED
        BY <1>2, <3>2, <3>3 DEF Counted
    <2> QED
      BY <2>3, <2>4
  <1>7. ASSUME NEW j \in DOMAIN forwardAddrs'
        PROVE  LET f     == forwardAddrs'[j]
                   first == Base + (j - 1) + Cardinality(WithTLS(j - 1)')
               IN  f.LocalPort = first /\ f.TLSTunnelPort \in {0, first + 1}
    <2>1. CASE j = n + 1
      <3>1. j - 1 = n /\ WithTLS(j - 1)' = WithTLS(n)
        BY <1>1, <1>4, <2>1
      <3>2. forwardAddrs'[j] = Forward /\ nextPort = Base + (j - 1) + c
        BY <1>1, <1>3, <2>1
      <3> QED
        BY <3>1, <3>2, <1>5
    <2>2. CASE j \in 1..n
      <3>1. j \in DOMAIN forwardAddrs /\ forwardAddrs'[j] = forwardAddrs[j]
        BY <1>1, <2>2
      <3>2. j - 1 \in 0..n
        BY <1>1, <2>2
      <3>3. WithTLS(j - 1)' = WithTLS(j - 1)
        BY <1>4, <3>2
      <3> QED
        BY <3>1, <3>3 DEF PortsAsPlanned, WithTLS
    <2> QED
      BY <1>1, <2>1, <2>2
  <1> QED
    BY <1>6, <1>7 DEF PortsAsPlanned, WithTLS

-----------------------------------------------------------------------------
(* The steps around the loop.                                              *)

\* What a step that counts nothing and tells nothing keeps.
LEMMA TellsNothing ==
  ASSUME LoopInv, UNCHANGED <<ports, creds, told, program>>
  PROVE  Counted' /\ PortsAsPlanned' /\ Told'
  <1>1. UNCHANGED <<nextPort, forwardAddrs, creds, runEnv, satisfied, program>>
    BY DEF ports, told
  <1>2. Counted' /\ PortsAsPlanned'
    BY <1>1 DEF LoopInv, Counted, WithTLS, PortsAsPlanned
  <1>3. \A j : ToldAbout(j)' <=> ToldAbout(j)
    BY <1>1 DEF ToldAbout, Knows
  <1>4. Told'
    BY <1>1, <1>3, Zenon DEF LoopInv, Told
  <1> QED
    BY <1>2, <1>4

\* Before the loop nothing is behind it.
LEMMA PrepareLoops ==
  ASSUME IInv, IInv', LoopInv, BindServices \/ PrepareForExistingApp \/ GetAppEnv
  PROVE  LoopInv'
  <1>1. /\ pc \in {"prepare", "fetch"} /\ pc' \in {"fetch", "visit", "error"}
        /\ UNCHANGED <<request, program, at, unsatisfied, ports, creds, kept, told>>
    BY DEF BindServices, PrepareForExistingApp, GetAppEnv, Fail, input
  <1>2. at = 1 /\ at' = 1
    BY <1>1 DEF LoopInv, Looped
  <1>3. \A i \in bound \union bound' : i \in Nat /\ ~(i < 1)
    BY DEF IInv, TypeOK, Positions
  <1>4. kept = {} /\ {i \in Served' : i < at'} = {}
    BY <1>2, <1>3 DEF LoopInv, Looped, Served, Wanted
  <1>5. unsatisfied = request \ NamesOf(kept)
    BY <1>1 DEF LoopInv, Looped, Unknown
  <1>6. UNCHANGED <<forwardAddrs, satisfied>>
    BY <1>1 DEF ports, told
  <1>7. Looped'
    <2>1. kept' = {i \in Served' : i < at'} /\ \A i \in Wanted' : i < at' => i \in Served'
      BY <1>1, <1>2, <1>3, <1>4 DEF Wanted
    <2>2. unsatisfied' = request' \ NamesOf(kept')
      BY <1>1, <1>5 DEF NamesOf
    <2>3. satisfied' <=> \E i \in kept' : Knows(i)'
      BY <1>1, <1>6 DEF LoopInv, Looped, Knows
    <2>4. \A k \in DOMAIN forwardAddrs' : \A j \in 1..(k - 1) :
            forwardAddrs'[j].at < forwardAddrs'[k].at
      BY <1>6 DEF LoopInv, Looped
    <2> QED
      BY <1>2, <2>1, <2>2, <2>3, <2>4 DEF Looped, NamesOf
  <1>8. Ended'
    BY <1>1, <1>2 DEF Ended
  <1> QED
    BY <1>1, <1>7, <1>8, TellsNothing DEF LoopInv

\* An instance the loop passes over is not wanted: a second one of a name that
\* has been served would be the same one, since names are unique.
LEMMA SkipLoops ==
  ASSUME IInv, LoopInv, Skip
  PROVE  LoopInv'
  <1>1. /\ pc = "visit" /\ at \in Positions /\ ~(at \in bound /\ Space[at].name \in unsatisfied)
        /\ at' = at + 1 /\ UNCHANGED <<request, program, pc, bound, unsatisfied, ports, creds, kept, told>>
    BY DEF Skip, Visiting, Here, input
  <1>2. unsatisfied = request \ NamesOf(kept) /\ kept \subseteq Positions /\ at \notin kept
    BY <1>1 DEF LoopInv, Looped, Unknown, IInv, TypeOK, Passed, Positions
  <1>3. at \notin Wanted
    <2> SUFFICES ASSUME at \in Wanted PROVE FALSE
      OBVIOUS
    <2>1. Space[at].name \in NamesOf(kept)
      BY <1>1, <1>2 DEF Wanted
    <2>2. PICK i \in kept : Space[i].name = Space[at].name
      BY <2>1 DEF NamesOf
    <2>3. i = at
      BY <1>1, <1>2, <2>2, SpaceAssumption
    <2> QED
      BY <1>2, <2>2, <2>3
  <1>4. UNCHANGED <<Wanted, Served, forwardAddrs, satisfied>>
    BY <1>1 DEF Wanted, Served, ports, told
  <1>5. \A i \in Wanted : i < at' <=> i < at
    <2>1. at \in Nat /\ \A i \in Wanted : i \in Nat /\ i # at
      BY <1>1, <1>3 DEF Wanted, IInv, TypeOK, Positions
    <2> QED
      BY <1>1, <2>1
  <1>6. Served \subseteq Wanted
    BY DEF Served
  <1>7. Looped'
    <2>1. kept' = {i \in Served' : i < at'} /\ \A i \in Wanted' : i < at' => i \in Served'
      BY <1>1, <1>4, <1>5, <1>6 DEF LoopInv, Looped
    <2>2. unsatisfied' = request' \ NamesOf(kept')
      BY <1>1, <1>2 DEF NamesOf
    <2>3. satisfied' <=> \E i \in kept' : Knows(i)'
      BY <1>1, <1>4 DEF LoopInv, Looped, Knows
    <2>4. \A k \in DOMAIN forwardAddrs' : \A j \in 1..(k - 1) :
            forwardAddrs'[j].at < forwardAddrs'[k].at
      BY <1>4 DEF LoopInv, Looped
    <2>5. pc' \notin {"prepare", "fetch"}
      BY <1>1
    <2> QED
      BY <2>1, <2>2, <2>3, <2>4, <2>5 DEF Looped, NamesOf
  <1>8. Ended'
    BY <1>1 DEF Ended
  <1> QED
    BY <1>1, <1>7, <1>8, TellsNothing DEF LoopInv

\* The loop ends at an instance of an unknown type, or behind the last one.
LEMMA EndLoops ==
  ASSUME IInv, LoopInv, UnknownType \/ Check
  PROVE  LoopInv'
  <1>1. /\ pc = "visit" /\ pc' \in {"ready", "error"}
        /\ UNCHANGED <<request, program, bound, at, ports, creds, kept, told>>
    BY DEF UnknownType, Check, Visiting, Fail, input
  <1>2. unsatisfied = request \ NamesOf(kept)
    BY <1>1 DEF LoopInv, Looped, Unknown
  <1>3. UNCHANGED <<Wanted, Served, forwardAddrs, satisfied>>
    BY <1>1 DEF Wanted, Served, ports, told
  <1>4. Looped'
    <2>1. kept' = {i \in Served' : i < at'} /\ \A i \in Wanted' : i < at' => i \in Served'
      BY <1>1, <1>3 DEF LoopInv, Looped
    <2>2. ASSUME UnknownType PROVE Unknown'
      BY <1>1, <1>2, <2>2 DEF UnknownType, Visiting, Here, Fail, Unknown, Wanted, Served
    <2>3. ASSUME Check PROVE unsatisfied' = request' \ NamesOf(kept')
      BY <1>1, <1>2, <2>3 DEF Check, NamesOf
    <2>4. Unknown' \/ unsatisfied' = request' \ NamesOf(kept')
      BY <2>2, <2>3
    <2>5. satisfied' <=> \E i \in kept' : Knows(i)'
      BY <1>1, <1>3 DEF LoopInv, Looped, Knows
    <2>6. \A k \in DOMAIN forwardAddrs' : \A j \in 1..(k - 1) :
            forwardAddrs'[j].at < forwardAddrs'[k].at
      BY <1>3 DEF LoopInv, Looped
    <2>7. pc' \notin {"prepare", "fetch"}
      BY <1>1
    <2> QED
      BY <2>1, <2>4, <2>5, <2>6, <2>7 DEF Looped, NamesOf
  <1>5. Ended'
    <2>1. CASE UnknownType
      <3>1. at \in bound /\ Space[at].name \in request /\ Space[at].type \notin Providers
        BY <1>2, <2>1 DEF UnknownType, Visiting, Here
      <3>2. pc' = "error" /\ Unknown'
        BY <1>1, <2>1, <3>1 DEF UnknownType, Fail, Unknown, Wanted, Served
      <3> QED
        BY <3>2 DEF Ended
    <2>2. CASE Check
      <3>1. at \notin Positions /\ UNCHANGED <<at, unsatisfied, program, satisfied>>
        BY <1>1, <1>3, <2>2 DEF Check
      <3>2. AllIn' <=> AllIn
        BY <3>1 DEF AllIn
      <3>3. pc' = IF AllIn THEN "ready" ELSE "error"
        BY <2>2 DEF Check, Fail, AllIn
      <3> QED
        BY <3>1, <3>2, <3>3 DEF Ended
    <2> QED
      BY <2>1, <2>2
  <1> QED
    BY <1>1, <1>4, <1>5, TellsNothing DEF LoopInv

-----------------------------------------------------------------------------
(* The turn of the loop that serves an instance.                           *)

\* What Keep does to what it has served.
LEMMA KeepLoops ==
  ASSUME IInv, LoopInv, Keep
  PROVE  Looped' /\ Ended'
  <1>1. /\ pc = "visit" /\ pc' = "visit" /\ at \in Positions /\ at \in bound
        /\ Space[at].name \in unsatisfied /\ Space[at].type \in Providers
        /\ at' = at + 1 /\ kept' = kept \union {at} /\ unsatisfied' = unsatisfied \ {Space[at].name}
        /\ UNCHANGED <<request, program, bound>>
    BY DEF Keep, Visiting, Here, input
  <1>2. unsatisfied = request \ NamesOf(kept)
    BY <1>1 DEF LoopInv, Looped, Unknown
  <1>3. at \in Served /\ UNCHANGED <<Wanted, Served>> /\ Served \subseteq Wanted
    BY <1>1, <1>2 DEF Wanted, Served
  <1>4. \A i \in Wanted : i < at' <=> i < at \/ i = at
    <2>1. at \in Nat /\ \A i \in Wanted : i \in Nat
      BY <1>1 DEF Wanted, IInv, TypeOK, Positions
    <2> QED
      BY <1>1, <2>1
  <1>5. kept' = {i \in Served' : i < at'} /\ \A i \in Wanted' : i < at' => i \in Served'
    BY <1>1, <1>3, <1>4 DEF LoopInv, Looped
  <1>6. unsatisfied' = request' \ NamesOf(kept')
    BY <1>1, <1>2 DEF NamesOf
  <1>7. satisfied' <=> \E i \in kept' : Knows(i)'
    <2>1. satisfied' <=> satisfied \/ Knows(at)
      BY DEF Keep, TellProgram, Knows, Here, told, IInv, TypeOK
    <2>2. \A i : Knows(i)' <=> Knows(i)
      BY <1>1 DEF Knows
    <2> QED
      BY <1>1, <2>1, <2>2 DEF LoopInv, Looped
  <1>8. ASSUME NEW k \in DOMAIN forwardAddrs', NEW j \in 1..(k - 1)
        PROVE  forwardAddrs'[j].at < forwardAddrs'[k].at
    <2>0. PICK n \in Nat : n = Len(forwardAddrs)
      BY Appended DEF IInv
    <2>1. /\ DOMAIN forwardAddrs = 1..n /\ DOMAIN forwardAddrs' = 1..(n + 1)
          /\ \A i \in 1..n : forwardAddrs'[i] = forwardAddrs[i]
          /\ forwardAddrs'[n + 1].at = at
      BY <2>0, Appended, ForwardType DEF IInv
    <2>2. j \in 1..n /\ (k \in 1..n \/ k = n + 1)
      BY <2>1
    <2>3. CASE k \in 1..n
      BY <2>1, <2>2, <2>3 DEF LoopInv, Looped
    <2>4. CASE k = n + 1
      <3>1. forwardAddrs[j].at \in kept
        BY <2>1, <2>2 DEF IInv, Written
      <3>2. forwardAddrs[j].at < at
        BY <3>1 DEF LoopInv, Looped
      <3> QED
        BY <2>1, <2>2, <2>4, <3>2
    <2> QED
      BY <2>2, <2>3, <2>4
  <1>9. Looped'
    BY <1>1, <1>5, <1>6, <1>7, <1>8 DEF Looped, NamesOf
  <1> QED
    BY <1>1, <1>9 DEF Ended

\* What Keep tells the program: nothing, if it knows already, since no service
\* that comes later touches the credentials it has been told of.
LEMMA KeepTells ==
  ASSUME IInv, LoopInv, Keep
  PROVE  Told'
  <1>0. PICK n \in Nat : n = Len(forwardAddrs)
    BY Appended DEF IInv
  <1>1. /\ DOMAIN forwardAddrs = 1..n /\ DOMAIN forwardAddrs' = 1..(n + 1)
        /\ \A i \in 1..n : forwardAddrs'[i] = forwardAddrs[i]
        /\ forwardAddrs'[n + 1].at = at
    BY <1>0, Appended, ForwardType DEF IInv
  <1>2. /\ at \in Positions /\ at \notin kept /\ DOMAIN creds = Positions
        /\ \A i \in kept : i \in Positions
    BY Appended, ForwardType DEF IInv, Written, TypeOK
  <1>3. \A i \in kept : creds'[i] = creds[i]
    BY <1>2 DEF Keep
  <1>4. program' = program
    BY DEF Keep, input
  <1>5. \A j \in 1..n : forwardAddrs[j].at \in kept
    BY <1>1 DEF IInv, Written
  <1>6. CASE satisfied
    <2>1. satisfied' = satisfied /\ runEnv' = runEnv
      BY <1>6 DEF Keep, TellProgram, told
    <2>2. PICK j \in 1..n : ToldAbout(j)
      BY <1>1, <1>6 DEF LoopInv, Told
    <2>3. j \in 1..(n + 1) /\ forwardAddrs'[j] = forwardAddrs[j]
      BY <1>1
    <2>4. \A k \in 1..(j - 1) : forwardAddrs'[k] = forwardAddrs[k]
      BY <1>1
    <2>5. ToldAbout(j)'
      BY <1>3, <1>4, <1>5, <2>1, <2>2, <2>3, <2>4 DEF ToldAbout, Knows
    <2> QED
      BY <1>1, <1>6, <2>1, <2>3, <2>5 DEF Told
  <1>7. CASE ~satisfied /\ Knows(at)
    <2>1. /\ satisfied'
          /\ \/ runEnv' = InitEnv(Space[at].type, Space[at].name, creds'[at])
             \/ InitEnvMayFail(Space[at].type) /\ runEnv' = Nothing
      <3>1. runEnv = Nothing
        BY <1>7 DEF LoopInv, Told
      <3> QED
        BY <1>7, <3>1 DEF Keep, TellProgram, Knows, Here
    <2>2. \A i \in kept : ~Knows(i)
      BY <1>7 DEF LoopInv, Looped
    <2>3. \A k \in 1..((n + 1) - 1) : ~Knows(forwardAddrs[k].at)'
      BY <1>1, <1>4, <1>5, <2>2 DEF Knows
    <2>4. ToldAbout(n + 1)'
      BY <1>1, <1>4, <1>7, <2>1, <2>3 DEF ToldAbout, Knows
    <2>5. n + 1 \in DOMAIN forwardAddrs'
      BY <1>1
    <2> QED
      BY <2>1, <2>4, <2>5 DEF Told
  <1>8. CASE ~satisfied /\ ~Knows(at)
    <2>1. satisfied' = satisfied /\ runEnv' = runEnv
      BY <1>8 DEF Keep, TellProgram, told, Knows, Here
    <2> QED
      BY <1>8, <2>1 DEF LoopInv, Told
  <1> QED
    BY <1>6, <1>7, <1>8

-----------------------------------------------------------------------------
(* The loop invariant, and what it says of the end.                        *)

\* Nothing is counted, kept or told at the start.
LEMMA InitLoopInv == Init => LoopInv
  <1> SUFFICES ASSUME Init PROVE LoopInv
    OBVIOUS
  <1>1. /\ pc = "prepare" /\ at = 1 /\ kept = {} /\ satisfied = FALSE /\ runEnv = Nothing
        /\ unsatisfied = request /\ nextPort = Base /\ forwardAddrs = << >>
        /\ bound \subseteq Positions
    BY DEF Init
  <1>2. Counted
    <2>1. WithTLS(Len(forwardAddrs)) = {} /\ Len(forwardAddrs) = 0
      BY <1>1 DEF WithTLS
    <2> QED
      BY <1>1, <2>1, FS_EmptySet, BaseAssumption DEF Counted
  <1>3. {i \in Served : i < at} = {} /\ \A i \in Wanted : ~(i < at)
    <2>1. \A i \in bound : ~(i < 1)
      BY <1>1 DEF Positions
    <2> QED
      BY <1>1, <2>1 DEF Served, Wanted
  <1>4. Looped
    BY <1>1, <1>3 DEF Looped, NamesOf
  <1> QED
    BY <1>1, <1>2, <1>4 DEF LoopInv, PortsAsPlanned, Ended, Told

\* A step of the loop, or the last one, keeps all of it; a stutter too.
LEMMA NextLoopInv == IInv /\ IInv' /\ LoopInv /\ [Next]_vars => LoopInv'
  <1> SUFFICES ASSUME IInv, IInv', LoopInv, [Next]_vars PROVE LoopInv'
    OBVIOUS
  <1>1. CASE BindServices \/ PrepareForExistingApp \/ GetAppEnv
    BY <1>1, PrepareLoops
  <1>2. CASE Skip
    BY <1>2, SkipLoops
  <1>3. CASE UnknownType \/ Check
    BY <1>3, EndLoops
  <1>4. CASE Keep
    BY <1>4, KeepCounts, KeepLoops, KeepTells DEF LoopInv
  <1>5. CASE Done \/ UNCHANGED vars
    <2>1. UNCHANGED <<request, program, pc, bound, at, unsatisfied, ports, creds, kept, told>>
      BY <1>5 DEF Done, vars, input
    <2>2. UNCHANGED <<forwardAddrs, satisfied>>
      BY <2>1 DEF ports, told
    <2>3. UNCHANGED <<Wanted, Served, Unknown, AllIn, NamesOf(kept)>>
      BY <2>1, <2>2 DEF Wanted, Served, Unknown, AllIn, NamesOf
    <2>4. Looped' /\ Ended'
      BY <2>1, <2>2, <2>3 DEF LoopInv, Looped, Ended, Knows
    <2> QED
      BY <2>1, <2>4, TellsNothing DEF LoopInv
  <1> QED
    BY <1>1, <1>2, <1>3, <1>4, <1>5 DEF Next

\* The loop invariant holds from the start, at every turn, and at the end.
THEOREM LoopInvariance == Spec => []LoopInv
  BY InitLoopInv, NextLoopInv, Invariance, PTL DEF Spec

\* The ports handed out are those that ConduitApp computes: the number of the
\* forward, and one more for each TLS tunnel before it (app.go:335-355).
THEOREM PortsAsPlannedCorrect == Spec => []PortsAsPlanned
  BY LoopInvariance, PTL DEF LoopInv

\* Behind the last instance everything wanted has been seen.
LEMMA AllServed ==
  ASSUME IInv, LoopInv, at \notin Positions
  PROVE  kept = Served /\ Wanted = Served
  <1>1. at \in 1..(Len(Space) + 1) /\ Len(Space) \in Nat
    BY SpaceAssumption DEF IInv, TypeOK
  <1>2. \A i \in Wanted : i < at
    BY <1>1 DEF Wanted, IInv, TypeOK, Positions
  <1> QED
    BY <1>2 DEF LoopInv, Looped, Served

\* Each instance kept has one forward, since the forwards go up the space.
LEMMA OneForward ==
  ASSUME IInv, LoopInv, NEW i \in kept
  PROVE  Cardinality({k \in DOMAIN forwardAddrs : forwardAddrs[k].at = i}) = 1
  <1>1. PICK j \in DOMAIN forwardAddrs : forwardAddrs[j].at = i
    BY DEF IInv, Written
  <1>2. DOMAIN forwardAddrs = 1..Len(forwardAddrs) /\ Len(forwardAddrs) \in Nat
    <2>1. forwardAddrs \in Seq(ForwardAddr)
      BY DEF IInv, TypeOK
    <2> QED
      BY <2>1
  <1>3. i \in Nat
    BY DEF IInv, TypeOK, Positions
  <1>4. ASSUME NEW k \in DOMAIN forwardAddrs, forwardAddrs[k].at = i PROVE k = j
    <2>1. ~(k < j) /\ ~(j < k)
      <3>1. k < j => k \in 1..(j - 1)
        BY <1>2
      <3>2. j < k => j \in 1..(k - 1)
        BY <1>2
      <3> QED
        BY <1>1, <1>3, <1>4, <3>1, <3>2 DEF LoopInv, Looped
    <2> QED
      BY <1>2, <2>1
  <1>5. {k \in DOMAIN forwardAddrs : forwardAddrs[k].at = i} = {j}
    BY <1>1, <1>4
  <1> QED
    BY <1>5, FS_Singleton

\* conduit goes on exactly if everything it was asked for is in the environment
\* and of a type it knows, and something is there for the program; it keeps
\* these services and no other, each forwarded once (app.go:292-406).
THEOREM OutcomeCorrectCorrect == Spec => []OutcomeCorrect
  <1>1. IInv /\ LoopInv => OutcomeCorrect
    <2> SUFFICES ASSUME IInv, LoopInv, pc \in {"ready", "error"}, at > 1
                 PROVE  /\ pc = "ready" <=>
                             /\ request = NamesOf(Served)
                             /\ program # "" => \E i \in Served : Knows(i)
                        /\ pc = "ready" =>
                             /\ kept = Served
                             /\ \A i \in Served :
                                  Cardinality({k \in DOMAIN forwardAddrs : forwardAddrs[k].at = i}) = 1
      BY DEF OutcomeCorrect, LoopOver, Served, Wanted, NamesOf, Knows
    <2>1. NamesOf(Served) \subseteq request
      BY DEF NamesOf, Served, Wanted
    <2>2. at \notin Positions \/ Unknown
      BY DEF LoopInv, Ended, IInv, TypeOK
    <2>3. CASE Unknown
      <3>1. at \in Positions /\ Space[at].name \in request /\ at \notin Served
        BY <2>3 DEF Unknown, Wanted, IInv, TypeOK
      <3>2. \A i \in Served : Space[i].name # Space[at].name
        BY <3>1, SpaceAssumption DEF Served, Wanted, IInv, TypeOK
      <3>3. request # NamesOf(Served)
        BY <3>1, <3>2 DEF NamesOf
      <3> QED
        BY <2>3, <3>3 DEF Unknown
    <2>4. CASE at \notin Positions
      <3>1. kept = Served /\ Wanted = Served
        BY <2>4, AllServed
      <3>2. ~Unknown /\ unsatisfied = request \ NamesOf(Served)
        BY <3>1 DEF Unknown, LoopInv, Looped
      <3>3. unsatisfied = {} <=> request = NamesOf(Served)
        BY <2>1, <3>2
      <3>4. satisfied <=> \E i \in Served : Knows(i)
        BY <3>1 DEF LoopInv, Looped
      <3>5. pc = "ready" <=> AllIn
        BY <3>2 DEF LoopInv, Ended
      <3>6. \A i \in Served : Cardinality({k \in DOMAIN forwardAddrs : forwardAddrs[k].at = i}) = 1
        BY <3>1, OneForward
      <3> QED
        BY <3>1, <3>3, <3>4, <3>5, <3>6 DEF AllIn
    <2> QED
      BY <2>2, <2>3, <2>4
  <1> QED
    BY <1>1, Invariance, LoopInvariance, PTL

-----------------------------------------------------------------------------
(* What the program is told.                                               *)

\* The first forward that the program can use is for the first such service.
LEMMA FirstForward ==
  ASSUME IInv, LoopInv, NEW j \in DOMAIN forwardAddrs, ToldAbout(j)
  PROVE  First(ForProgram) = forwardAddrs[j].at
  <1> DEFINE i == forwardAddrs[j].at
  <1>1. DOMAIN forwardAddrs = 1..Len(forwardAddrs) /\ Len(forwardAddrs) \in Nat
    <2>1. forwardAddrs \in Seq(ForwardAddr)
      BY DEF IInv, TypeOK
    <2> QED
      BY <2>1
  <1>2. i \in ForProgram
    BY DEF ToldAbout, Knows, ForProgram, IInv, Written
  <1>3. ForProgram \subseteq Nat
    <2>1. Positions \subseteq Nat /\ kept \subseteq Positions
      BY DEF IInv, TypeOK, Positions
    <2> QED
      BY <2>1 DEF ForProgram
  <1>4. ASSUME NEW h \in ForProgram PROVE i <= h
    <2>1. h \in kept /\ Knows(h)
      BY <1>4 DEF ForProgram, Knows
    <2>2. PICK k \in DOMAIN forwardAddrs : forwardAddrs[k].at = h
      BY <2>1 DEF IInv, Written
    <2>3. k \notin 1..(j - 1)
      BY <2>1, <2>2 DEF ToldAbout
    <2>4. k = j \/ j \in 1..(k - 1)
      BY <1>1, <2>3
    <2>5. h = i \/ i < h
      BY <2>2, <2>4 DEF LoopInv, Looped
    <2>6. i \in Nat /\ h \in Nat
      BY <1>2, <1>3, <1>4
    <2> HIDE DEF i
    <2> QED
      BY <2>5, <2>6
  <1>5. ASSUME NEW h \in ForProgram, \A g \in ForProgram : h <= g PROVE h = i
    <2>1. i \in Nat /\ h \in Nat /\ h <= i /\ i <= h
      BY <1>2, <1>3, <1>4, <1>5
    <2> HIDE DEF i
    <2> QED
      BY <2>1
  <1> HIDE DEF i
  <1> QED
    BY <1>2, <1>4, <1>5 DEF First, i

\* A provider leaves nothing out, between the environment and the arguments.
LEMMA ProviderTellsAll ==
  ASSUME NEW type \in Providers, NEW n, NEW c
  PROVE  runEnv = InitEnv(type, n, c)
           => ProgramSees(AdditionalProgramArgs(type, n, c))
                = [host |-> Host(c), port |-> Port(c), login |-> n]
  <1>0. SUFFICES ASSUME runEnv = InitEnv(type, n, c),
                        NEW args, args = AdditionalProgramArgs(type, n, c)
                 PROVE  ProgramSees(args) = [host |-> Host(c), port |-> Port(c), login |-> n]
    OBVIOUS
  <1>1. CASE type = "influxdb"
    <2>1. /\ runEnv = [host |-> NoHost, port |-> 0, login |-> n]
          /\ args = [host |-> Host(c), port |-> Port(c), login |-> ""]
      BY <1>0, <1>1 DEF InitEnv, AdditionalProgramArgs, Nothing
    <2> QED
      BY <2>1 DEF ProgramSees
  <1>2. CASE type \in {"mysql", "postgres"}
    <2>1. /\ runEnv = [host |-> Host(c), port |-> Port(c), login |-> n]
          /\ args = [host |-> NoHost, port |-> 0, login |-> ""]
      BY <1>0, <1>2 DEF InitEnv, AdditionalProgramArgs, Nothing
    <2> QED
      BY <2>1 DEF ProgramSees
  <1>3. CASE type = "redis"
    <2>1. /\ runEnv = [host |-> NoHost, port |-> 0, login |-> ""]
          /\ args = [host |-> Host(c), port |-> Port(c), login |-> n]
      BY <1>0, <1>3 DEF InitEnv, AdditionalProgramArgs, Nothing
    <2> QED
      BY <2>1 DEF ProgramSees
  <1> QED
    BY <1>1, <1>2, <1>3 DEF Providers

\* When mysql's InitEnv has failed nothing is left that could tell it anything.
LEMMA FailedTellsNothing ==
  ASSUME NEW type \in Providers, NEW n, NEW c, InitEnvMayFail(type), runEnv = Nothing
  PROVE  ProgramSees(AdditionalProgramArgs(type, n, c)) = Nothing
  <1>1. SUFFICES ASSUME NEW args, args = AdditionalProgramArgs(type, n, c)
                 PROVE  ProgramSees(args) = Nothing
    OBVIOUS
  <1>2. type = "mysql"
    BY DEF InitEnvMayFail
  <1>3. args = [host |-> NoHost, port |-> 0, login |-> ""]
    BY <1>1, <1>2 DEF AdditionalProgramArgs, Nothing
  <1> QED
    BY <1>3 DEF ProgramSees, Nothing

\* Environment, files and arguments together tell the program of one service,
\* the first of its type, at its own tunnel; or of none, when mysql's InitEnv has
\* failed and its error was dropped (app.go:359-367, 546-556).
THEOREM ProgramReachesOneServiceCorrect == Spec => []ProgramReachesOneService
  <1>1. IInv /\ LoopInv => ProgramReachesOneService
    <2> SUFFICES ASSUME IInv, LoopInv, pc = "ready", program # ""
                 PROVE  \E j \in DOMAIN forwardAddrs :
                          LET f == forwardAddrs[j] IN
                          /\ Knows(f.at)
                          /\ \A i \in 1..(j - 1) : ~Knows(forwardAddrs[i].at)
                          /\ \/ ProgramSees(ProgramSpecificArgs) =
                                  [host |-> Host(creds[f.at]), port |-> ConnectPort(f),
                                   login |-> Space[f.at].name]
                             \/ /\ InitEnvMayFail(Space[f.at].type)
                                /\ ProgramSees(ProgramSpecificArgs) = Nothing
      BY DEF ProgramReachesOneService, Knows
    <2>1. PICK j \in DOMAIN forwardAddrs : ToldAbout(j)
      BY DEF LoopInv, Ended, AllIn, Told
    <2> DEFINE f == forwardAddrs[j]
               c == creds[f.at]
    <2>2. c = SetAddress(Space[f.at].creds, [host |-> Local, port |-> ConnectPort(f)])
      BY DEF IInv, Written
    <2>p. Port(c) = ConnectPort(f)
      <3> HIDE DEF f, c
      <3> QED
        BY <2>2 DEF SetAddress, Addressed, Port
    <2>3. ProgramSpecificArgs = AdditionalProgramArgs(Space[f.at].type, Space[f.at].name, c)
      BY <2>1, FirstForward DEF ProgramSpecificArgs
    <2>4. Space[f.at].type \in Providers
      BY DEF IInv, Written, LoopInv, Looped, Served
    <2>5. \/ ProgramSees(ProgramSpecificArgs) =
               [host |-> Host(c), port |-> ConnectPort(f), login |-> Space[f.at].name]
          \/ InitEnvMayFail(Space[f.at].type) /\ ProgramSees(ProgramSpecificArgs) = Nothing
      <3>1. CASE runEnv = InitEnv(Space[f.at].type, Space[f.at].name, c)
        <4>1. ProgramSees(AdditionalProgramArgs(Space[f.at].type, Space[f.at].name, c))
                = [host |-> Host(c), port |-> Port(c), login |-> Space[f.at].name]
          BY <2>4, <3>1, ProviderTellsAll, Zenon
        <4> QED
          BY <2>p, <2>3, <4>1, Zenon
      <3>2. CASE InitEnvMayFail(Space[f.at].type) /\ runEnv = Nothing
        BY <2>3, <2>4, <3>2, FailedTellsNothing
      <3> QED
        BY <2>1, <3>1, <3>2 DEF ToldAbout
    <2> QED
      BY <2>1, <2>5 DEF ToldAbout
  <1> QED
    BY <1>1, Invariance, LoopInvariance, PTL
=============================================================================
