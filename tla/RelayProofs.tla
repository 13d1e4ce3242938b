----------------------------- MODULE RelayProofs -----------------------------
(* Theorems about Relay, with and without a TLS tunnel, for any size of     *)
(* buffers.                                                                *)
EXTENDS Relay, TLAPS

USE RelayAssumption

\* What the steps of a copier need to know of its points.
LEMMA Indices ==
  ASSUME NEW d \in Dirs, NEW i \in 1..Hops
  PROVE  /\ i \in Nat /\ i - 1 \in Nat /\ Hops \in 1..Hops /\ 1 \in 1..Hops
         /\ <<d, i>> \in Points /\ <<d, i - 1>> \in Points /\ <<d, 0>> \in Points
         /\ <<d, Hops>> \in Points /\ <<d, i>> \in Copiers
         /\ i # Hops => i + 1 \in 1..Hops /\ <<d, i + 1>> \in Points
  BY DEF Points, Copiers

\* Every step keeps the types.
LEMMA TypeStep == TypeOK /\ [Next]_vars => TypeOK'
  <1> SUFFICES ASSUME TypeOK, [Next]_vars PROVE TypeOK'
    OBVIOUS
  <1>1. ASSUME NEW d \in Dirs, Send(d) PROVE TypeOK'
    <2>1. /\ <<d, 0>> \in Points /\ passed \in [Points -> 0..MaxSend]
          /\ passed[<<d, 0>>] < MaxSend /\ passed' = [passed EXCEPT ![<<d, 0>>] = @ + 1]
      BY <1>1 DEF Send, TypeOK, Points
    <2>2. passed' \in [Points -> 0..MaxSend]
      BY <2>1
    <2> QED
      BY <1>1, <2>2 DEF Send, TypeOK
  <1>2. ASSUME NEW d \in Dirs, Receive(d) PROVE TypeOK'
    <2>1. <<d, Hops>> \in Points
      BY DEF Points
    <2>2. got[d] < passed[<<d, Hops>>] /\ passed[<<d, Hops>>] \in 0..MaxSend
      BY <1>2, <2>1 DEF Receive, TypeOK
    <2>3. got' \in [Dirs -> 0..MaxSend]
      BY <1>2, <2>2 DEF Receive, TypeOK
    <2> QED
      BY <1>2, <2>3 DEF Receive, TypeOK
  <1>3. ASSUME NEW e \in Ends, NEW s \in {"half", "closed", "lost"}, Shut(e, s) PROVE TypeOK'
    BY <1>3 DEF Shut, TypeOK
  <1>4. ASSUME NEW d \in Dirs, NEW i \in 1..Hops, Copy(d, i) PROVE TypeOK'
    <2>1. /\ <<d, i>> \in Points /\ <<d, i - 1>> \in Points
          /\ passed \in [Points -> 0..MaxSend] /\ passed[<<d, i>>] < passed[<<d, i - 1>>]
          /\ passed' = [passed EXCEPT ![<<d, i>>] = @ + 1]
      BY <1>4, Indices DEF Copy, ToWrite, TypeOK
    <2>2. passed' \in [Points -> 0..MaxSend]
      BY <2>1
    <2> QED
      BY <1>4, <2>2 DEF Copy, TypeOK
  <1>5. ASSUME NEW d \in Dirs, NEW i \in 1..Hops, EndOfStream(d, i) PROVE TypeOK'
    BY <1>5 DEF EndOfStream, TypeOK
  <1>6. ASSUME NEW d \in Dirs, NEW i \in 1..Hops, Fails(d, i) PROVE TypeOK'
    BY <1>6 DEF Fails, TypeOK
  <1>7. CASE KeepaliveFails \/ Exit \/ Exited \/ UNCHANGED vars
    BY <1>7 DEF KeepaliveFails, Exit, Exited, TypeOK, vars
  <1>8. ASSUME Notify PROVE TypeOK'
    <2>1. /\ <<"down", 0>> \in Points /\ passed \in [Points -> 0..MaxSend]
          /\ passed[<<"down", 0>>] < MaxSend
          /\ passed' = [passed EXCEPT ![<<"down", 0>>] = @ + 1]
      BY <1>8 DEF Notify, TypeOK, Points, Dirs
    <2>2. passed' \in [Points -> 0..MaxSend]
      BY <2>1
    <2> QED
      BY <1>8, <2>2 DEF Notify, TypeOK
  <1> QED
    BY <1>1, <1>2, <1>3, <1>4, <1>5, <1>6, <1>7, <1>8 DEF Next, Copier

-----------------------------------------------------------------------------
(* Drained: an end that sends no more never sends again, and what comes    *)
(* before the notice is written before it is met.                          *)

\* What Drained says of one copier.
Finished(c, j) ==
  \/ j = 1 /\ end[Src(c)] # "open" /\ passed[<<c, j>>] = passed[<<c, 0>>]
  \/ ReadsTLS(c, j) /\ notice /\ passed[<<c, j>>] = DataSent(c)

\* Steps that move nothing, and take back neither notice nor an end's leaving.
LEMMA FinishedStays ==
  ASSUME NEW c \in Dirs, NEW j \in 1..Hops, Finished(c, j),
         UNCHANGED <<passed, notice>>, end[Src(c)] # "open" => end'[Src(c)] # "open"
  PROVE  Finished(c, j)'
  BY DEF Finished, DataSent, ReadsTLS, Src

\* The source of a direction in which a copier has finished sends no more.
LEMMA FinishedIsLast ==
  ASSUME TypeOK, NEW c \in Dirs, NEW j \in 1..Hops, Finished(c, j)
  PROVE  ~Send(c) /\ (c = "down" => ~Notify)
  BY DEF Finished, Send, Notify, ReadsTLS, Src

\* One unit more elsewhere, in passed.
LEMMA FinishedElsewhere ==
  ASSUME TypeOK, NEW c \in Dirs, NEW j \in 1..Hops, Finished(c, j),
         NEW p \in Points, p # <<c, j>>, p # <<c, 0>>,
         passed' = [passed EXCEPT ![p] = @ + 1], UNCHANGED end,
         c = "down" => notice' = notice
  PROVE  Finished(c, j)'
  <1>1. passed'[<<c, j>>] = passed[<<c, j>>] /\ passed'[<<c, 0>>] = passed[<<c, 0>>]
    BY Indices DEF TypeOK
  <1> QED
    BY <1>1 DEF Finished, DataSent, ReadsTLS, Src

\* Every step keeps Drained.
LEMMA DrainedStep == TypeOK /\ Drained /\ [Next]_vars => Drained'
  <1> SUFFICES ASSUME TypeOK, Drained, [Next]_vars, NEW c \in Dirs, NEW j \in 1..Hops,
                      copier'[<<c, j>>] = "ended"
               PROVE  Finished(c, j)'
    BY DEF Drained, Finished, Src, ReadsTLS, DataSent
  <1>a. copier[<<c, j>>] = "ended" => Finished(c, j)
    BY DEF Drained, Finished
  <1>b. <<c, j>> \in Copiers /\ Src(c) \in Ends
    BY Indices DEF Src, Ends
  <1>1. ASSUME NEW d \in Dirs, Send(d) PROVE Finished(c, j)'
    <2>1. Finished(c, j)
      BY <1>1, <1>a DEF Send
    <2>2. c # d /\ <<d, 0>> \in Points /\ <<d, 0>> # <<c, j>> /\ <<d, 0>> # <<c, 0>>
      BY <1>1, <2>1, FinishedIsLast DEF Points
    <2> QED
      BY <1>1, <2>1, <2>2, FinishedElsewhere DEF Send
  <1>2. ASSUME NEW d \in Dirs, Receive(d) PROVE Finished(c, j)'
    BY <1>2, <1>a, FinishedStays DEF Receive
  <1>3. ASSUME NEW e \in Ends, NEW s \in {"half", "closed", "lost"}, Shut(e, s) PROVE Finished(c, j)'
    <2>1. Finished(c, j) /\ UNCHANGED <<passed, notice>>
      BY <1>3, <1>a DEF Shut
    <2>2. end[Src(c)] # "open" => end'[Src(c)] # "open"
      BY <1>3, <1>b DEF Shut, TypeOK
    <2> QED
      BY <2>1, <2>2, FinishedStays
  <1>4. ASSUME NEW d \in Dirs, NEW i \in 1..Hops, Copy(d, i) PROVE Finished(c, j)'
    <2>1. Finished(c, j) /\ copier[<<c, j>>] = "ended" /\ copier[<<d, i>>] = "copy"
      BY <1>4, <1>a DEF Copy
    <2>2. <<d, i>> \in Points
      BY Indices
    <2>3. <<d, i>> # <<c, j>>
      BY <2>1
    <2>4. <<d, i>> # <<c, 0>>
      OBVIOUS
    <2> QED
      BY <1>4, <2>1, <2>2, <2>3, <2>4, FinishedElsewhere DEF Copy
  <1>5. ASSUME NEW d \in Dirs, NEW i \in 1..Hops, EndOfStream(d, i) PROVE Finished(c, j)'
    <2>1. CASE <<c, j>> = <<d, i>>
      <3>1. c = d /\ j = i /\ AtEnd(c, j)
        BY <1>5, <2>1 DEF EndOfStream
      <3>2. passed[<<c, j>>] \in Nat /\ passed[<<c, 0>>] \in Nat
        <4>1. <<c, j>> \in Points /\ <<c, 0>> \in Points
          BY Indices
        <4>2. passed[<<c, j>>] \in 0..MaxSend /\ passed[<<c, 0>>] \in 0..MaxSend
          BY <4>1 DEF TypeOK
        <4> QED
          BY <4>2
      <3>3. Finished(c, j)
        BY <3>1, <3>2 DEF AtEnd, NoticeNext, Finished, DataSent, ReadsTLS
      <3> QED
        BY <1>5, <3>3, FinishedStays DEF EndOfStream
    <2>2. CASE <<c, j>> # <<d, i>>
      <3>1. copier[<<c, j>>] = "ended"
        BY <1>5, <1>b, <2>2 DEF EndOfStream, TypeOK
      <3> QED
        BY <1>5, <1>a, <3>1, FinishedStays DEF EndOfStream
    <2> QED
      BY <2>1, <2>2
  <1>6. ASSUME NEW d \in Dirs, NEW i \in 1..Hops, Fails(d, i) PROVE Finished(c, j)'
    <2>1. copier[<<c, j>>] = "ended"
      BY <1>6, <1>b DEF Fails, TypeOK
    <2> QED
      BY <1>6, <1>a, <2>1, FinishedStays DEF Fails
  <1>7. CASE KeepaliveFails \/ Exit \/ Exited \/ UNCHANGED vars
    BY <1>7, <1>a, FinishedStays DEF KeepaliveFails, Exit, Exited, vars
  <1>8. ASSUME Notify PROVE Finished(c, j)'
    <2>1. Finished(c, j)
      BY <1>8, <1>a DEF Notify
    <2>2. c # "down"
      BY <1>8, <2>1, FinishedIsLast
    <2>3. <<"down", 0>> \in Points /\ <<"down", 0>> # <<c, j>> /\ <<"down", 0>> # <<c, 0>>
      BY <2>2 DEF Points, Dirs
    <2> QED
      BY <1>8, <2>1, <2>2, <2>3, FinishedElsewhere DEF Notify
  <1> QED
    BY <1>1, <1>2, <1>3, <1>4, <1>5, <1>6, <1>7, <1>8 DEF Next, Copier

-----------------------------------------------------------------------------
(* The theorems.                                                           *)

IInv == TypeOK /\ Drained

\* The invariant holds at first.
LEMMA Initially == Init => IInv
  <1> SUFFICES ASSUME Init PROVE IInv
    OBVIOUS
  <1>1. TypeOK
    <2>1. passed \in [Points -> 0..MaxSend] /\ got \in [Dirs -> 0..MaxSend]
      BY DEF Init
    <2>2. copier \in [Copiers -> {"copy", "ended", "failed"}]
      BY DEF Init
    <2>3. end \in [Ends -> {"open", "half", "closed", "lost"}]
      BY DEF Init
    <2> QED
      BY <2>1, <2>2, <2>3 DEF Init, TypeOK
  <1>2. Drained
    BY Indices DEF Init, Drained
  <1> QED
    BY <1>1, <1>2 DEF IInv

\* Every step keeps the types and what has ended.
THEOREM Invariance == Spec => []IInv
  <1>1. IInv /\ [Next]_vars => IInv'
    BY TypeStep, DrainedStep DEF IInv
  <1> QED
    BY <1>1, Initially, PTL DEF Spec

\* Types hold with and without a TLS tunnel.
THEOREM TypeCorrect == Spec => []TypeOK
  <1>1. IInv => TypeOK
    BY DEF IInv
  <1> QED
    BY <1>1, Invariance, PTL

\* A copier that returns without an error leaves nothing behind, be it at an
\* end's own leaving or at the close_notify that came through the SSH tunnel.
THEOREM DrainedCorrect == Spec => []Drained
  <1>1. IInv => Drained
    BY DEF IInv
  <1> QED
    BY <1>1, Invariance, PTL
=============================================================================
