-------------------------------- MODULE Relay --------------------------------
(***************************************************************************)
(* The data of one connection: copyConn of ssh/tunnel.go, with the         *)
(* keepalives of the SSH connection it uses, and forward of tls/tunnel.go. *)
(*                                                                         *)
(* Between the local client and the service stand Hops relays: the SSH     *)
(* tunnel, and before it the TLS tunnel where there is one.  A relay has   *)
(* two goroutines, one for each direction, which copy until the stream     *)
(* ends or a write fails.  None of them closes anything when it returns,   *)
(* so nobody is told of it until the process exits.  One thing does get    *)
(* through: the close_notify of a service that ends its TLS session is     *)
(* data for the SSH tunnel, and the end of the stream for the TLS tunnel.  *)
(***************************************************************************)
EXTENDS Naturals

CONSTANTS
  Hops,     \* 1, or 2 behind a TLS tunnel
  Window,   \* what the buffers of one connection hold
  MaxSend   \* how much an end sends at most: a bound of the model

ASSUME RelayAssumption == Hops \in {1, 2} /\ Window \in Nat \ {0} /\ MaxSend \in Nat

Dirs   == {"up", "down"}
Ends   == {"client", "service"}
Src(d) == IF d = "up" THEN "client" ELSE "service"
Dst(d) == IF d = "up" THEN "service" ELSE "client"

\* In each direction the copiers are numbered along the stream.
Copiers == Dirs \X (1..Hops)
Points  == Dirs \X (0..Hops)

VARIABLES
  passed,     \* passed[<<d, 0>>]: sent by the source of direction d;
              \* passed[<<d, i>>]: written by its copier i
  notice,     \* is the last unit the service has sent its close_notify?
  got,        \* got[d]: read by the end the direction leads to
  copier,     \* "copy", "ended" at the end of the stream, or "failed"
  end,        \* "open", "half" (sends no more), "closed", or "lost": the SSH
              \* connection has broken, and with it the way to the service
  keepalive,  \* is the goroutine of startKeepalive running?
  running     \* has the process not exited?

vars == <<passed, notice, got, copier, end, keepalive, running>>

Init ==
  /\ passed = [p \in Points |-> 0] /\ notice = FALSE /\ got = [d \in Dirs |-> 0]
  /\ copier = [k \in Copiers |-> "copy"]
  /\ end = [e \in Ends |-> "open"]
  /\ keepalive = TRUE /\ running = TRUE

Gone(e) == end[e] \in {"closed", "lost"}

\* The TLS tunnel has the copier next to the client; in direction "down" that
\* one reads from the TLS session with the service.
ReadsTLS(d, i)   == d = "down" /\ i = 2
NoticeNext(d, i) == ReadsTLS(d, i) /\ notice /\ passed[<<d, i>>] + 1 = passed[<<d, 0>>]
DataSent(d)      == passed[<<d, 0>>] - (IF d = "down" /\ notice THEN 1 ELSE 0)

-----------------------------------------------------------------------------
(* The two ends, and the network between conduit and the service.          *)

Room(d, i) == passed[<<d, i>>] - (IF i = Hops THEN got[d] ELSE passed[<<d, i + 1>>]) < Window

Send(d) ==
  /\ end[Src(d)] = "open" /\ (d = "down" => ~notice) /\ running
  /\ passed[<<d, 0>>] < MaxSend /\ Room(d, 0)
  /\ passed' = [passed EXCEPT ![<<d, 0>>] = @ + 1]
  /\ UNCHANGED <<notice, got, copier, end, keepalive, running>>

\* The service ends its TLS session, and sends no more.
Notify ==
  /\ Hops = 2 /\ end["service"] = "open" /\ ~notice /\ running
  /\ passed[<<"down", 0>>] < MaxSend /\ Room("down", 0)
  /\ passed' = [passed EXCEPT ![<<"down", 0>>] = @ + 1]
  /\ notice' = TRUE
  /\ UNCHANGED <<got, copier, end, keepalive, running>>

Receive(d) ==
  /\ ~Gone(Dst(d)) /\ running /\ got[d] < passed[<<d, Hops>>]
  /\ got' = [got EXCEPT ![d] = @ + 1]
  /\ UNCHANGED <<passed, notice, copier, end, keepalive, running>>

Shut(e, s) ==
  /\ running
  /\ \/ s = "half" /\ end[e] = "open"
     \/ s = "closed" /\ ~Gone(e)
     \/ s = "lost" /\ e = "service" /\ end[e] # "lost"
  /\ end' = [end EXCEPT ![e] = s]
  /\ UNCHANGED <<passed, notice, got, copier, keepalive, running>>

-----------------------------------------------------------------------------
(* The goroutines.                                                         *)

ToWrite(d, i) == passed[<<d, i>>] < passed[<<d, i - 1>>] /\ ~NoticeNext(d, i)

\* Mutant: the whole buffer is written, not what was read into it.
Copy_WholeBuffer(d, i) ==
  /\ copier[<<d, i>>] = "copy" /\ running /\ Room(d, i)
  /\ passed' = [passed EXCEPT ![<<d, i>>] = @ + 1]
  /\ UNCHANGED <<notice, got, copier, end, keepalive, running>>

\* io.Copy: one read and one write.
Copy(d, i) ==
  /\ copier[<<d, i>>] = "copy" /\ running
  /\ ToWrite(d, i) /\ Room(d, i)
  /\ passed' = [passed EXCEPT ![<<d, i>>] = @ + 1]
  /\ UNCHANGED <<notice, got, copier, end, keepalive, running>>

\* Where the stream a copier reads from ends: when its end sends no more, and
\* all of it has been passed on; for the TLS tunnel, when it comes to the notice.
\* Otherwise nobody closes the connection between the two relays.
AtEnd(d, i) ==
  \/ i = 1 /\ end[Src(d)] # "open" /\ passed[<<d, 1>>] = passed[<<d, 0>>]
  \/ NoticeNext(d, i) /\ passed[<<d, i>>] < passed[<<d, i - 1>>]

\* Mutant: the copier that ends closes both connections of its relay, which
\* ends the one of the other direction with what it has not copied yet.
EndOfStream_ClosesBoth(d, i) ==
  /\ copier[<<d, i>>] = "copy" /\ running /\ AtEnd(d, i)
  /\ copier' = [k \in Copiers |->
                  IF k = <<d, i>> THEN "ended"
                  ELSE IF k = <<IF d = "up" THEN "down" ELSE "up", (Hops + 1) - i>> THEN "failed"
                  ELSE copier[k]]
  /\ UNCHANGED <<passed, notice, got, end, keepalive, running>>

\* Mutant: io.Copy is called again and again.
EndOfStream_Loops(d, i) ==
  /\ copier[<<d, i>>] = "copy" /\ running /\ AtEnd(d, i)
  /\ UNCHANGED vars

\* Mutant: the copier ends with what the source has sent still unread.
EndOfStream_Early(d, i) ==
  /\ copier[<<d, i>>] = "copy" /\ running
  /\ AtEnd(d, i) \/ (i = 1 /\ end[Src(d)] # "open")
  /\ copier' = [copier EXCEPT ![<<d, i>>] = "ended"]
  /\ UNCHANGED <<passed, notice, got, end, keepalive, running>>

\* io.Copy returns nil; the other direction goes on.
EndOfStream(d, i) ==
  /\ copier[<<d, i>>] = "copy" /\ running /\ AtEnd(d, i)
  /\ copier' = [copier EXCEPT ![<<d, i>>] = "ended"]
  /\ UNCHANGED <<passed, notice, got, end, keepalive, running>>

\* Reading from a broken connection, or writing to one that is closed or
\* broken, is an error, which is logged or sent to errorChan.
Fails(d, i) ==
  /\ copier[<<d, i>>] = "copy" /\ running
  /\ \/ i = 1 /\ end[Src(d)] = "lost"
     \/ i = Hops /\ Gone(Dst(d)) /\ ToWrite(d, i)
  /\ copier' = [copier EXCEPT ![<<d, i>>] = "failed"]
  /\ UNCHANGED <<passed, notice, got, end, keepalive, running>>

\* The request that no longer gets through ends the goroutine, and nothing else.
KeepaliveFails ==
  /\ keepalive /\ running /\ end["service"] = "lost"
  /\ keepalive' = FALSE
  /\ UNCHANGED <<passed, notice, got, copier, end, running>>

Copier(d, i) == Copy(d, i) \/ EndOfStream(d, i) \/ Fails(d, i)

Exit == running /\ running' = FALSE /\ UNCHANGED <<passed, notice, got, copier, end, keepalive>>
Exited == ~running /\ UNCHANGED vars

Next ==
  \/ \E d \in Dirs : Send(d) \/ Receive(d) \/ \E i \in 1..Hops : Copier(d, i)
  \/ Notify
  \/ \E e \in Ends, s \in {"half", "closed", "lost"} : Shut(e, s)
  \/ KeepaliveFails \/ Exit \/ Exited

Spec == Init /\ [][Next]_vars

\* Go schedules its goroutines, the ticker ticks, and an end that is there
\* reads what has come.
FairSpec ==
  /\ Spec /\ WF_vars(KeepaliveFails)
  /\ \A d \in Dirs : WF_vars(Receive(d)) /\ \A i \in 1..Hops : WF_vars(Copier(d, i))

-----------------------------------------------------------------------------
(* Properties.                                                             *)

\* Every variable has its type, and no counter runs past what may be sent: a
\* copier writes only what it has read, and an end reads only what was written.
TypeOK ==
  /\ passed \in [Points -> 0..MaxSend] /\ got \in [Dirs -> 0..MaxSend]
  /\ notice \in BOOLEAN
  /\ copier \in [Copiers -> {"copy", "ended", "failed"}]
  /\ end \in [Ends -> {"open", "half", "closed", "lost"}]
  /\ keepalive \in BOOLEAN /\ running \in BOOLEAN

\* A copier that returns without an error has passed on all that was sent, and
\* no more will come.  It is the first one of its direction, or the one that
\* reads from TLS: all before the close_notify has then gone through both
\* tunnels, ahead of it (ssh/tunnel.go:197, tls/tunnel.go:111).
Drained ==
  \A d \in Dirs : \A i \in 1..Hops :
    copier[<<d, i>>] = "ended" =>
      \/ i = 1 /\ end[Src(d)] # "open" /\ passed[<<d, i>>] = passed[<<d, 0>>]
      \/ ReadsTLS(d, i) /\ notice /\ passed[<<d, i>>] = DataSent(d)

\* An end that sends no more still gets the whole answer, since the copier that
\* ends for it leaves the other direction alone: what was sent arrives, unless
\* one of the ends goes altogether or conduit exits.
SentArrives ==
  \A d \in Dirs : \A n \in 1..MaxSend :
    DataSent(d) = n ~> got[d] >= n \/ Gone(Src(d)) \/ Gone(Dst(d)) \/ ~running

\* When both ends have gone, the keepalives of a broken connection end, and the
\* copiers that read from the ends return; but for one that writes to a relay
\* whose own copier has failed: nobody closes the connection between the two,
\* and it may stay on a write that never returns.  The copier behind one that
\* has ended returns only if the service has said goodbye.
GoroutinesReturn ==
  (\A e \in Ends : Gone(e)) ~>
    \/ ~running
    \/ /\ end["service"] = "lost" => ~keepalive
       /\ \A d \in Dirs :
            copier[<<d, 1>>] # "copy" \/ \E i \in 2..Hops : copier[<<d, i>>] = "failed"
       /\ notice /\ copier[<<"down", 1>>] = "ended" => copier[<<"down", 2>>] # "copy"
=============================================================================
