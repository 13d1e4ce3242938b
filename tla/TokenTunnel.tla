----------------------------- MODULE TokenTunnel -----------------------------
(***************************************************************************)
(* SshTunnel together with the Cloud Foundry client it gets its codes      *)
(* from: client.SSHCode, the access token that client sends, and           *)
(* App.destroyApp, which replaces the token during Teardown.               *)
(*                                                                         *)
(* The token expires while the tunnel is open, and nothing refreshes it    *)
(* then.  The producer of codes is not stopped by Tunnel.Stop, so it may   *)
(* be inside SSHCode when RefreshAccessToken changes the client under it.  *)
(***************************************************************************)
EXTENDS SshTunnel

CONSTANT Deletes  \* does Teardown come to destroyApp?

VARIABLES
  token,     \* the token of goCFClient: "valid" or "expired"
  deleting,  \* destroyApp: "no", "refresh" after a failed DELETE, "over"
  late       \* history: SSH connections opened with the token expired

clientVars == <<token, deleting>>
allVars    == <<vars, clientVars, late>>

\* An expired token is one of the faults of SSHCode.
ASSUME ExpiryAssumption == Faults = TRUE /\ Deletes \in BOOLEAN

TokenInit == Init /\ token = "valid" /\ deleting = "no" /\ late = 0

-----------------------------------------------------------------------------
(* client.SSHCode, called by the producer.                                 *)

\* Mutant: the answer is taken for a code whatever the server says.
SSHCode_Unchecked == AskCode /\ UNCHANGED <<clientVars, late>>

\* It gives a code only if the token is good when the server sees it.  One step
\* stands for the whole: SSHCode reads goCFClient twice, for GetInfo and for
\* GetToken, and whichever client it meets, the old one or the one that
\* RefreshAccessToken has put there, what comes of it is a code or the empty one.
SSHCode ==
  /\ AskCode
  /\ hand' = "code" => token = "valid"
  /\ UNCHANGED <<clientVars, late>>

-----------------------------------------------------------------------------
(* The life of the token.                                                  *)

Expires ==
  /\ token = "valid" /\ deleting = "no"
  /\ token' = "expired"
  /\ UNCHANGED <<vars, deleting, late>>

\* destroyApp: the first DELETE, after Tunnel.Stop.
DestroyApp ==
  /\ Deletes /\ driver = "stopped" /\ deleting = "no"
  /\ \/ deleting' = "refresh"
     \/ token = "valid" /\ deleting' = "over"
  /\ UNCHANGED <<vars, token, late>>

\* goCFClient is replaced if init succeeds, whoever is using it.
RefreshAccessToken ==
  /\ deleting = "refresh" /\ deleting' = "over"
  /\ token' \in {token, "valid"}
  /\ UNCHANGED <<vars, late>>

-----------------------------------------------------------------------------
(* The tunnel goes on as before, but for where its codes come from.        *)

SshDialed == \E f \in Forwards : loop[f] = "dial" /\ loop'[f] = "remote"

TunnelStep ==
  /\ \/ DriverStep \/ Teardown \/ SendCode \/ WaitChan \/ Exits
     \/ \E c \in Conns : UserDials(c)
     \/ \E f \in Forwards : AcceptLoop(f)
  /\ late' = IF token = "expired" /\ SshDialed THEN late + 1 ELSE late
  /\ UNCHANGED clientVars

TokenNext == SSHCode \/ Expires \/ DestroyApp \/ RefreshAccessToken \/ TunnelStep

TokenSpec == TokenInit /\ [][TokenNext]_allVars

\* Fairness of SshTunnel, with SSHCode in the producer's place.  No token has
\* to expire, and no DELETE has to be made.
TokenFairSpec ==
  /\ TokenSpec
  /\ WF_allVars(DriverStep /\ TunnelStep) /\ WF_allVars(WaitChan /\ TunnelStep)
  /\ WF_allVars(SSHCode \/ (SendCode /\ TunnelStep))
  /\ \A f \in Forwards : WF_allVars(Proceeds(f) /\ TunnelStep)

-----------------------------------------------------------------------------
(* Properties.                                                             *)

\* What is left of an expired token is what was on its way: the codes in the
\* channel, the one the producer holds, and one held by each loop.  No other
\* SSH connection can be opened (client/client.go:366).
LateBounded == late <= PipeCap + 1 + N

\* Stop does not end the producer, but it comes to rest: once the loops have
\* ended it stands before a full channel, and asks the server for no more.
ProducerRests ==
  driver = "stopped" /\ (\A f \in Forwards : listener[f] = "closed")
    ~> [](Len(passwords) = PipeCap /\ hand \in Codes)
=============================================================================
