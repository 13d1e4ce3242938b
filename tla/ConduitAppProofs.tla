-------------------------- MODULE ConduitAppProofs --------------------------
(***************************************************************************)
(* Proofs about ConduitApp, for any number of invocations, any command     *)
(* lines, any bound of the poll, and with or without faults.  A step is of *)
(* one invocation: it leaves the others' part of the invariant alone       *)
(* (Frame), and keeps its own (the lemmas ...Own, one step per action).    *)
(***************************************************************************)
EXTENDS ConduitApp, TLAPS, FiniteSetTheorems

-----------------------------------------------------------------------------
(* The inductive invariant, invocation by invocation.                      *)

Destroying == {"destroy", "refresh", "destroyAgain"}
Over       == {"exit", "exited"}
Early      == {"defaults", "args"}
Unlistened == MakesApp \union {"upload", "start", "poll", "list", "bind", "instances",
                               "bindings", "env"}
Listened   == {"probe", "listenTLS", "probeTLS"} \union Ready
Closed     == (Teardown \ {"stop"}) \union {"exited"}

\* The loop index stays below the bound of the loop the program is in.
IdxAt(p) ==
  /\ At(p, "poll") => idx[p] <= MaxPollRetries
  /\ At(p, "probeTLS") => idx[p] < Len(opt[p].tls)

\* Where an invocation may delete: never with --existing-app, whose lookup is
\* the one place where the GUID of another's app is taken.
DeleteAt(p) ==
  /\ deleteApp[p] => appGUID[p] \in {NoApp, p}
  /\ deleteApp[p] => ~opt[p].existing /\ ~opt[p].noDelete
  /\ pc[p] \notin Early \union Over /\ ~opt[p].existing /\ ~opt[p].noDelete => deleteApp[p]
  /\ At(p, "find") => opt[p].existing
  /\ At(p, "create") => ~opt[p].existing
  /\ pc[p] \in Destroying => deleteApp[p] /\ appGUID[p] # NoApp
  /\ pc[p] \in Early => appGUID[p] = NoApp

\* An app that exists is known to its creator, unless CreateApp's answer was
\* lost; once the invocation is over, its app has been dealt with.
CustodyAt(p) ==
  /\ pc[p] \in MakesApp => p \notin apps
  /\ pc[p] \notin Teardown \union {"exited"} => result[p] = "nil" /\ reported[p] = {}
  /\ p \in apps => \/ appGUID[p] = p
                   \/ result[p] = "error" /\ pc[p] \in Teardown \union {"exited"}
  /\ p \in apps => deleteApp[p] \/ opt[p].existing \/ opt[p].noDelete
  /\ pc[p] \in Over /\ deleteApp[p] /\ p \in apps
       => "app" \in reported[p] \/ result[p] = "error"

\* workDir is made late, and has been dealt with once providers are torn down.
WorkDirAt(p) ==
  /\ pc[p] \in MakesApp => workDir[p] = "none"
  /\ pc[p] \in Destroying \union Over /\ workDir[p] = "made"
       => "workDir" \in reported[p]

\* Which ports are held: those the loops of Start and startTLSTunnels have
\* passed, all of them once both loops have ended, none once Stop has run.
PortsAt(p) ==
  /\ pc[p] \in Unlistened => tunnel[p] = "nil"
  /\ At(p, "listen") => tunnel[p] = "new"
  /\ pc[p] \in Listened => tunnel[p] = "started"
  /\ At(p, "stop") => tunnel[p] # "stopped"
  /\ tunnel[p] = "nil" => Held(p) = {} /\ tlsPorts[p] = {}
  /\ tunnel[p] = "new" => tlsPorts[p] = {}
  /\ tunnel[p] = "new" => Held(p) \subseteq LocalPorts(opt[p])
  /\ pc[p] \notin Closed => tlsPorts[p] \subseteq Held(p)
  /\ Held(p) \subseteq LocalPorts(opt[p]) \union tlsPorts[p]
  /\ At(p, "listen") => \A j \in 1..idx[p] : LocalPort(opt[p], j) \in Held(p)
  /\ pc[p] \in Listened => LocalPorts(opt[p]) \subseteq Held(p)
  /\ At(p, "listenTLS") =>
       \A j \in DOMAIN opt[p].tls : j <= idx[p] /\ opt[p].tls[j] => TlsPort(opt[p], j) \in Held(p)
  /\ At(p, "probeTLS") =>
       \A j \in DOMAIN opt[p].tls : j <= idx[p] + 1 /\ opt[p].tls[j] => TlsPort(opt[p], j) \in Held(p)
  /\ pc[p] \in Ready => TlsPorts(opt[p]) \subseteq Held(p)
  /\ pc[p] \in Closed /\ tunnel[p] # "new" => Held(p) = {}

InvAt(p) == IdxAt(p) /\ DeleteAt(p) /\ CustodyAt(p) /\ WorkDirAt(p) /\ PortsAt(p)
IInv     == TypeOK /\ \A p \in Procs : InvAt(p)

-----------------------------------------------------------------------------
(* Lemmas on the constants.                                                *)

\* The labels of the program counter.
LEMMA Labels ==
  PC = {"defaults", "args", "connect", "org", "space", "create", "upload", "start", "poll",
        "list", "bind", "find", "instances", "bindings", "env", "listen", "probe",
        "listenTLS", "probeTLS", "run", "running", "wait", "stop", "providers", "destroy",
        "refresh", "destroyAgain", "exit", "exited"}
  BY DEF PC, Setup, Ready, Teardown

\* A command line names a service; what it listens on is among the ports.
LEMMA OptionFacts ==
  ASSUME NEW o \in Options
  PROVE  /\ Len(o.tls) \in Nat \ {0} /\ DOMAIN o.tls = 1..Len(o.tls)
         /\ LocalPorts(o) \subseteq Ports /\ TlsPorts(o) \subseteq Ports
         /\ \A i \in DOMAIN o.tls : LocalPort(o, i) \in LocalPorts(o)
         /\ \A i \in DOMAIN o.tls : o.tls[i] => TlsPort(o, i) \in TlsPorts(o)
<1>1. OptionType(o)
  BY OptionsAssumption
<1>2. Len(o.tls) \in Nat \ {0} /\ DOMAIN o.tls = 1..Len(o.tls)
  BY <1>1 DEF OptionType
<1>3. LocalPorts(o) \subseteq Ports /\ TlsPorts(o) \subseteq Ports
  BY DEF Ports
<1> QED
  BY <1>2, <1>3 DEF LocalPorts, TlsPorts

LEMMA FlagStep ==
  ASSUME NEW f \in [Procs -> BOOLEAN], NEW p \in Procs, NEW b \in BOOLEAN
  PROVE  [f EXCEPT ![p] = b] \in [Procs -> BOOLEAN]
  OBVIOUS

-----------------------------------------------------------------------------
(* Steps that move the program counter, the index and the result only.     *)

Results == {"nil", "error", "exec", "panic"}

\* Where such a step may lead, and with which index.
QuietEdge(p, l, i) ==
  \/ l = "stop" /\ pc[p] \notin Teardown \union Early \union {"connect", "exited"}
  \/ l = "exit" /\ pc[p] \in {"defaults", "connect"}
  \/ pc[p] = "defaults" /\ l = "args"
  \/ /\ pc[p] \in {"connect", "org", "space"} /\ l \in {"org", "space", "create", "find"}
     /\ l = "find" => opt[p].existing
     /\ l = "create" => ~opt[p].existing
  \/ pc[p] \in Unlistened \ MakesApp /\ l \in Unlistened \ MakesApp
  \/ pc[p] = "probe" /\ (l = "probe" \/ (l = "listenTLS" /\ i = 0))
  \/ pc[p] = "probeTLS" /\ l = "listenTLS" /\ i = idx[p] + 1
  \/ pc[p] = "run" /\ l = "running"

Quiet(p) ==
  /\ UNCHANGED <<opt, name, deleteApp, appGUID, tunnel, tlsPorts, workDir, token, shutdown,
                 reported, apps, ports>>
  /\ pc'[p] \in PC /\ pc' = [pc EXCEPT ![p] = pc'[p]]
  /\ idx'[p] \in Nat /\ idx' = [idx EXCEPT ![p] = idx'[p]]
  /\ result'[p] \in Results /\ result' = [result EXCEPT ![p] = result'[p]]
  /\ result'[p] = result[p] \/ pc'[p] \in {"stop", "exit"}
  /\ QuietEdge(p, pc'[p], idx'[p])
  /\ idx'[p] <= Len(opt[p].tls) \/ idx'[p] <= MaxPollRetries + 1
  /\ pc'[p] = "poll" => idx'[p] <= MaxPollRetries

QuietAction(p) ==
  \/ GetDefaults(p) \/ Connect(p) \/ AppInit(p)
  \/ UploadStaticAppBits(p) \/ StartApp(p) \/ PollForAppState(p) \/ BindServices(p)
  \/ PrepareForExistingApp(p) /\ ~At(p, "find")
  \/ ProbeSSH(p) \/ ProbeTLS(p)
  \/ RunCommand(p) \/ CommandExits(p) \/ WaitForShutdown(p)

LEMMA QuietSteps ==
  ASSUME TypeOK, NEW p \in Procs, IdxAt(p), QuietAction(p)
  PROVE  Quiet(p)
<1>t. /\ pc \in [Procs -> PC] /\ idx \in [Procs -> Nat] /\ opt[p] \in Options
      /\ result \in [Procs -> Results]
      /\ idx[p] <= Len(opt[p].tls) \/ idx[p] <= MaxPollRetries + 1
      /\ At(p, "poll") => idx[p] <= MaxPollRetries
      /\ At(p, "probeTLS") => idx[p] < Len(opt[p].tls)
  BY DEF TypeOK, Results, IdxAt
<1>o. Len(opt[p].tls) \in Nat \ {0} /\ MaxPollRetries \in Nat
  BY <1>t, OptionFacts, PollAssumption
<1>l. PC = {"defaults", "args", "connect", "org", "space", "create", "upload", "start", "poll",
            "list", "bind", "find", "instances", "bindings", "env", "listen", "probe",
            "listenTLS", "probeTLS", "run", "running", "wait", "stop", "providers",
            "destroy", "refresh", "destroyAgain", "exit", "exited"}
  BY Labels
<1> USE DEF Quiet, QuietEdge, At, Goto, Loop, Return, Reject, flags, local, Results, Early,
            Unlistened, MakesApp, Teardown
<1>1. CASE GetDefaults(p)
  BY <1>1, <1>t, <1>l, <1>o DEF GetDefaults
<1>2. CASE Connect(p)
  BY <1>2, <1>t, <1>l, <1>o DEF Connect
<1>3. CASE AppInit(p)
  BY <1>3, <1>t, <1>l, <1>o DEF AppInit, Read
<1>4. CASE UploadStaticAppBits(p)
  BY <1>4, <1>t, <1>l, <1>o DEF UploadStaticAppBits, Read
<1>5. CASE StartApp(p)
  BY <1>5, <1>t, <1>l, <1>o DEF StartApp, Read
<1>6. CASE PollForAppState(p)
  BY <1>6, <1>t, <1>l, <1>o DEF PollForAppState, Read
<1>7. CASE BindServices(p)
  BY <1>7, <1>t, <1>l, <1>o DEF BindServices, Read
<1>8. CASE PrepareForExistingApp(p) /\ ~At(p, "find")
  BY <1>8, <1>t, <1>l, <1>o DEF PrepareForExistingApp, Read
<1>9. CASE ProbeSSH(p)
  BY <1>9, <1>t, <1>l, <1>o DEF ProbeSSH
<1>10. CASE ProbeTLS(p)
  BY <1>10, <1>t, <1>l, <1>o DEF ProbeTLS
<1>11. CASE RunCommand(p)
  BY <1>11, <1>t, <1>l, <1>o DEF RunCommand
<1>12. CASE CommandExits(p)
  BY <1>12, <1>t, <1>l, <1>o DEF CommandExits
<1>13. CASE WaitForShutdown(p)
  BY <1>13, <1>t, <1>l, <1>o DEF WaitForShutdown
<1> QED
  BY <1>1, <1>2, <1>3, <1>4, <1>5, <1>6, <1>7, <1>8, <1>9, <1>10, <1>11, <1>12, <1>13
  DEF QuietAction

FindApp(p)    == PrepareForExistingApp(p) /\ At(p, "find")
LoudAction(p) ==
  \/ ParseArgs(p) \/ CreateApp(p) \/ FindApp(p) \/ FetchEnv(p) \/ ListenSSH(p) \/ ListenTLS(p)
  \/ StopTunnels(p) \/ TeardownProviders(p) \/ Destroy(p) \/ RefreshAccessToken(p)
  \/ DestroyAgain(p) \/ Exit(p) \/ Signal(p) \/ TokenExpire(p)

LEMMA Cases ==
  ASSUME Next
  PROVE  \/ \E p \in Procs : QuietAction(p) \/ LoudAction(p)
         \/ \E a \in Apps : ExternalDelete(a)
         \/ UNCHANGED vars
  BY DEF Next, Main, SetupStep, TeardownStep, AllExited, QuietAction, LoudAction, FindApp

-----------------------------------------------------------------------------
(* Type correctness.                                                       *)

LEMMA TypeInit == Init => TypeOK
  BY OptionFacts, PollAssumption, Labels DEF Init, TypeOK, Apps

LEMMA QuietType ==
  ASSUME TypeOK, NEW p \in Procs, Quiet(p)
  PROVE  TypeOK'
<1>1. pc' \in [Procs -> PC]
  BY DEF TypeOK, Quiet
<1>2. result' \in [Procs -> Results]
  BY DEF TypeOK, Quiet, Results
<1>3. idx' \in [Procs -> Nat] /\ opt' = opt
  BY DEF TypeOK, Quiet
<1>4. \A q \in Procs : idx'[q] <= Len(opt'[q].tls) \/ idx'[q] <= MaxPollRetries + 1
  BY DEF TypeOK, Quiet
<1>5. UNCHANGED <<deleteApp, appGUID, tunnel, tlsPorts, workDir, token, shutdown, reported,
                  apps, ports>>
  BY DEF Quiet
<1> QED
  BY <1>1, <1>2, <1>3, <1>4, <1>5 DEF TypeOK, Results

LEMMA LoudType ==
  ASSUME TypeOK, NEW p \in Procs, LoudAction(p)
  PROVE  TypeOK'
<1>t. /\ pc \in [Procs -> PC] /\ idx \in [Procs -> Nat]
      /\ appGUID \in [Procs -> Apps \union {NoApp}] /\ apps \subseteq Apps
      /\ tunnel \in [Procs -> {"nil", "new", "started", "stopped"}]
      /\ workDir \in [Procs -> {"none", "made", "removed"}]
      /\ token \in [Procs -> {"valid", "expired"}]
      /\ result \in [Procs -> Results]
      /\ ports \in [Ports -> Procs \union {Free}]
      /\ opt[p] \in Options
  BY DEF TypeOK, Results
<1>s. tlsPorts \in [Procs -> SUBSET Ports] /\ reported \in [Procs -> SUBSET {"workDir", "app"}]
  BY DEF TypeOK
<1>b. deleteApp \in [Procs -> BOOLEAN] /\ shutdown \in [Procs -> BOOLEAN]
  BY DEF TypeOK
<1>n. /\ Len(opt[p].tls) \in Nat \ {0} /\ MaxPollRetries \in Nat
      /\ DOMAIN opt[p].tls = 1..Len(opt[p].tls)
      /\ \A i \in DOMAIN opt[p].tls : opt[p].tls[i] => TlsPort(opt[p], i) \in Ports
  BY <1>t, OptionFacts, PollAssumption
<1>l. {"connect", "upload", "instances", "listen", "probe", "probeTLS", "run", "wait", "stop",
       "providers", "destroy", "refresh", "destroyAgain", "exit", "exited"} \subseteq PC
  BY DEF PC, Setup, Ready, Teardown
<1>i. ASSUME opt' = opt,
             \/ idx' = idx
             \/ idx' = [idx EXCEPT ![p] = 0]
             \/ idx' = [idx EXCEPT ![p] = idx[p] + 1] /\ idx[p] + 1 <= Len(opt[p].tls)
      PROVE  /\ idx' \in [Procs -> Nat]
             /\ \A q \in Procs : idx'[q] <= Len(opt'[q].tls) \/ idx'[q] <= MaxPollRetries + 1
  <2>1. \A q \in Procs : idx[q] <= Len(opt[q].tls) \/ idx[q] <= MaxPollRetries + 1
    BY DEF TypeOK
  <2>2. CASE idx' = idx
    BY <2>1, <2>2, <1>i, <1>t
  <2>3. CASE idx' = [idx EXCEPT ![p] = 0]
    BY <2>1, <2>3, <1>i, <1>t, <1>n
  <2>4. CASE idx' = [idx EXCEPT ![p] = idx[p] + 1] /\ idx[p] + 1 <= Len(opt[p].tls)
    BY <2>1, <2>4, <1>i, <1>t, <1>n
  <2> QED
    BY <2>2, <2>3, <2>4, <1>i
<1>r. ASSUME NEW e \in {"workDir", "app"}, Report(p, e)
      PROVE  reported' \in [Procs -> SUBSET {"workDir", "app"}]
  <2>1. reported[p] \union {e} \in SUBSET {"workDir", "app"}
    BY <1>s
  <2> QED
    BY <1>r, <1>s, <2>1 DEF Report
<1>p. ASSUME NEW n, Take(p, n)
      PROVE  ports' \in [Ports -> Procs \union {Free}]
  BY <1>p, <1>t DEF Take
<1> USE DEF At, Goto, Return, Reject, flags, local
<1>1. CASE ParseArgs(p)
  <2>1. deleteApp' = [deleteApp EXCEPT ![p] = ~(opt[p].noDelete \/ opt[p].existing)]
    BY <1>1 DEF ParseArgs
  <2>2. deleteApp' \in [Procs -> BOOLEAN]
    BY <2>1, <1>b, FlagStep
  <2>3. pc' \in [Procs -> PC] /\ result' \in [Procs -> Results]
    BY <1>1, <1>t, <1>l DEF ParseArgs, Results
  <2>4. UNCHANGED <<opt, idx, appGUID, local, token, shutdown, reported, apps, ports>>
    BY <1>1 DEF ParseArgs
  <2> QED
    BY <2>2, <2>3, <2>4 DEF TypeOK, Results
<1>2. CASE CreateApp(p)
  <2>1. /\ pc' \in [Procs -> PC] /\ result' \in [Procs -> Results]
        /\ appGUID' \in [Procs -> Apps \union {NoApp}] /\ apps' \subseteq Apps
    BY <1>2, <1>t, <1>l DEF CreateApp, Apps, Results
  <2>2. UNCHANGED <<opt, idx, deleteApp, local, token, shutdown, reported, ports>>
    BY <1>2 DEF CreateApp
  <2> QED
    BY <2>1, <2>2 DEF TypeOK, Results
<1>3. CASE FindApp(p)
  <2>1. /\ pc' \in [Procs -> PC] /\ result' \in [Procs -> Results]
        /\ appGUID' \in [Procs -> Apps \union {NoApp}]
    BY <1>3, <1>t, <1>l DEF FindApp, PrepareForExistingApp, Read, Named, Results
  <2>2. UNCHANGED <<opt, idx, deleteApp, local, token, shutdown, reported, apps, ports>>
    BY <1>3 DEF FindApp, PrepareForExistingApp, Read
  <2> QED
    BY <2>1, <2>2 DEF TypeOK, Results
<1>4. CASE FetchEnv(p)
  <2>1. /\ pc' \in [Procs -> PC] /\ result' \in [Procs -> Results]
        /\ tunnel' \in [Procs -> {"nil", "new", "started", "stopped"}]
        /\ workDir' \in [Procs -> {"none", "made", "removed"}]
    BY <1>4, <1>t, <1>l DEF FetchEnv, InitEnv, Results
  <2>2. UNCHANGED <<opt, deleteApp, appGUID, tlsPorts, token, shutdown, reported, apps, ports>>
    BY <1>4 DEF FetchEnv
  <2>3. /\ idx' \in [Procs -> Nat]
        /\ \A q \in Procs : idx'[q] <= Len(opt'[q].tls) \/ idx'[q] <= MaxPollRetries + 1
    BY <1>4, <1>i DEF FetchEnv, Loop
  <2> QED
    BY <2>1, <2>2, <2>3 DEF TypeOK, Results
<1>5. CASE ListenSSH(p)
  <2>1. pc' \in [Procs -> PC]
    BY <1>5, <1>t, <1>l DEF ListenSSH
  <2>2. result' \in [Procs -> Results]
    BY <1>5, <1>t DEF ListenSSH, Results
  <2>3. tunnel' \in [Procs -> {"nil", "new", "started", "stopped"}]
    BY <1>5, <1>t DEF ListenSSH
  <2>4. ports' \in [Ports -> Procs \union {Free}]
    BY <1>5, <1>t, <1>p DEF ListenSSH
  <2>5. UNCHANGED <<opt, deleteApp, appGUID, tlsPorts, workDir, token, shutdown, reported, apps>>
    BY <1>5 DEF ListenSSH
  <2>6. \/ idx' = idx
        \/ idx' = [idx EXCEPT ![p] = 0]
        \/ idx' = [idx EXCEPT ![p] = idx[p] + 1] /\ idx[p] + 1 <= Len(opt[p].tls)
    BY <1>5, <1>t, <1>n DEF ListenSSH, Loop
  <2>7. /\ idx' \in [Procs -> Nat]
        /\ \A q \in Procs : idx'[q] <= Len(opt'[q].tls) \/ idx'[q] <= MaxPollRetries + 1
    BY <2>5, <2>6, <1>i
  <2> QED
    BY <2>1, <2>2, <2>3, <2>4, <2>5, <2>7 DEF TypeOK, Results
<1>6. CASE ListenTLS(p)
  <2>1. pc' \in [Procs -> PC]
    BY <1>6, <1>t, <1>l DEF ListenTLS
  <2>2. result' \in [Procs -> Results]
    BY <1>6, <1>t DEF ListenTLS, Results
  <2>3. ports' \in [Ports -> Procs \union {Free}]
    BY <1>6, <1>t, <1>p DEF ListenTLS
  <2>4. UNCHANGED <<opt, deleteApp, appGUID, tunnel, workDir, token, shutdown, reported, apps>>
    BY <1>6 DEF ListenTLS
  <2>5. \/ idx' = idx
        \/ idx' = [idx EXCEPT ![p] = idx[p] + 1] /\ idx[p] + 1 <= Len(opt[p].tls)
    BY <1>6, <1>t, <1>n DEF ListenTLS, Loop
  <2>6. /\ idx' \in [Procs -> Nat]
        /\ \A q \in Procs : idx'[q] <= Len(opt'[q].tls) \/ idx'[q] <= MaxPollRetries + 1
    BY <2>4, <2>5, <1>i
  <2>7. \/ tlsPorts' = tlsPorts
        \/ /\ tlsPorts' = [tlsPorts EXCEPT ![p] = @ \union {TlsPort(opt[p], idx[p] + 1)}]
           /\ TlsPort(opt[p], idx[p] + 1) \in Ports
    <3>1. CASE idx[p] + 1 <= Len(opt[p].tls) /\ opt[p].tls[idx[p] + 1]
      <4>1. idx[p] + 1 \in DOMAIN opt[p].tls
        BY <3>1, <1>n, <1>t
      <4>2. TlsPort(opt[p], idx[p] + 1) \in Ports
        BY <3>1, <4>1, <1>n
      <4> QED
        BY <1>6, <4>2 DEF ListenTLS
    <3>2. CASE ~(idx[p] + 1 <= Len(opt[p].tls) /\ opt[p].tls[idx[p] + 1])
      BY <1>6, <3>2 DEF ListenTLS
    <3> QED
      BY <3>1, <3>2
  <2>8. tlsPorts' \in [Procs -> SUBSET Ports]
    BY <2>7, <1>s
  <2> QED
    BY <2>1, <2>2, <2>3, <2>4, <2>6, <2>8 DEF TypeOK, Results
<1>7. CASE StopTunnels(p)
  <2>1. /\ pc' \in [Procs -> PC]
        /\ tunnel' \in [Procs -> {"nil", "new", "started", "stopped"}]
        /\ ports' \in [Ports -> Procs \union {Free}]
    BY <1>7, <1>t, <1>l DEF StopTunnels, Release
  <2>2. UNCHANGED <<opt, idx, deleteApp, appGUID, tlsPorts, workDir, token, shutdown, result,
                    reported, apps>>
    BY <1>7 DEF StopTunnels
  <2> QED
    BY <2>1, <2>2 DEF TypeOK
<1>8. CASE TeardownProviders(p)
  <2>1. pc' \in [Procs -> PC] /\ workDir' \in [Procs -> {"none", "made", "removed"}]
    BY <1>8, <1>t, <1>l DEF TeardownProviders
  <2>2. UNCHANGED <<opt, idx, deleteApp, appGUID, tunnel, tlsPorts, token, shutdown, result,
                    apps, ports>>
    BY <1>8 DEF TeardownProviders
  <2>3. reported' \in [Procs -> SUBSET {"workDir", "app"}]
    BY <1>8, <1>r, <1>s DEF TeardownProviders
  <2> QED
    BY <2>1, <2>2, <2>3 DEF TypeOK
<1>9. CASE Destroy(p) \/ DestroyAgain(p)
  <2>1. pc' \in [Procs -> PC] /\ apps' \subseteq Apps
    BY <1>9, <1>t, <1>l DEF Destroy, DestroyAgain, DestroyApp, Exits, Refreshes, GivesUp
  <2>2. UNCHANGED <<opt, idx, deleteApp, appGUID, local, token, shutdown, result, ports>>
    BY <1>9 DEF Destroy, DestroyAgain
  <2>3. reported' \in [Procs -> SUBSET {"workDir", "app"}]
    BY <1>9, <1>r, <1>s DEF Destroy, DestroyAgain, DestroyApp, Exits, Refreshes, GivesUp
  <2> QED
    BY <2>1, <2>2, <2>3 DEF TypeOK
<1>10. CASE RefreshAccessToken(p)
  <2>1. pc' \in [Procs -> PC] /\ token' \in [Procs -> {"valid", "expired"}]
    BY <1>10, <1>t, <1>l DEF RefreshAccessToken, GivesUp
  <2>2. UNCHANGED <<opt, idx, deleteApp, appGUID, local, shutdown, result, apps, ports>>
    BY <1>10 DEF RefreshAccessToken
  <2>3. reported' \in [Procs -> SUBSET {"workDir", "app"}]
    BY <1>10, <1>r, <1>s DEF RefreshAccessToken, GivesUp
  <2> QED
    BY <2>1, <2>2, <2>3 DEF TypeOK
<1>11. CASE Exit(p)
  <2>1. pc' \in [Procs -> PC] /\ ports' \in [Ports -> Procs \union {Free}]
    BY <1>11, <1>t, <1>l DEF Exit, Release
  <2>2. UNCHANGED <<opt, idx, deleteApp, appGUID, local, token, shutdown, result, reported, apps>>
    BY <1>11 DEF Exit
  <2> QED
    BY <2>1, <2>2 DEF TypeOK
<1>12. CASE Signal(p)
  <2>1. shutdown' = [shutdown EXCEPT ![p] = TRUE]
    BY <1>12 DEF Signal
  <2>2. shutdown' \in [Procs -> BOOLEAN]
    BY <2>1, <1>b, FlagStep
  <2>3. UNCHANGED <<opt, pc, idx, deleteApp, appGUID, local, token, result, reported, apps, ports>>
    BY <1>12 DEF Signal
  <2> QED
    BY <2>2, <2>3 DEF TypeOK
<1>13. CASE TokenExpire(p)
  <2>1. token' \in [Procs -> {"valid", "expired"}]
    BY <1>13, <1>t DEF TokenExpire
  <2>2. UNCHANGED <<opt, pc, idx, deleteApp, appGUID, local, shutdown, result, reported, apps, ports>>
    BY <1>13 DEF TokenExpire
  <2> QED
    BY <2>1, <2>2 DEF TypeOK
<1> QED
  BY <1>1, <1>2, <1>3, <1>4, <1>5, <1>6, <1>7, <1>8, <1>9, <1>10, <1>11, <1>12, <1>13
  DEF LoudAction

-----------------------------------------------------------------------------
(* A step of p touches what belongs to p only.                             *)

Frame(p) ==
  /\ opt' = opt
  /\ \A q \in Procs \ {p} :
       /\ pc'[q] = pc[q] /\ idx'[q] = idx[q] /\ deleteApp'[q] = deleteApp[q]
       /\ appGUID'[q] = appGUID[q] /\ tunnel'[q] = tunnel[q] /\ tlsPorts'[q] = tlsPorts[q]
       /\ workDir'[q] = workDir[q] /\ result'[q] = result[q] /\ reported'[q] = reported[q]
       /\ token'[q] = token[q]
       /\ \A n \in Ports : ports'[n] = q <=> ports[n] = q
  /\ \A a \in Apps \ {p} : a \in apps' <=> a \in apps
  /\ p \in apps /\ p \notin apps' => pc[p] \in {"destroy", "destroyAgain"}

LEMMA QuietFrame ==
  ASSUME TypeOK, NEW p \in Procs, Quiet(p)
  PROVE  Frame(p)
  BY DEF TypeOK, Quiet, Frame

LEMMA LoudFrame ==
  ASSUME TypeOK, NEW p \in Procs, InvAt(p), LoudAction(p)
  PROVE  Frame(p)
<1>f. Free \notin Procs
  BY ProcsAssumption
<1>d. pc[p] \in Destroying => appGUID[p] = p
  BY DEF InvAt, DeleteAt
<1>h. At(p, "stop") => tlsPorts[p] \subseteq Held(p)
  BY DEF InvAt, PortsAt, At, Closed
<1> USE DEF TypeOK, Frame, At, Goto, Loop, Return, Reject, flags, local
<1>1. CASE ParseArgs(p)
  BY <1>1 DEF ParseArgs
<1>2. CASE CreateApp(p)
  BY <1>2 DEF CreateApp
<1>3. CASE FindApp(p)
  BY <1>3 DEF FindApp, PrepareForExistingApp, Read
<1>4. CASE FetchEnv(p)
  BY <1>4 DEF FetchEnv, InitEnv
<1>5. CASE ListenSSH(p)
  BY <1>5, <1>f DEF ListenSSH, Take
<1>6. CASE ListenTLS(p)
  BY <1>6, <1>f DEF ListenTLS, Take
<1>7. CASE StopTunnels(p)
  BY <1>7, <1>f, <1>h DEF StopTunnels, Release, Held
<1>8. CASE TeardownProviders(p)
  BY <1>8 DEF TeardownProviders, Report
<1>9. CASE Destroy(p)
  BY <1>9, <1>d DEF Destroy, DestroyApp, Exits, Refreshes, Destroying
<1>10. CASE RefreshAccessToken(p)
  BY <1>10 DEF RefreshAccessToken, GivesUp, Report
<1>11. CASE DestroyAgain(p)
  BY <1>11, <1>d DEF DestroyAgain, DestroyApp, Exits, GivesUp, Report, Destroying
<1>12. CASE Exit(p)
  BY <1>12, <1>f DEF Exit, Release, Held
<1>13. CASE Signal(p)
  BY <1>13 DEF Signal
<1>14. CASE TokenExpire(p)
  BY <1>14 DEF TokenExpire
<1> QED
  BY <1>1, <1>2, <1>3, <1>4, <1>5, <1>6, <1>7, <1>8, <1>9, <1>10, <1>11, <1>12, <1>13, <1>14
  DEF LoudAction

\* What holds of q is not disturbed by a step of another.
LEMMA Undisturbed ==
  ASSUME NEW p \in Procs, NEW q \in Procs \ {p}, Frame(p), InvAt(q)
  PROVE  InvAt(q)'
<1>f. /\ opt'[q] = opt[q] /\ pc'[q] = pc[q] /\ idx'[q] = idx[q] /\ deleteApp'[q] = deleteApp[q]
      /\ appGUID'[q] = appGUID[q] /\ tunnel'[q] = tunnel[q] /\ tlsPorts'[q] = tlsPorts[q]
      /\ workDir'[q] = workDir[q] /\ result'[q] = result[q] /\ reported'[q] = reported[q]
      /\ q \in apps' => q \in apps
  BY DEF Frame, Apps
<1>p. \A n \in Ports : ports'[n] = q <=> ports[n] = q
  BY DEF Frame
<1>h. Held(q)' = Held(q)
  BY <1>p DEF Held
<1> USE DEF At
<1>1. IdxAt(q)'
  BY <1>f DEF InvAt, IdxAt
<1>2. DeleteAt(q)'
  BY <1>f DEF InvAt, DeleteAt
<1>3. CustodyAt(q)'
  BY <1>f DEF InvAt, CustodyAt
<1>4. WorkDirAt(q)'
  BY <1>f DEF InvAt, WorkDirAt
<1>5. PortsAt(q)'
  BY <1>f, <1>h DEF InvAt, PortsAt
<1> QED
  BY <1>1, <1>2, <1>3, <1>4, <1>5 DEF InvAt

-----------------------------------------------------------------------------
(* A step of p keeps what holds of p.                                      *)

LEMMA QuietOwn ==
  ASSUME TypeOK, NEW p \in Procs, InvAt(p), Quiet(p)
  PROVE  InvAt(p)'
<1>t. /\ pc[p] \in PC /\ idx[p] \in Nat /\ opt[p] \in Options
      /\ pc'[p] \in PC /\ idx'[p] \in Nat
  BY DEF TypeOK, Quiet
<1>o. Len(opt[p].tls) \in Nat \ {0} /\ MaxPollRetries \in Nat /\ DOMAIN opt[p].tls = 1..Len(opt[p].tls)
  BY <1>t, OptionFacts, PollAssumption
<1>q. /\ UNCHANGED <<opt, deleteApp, appGUID, tunnel, tlsPorts, workDir, reported, apps, ports>>
      /\ result'[p] = result[p] \/ pc'[p] \in {"stop", "exit"}
      /\ QuietEdge(p, pc'[p], idx'[p])
      /\ pc'[p] = "poll" => idx'[p] <= MaxPollRetries
  BY DEF Quiet
<1>h. Held(p)' = Held(p)
  BY <1>q DEF Held
<1> USE DEF At, QuietEdge, Early, Unlistened, MakesApp, Teardown, Destroying, Over
<1>1. IdxAt(p)'
  BY <1>q, <1>t DEF IdxAt
<1>2. DeleteAt(p)'
  BY <1>q DEF InvAt, DeleteAt
<1>3. CustodyAt(p)'
  BY <1>q DEF InvAt, CustodyAt
<1>4. WorkDirAt(p)'
  BY <1>q DEF InvAt, WorkDirAt
<1>5. PortsAt(p)'
  <2>p. PortsAt(p)
    BY DEF InvAt
  <2> USE DEF PortsAt, Listened, Closed, Ready
  <2>1. CASE pc'[p] = "stop"
    <3>1. pc[p] \in Unlistened \union Listened \union {"listen"}
      BY <2>1, <1>q, <1>t, Labels
    <3> QED
      BY <2>1, <2>p, <3>1, <1>q, <1>h
  <2>6. CASE pc'[p] = "exit"
    BY <2>6, <2>p, <1>q, <1>h
  <2>2. CASE pc[p] \in Unlistened \union {"defaults"} /\ pc'[p] \in Unlistened
    BY <2>2, <2>p, <1>q, <1>h
  <2>3. CASE pc[p] \in {"probe", "run"} /\ pc'[p] \in {"probe", "running"}
    BY <2>3, <2>p, <1>q, <1>h
  <2>4. CASE pc[p] = "probe" /\ pc'[p] = "listenTLS" /\ idx'[p] = 0
    BY <2>4, <2>p, <1>q, <1>h, <1>o
  <2>5. CASE pc[p] = "probeTLS" /\ pc'[p] = "listenTLS" /\ idx'[p] = idx[p] + 1
    BY <2>5, <2>p, <1>q, <1>h, <1>o
  <2> QED
    BY <2>1, <2>2, <2>3, <2>4, <2>5, <2>6, <1>q
<1> QED
  BY <1>1, <1>2, <1>3, <1>4, <1>5 DEF InvAt

LEMMA LoudOwn ==
  ASSUME TypeOK, NEW p \in Procs, InvAt(p), LoudAction(p)
  PROVE  IdxAt(p)' /\ DeleteAt(p)' /\ CustodyAt(p)' /\ WorkDirAt(p)'
<1>t. /\ pc \in [Procs -> PC] /\ idx \in [Procs -> Nat] /\ appGUID \in [Procs -> Apps \union {NoApp}]
      /\ deleteApp \in [Procs -> BOOLEAN] /\ workDir \in [Procs -> {"none", "made", "removed"}]
      /\ reported \in [Procs -> SUBSET {"workDir", "app"}] /\ result \in [Procs -> Results]
      /\ tunnel \in [Procs -> {"nil", "new", "started", "stopped"}]
      /\ p # NoApp
  BY ProcsAssumption DEF TypeOK, Results, Apps
<1>v. IdxAt(p) /\ DeleteAt(p) /\ CustodyAt(p) /\ WorkDirAt(p)
  BY DEF InvAt
<1> USE DEF At, Goto, Loop, Return, Reject, flags, local, Early, Unlistened, MakesApp,
            Teardown, Destroying, Over, IdxAt, DeleteAt, CustodyAt, WorkDirAt
<1>1. CASE ParseArgs(p)
  BY <1>1, <1>t, <1>v DEF ParseArgs
<1>2. CASE CreateApp(p)
  BY <1>2, <1>t, <1>v DEF CreateApp
<1>3. CASE FindApp(p)
  BY <1>3, <1>t, <1>v DEF FindApp, PrepareForExistingApp, Read
<1>4. CASE FetchEnv(p)
  BY <1>4, <1>t, <1>v DEF FetchEnv, InitEnv
<1>5. CASE ListenSSH(p)
  BY <1>5, <1>t, <1>v DEF ListenSSH
<1>6. CASE ListenTLS(p)
  BY <1>6, <1>t, <1>v DEF ListenTLS
<1>7. CASE StopTunnels(p)
  BY <1>7, <1>t, <1>v DEF StopTunnels
<1>8. CASE TeardownProviders(p)
  BY <1>8, <1>t, <1>v DEF TeardownProviders, Report
<1>9. CASE Destroy(p)
  BY <1>9, <1>t, <1>v DEF Destroy, DestroyApp, Exits, Refreshes
<1>10. CASE RefreshAccessToken(p)
  BY <1>10, <1>t, <1>v DEF RefreshAccessToken, GivesUp, Report
<1>11. CASE DestroyAgain(p)
  BY <1>11, <1>t, <1>v DEF DestroyAgain, DestroyApp, Exits, GivesUp, Report
<1>12. CASE Exit(p)
  BY <1>12, <1>t, <1>v DEF Exit
<1>13. CASE Signal(p)
  BY <1>13, <1>t, <1>v DEF Signal
<1>14. CASE TokenExpire(p)
  BY <1>14, <1>t, <1>v DEF TokenExpire
<1> QED
  BY <1>1, <1>2, <1>3, <1>4, <1>5, <1>6, <1>7, <1>8, <1>9, <1>10, <1>11, <1>12, <1>13, <1>14
  DEF LoudAction

\* The ports: what Take and Release do to Held(p), then one step per action.
LEMMA LoudPorts ==
  ASSUME TypeOK, NEW p \in Procs, InvAt(p), LoudAction(p)
  PROVE  PortsAt(p)'
<1>t. /\ pc \in [Procs -> PC] /\ idx \in [Procs -> Nat] /\ opt[p] \in Options
      /\ tunnel \in [Procs -> {"nil", "new", "started", "stopped"}]
      /\ tlsPorts \in [Procs -> SUBSET Ports] /\ ports \in [Ports -> Procs \union {Free}]
      /\ Free # p
  BY ProcsAssumption DEF TypeOK
<1>o. /\ Len(opt[p].tls) \in Nat \ {0} /\ DOMAIN opt[p].tls = 1..Len(opt[p].tls)
      /\ LocalPorts(opt[p]) = {LocalPort(opt[p], i) : i \in DOMAIN opt[p].tls}
      /\ LocalPorts(opt[p]) \subseteq Ports /\ TlsPorts(opt[p]) \subseteq Ports
      /\ TlsPorts(opt[p]) = {TlsPort(opt[p], i) : i \in {j \in DOMAIN opt[p].tls : opt[p].tls[j]}}
  BY <1>t, OptionFacts DEF LocalPorts, TlsPorts
<1>p. PortsAt(p)
  BY DEF InvAt
<1>u. ports' = ports => Held(p)' = Held(p)
  BY DEF Held
<1>k. ASSUME NEW n \in Ports, Take(p, n)
      PROVE  Held(p)' = Held(p) \union {n}
  BY <1>k, <1>t DEF Take, Held
<1>r. ASSUME NEW ns \in SUBSET Ports, Release(ns)
      PROVE  Held(p)' = Held(p) \ ns
  BY <1>r, <1>t DEF Release, Held
<1> USE DEF At, Goto, Loop, Return, Reject, flags, local, Unlistened, MakesApp, Teardown,
            Listened, Closed, Ready
<1>1. CASE ParseArgs(p)
  BY <1>1, <1>t, <1>u, <1>p DEF ParseArgs, PortsAt
<1>2. CASE CreateApp(p)
  BY <1>2, <1>t, <1>u, <1>p DEF CreateApp, PortsAt
<1>3. CASE FindApp(p)
  BY <1>3, <1>t, <1>u, <1>p DEF FindApp, PrepareForExistingApp, Read, PortsAt
<1>4. CASE FetchEnv(p)
  BY <1>4, <1>t, <1>u, <1>p, <1>o DEF FetchEnv, PortsAt
<1>5. CASE ListenSSH(p)
  <2> DEFINE n == LocalPort(opt[p], idx[p] + 1)
  <2>u. UNCHANGED <<opt, tlsPorts>>
    BY <1>5 DEF ListenSSH
  <2>n. /\ tunnel[p] = "new" /\ tlsPorts[p] = {} /\ Held(p) \subseteq LocalPorts(opt[p])
        /\ \A j \in 1..idx[p] : LocalPort(opt[p], j) \in Held(p)
    BY <1>5, <1>p DEF ListenSSH, PortsAt
  <2>1. CASE Take(p, n) /\ idx[p] + 1 <= Len(opt[p].tls)
    <3>1. n \in LocalPorts(opt[p])
      BY <2>1, <1>o, <1>t
    <3>2. Held(p)' = Held(p) \union {n}
      BY <2>1, <3>1, <1>k, <1>o
    <3>3. \A j \in 1..(idx[p] + 1) : LocalPort(opt[p], j) \in Held(p)'
      BY <2>n, <3>2, <1>t
    <3>4. CASE pc' = pc /\ tunnel' = tunnel /\ idx' = [idx EXCEPT ![p] = idx[p] + 1]
      BY <1>5, <2>u, <2>n, <3>1, <3>2, <3>3, <3>4, <1>t DEF PortsAt, ListenSSH
    <3>5. CASE /\ idx[p] + 1 = Len(opt[p].tls) /\ pc' = [pc EXCEPT ![p] = "probe"]
               /\ tunnel' = [tunnel EXCEPT ![p] = "started"]
      <4>1. LocalPorts(opt[p]) \subseteq Held(p)'
        BY <3>3, <3>5, <1>o
      <4> QED
        BY <1>5, <2>u, <2>n, <3>1, <3>2, <3>5, <4>1, <1>t DEF PortsAt
    <3>6. \/ pc' = pc /\ tunnel' = tunnel /\ idx' = [idx EXCEPT ![p] = idx[p] + 1]
          \/ /\ idx[p] + 1 = Len(opt[p].tls) /\ pc' = [pc EXCEPT ![p] = "probe"]
             /\ tunnel' = [tunnel EXCEPT ![p] = "started"]
          \/ pc' = [pc EXCEPT ![p] = "stop"] /\ UNCHANGED <<tunnel, ports>>
      BY <1>5 DEF ListenSSH
    <3>7. ~UNCHANGED ports
      BY <2>1, <3>1, <1>o, <1>t DEF Take
    <3> QED
      BY <3>4, <3>5, <3>6, <3>7
  <2>2. CASE pc' = [pc EXCEPT ![p] = "stop"] /\ UNCHANGED <<tunnel, ports>>
    BY <2>2, <2>u, <2>n, <1>u, <1>t DEF PortsAt
  <2>3. \/ Take(p, n) /\ idx[p] + 1 <= Len(opt[p].tls)
        \/ pc' = [pc EXCEPT ![p] = "stop"] /\ UNCHANGED <<tunnel, ports>>
    BY <1>5, <1>t, <1>o DEF ListenSSH
  <2> QED
    BY <2>1, <2>2, <2>3
<1>6. CASE ListenTLS(p)
  <2> DEFINE i == idx[p] + 1
  <2> DEFINE n == TlsPort(opt[p], i)
  <2>u. UNCHANGED <<opt, tunnel>>
    BY <1>6 DEF ListenTLS
  <2>n. /\ tunnel[p] = "started" /\ LocalPorts(opt[p]) \subseteq Held(p)
        /\ tlsPorts[p] \subseteq Held(p)
        /\ Held(p) \subseteq LocalPorts(opt[p]) \union tlsPorts[p]
        /\ \A j \in DOMAIN opt[p].tls : j <= idx[p] /\ opt[p].tls[j] => TlsPort(opt[p], j) \in Held(p)
    BY <1>6, <1>p DEF ListenTLS, PortsAt
  <2>1. CASE i > Len(opt[p].tls) /\ UNCHANGED <<tlsPorts, ports>> /\ pc'[p] \in {"run", "wait"}
    <3>1. TlsPorts(opt[p]) \subseteq Held(p)
      BY <2>1, <2>n, <1>o, <1>t
    <3> QED
      BY <2>1, <2>u, <2>n, <3>1, <1>u DEF PortsAt
  <2>2. CASE /\ i <= Len(opt[p].tls) /\ ~opt[p].tls[i]
             /\ idx'[p] = i /\ UNCHANGED <<pc, tlsPorts, ports>>
    BY <1>6, <2>2, <2>u, <2>n, <1>u, <1>o, <1>t DEF PortsAt, ListenTLS
  <2>3. CASE /\ i <= Len(opt[p].tls) /\ opt[p].tls[i] /\ Take(p, n) /\ idx' = idx
             /\ tlsPorts'[p] = tlsPorts[p] \union {n} /\ pc'[p] = "probeTLS"
    <3>1. i \in DOMAIN opt[p].tls /\ n \in Ports
      BY <2>3, <1>o, <1>t
    <3>2. Held(p)' = Held(p) \union {n}
      BY <2>3, <3>1, <1>k
    <3> QED
      BY <2>3, <2>u, <2>n, <3>1, <3>2, <1>o, <1>t DEF PortsAt
  <2>4. CASE pc'[p] = "stop" /\ UNCHANGED <<tlsPorts, ports>>
    BY <2>4, <2>u, <2>n, <1>u DEF PortsAt
  <2> QED
    BY <1>6, <2>1, <2>2, <2>3, <2>4, <1>t DEF ListenTLS
<1>7. CASE StopTunnels(p)
  <2>1. CASE tunnel[p] = "started"
    <3>1. Held(p)' = Held(p) \ (tlsPorts[p] \union (Held(p) \intersect LocalPorts(opt[p])))
      BY <1>7, <2>1, <1>r, <1>t DEF StopTunnels, Held
    <3>2. Held(p)' = {}
      BY <3>1, <1>p DEF PortsAt
    <3> QED
      BY <1>7, <2>1, <3>2, <1>t DEF StopTunnels, PortsAt
  <2>2. CASE tunnel[p] # "started"
    <3>1. tlsPorts[p] = {}
      BY <1>7, <2>2, <1>t, <1>p DEF StopTunnels, PortsAt
    <3>2. Held(p)' = Held(p)
      BY <1>7, <2>2, <3>1, <1>r, <1>t DEF StopTunnels
    <3> QED
      BY <1>7, <2>2, <3>1, <3>2, <1>t, <1>p DEF StopTunnels, PortsAt
  <2> QED
    BY <2>1, <2>2
<1>8. CASE TeardownProviders(p)
  BY <1>8, <1>t, <1>u, <1>p DEF TeardownProviders, PortsAt
<1>9. CASE Destroy(p)
  BY <1>9, <1>t, <1>u, <1>p DEF Destroy, DestroyApp, Exits, Refreshes, PortsAt
<1>10. CASE RefreshAccessToken(p)
  BY <1>10, <1>t, <1>u, <1>p DEF RefreshAccessToken, GivesUp, PortsAt
<1>11. CASE DestroyAgain(p)
  BY <1>11, <1>t, <1>u, <1>p DEF DestroyAgain, DestroyApp, Exits, GivesUp, PortsAt
<1>12. CASE Exit(p)
  <2>1. Held(p)' = {}
    BY <1>12, <1>t DEF Exit, Release, Held
  <2> QED
    BY <1>12, <2>1, <1>t, <1>p DEF Exit, PortsAt
<1>13. CASE Signal(p) \/ TokenExpire(p)
  BY <1>13, <1>t, <1>u, <1>p DEF Signal, TokenExpire, PortsAt
<1> QED
  BY <1>1, <1>2, <1>3, <1>4, <1>5, <1>6, <1>7, <1>8, <1>9, <1>10, <1>11, <1>12, <1>13
  DEF LoudAction

-----------------------------------------------------------------------------
(* The invariant.                                                          *)

LEMMA InitIInv == Init => IInv
<1> SUFFICES ASSUME Init PROVE IInv
  OBVIOUS
<1>1. TypeOK
  BY TypeInit
<1>2. ASSUME NEW p \in Procs PROVE InvAt(p)
  <2>1. Held(p) = {}
    BY ProcsAssumption DEF Init, Held
  <2>2. p \notin apps
    BY ProcsAssumption DEF Init
  <2> QED
    BY <2>1, <2>2 DEF Init, InvAt, IdxAt, DeleteAt, CustodyAt, WorkDirAt, PortsAt, At,
       Destroying, Over, Early, Unlistened, MakesApp, Listened, Ready, Closed, Teardown
<1> QED
  BY <1>1, <1>2 DEF IInv

LEMMA ProcStep ==
  ASSUME IInv, NEW p \in Procs, QuietAction(p) \/ LoudAction(p)
  PROVE  IInv' /\ Frame(p)
<1>i. TypeOK /\ InvAt(p) /\ \A q \in Procs : InvAt(q)
  BY DEF IInv
<1>1. TypeOK' /\ Frame(p) /\ InvAt(p)'
  <2>1. CASE QuietAction(p)
    <3>1. Quiet(p)
      BY <2>1, <1>i, QuietSteps DEF InvAt
    <3> QED
      BY <3>1, <1>i, QuietType, QuietFrame, QuietOwn
  <2>2. CASE LoudAction(p)
    BY <2>2, <1>i, LoudType, LoudFrame, LoudOwn, LoudPorts DEF InvAt
  <2> QED
    BY <2>1, <2>2
<1>2. ASSUME NEW q \in Procs PROVE InvAt(q)'
  BY <1>1, <1>i, Undisturbed
<1> QED
  BY <1>1, <1>2 DEF IInv

LEMMA OutsideStep ==
  ASSUME IInv, NEW a \in Apps, ExternalDelete(a)
  PROVE  IInv'
<1>1. /\ UNCHANGED <<opt, pc, idx, deleteApp, appGUID, tunnel, tlsPorts, workDir, token,
                     shutdown, result, reported, ports>>
      /\ apps' \subseteq apps
  BY DEF ExternalDelete, flags, local
<1>2. TypeOK'
  BY <1>1 DEF IInv, TypeOK
<1>3. ASSUME NEW q \in Procs PROVE InvAt(q)'
  <2>1. InvAt(q) /\ (q \in apps' => q \in apps)
    BY <1>1 DEF IInv
  <2>2. Held(q)' = Held(q)
    BY <1>1 DEF Held
  <2>3. IdxAt(q)' /\ DeleteAt(q)' /\ CustodyAt(q)' /\ WorkDirAt(q)'
    BY <1>1, <2>1 DEF InvAt, IdxAt, DeleteAt, CustodyAt, WorkDirAt, At
  <2>4. PortsAt(q)'
    BY <1>1, <2>1, <2>2 DEF InvAt, PortsAt, At
  <2> QED
    BY <2>3, <2>4 DEF InvAt
<1> QED
  BY <1>2, <1>3 DEF IInv

LEMMA StutterStep == IInv /\ UNCHANGED vars => IInv'
  BY DEF vars, IInv, TypeOK, InvAt, IdxAt, DeleteAt, CustodyAt, WorkDirAt, PortsAt, At, Held

LEMMA NextIInv == IInv /\ [Next]_vars => IInv'
  BY Cases, ProcStep, OutsideStep, StutterStep

\* The inductive invariant holds of every behaviour of conduit.
THEOREM Invariance == Spec => []IInv
  BY InitIInv, NextIInv, PTL DEF Spec

\* Every variable keeps its type, and the poll its bound (client.go:272-288).
THEOREM TypeCorrect == Spec => []TypeOK
<1>1. IInv => TypeOK
  BY DEF IInv
<1> QED
  BY <1>1, Invariance, PTL

\* Who may delete knows no GUID but that of the app it created: the GUID that
\* --existing-app looks up is never at hand when Teardown deletes (app.go:579).
THEOREM TargetsOwnApp == Spec => []DestroyTargetsOwnApp
<1>1. IInv => DestroyTargetsOwnApp
  BY DEF IInv, InvAt, DeleteAt, DestroyTargetsOwnApp
<1> QED
  BY <1>1, Invariance, PTL

\* conduit deletes no app that another has created: what --existing-app finds
\* is never deleted by this command, nor an app of the same name (README.md:75,
\* app.go:579).
THEOREM OnlyCreatorDeletesCorrect == Spec => OnlyCreatorDeletes
<1> DEFINE Allowed(a, p) == a = p /\ deleteApp[p] /\ pc[p] \in {"destroy", "destroyAgain"}
<1>1. ASSUME IInv, [Next]_vars, NEW a \in apps \ apps', NEW p \in Procs, pc'[p] # pc[p]
      PROVE  Allowed(a, p)
  <2>1. a \in Apps
    BY <1>1 DEF IInv, TypeOK
  <2>2. PICK r \in Procs : QuietAction(r) \/ LoudAction(r)
    BY <1>1, Cases DEF ExternalDelete, vars
  <2>3. Frame(r)
    BY <1>1, <2>2, ProcStep
  <2>4. r = p /\ a = p
    BY <1>1, <2>1, <2>3 DEF Frame
  <2>5. pc[p] \in {"destroy", "destroyAgain"}
    BY <1>1, <2>3, <2>4 DEF Frame
  <2> QED
    BY <1>1, <2>4, <2>5 DEF IInv, InvAt, DeleteAt, Destroying
<1>2. IInv /\ [Next]_vars
        => [\A a \in apps \ apps' : \A p \in Procs :
              pc'[p] # pc[p] => /\ a = p /\ deleteApp[p]
                                /\ pc[p] \in {"destroy", "destroyAgain"}]_vars
  BY <1>1
<1> QED
  BY <1>2, Invariance, PTL DEF Spec, OnlyCreatorDeletes

\* An app that was to be deleted is deleted, or its survival is reported, by
\* Teardown or by the command's own failure (app.go:579-587, conduit.go:117).
THEOREM NoSilentOrphanCorrect == Spec => []NoSilentOrphan
<1>1. IInv => NoSilentOrphan
  BY DEF IInv, InvAt, CustodyAt, NoSilentOrphan, Over, At
<1> QED
  BY <1>1, Invariance, PTL

\* The my.cnf with the password is removed, or its survival is reported
\* (service/mysql.go:29-60, app.go:573-577).
THEOREM CredentialsRemovedCorrect == Spec => []CredentialsRemoved
<1>1. IInv => CredentialsRemoved
  BY DEF IInv, InvAt, WorkDirAt, CredentialsRemoved, Over, At
<1> QED
  BY <1>1, Invariance, PTL

\* When the user may connect every local port and TLS port is this invocation's
\* own listener, however the invocations race for them (app.go:447-501).
THEOREM ReadyHoldsPortsCorrect == Spec => []ReadyHoldsPorts
<1>1. IInv => ReadyHoldsPorts
  BY DEF IInv, InvAt, PortsAt, ReadyHoldsPorts, Held, Listened
<1> QED
  BY <1>1, Invariance, PTL

\* No port outlives StopTunnels unless Start failed, and then only those that
\* Start itself had opened (ssh/tunnel.go:76-98,170-181).
THEOREM PortsReleasedCorrect == Spec => []PortsReleased
<1>1. IInv => PortsReleased
  BY DEF IInv, InvAt, PortsAt, PortsReleased, Closed
<1> QED
  BY <1>1, Invariance, PTL

-----------------------------------------------------------------------------
(* When nothing fails but the token, which may expire at any time.         *)

\* No answer is lost, so an app that exists is known to its creator; the first
\* DELETE failed for the token if the app is still there; the token of the second
\* is fresh; and what is left then was given up because there was no fresh one.
DeletedAt(p) ==
  /\ p \in apps => appGUID[p] = p
  /\ token[p] = "expired" => TokenExpires
  /\ At(p, "refresh") /\ p \in apps => token[p] = "expired"
  /\ At(p, "destroyAgain") => token[p] = "valid"
  /\ pc[p] \in Over /\ deleteApp[p] /\ p \in apps
       => CliTokenNewline /\ token[p] = "expired" /\ "app" \in reported[p]

Deleted == \A p \in Procs : DeletedAt(p)

\* At the start no invocation has made an app.
LEMMA InitDeleted == Init => Deleted
  BY ProcsAssumption DEF Init, Deleted, DeletedAt, At, Over

\* The steps that only move the program counter: the app does not exist yet
\* where conduit gives up without Teardown.
LEMMA QuietDeletes ==
  ASSUME TypeOK, NEW p \in Procs, InvAt(p), Quiet(p), DeletedAt(p)
  PROVE  DeletedAt(p)'
<1>1. UNCHANGED <<deleteApp, appGUID, token, reported, apps>> /\ QuietEdge(p, pc'[p], idx'[p])
  BY DEF Quiet
<1>2. pc[p] \in MakesApp => p \notin apps
  BY DEF InvAt, CustodyAt
<1> QED
  BY <1>1, <1>2 DEF DeletedAt, At, QuietEdge, Over, Early, Unlistened, MakesApp, Teardown

\* Without faults the first DELETE fails only for an expired token, and the
\* second, with a fresh one, only if the app is gone.
LEMMA LoudDeletes ==
  ASSUME ~Faults, TypeOK, NEW p \in Procs, InvAt(p), LoudAction(p), DeletedAt(p)
  PROVE  DeletedAt(p)'
<1>t. /\ pc \in [Procs -> PC] /\ appGUID \in [Procs -> Apps \union {NoApp}]
      /\ deleteApp \in [Procs -> BOOLEAN] /\ token \in [Procs -> {"valid", "expired"}]
      /\ reported \in [Procs -> SUBSET {"workDir", "app"}]
      /\ p # NoApp
  BY ProcsAssumption DEF TypeOK, Apps
<1>v. DeleteAt(p) /\ (pc[p] \in MakesApp => p \notin apps)
  BY DEF InvAt, CustodyAt
<1> USE DEF At, Goto, Return, Reject, flags, local, MakesApp, Destroying, Over, DeleteAt, DeletedAt
<1>1. CASE ParseArgs(p)
  BY <1>1, <1>t, <1>v DEF ParseArgs
<1>2. CASE CreateApp(p)
  BY <1>2, <1>t, <1>v DEF CreateApp
<1>3. CASE FindApp(p)
  BY <1>3, <1>t, <1>v DEF FindApp, PrepareForExistingApp, Read
<1>4. CASE FetchEnv(p)
  BY <1>4, <1>t DEF FetchEnv
<1>5. CASE ListenSSH(p)
  BY <1>5, <1>t DEF ListenSSH
<1>6. CASE ListenTLS(p)
  BY <1>6, <1>t DEF ListenTLS
<1>7. CASE StopTunnels(p)
  BY <1>7, <1>t DEF StopTunnels
<1>8. CASE TeardownProviders(p)
  BY <1>8, <1>t, <1>v DEF TeardownProviders
<1>9. CASE Destroy(p)
  <2>0. At(p, "destroy") /\ UNCHANGED <<deleteApp, appGUID, token, reported>>
    BY <1>9 DEF Destroy, DestroyApp, Exits, Refreshes
  <2>1. CASE pc'[p] = "exit" /\ apps' = apps \ {appGUID[p]}
    BY <2>0, <2>1, <1>v
  <2>2. CASE pc'[p] = "refresh" /\ ~AppAnswers(p) /\ apps' = apps
    <3>1. p \in apps => token[p] = "expired"
      BY <2>2, <1>t DEF AppAnswers, Accepted
    <3> QED
      BY <2>0, <2>2, <3>1
  <2> QED
    BY <1>9, <1>t, <2>1, <2>2 DEF Destroy, DestroyApp, Exits, Refreshes, AppMayFail
<1>10. CASE RefreshAccessToken(p)
  <2>0. At(p, "refresh") /\ UNCHANGED <<deleteApp, appGUID, apps>>
    BY <1>10 DEF RefreshAccessToken
  <2>1. CASE pc'[p] = "destroyAgain" /\ token'[p] = "valid"
    BY <2>0, <2>1
  <2>2. CASE CliTokenNewline /\ pc'[p] = "exit" /\ token' = token /\ "app" \in reported'[p]
    BY <2>0, <2>2
  <2> QED
    BY <1>10, <1>t, <2>1, <2>2 DEF RefreshAccessToken, GivesUp, Report
<1>11. CASE DestroyAgain(p)
  <2>1. AppAnswers(p) <=> p \in apps
    BY <1>11, <1>t, <1>v DEF DestroyAgain, AppAnswers, Accepted
  <2>2. p \notin apps'
    BY <1>11, <2>1, <1>v DEF DestroyAgain, DestroyApp, AppMayFail
  <2> QED
    BY <1>11, <2>2, <1>t DEF DestroyAgain, DestroyApp, Exits, GivesUp
<1>12. CASE Exit(p)
  BY <1>12, <1>t DEF Exit
<1>13. CASE Signal(p)
  BY <1>13, <1>t DEF Signal
<1>14. CASE TokenExpire(p)
  BY <1>14, <1>t DEF TokenExpire
<1> QED
  BY <1>1, <1>2, <1>3, <1>4, <1>5, <1>6, <1>7, <1>8, <1>9, <1>10, <1>11, <1>12, <1>13, <1>14
  DEF LoudAction

\* A step keeps it for the invocation that takes it and for the others.
LEMMA NextDeleted ==
  ASSUME ~Faults
  PROVE  IInv /\ Deleted /\ [Next]_vars => Deleted'
<1> SUFFICES ASSUME IInv, Deleted, [Next]_vars PROVE Deleted'
  OBVIOUS
<1>1. ASSUME NEW p \in Procs, QuietAction(p) \/ LoudAction(p), NEW q \in Procs PROVE DeletedAt(q)'
  <2>i. TypeOK /\ InvAt(p) /\ IdxAt(p) /\ DeletedAt(p) /\ DeletedAt(q)
    BY DEF IInv, InvAt, Deleted
  <2>1. CASE q = p
    BY <1>1, <2>1, <2>i, QuietSteps, QuietDeletes, LoudDeletes
  <2>2. CASE q # p
    <3>1. Frame(p)
      BY <1>1, ProcStep
    <3>2. /\ pc'[q] = pc[q] /\ deleteApp'[q] = deleteApp[q] /\ appGUID'[q] = appGUID[q]
          /\ token'[q] = token[q] /\ reported'[q] = reported[q] /\ (q \in apps' <=> q \in apps)
      BY <2>2, <3>1 DEF Frame, Apps
    <3> QED
      BY <2>i, <3>2 DEF DeletedAt, At
  <2> QED
    BY <2>1, <2>2
<1>2. CASE UNCHANGED vars
  BY <1>2 DEF vars, Deleted, DeletedAt, At
<1>3. ~\E a \in Apps : ExternalDelete(a)
  BY DEF ExternalDelete
<1> QED
  BY <1>1, <1>2, <1>3, Cases DEF Deleted

\* As long as only the token fails, the app that conduit created is gone when the
\* command has returned (README.md:71), or the token had expired and could not be
\* renewed for the newline, and the app is named (app.go:219-236).  So the promise
\* is kept whenever the token lasts, and without the newline however often it
\* expires; with both it is not, which the run `newline` shows.
THEOREM AppDeletedWhenClosedCorrect ==
  ASSUME ~Faults
  PROVE  /\ Spec => []AppGoneOrTokenLapsed
         /\ ~(TokenExpires /\ CliTokenNewline) => (Spec => []AppDeletedWhenClosed)
<1>1. Spec => [](IInv /\ Deleted)
  BY InitDeleted, NextDeleted, Invariance, PTL DEF Spec
<1>2. Spec => []AppGoneOrTokenLapsed
  <2>1. IInv /\ Deleted => AppGoneOrTokenLapsed
    BY DEF Deleted, DeletedAt, AppGoneOrTokenLapsed, At, Over
  <2> QED
    BY <1>1, <2>1, PTL
<1>3. ASSUME ~(TokenExpires /\ CliTokenNewline) PROVE Spec => []AppDeletedWhenClosed
  <2>1. IInv /\ Deleted => AppDeletedWhenClosed
    BY <1>3 DEF Deleted, DeletedAt, AppDeletedWhenClosed, At, Over
  <2> QED
    BY <1>1, <2>1, PTL
<1> QED
  BY <1>2, <1>3

-----------------------------------------------------------------------------
(* An invocation is not in its own way.                                    *)

\* A port is a number.
LEMMA PortIsNat ==
  ASSUME NEW o \in Options, NEW i \in DOMAIN o.tls
  PROVE  LocalPort(o, i) \in Nat
<1> DEFINE With == {k \in 1..(i - 1) : o.tls[k]}
<1>1. o.base \in Nat /\ i \in Nat /\ 1 <= i
  BY OptionsAssumption, OptionFacts DEF OptionType
<1>2. IsFiniteSet(1..(i - 1))
  BY <1>1, FS_Interval
<1>3. Cardinality(With) \in Nat
  <2>0. With \in SUBSET (1..(i - 1))
    OBVIOUS
  <2>1. IsFiniteSet(With)
    BY <1>2, <2>0, FS_Subset
  <2> QED
    BY <2>1, FS_CardinalityType
<1>4. LocalPort(o, i) = o.base + (i - 1) + Cardinality(With)
  BY DEF LocalPort
<1> HIDE DEF With
<1> QED
  BY <1>1, <1>3, <1>4

\* The ports of a command line are counted upwards, past the TLS ports too.
LEMMA PortsGrow ==
  ASSUME NEW o \in Options, NEW i \in DOMAIN o.tls, NEW j \in DOMAIN o.tls, i < j
  PROVE  /\ LocalPort(o, i) \in Nat /\ LocalPort(o, j) \in Nat
         /\ LocalPort(o, i) < LocalPort(o, j)
         /\ o.tls[i] => TlsPort(o, i) < LocalPort(o, j)
<1> DEFINE With(n) == {k \in 1..(n - 1) : o.tls[k]}
<1>1. o.base \in Nat /\ i \in Nat /\ j \in Nat /\ 1 <= i
  BY OptionsAssumption, OptionFacts DEF OptionType
<1>2. IsFiniteSet(1..(j - 1))
  BY <1>1, FS_Interval
<1>3. IsFiniteSet(With(j)) /\ Cardinality(With(j)) \in Nat
  <2>1. With(j) \in SUBSET (1..(j - 1))
    OBVIOUS
  <2>2. IsFiniteSet(With(j))
    BY <1>2, <2>1, FS_Subset
  <2> QED
    BY <2>2, FS_CardinalityType
<1>4. With(i) \in SUBSET With(j)
  BY <1>1
<1>5. /\ IsFiniteSet(With(i)) /\ Cardinality(With(i)) \in Nat
      /\ Cardinality(With(i)) <= Cardinality(With(j))
  BY <1>3, <1>4, FS_Subset, FS_CardinalityType
<1>6. ASSUME o.tls[i] PROVE Cardinality(With(i)) + 1 <= Cardinality(With(j))
  <2>1. With(i) \union {i} \in SUBSET With(j) /\ i \notin With(i)
    BY <1>1, <1>6
  <2>2. Cardinality(With(i) \union {i}) = Cardinality(With(i)) + 1
    BY <1>5, <2>1, FS_AddElement
  <2>3. Cardinality(With(i) \union {i}) <= Cardinality(With(j))
    BY <1>3, <2>1, FS_Subset
  <2> QED
    BY <2>2, <2>3
<1>7. /\ LocalPort(o, i) = o.base + (i - 1) + Cardinality(With(i))
      /\ LocalPort(o, j) = o.base + (j - 1) + Cardinality(With(j))
      /\ TlsPort(o, i) = LocalPort(o, i) + 1
  BY DEF LocalPort, TlsPort
<1> HIDE DEF With
<1> QED
  BY <1>1, <1>3, <1>5, <1>6, <1>7

\* No more is held than the two loops have opened so far.
OpenedAt(p) ==
  /\ At(p, "listen") =>
       /\ idx[p] < Len(opt[p].tls)
       /\ \A n \in Held(p) : \E j \in 1..idx[p] : n = LocalPort(opt[p], j)
  /\ At(p, "probe") => tlsPorts[p] = {}
  /\ At(p, "listenTLS") =>
       \A n \in tlsPorts[p] : \E j \in DOMAIN opt[p].tls :
         j <= idx[p] /\ opt[p].tls[j] /\ n = TlsPort(opt[p], j)
  /\ At(p, "probeTLS") =>
       \A n \in tlsPorts[p] : \E j \in DOMAIN opt[p].tls :
         j <= idx[p] + 1 /\ opt[p].tls[j] /\ n = TlsPort(opt[p], j)

Opened == \A p \in Procs : OpenedAt(p)

\* The probes open nothing, and nothing has been opened before the loops.
LEMMA QuietOpens ==
  ASSUME TypeOK, NEW p \in Procs, Quiet(p), OpenedAt(p)
  PROVE  OpenedAt(p)'
<1>1. UNCHANGED <<opt, tlsPorts, ports>> /\ QuietEdge(p, pc'[p], idx'[p])
  BY DEF Quiet
<1>2. Held(p)' = Held(p) /\ idx[p] \in Nat
  BY <1>1 DEF Held, TypeOK
<1> QED
  BY <1>1, <1>2 DEF OpenedAt, At, QuietEdge, Early, Unlistened, MakesApp, Teardown

\* Each turn of a loop opens one port.
LEMMA LoudOpens ==
  ASSUME TypeOK, NEW p \in Procs, InvAt(p), LoudAction(p), OpenedAt(p)
  PROVE  OpenedAt(p)'
<1>t. /\ pc \in [Procs -> PC] /\ idx \in [Procs -> Nat] /\ opt[p] \in Options
      /\ tlsPorts \in [Procs -> SUBSET Ports] /\ ports \in [Ports -> Procs \union {Free}]
  BY DEF TypeOK
<1>o. Len(opt[p].tls) \in Nat \ {0} /\ DOMAIN opt[p].tls = 1..Len(opt[p].tls)
  BY <1>t, OptionFacts
<1>p. PortsAt(p)
  BY DEF InvAt
<1> USE DEF At, Goto, Loop, Return, Reject, flags, local
<1>1. CASE ParseArgs(p)
  BY <1>1, <1>t DEF ParseArgs, OpenedAt
<1>2. CASE CreateApp(p)
  BY <1>2, <1>t DEF CreateApp, OpenedAt
<1>3. CASE FindApp(p)
  BY <1>3, <1>t DEF FindApp, PrepareForExistingApp, Read, OpenedAt
<1>4. CASE FetchEnv(p)
  <2>1. Held(p)' = {}
    BY <1>4, <1>p DEF FetchEnv, PortsAt, Unlistened, Held
  <2> QED
    BY <1>4, <2>1, <1>t, <1>o DEF FetchEnv, OpenedAt
<1>5. CASE ListenSSH(p)
  <2>1. UNCHANGED <<opt, tlsPorts>> /\ tlsPorts[p] = {} /\ pc[p] = "listen"
    BY <1>5, <1>p DEF ListenSSH, PortsAt
  <2>2. CASE pc'[p] # "listen"
    <3>1. pc'[p] \in {"probe", "stop"}
      BY <1>5, <2>2, <1>t DEF ListenSSH
    <3> QED
      BY <2>1, <3>1 DEF OpenedAt
  <2>3. CASE pc'[p] = "listen"
    <3>1. /\ idx[p] + 1 < Len(opt[p].tls) /\ idx'[p] = idx[p] + 1
          /\ Take(p, LocalPort(opt[p], idx[p] + 1))
      BY <1>5, <2>3, <1>t DEF ListenSSH
    <3>2. ASSUME NEW n \in Held(p)' PROVE n \in Held(p) \/ n = LocalPort(opt[p], idx[p] + 1)
      BY <3>1, <3>2, <1>t DEF Take, Held
    <3>3. ASSUME NEW n \in Held(p)' PROVE \E j \in 1..(idx[p] + 1) : n = LocalPort(opt[p], j)
      <4>1. CASE n \in Held(p)
        <5>1. PICK j \in 1..idx[p] : n = LocalPort(opt[p], j)
          BY <2>1, <4>1 DEF OpenedAt
        <5>2. j \in 1..(idx[p] + 1)
          BY <1>t
        <5> QED
          BY <5>1, <5>2
      <4>2. CASE n = LocalPort(opt[p], idx[p] + 1)
        <5>1. idx[p] + 1 \in 1..(idx[p] + 1)
          BY <1>t
        <5> QED
          BY <4>2, <5>1
      <4> QED
        BY <3>2, <3>3, <4>1, <4>2
    <3>4. \A n \in Held(p)' : \E j \in 1..idx'[p] : n = LocalPort(opt'[p], j)
      BY <2>1, <3>1, <3>3
    <3> QED
      BY <2>1, <2>3, <3>1, <3>4 DEF OpenedAt
  <2> QED
    BY <2>2, <2>3
<1>6. CASE ListenTLS(p)
  <2>1. opt' = opt /\ pc[p] = "listenTLS" /\ idx[p] \in Nat
    BY <1>6, <1>t DEF ListenTLS
  <2>2. ASSUME NEW n \in tlsPorts[p]
        PROVE  \E j \in DOMAIN opt[p].tls : j <= idx[p] /\ opt[p].tls[j] /\ n = TlsPort(opt[p], j)
    BY <2>1, <2>2 DEF OpenedAt
  <2>3. CASE pc'[p] \in {"run", "wait", "stop"}
    BY <2>3 DEF OpenedAt
  <2>4. CASE pc'[p] = "listenTLS" /\ idx'[p] = idx[p] + 1 /\ tlsPorts' = tlsPorts
    <3>1. ASSUME NEW n \in tlsPorts[p]
          PROVE  \E j \in DOMAIN opt[p].tls : j <= idx[p] + 1 /\ opt[p].tls[j] /\ n = TlsPort(opt[p], j)
      BY <2>1, <2>2, <3>1, <1>o
    <3> QED
      BY <2>1, <2>4, <3>1 DEF OpenedAt
  <2>5. CASE /\ pc'[p] = "probeTLS" /\ idx' = idx
             /\ idx[p] + 1 \in DOMAIN opt[p].tls /\ opt[p].tls[idx[p] + 1]
             /\ tlsPorts'[p] = tlsPorts[p] \union {TlsPort(opt[p], idx[p] + 1)}
    <3>1. ASSUME NEW n \in tlsPorts'[p]
          PROVE  \E j \in DOMAIN opt[p].tls : j <= idx[p] + 1 /\ opt[p].tls[j] /\ n = TlsPort(opt[p], j)
      <4>1. CASE n \in tlsPorts[p]
        BY <2>1, <2>2, <4>1, <1>o
      <4>2. CASE n = TlsPort(opt[p], idx[p] + 1)
        BY <2>1, <2>5, <4>2
      <4> QED
        BY <2>5, <3>1, <4>1, <4>2
    <3> QED
      BY <2>1, <2>5, <3>1 DEF OpenedAt
  <2>6. \/ pc'[p] \in {"run", "wait", "stop"}
        \/ pc'[p] = "listenTLS" /\ idx'[p] = idx[p] + 1 /\ tlsPorts' = tlsPorts
        \/ /\ pc'[p] = "probeTLS" /\ idx' = idx
           /\ idx[p] + 1 \in DOMAIN opt[p].tls /\ opt[p].tls[idx[p] + 1]
           /\ tlsPorts'[p] = tlsPorts[p] \union {TlsPort(opt[p], idx[p] + 1)}
    BY <1>6, <1>t, <1>o DEF ListenTLS
  <2> QED
    BY <2>3, <2>4, <2>5, <2>6
<1>7. CASE StopTunnels(p)
  BY <1>7, <1>t DEF StopTunnels, OpenedAt
<1>8. CASE TeardownProviders(p)
  BY <1>8, <1>t DEF TeardownProviders, OpenedAt
<1>9. CASE Destroy(p)
  BY <1>9, <1>t DEF Destroy, DestroyApp, Exits, Refreshes, OpenedAt
<1>10. CASE RefreshAccessToken(p)
  BY <1>10, <1>t DEF RefreshAccessToken, GivesUp, OpenedAt
<1>11. CASE DestroyAgain(p)
  BY <1>11, <1>t DEF DestroyAgain, DestroyApp, Exits, GivesUp, OpenedAt
<1>12. CASE Exit(p)
  BY <1>12, <1>t DEF Exit, OpenedAt
<1>13. CASE Signal(p) \/ TokenExpire(p)
  BY <1>13 DEF Signal, TokenExpire, OpenedAt, Held
<1> QED
  BY <1>1, <1>2, <1>3, <1>4, <1>5, <1>6, <1>7, <1>8, <1>9, <1>10, <1>11, <1>12, <1>13
  DEF LoudAction

\* A step keeps it for the invocation that takes it and for the others.
LEMMA NextOpened == IInv /\ Opened /\ [Next]_vars => Opened'
<1> SUFFICES ASSUME IInv, Opened, [Next]_vars PROVE Opened'
  OBVIOUS
<1>1. ASSUME NEW p \in Procs, QuietAction(p) \/ LoudAction(p), NEW q \in Procs PROVE OpenedAt(q)'
  <2>i. TypeOK /\ InvAt(p) /\ IdxAt(p) /\ OpenedAt(p) /\ OpenedAt(q)
    BY DEF IInv, InvAt, Opened
  <2>1. CASE q = p
    BY <1>1, <2>1, <2>i, QuietSteps, QuietOpens, LoudOpens
  <2>2. CASE q # p
    <3>1. Frame(p)
      BY <1>1, ProcStep
    <3>2. /\ opt' = opt /\ pc'[q] = pc[q] /\ idx'[q] = idx[q] /\ tlsPorts'[q] = tlsPorts[q]
          /\ \A n \in Ports : ports'[n] = q <=> ports[n] = q
      BY <2>2, <3>1 DEF Frame
    <3>3. Held(q)' = Held(q)
      BY <3>2 DEF Held
    <3> QED
      BY <2>i, <3>2, <3>3 DEF OpenedAt, At
  <2> QED
    BY <2>1, <2>2
<1>2. CASE UNCHANGED vars
  BY <1>2 DEF vars, Opened, OpenedAt, At, Held
<1>3. ASSUME NEW a \in Apps, ExternalDelete(a) PROVE Opened'
  BY <1>3 DEF ExternalDelete, flags, local, Opened, OpenedAt, At, Held
<1> QED
  BY <1>1, <1>2, <1>3, Cases DEF Opened

\* Whatever services a command line names, and whichever of them get a TLS tunnel,
\* net.Listen never fails for a port of conduit's own (app.go:335-355, :447-501).
THEOREM NeverOwnPortCorrect == Spec => []NeverOwnPort
<1>1. Init => Opened
  BY DEF Init, Opened, OpenedAt, At
<1>2. IInv /\ Opened => NeverOwnPort
  <2> SUFFICES ASSUME IInv, Opened, NEW p \in Procs
               PROVE  /\ At(p, "listen") => ports[LocalPort(opt[p], idx[p] + 1)] # p
                      /\ At(p, "listenTLS") /\ idx[p] + 1 \in DOMAIN opt[p].tls
                            /\ opt[p].tls[idx[p] + 1]
                           => ports[TlsPort(opt[p], idx[p] + 1)] # p
    BY DEF NeverOwnPort
  <2>t. opt[p] \in Options /\ idx[p] \in Nat /\ PortsAt(p) /\ OpenedAt(p)
    BY DEF IInv, TypeOK, InvAt, Opened
  <2>o. /\ Len(opt[p].tls) \in Nat /\ DOMAIN opt[p].tls = 1..Len(opt[p].tls)
        /\ LocalPorts(opt[p]) \subseteq Ports /\ TlsPorts(opt[p]) \subseteq Ports
        /\ \A i \in DOMAIN opt[p].tls : LocalPort(opt[p], i) \in LocalPorts(opt[p])
        /\ \A i \in DOMAIN opt[p].tls : opt[p].tls[i] => TlsPort(opt[p], i) \in TlsPorts(opt[p])
    BY <2>t, OptionFacts
  <2>1. ASSUME At(p, "listen"), ports[LocalPort(opt[p], idx[p] + 1)] = p PROVE FALSE
    <3>1. idx[p] + 1 \in DOMAIN opt[p].tls
      BY <2>1, <2>t, <2>o DEF OpenedAt
    <3>2. LocalPort(opt[p], idx[p] + 1) \in Held(p)
      BY <2>1, <2>o, <3>1 DEF Held
    <3>3. PICK j \in 1..idx[p] : LocalPort(opt[p], idx[p] + 1) = LocalPort(opt[p], j)
      BY <2>1, <2>t, <3>2 DEF OpenedAt
    <3>4. j \in DOMAIN opt[p].tls /\ j < idx[p] + 1
      BY <2>t, <2>o, <3>1
    <3>5. LocalPort(opt[p], j) \in Nat /\ LocalPort(opt[p], j) < LocalPort(opt[p], idx[p] + 1)
      BY <2>t, <3>1, <3>4, PortsGrow
    <3> QED
      BY <3>3, <3>5
  <2>2. ASSUME At(p, "listenTLS"), idx[p] + 1 \in DOMAIN opt[p].tls, opt[p].tls[idx[p] + 1],
               ports[TlsPort(opt[p], idx[p] + 1)] = p
        PROVE  FALSE
    <3>0. PICK i \in DOMAIN opt[p].tls : i = idx[p] + 1 /\ i \in Nat
      BY <2>2, <2>t
    <3>1. TlsPort(opt[p], i) \in Held(p) /\ opt[p].tls[i]
      BY <2>2, <2>o, <3>0 DEF Held
    <3>2. TlsPort(opt[p], i) = LocalPort(opt[p], i) + 1
      BY DEF TlsPort
    <3>3. CASE TlsPort(opt[p], i) \in LocalPorts(opt[p])
      <4>1. PICK k \in DOMAIN opt[p].tls : TlsPort(opt[p], i) = LocalPort(opt[p], k)
        BY <3>3 DEF LocalPorts
      <4>2. k \in Nat
        BY <2>o
      <4>3. CASE k < i
        <5>1. LocalPort(opt[p], k) < LocalPort(opt[p], i) /\ LocalPort(opt[p], i) \in Nat
              /\ LocalPort(opt[p], k) \in Nat
          BY <2>t, <4>3, PortsGrow
        <5> QED
          BY <3>2, <4>1, <5>1
      <4>4. CASE i < k
        <5>1. TlsPort(opt[p], i) < LocalPort(opt[p], k) /\ LocalPort(opt[p], k) \in Nat
          BY <2>t, <3>1, <4>4, PortsGrow
        <5> QED
          BY <4>1, <5>1
      <4>5. CASE k = i
        <5>1. LocalPort(opt[p], i) \in Nat
          BY <2>t, PortIsNat
        <5> QED
          BY <3>2, <4>1, <4>5, <5>1
      <4> QED
        BY <3>0, <4>2, <4>3, <4>4, <4>5
    <3>4. CASE TlsPort(opt[p], i) \in tlsPorts[p]
      <4>1. PICK j \in DOMAIN opt[p].tls : j <= idx[p] /\ opt[p].tls[j]
                                           /\ TlsPort(opt[p], i) = TlsPort(opt[p], j)
        BY <2>2, <2>t, <3>4 DEF OpenedAt
      <4>2. j < i
        BY <2>t, <2>o, <3>0, <4>1
      <4>3. /\ LocalPort(opt[p], j) < LocalPort(opt[p], i)
            /\ LocalPort(opt[p], i) \in Nat /\ LocalPort(opt[p], j) \in Nat
        BY <2>t, <4>2, PortsGrow
      <4>4. TlsPort(opt[p], j) = LocalPort(opt[p], j) + 1
        BY DEF TlsPort
      <4> QED
        BY <3>2, <4>1, <4>3, <4>4
    <3> QED
      BY <2>2, <2>t, <3>1, <3>3, <3>4 DEF PortsAt
  <2> QED
    BY <2>1, <2>2
<1> QED
  BY <1>1, <1>2, NextOpened, Invariance, PTL DEF Spec

-----------------------------------------------------------------------------
(* The course of a command has an end.                                     *)

\* What a step of the main goroutine does to its place: it goes to a later one,
\* or takes the next turn of a loop, or enters the TLS tunnel's probe.
Advances(p) ==
  /\ opt' = opt
  /\ \/ Ahead(pc'[p]) < Ahead(pc[p])
     \/ /\ Ahead(pc'[p]) = Ahead(pc[p]) /\ idx'[p] = idx[p] + 1
     \/ pc[p] = "listenTLS" /\ pc'[p] = "probeTLS" /\ idx'[p] = idx[p]

\* The places ahead are a number.
LEMMA AheadType == \A l \in PC : Ahead(l) \in Nat
  BY Labels DEF Ahead

\* Every step of the main goroutine is such a step.
LEMMA AdvanceStep ==
  ASSUME TypeOK, NEW p \in Procs, Main(p) \/ CommandExits(p)
  PROVE  Advances(p)
<1>t. pc \in [Procs -> PC] /\ idx \in [Procs -> Nat]
  BY DEF TypeOK
<1> USE DEF Advances, Ahead, At, Goto, Loop, Return, Reject, flags
<1>1. CASE GetDefaults(p)
  BY <1>1, <1>t DEF GetDefaults
<1>2. CASE ParseArgs(p)
  BY <1>2, <1>t DEF ParseArgs
<1>3. CASE Connect(p)
  BY <1>3, <1>t DEF Connect
<1>4. CASE AppInit(p)
  BY <1>4, <1>t DEF AppInit, Read
<1>5. CASE CreateApp(p)
  BY <1>5, <1>t DEF CreateApp
<1>6. CASE UploadStaticAppBits(p)
  BY <1>6, <1>t DEF UploadStaticAppBits, Read
<1>7. CASE StartApp(p)
  BY <1>7, <1>t DEF StartApp, Read
<1>8. CASE PollForAppState(p)
  BY <1>8, <1>t DEF PollForAppState, Read
<1>9. CASE BindServices(p)
  BY <1>9, <1>t DEF BindServices, Read
<1>10. CASE PrepareForExistingApp(p)
  BY <1>10, <1>t DEF PrepareForExistingApp, Read
<1>11. CASE FetchEnv(p)
  BY <1>11, <1>t DEF FetchEnv
<1>12. CASE ListenSSH(p)
  BY <1>12, <1>t DEF ListenSSH
<1>13. CASE ProbeSSH(p)
  BY <1>13, <1>t DEF ProbeSSH
<1>14. CASE ListenTLS(p)
  BY <1>14, <1>t DEF ListenTLS
<1>15. CASE ProbeTLS(p)
  BY <1>15, <1>t DEF ProbeTLS
<1>16. CASE RunCommand(p) \/ WaitForShutdown(p) \/ CommandExits(p)
  BY <1>16, <1>t DEF RunCommand, WaitForShutdown, CommandExits
<1>17. CASE StopTunnels(p)
  BY <1>17, <1>t DEF StopTunnels
<1>18. CASE TeardownProviders(p)
  BY <1>18, <1>t DEF TeardownProviders
<1>19. CASE Destroy(p)
  BY <1>19, <1>t DEF Destroy, DestroyApp, Exits, Refreshes
<1>20. CASE RefreshAccessToken(p)
  BY <1>20, <1>t DEF RefreshAccessToken, GivesUp
<1>21. CASE DestroyAgain(p)
  BY <1>21, <1>t DEF DestroyAgain, DestroyApp, Exits, GivesUp
<1>22. CASE Exit(p)
  BY <1>22, <1>t DEF Exit
<1> QED
  BY <1>1, <1>2, <1>3, <1>4, <1>5, <1>6, <1>7, <1>8, <1>9, <1>10, <1>11, <1>12, <1>13, <1>14,
     <1>15, <1>16, <1>17, <1>18, <1>19, <1>20, <1>21, <1>22
  DEF Main, SetupStep, TeardownStep

\* A place less outweighs all turns of a loop.
LEMMA PlaceOutweighs ==
  ASSUME NEW t \in Nat, NEW h \in Nat, NEW k \in Nat, k < h
  PROVE  k * (2 * t + 2) + (2 * t + 2) <= h * (2 * t + 2)
<1>1. PICK d \in Nat : h = k + 1 + d
  <2>1. h - k - 1 \in Nat /\ h = k + 1 + (h - k - 1)
    OBVIOUS
  <2> QED
    BY <2>1
<1>2. (k + 1 + d) * (2 * t + 2) = k * (2 * t + 2) + (2 * t + 2) + d * (2 * t + 2)
  OBVIOUS
<1>3. d * (2 * t + 2) >= 0
  OBVIOUS
<1>4. k * (2 * t + 2) \in Nat
  OBVIOUS
<1> QED
  BY <1>1, <1>2, <1>3, <1>4

\* The turns suffice for every index, and so what is left is a number.
LeftIsNat ==
  \A p \in Procs : /\ Turns(p) \in Nat /\ idx[p] \in Nat /\ idx[p] <= Turns(p)
                   /\ Ahead(pc[p]) \in Nat /\ Left(p) \in Nat

LEMMA LeftType == TypeOK => LeftIsNat
<1> SUFFICES ASSUME TypeOK, NEW p \in Procs
             PROVE  /\ Turns(p) \in Nat /\ idx[p] \in Nat /\ idx[p] <= Turns(p)
                    /\ Ahead(pc[p]) \in Nat /\ Left(p) \in Nat
  BY DEF LeftIsNat
<1>1. /\ Len(opt[p].tls) \in Nat /\ MaxPollRetries \in Nat /\ idx[p] \in Nat
      /\ idx[p] <= Len(opt[p].tls) \/ idx[p] <= MaxPollRetries + 1
  BY OptionFacts, PollAssumption DEF TypeOK
<1>2. Turns(p) \in Nat /\ idx[p] <= Turns(p)
  BY <1>1 DEF Turns
<1>3. Ahead(pc[p]) \in Nat
  BY AheadType DEF TypeOK
<1>4. Ahead(pc[p]) * (2 * Turns(p) + 2) \in Nat
  BY <1>2, <1>3
<1> QED
  BY <1>1, <1>2, <1>3, <1>4 DEF Left

\* And stays one after a step.
LEMMA LeftTypeNext == TypeOK' => LeftIsNat'
  BY LeftType, PTL

\* So an advance leaves less.
LEMMA AdvanceLeaves ==
  ASSUME TypeOK, TypeOK', NEW p \in Procs, Advances(p)
  PROVE  Left(p)' < Left(p)
<1>1. PICK t \in Nat, i \in Nat, j \in Nat, h \in Nat, k \in Nat :
        /\ t = Turns(p) /\ i = idx[p] /\ j = idx'[p] /\ i <= t /\ j <= t
        /\ h = Ahead(pc[p]) /\ k = Ahead(pc'[p])
  <2>1. Turns(p)' = Turns(p)
    BY DEF Advances, Turns
  <2>2. /\ Turns(p) \in Nat /\ idx[p] \in Nat /\ idx[p] <= Turns(p) /\ Ahead(pc[p]) \in Nat
    BY LeftType DEF LeftIsNat
  <2>3. /\ idx'[p] \in Nat /\ idx'[p] <= Turns(p)' /\ Ahead(pc'[p]) \in Nat
    BY LeftTypeNext DEF LeftIsNat
  <2> QED
    BY <2>1, <2>2, <2>3
<1>2. PICK m \in Nat : m = 2 * t + 2
  OBVIOUS
<1>3. PICK a \in Nat, b \in Nat : a = h * m /\ b = k * m
  OBVIOUS
<1>4. PICK u \in {0, 1}, v \in {0, 1} :
        /\ Left(p) = a + 2 * (t - i) + u /\ Left(p)' = b + 2 * (t - j) + v
        /\ pc[p] = "listenTLS" => u = 1
        /\ pc'[p] = "probeTLS" => v = 0
  BY <1>1, <1>2, <1>3 DEF Left, At, Advances, Turns
<1>5. CASE k < h
  <2>1. b + m <= a
    BY <1>2, <1>3, <1>5, PlaceOutweighs
  <2> QED
    BY <1>1, <1>2, <1>4, <2>1
<1>6. CASE k = h /\ j = i + 1
  BY <1>1, <1>3, <1>4, <1>6
<1>7. CASE pc[p] = "listenTLS" /\ pc'[p] = "probeTLS" /\ j = i
  <2>1. h = k
    BY <1>1, <1>7 DEF Ahead
  <2> QED
    BY <1>1, <1>3, <1>4, <1>7, <2>1
<1> QED
  BY <1>1, <1>5, <1>6, <1>7 DEF Advances

\* Nobody else moves a main goroutine.
LEMMA OthersWait ==
  ASSUME IInv, [Next]_vars, NEW p \in Procs, ~(Main(p) \/ CommandExits(p))
  PROVE  UNCHANGED <<opt, pc[p], idx[p]>>
<1>1. ASSUME NEW q \in Procs, q # p, QuietAction(q) \/ LoudAction(q)
      PROVE  UNCHANGED <<opt, pc[p], idx[p]>>
  <2>1. Frame(q)
    BY <1>1, ProcStep
  <2> QED
    BY <1>1, <2>1 DEF Frame
<1>2. CASE Signal(p) \/ TokenExpire(p)
  BY <1>2 DEF Signal, TokenExpire, flags
<1>3. ASSUME NEW a \in Apps, ExternalDelete(a) PROVE UNCHANGED <<opt, pc[p], idx[p]>>
  BY <1>3 DEF ExternalDelete, flags
<1>4. CASE UNCHANGED vars
  BY <1>4 DEF vars
<1>5. QuietAction(p) \/ LoudAction(p) => Main(p) \/ CommandExits(p) \/ Signal(p) \/ TokenExpire(p)
  BY DEF QuietAction, LoudAction, FindApp, Main, SetupStep, TeardownStep
<1> QED
  BY <1>1, <1>2, <1>3, <1>4, <1>5, Cases

\* For any services, any bound of the poll and any faults, a command has at most
\* Left steps to go, and each step of its main goroutine makes it fewer: what is
\* safe of ShutdownExits (conduit.go:117-158).
THEOREM ProgressesCorrect == Spec => Progresses /\ [](\A p \in Procs : Left(p) \in Nat)
<1>1. IInv /\ IInv' /\ [Next]_vars
        => \A p \in Procs : /\ Main(p) \/ CommandExits(p) => Left(p)' < Left(p)
                            /\ Left(p)' <= Left(p)
  <2> SUFFICES ASSUME IInv, IInv', [Next]_vars, NEW p \in Procs
               PROVE  /\ Main(p) \/ CommandExits(p) => Left(p)' < Left(p)
                      /\ Left(p)' <= Left(p)
    OBVIOUS
  <2>t. TypeOK /\ TypeOK' /\ Left(p) \in Nat /\ Left(p)' \in Nat
    <3>1. TypeOK /\ TypeOK'
      BY DEF IInv
    <3>2. Left(p) \in Nat
      BY <3>1, LeftType DEF LeftIsNat
    <3>3. Left(p)' \in Nat
      BY <3>1, LeftTypeNext DEF LeftIsNat
    <3> QED
      BY <3>1, <3>2, <3>3
  <2>1. CASE Main(p) \/ CommandExits(p)
    <3>1. Left(p)' < Left(p)
      BY <2>1, <2>t, AdvanceStep, AdvanceLeaves
    <3> QED
      BY <2>t, <3>1
  <2>2. CASE ~(Main(p) \/ CommandExits(p))
    <3>1. Left(p)' = Left(p)
      BY <2>2, OthersWait DEF Left, Turns, At
    <3> QED
      BY <2>2, <2>t, <3>1
  <2> QED
    BY <2>1, <2>2
<1>2. IInv => \A p \in Procs : Left(p) \in Nat
  BY LeftType DEF IInv, LeftIsNat
<1>3. Spec => []IInv
  BY Invariance
<1>4. IInv /\ IInv' /\ [Next]_vars
        => [\A p \in Procs : /\ Main(p) \/ CommandExits(p) => Left(p)' < Left(p)
                             /\ Left(p)' <= Left(p)]_vars
  BY <1>1
<1> QED
  BY <1>2, <1>3, <1>4, PTL DEF Spec, Progresses

-----------------------------------------------------------------------------
(* ConduitApp implements AppCustody: every step of p is a step of the      *)
(* custody of p's app, or leaves it alone.                                 *)

AppState(p) == IF p \in apps THEN "live" ELSE IF pc[p] \in MakesApp THEN "none" ELSE "gone"
Told(p)     == result[p] = "error" \/ "app" \in reported[p]

\* What a step of p does to the custody of p's app.
Effect(p) ==
  \/ /\ AppState(p)' = AppState(p) /\ Told(p)' = Told(p)
     /\ pc[p] = "exited" <=> pc'[p] = "exited"
  \/ /\ pc[p] # "exited" /\ pc'[p] # "exited" /\ (Told(p) => Told(p)')
     /\ \/ AppState(p) = "none" /\ AppState(p)' = "live" /\ ~opt[p].existing
        \/ AppState(p) = "none" /\ AppState(p)' = "gone"
        \/ AppState(p) = "live" /\ AppState(p)' = "gone" /\ ~opt[p].existing /\ ~opt[p].noDelete
        \/ AppState(p) # "none" /\ AppState(p)' = AppState(p) /\ Told(p)'
  \/ /\ pc[p] # "exited" /\ pc'[p] = "exited"
     /\ AppState(p) # "none" /\ AppState(p)' = AppState(p) /\ Told(p)' = Told(p)
     /\ AppState(p) = "live" /\ ~opt[p].existing /\ ~opt[p].noDelete => Told(p)

LEMMA QuietEffect ==
  ASSUME TypeOK, NEW p \in Procs, InvAt(p), Quiet(p)
  PROVE  Effect(p)
  BY DEF Quiet, InvAt, CustodyAt, Effect, AppState, Told, QuietEdge, Early, Unlistened,
         MakesApp, Teardown

LEMMA LoudEffect ==
  ASSUME TypeOK, NEW p \in Procs, InvAt(p), LoudAction(p)
  PROVE  Effect(p)
<1>t. /\ pc \in [Procs -> PC] /\ appGUID \in [Procs -> Apps \union {NoApp}]
      /\ reported \in [Procs -> SUBSET {"workDir", "app"}] /\ result \in [Procs -> Results]
      /\ p # NoApp
  BY ProcsAssumption DEF TypeOK, Results, Apps
<1>v. DeleteAt(p) /\ CustodyAt(p)
  BY DEF InvAt
<1> USE DEF At, Goto, Return, Reject, flags, local, MakesApp, Teardown, Destroying, Over,
            DeleteAt, CustodyAt, Effect, AppState, Told
<1>1. CASE ParseArgs(p)
  BY <1>1, <1>t, <1>v DEF ParseArgs
<1>2. CASE CreateApp(p)
  BY <1>2, <1>t, <1>v DEF CreateApp
<1>3. CASE FindApp(p)
  BY <1>3, <1>t, <1>v DEF FindApp, PrepareForExistingApp, Read
<1>4. CASE FetchEnv(p)
  BY <1>4, <1>t, <1>v DEF FetchEnv
<1>5. CASE ListenSSH(p)
  BY <1>5, <1>t, <1>v DEF ListenSSH
<1>6. CASE ListenTLS(p)
  BY <1>6, <1>t, <1>v DEF ListenTLS
<1>7. CASE StopTunnels(p)
  BY <1>7, <1>t, <1>v DEF StopTunnels
<1>8. CASE TeardownProviders(p)
  BY <1>8, <1>t, <1>v DEF TeardownProviders, Report
<1>9. CASE Destroy(p)
  BY <1>9, <1>t, <1>v DEF Destroy, DestroyApp, Exits, Refreshes
<1>10. CASE RefreshAccessToken(p)
  BY <1>10, <1>t, <1>v DEF RefreshAccessToken, GivesUp, Report
<1>11. CASE DestroyAgain(p)
  BY <1>11, <1>t, <1>v DEF DestroyAgain, DestroyApp, Exits, GivesUp, Report
<1>12. CASE Exit(p)
  BY <1>12, <1>t, <1>v DEF Exit
<1>13. CASE Signal(p)
  BY <1>13, <1>t, <1>v DEF Signal
<1>14. CASE TokenExpire(p)
  BY <1>14, <1>t, <1>v DEF TokenExpire
<1> QED
  BY <1>1, <1>2, <1>3, <1>4, <1>5, <1>6, <1>7, <1>8, <1>9, <1>10, <1>11, <1>12, <1>13, <1>14
  DEF LoudAction

LEMMA CustodyInit == Init => Custody!Init
<1> SUFFICES ASSUME Init PROVE Custody!Init
  OBVIOUS
<1>1. \A p \in Procs : p \notin apps /\ pc[p] \in MakesApp /\ ~Told(p) /\ ~At(p, "exited")
  BY ProcsAssumption DEF Init, MakesApp, Told, At
<1>2. apps \intersect OtherApps = OtherApps
  BY DEF Init
<1> QED
  BY <1>1, <1>2 DEF Custody!Init, Told

LEMMA CustodyProcStep ==
  ASSUME NEW p \in Procs, Frame(p), Effect(p)
  PROVE  Custody!Next \/ UNCHANGED Custody!vars
<1> DEFINE kind == [q \in Procs |-> IF opt[q].existing THEN "existing"
                                    ELSE IF opt[q].noDelete THEN "kept" ELSE "temporary"]
           app  == [q \in Procs |-> AppState(q)]
           told == {q \in Procs : Told(q)}
           open == {q \in Procs : ~At(q, "exited")}
           others == apps \intersect OtherApps
<1>1. kind' = kind /\ others' = others
  BY ProcsAssumption DEF Frame, Apps
<1>2. app' = [app EXCEPT ![p] = AppState(p)']
  <2>1. ASSUME NEW q \in Procs \ {p} PROVE AppState(q)' = AppState(q)
    BY DEF Frame, AppState, Apps
  <2> HIDE DEF AppState
  <2> QED
    BY <2>1
<1>3. told' \ {p} = told \ {p} /\ (p \in told <=> Told(p)) /\ (p \in told' <=> Told(p)')
  BY DEF Frame, Told
<1>4. open' \ {p} = open \ {p} /\ (p \in open <=> pc[p] # "exited") /\ (p \in open' <=> pc'[p] # "exited")
  BY DEF Frame, At
<1>5. app[p] = AppState(p) /\ app \in [Procs -> {"none", "live", "gone"}]
  BY DEF AppState
<1>6. /\ kind[p] = "existing" => opt[p].existing
      /\ kind[p] = "temporary" <=> ~opt[p].existing /\ ~opt[p].noDelete
  OBVIOUS
<1>7. CASE /\ AppState(p)' = AppState(p) /\ Told(p)' = Told(p)
           /\ pc[p] = "exited" <=> pc'[p] = "exited"
  <2>1. app' = app
    BY <1>2, <1>5, <1>7
  <2>2. told' = told /\ open' = open
    BY <1>3, <1>4, <1>7
  <2> QED
    BY <1>1, <2>1, <2>2 DEF Custody!vars, AppState, Told
<1>8. CASE /\ pc[p] # "exited" /\ pc'[p] # "exited" /\ (Told(p) => Told(p)')
           /\ \/ AppState(p) = "none" /\ AppState(p)' = "live" /\ ~opt[p].existing
              \/ AppState(p) = "none" /\ AppState(p)' = "gone"
              \/ AppState(p) = "live" /\ AppState(p)' = "gone" /\ ~opt[p].existing /\ ~opt[p].noDelete
              \/ AppState(p) # "none" /\ AppState(p)' = AppState(p) /\ Told(p)'
  <2>1. open' = open /\ p \in open
    BY <1>4, <1>8
  <2>2. told' = told \/ told' = told \union {p}
    BY <1>3, <1>8
  <2>3. CASE AppState(p) = "none" /\ AppState(p)' = "live" /\ ~opt[p].existing
    <3>1. Custody!Create(p)
      BY <1>1, <1>2, <1>5, <1>6, <2>1, <2>2, <2>3
      DEF Custody!Create, Custody!Becomes, Custody!MayTell, Custody!Tell, AppState, Told
    <3> QED
      BY <3>1 DEF Custody!Next
  <2>4. CASE AppState(p) = "none" /\ AppState(p)' = "gone"
    <3>1. Custody!Renounce(p)
      BY <1>1, <1>2, <1>5, <2>1, <2>2, <2>4
      DEF Custody!Renounce, Custody!Becomes, Custody!MayTell, Custody!Tell, AppState, Told
    <3> QED
      BY <3>1 DEF Custody!Next
  <2>5. CASE AppState(p) = "live" /\ AppState(p)' = "gone" /\ ~opt[p].existing /\ ~opt[p].noDelete
    <3>1. Custody!Delete(p)
      BY <1>1, <1>2, <1>5, <1>6, <2>1, <2>2, <2>5
      DEF Custody!Delete, Custody!Becomes, Custody!MayTell, Custody!Tell, AppState, Told
    <3> QED
      BY <3>1 DEF Custody!Next
  <2>6. CASE AppState(p) # "none" /\ AppState(p)' = AppState(p) /\ Told(p)'
    <3>1. told' = told \union {p} /\ app' = app
      BY <1>2, <1>3, <1>5, <2>6
    <3>2. Custody!Report(p)
      BY <1>1, <1>5, <2>1, <2>6, <3>1 DEF Custody!Report, Custody!Tell, AppState, Told
    <3> QED
      BY <3>2 DEF Custody!Next
  <2> QED
    BY <1>8, <2>3, <2>4, <2>5, <2>6
<1>9. CASE /\ pc[p] # "exited" /\ pc'[p] = "exited"
           /\ AppState(p) # "none" /\ AppState(p)' = AppState(p) /\ Told(p)' = Told(p)
           /\ AppState(p) = "live" /\ ~opt[p].existing /\ ~opt[p].noDelete => Told(p)
  <2>1. open' = open \ {p} /\ p \in open /\ told' = told /\ app' = app
    BY <1>2, <1>3, <1>4, <1>5, <1>9
  <2>2. Custody!Close(p)
    BY <1>1, <1>3, <1>5, <1>6, <1>9, <2>1 DEF Custody!Close, AppState, Told
  <2> QED
    BY <2>2 DEF Custody!Next
<1> QED
  BY <1>7, <1>8, <1>9 DEF Effect

LEMMA CustodyOutsideStep ==
  ASSUME IInv, NEW a \in Apps, ExternalDelete(a)
  PROVE  Custody!Next
<1> DEFINE app == [q \in Procs |-> AppState(q)]
           others == apps \intersect OtherApps
<1>1. /\ Faults /\ a \in apps /\ apps' = apps \ {a}
      /\ UNCHANGED <<opt, pc, result, reported>>
  BY DEF ExternalDelete, flags
<1>2. CASE a \in Procs
  <2>1. pc[a] \notin MakesApp
    BY <1>1, <1>2 DEF IInv, InvAt, CustodyAt
  <2>2. app' = [app EXCEPT ![a] = "gone"] /\ app[a] = "live"
    BY <1>1, <1>2, <2>1 DEF AppState
  <2>3. others' = others
    BY <1>1, <1>2, ProcsAssumption
  <2> QED
    BY <1>1, <1>2, <2>2, <2>3 DEF Custody!Next, Custody!Outsider, Custody!Becomes, AppState, At
<1>3. CASE a \in OtherApps
  <2>1. app' = app
    BY <1>1, <1>3, ProcsAssumption DEF AppState
  <2>2. a \in others /\ others' = others \ {a}
    BY <1>1, <1>3
  <2> QED
    BY <1>1, <2>1, <2>2 DEF Custody!Next, Custody!Outsider, AppState, At
<1> QED
  BY <1>2, <1>3 DEF Apps

\* Whatever fails and whoever interferes, conduit keeps the custody of its app
\* (README.md:69-75): every behaviour of ConduitApp is one of AppCustody.
THEOREM KeepsCustodyCorrect == Spec => KeepsCustody
<1>1. IInv /\ [Next]_vars => [Custody!Next]_(Custody!vars)
  <2> SUFFICES ASSUME IInv, [Next]_vars PROVE Custody!Next \/ UNCHANGED Custody!vars
    BY DEF Custody!vars
  <2>1. CASE UNCHANGED vars
    BY <2>1 DEF vars, Custody!vars, At
  <2>2. ASSUME NEW p \in Procs, QuietAction(p) \/ LoudAction(p)
        PROVE  Custody!Next \/ UNCHANGED Custody!vars
    <3>1. TypeOK /\ InvAt(p) /\ IdxAt(p)
      BY DEF IInv, InvAt
    <3>2. Effect(p)
      BY <2>2, <3>1, QuietSteps, QuietEffect, LoudEffect
    <3> QED
      BY <2>2, <3>2, ProcStep, CustodyProcStep
  <2>3. ASSUME NEW a \in Apps, ExternalDelete(a)
        PROVE  Custody!Next
    BY <2>3, CustodyOutsideStep
  <2> QED
    BY <2>1, <2>2, <2>3, Cases
<1> QED
  BY <1>1, CustodyInit, Invariance, PTL DEF Spec, KeepsCustody, Custody!Spec
=============================================================================
