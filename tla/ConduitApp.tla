----------------------------- MODULE ConduitApp -----------------------------
(***************************************************************************)
(* The life of `cf conduit`: the cobra command of conduit.go, the App of   *)
(* conduit/app.go that it drives, and the Cloud Foundry client they call.  *)
(* Several invocations run at once on one workstation and target one       *)
(* space: they compete for local TCP ports and for app names.              *)
(*                                                                         *)
(* Each invocation p is one main goroutine with a program counter; every   *)
(* remote call is one step that succeeds or fails.  An app that invocation *)
(* p creates is identified by p itself, since p creates at most one.  The  *)
(* ssh.Tunnel appears here by what the App sees of it (Start, wait, Stop); *)
(* its goroutines are the subject of module SshTunnel.                     *)
(***************************************************************************)
EXTENDS Naturals, Sequences, FiniteSets

CONSTANTS
  Procs,            \* the concurrent invocations
  OtherApps,        \* apps of the space that no invocation created
  OtherName,        \* OtherName[a]: the name of such an app
  RandomNames,      \* the names GenerateRandomString may produce
  Options,          \* the command lines a user may type, see OptionType
  NoName, NoApp, Free,  \* "" as an app name, "" as a GUID, an unused port
  MaxPollRetries,   \* maxRetries of PollForAppState
  Faults,           \* may a call or a system call fail for reasons of its own?
  TokenExpires,     \* may the access token expire while conduit runs?
  CliTokenNewline   \* does `cf oauth-token` end its output with a newline?

Apps == Procs \union OtherApps

\* base is --local-port; tls holds, for each service instance in the order
\* initServiceBindings visits them, whether it needs a TLS tunnel (a redis
\* with TLS, used by a client without).  command: is there one after `--`?
\* mysql: that command is a mysql client, whose provider writes a my.cnf.
OptionType(o) ==
  /\ o.existing \in BOOLEAN /\ o.noDelete \in BOOLEAN
  /\ o.command \in BOOLEAN /\ o.mysql \in BOOLEAN
  /\ o.base \in Nat \ {0}
  /\ o.tls \in Seq(BOOLEAN) /\ o.tls # << >>

\* a.nextPort counts the ports handed out: one per service, two with TLS.
LocalPort(o, i) == o.base + (i - 1) + Cardinality({j \in 1..(i - 1) : o.tls[j]})
TlsPort(o, i)   == LocalPort(o, i) + 1
LocalPorts(o)   == {LocalPort(o, i) : i \in DOMAIN o.tls}
TlsPorts(o)     == {TlsPort(o, i) : i \in {j \in DOMAIN o.tls : o.tls[j]}}
Ports           == UNION {LocalPorts(o) \union TlsPorts(o) : o \in Options}

ASSUME ProcsAssumption   == /\ Procs \intersect OtherApps = {}
                            /\ NoApp \notin Apps /\ Free \notin Procs
ASSUME OptionsAssumption == \A o \in Options : OptionType(o)
ASSUME PollAssumption    == MaxPollRetries \in Nat
ASSUME FaultsAssumption  == /\ Faults \in BOOLEAN /\ TokenExpires \in BOOLEAN
                            /\ CliTokenNewline \in BOOLEAN

VARIABLES
  opt,        \* the flags and arguments, fixed when the command starts
  pc,         \* where the main goroutine is
  idx,        \* the index of the loop it is in, or the tries of the poll
  name,       \* ConduitAppName
  deleteApp,  \* App.deleteApp
  appGUID,    \* App.appGUID
  tunnel,     \* App.tunnel: "nil", "new" (Start has not returned nil), "started", "stopped"
  tlsPorts,   \* the listening ports of App.tlsTunnels
  workDir,    \* MySQL.workDir, which holds a my.cnf with the password
  token,      \* the access token the CF client sends
  shutdown,   \* is the shutdown channel closed?
  result,     \* what RunE returns: "nil", "error", "exec" or a panic
  reported,   \* errors Teardown collected and logged
  apps,       \* the apps that exist in the space          (Cloud Foundry)
  ports       \* who listens on each local port            (the workstation)

flags == <<opt, name, deleteApp>>   \* fixed once ParseArgs has run
local == <<tunnel, tlsPorts, workDir>>
vars  == <<opt, pc, idx, name, deleteApp, appGUID, tunnel, tlsPorts, workDir,
           token, shutdown, result, reported, apps, ports>>

Setup == {"org", "space", "create", "upload", "start", "poll", "list", "bind",
          "find", "instances", "bindings", "env", "listen", "probe",
          "listenTLS", "probeTLS"}
Ready    == {"run", "running", "wait"}
Teardown == {"stop", "providers", "destroy", "refresh", "destroyAgain", "exit"}
PC       == {"defaults", "args", "connect", "exited"} \union Setup \union Ready \union Teardown

Init ==
  /\ opt \in [Procs -> Options]
  /\ pc        = [p \in Procs |-> "defaults"]
  /\ idx       = [p \in Procs |-> 0]
  /\ name      = [p \in Procs |-> NoName]
  /\ deleteApp = [p \in Procs |-> FALSE]
  /\ appGUID   = [p \in Procs |-> NoApp]
  /\ tunnel    = [p \in Procs |-> "nil"]
  /\ tlsPorts  = [p \in Procs |-> {}]
  /\ workDir   = [p \in Procs |-> "none"]
  /\ token     = [p \in Procs |-> "valid"]
  /\ shutdown  = [p \in Procs |-> FALSE]
  /\ result    = [p \in Procs |-> "nil"]
  /\ reported  = [p \in Procs |-> {}]
  /\ apps      = OtherApps
  /\ ports     = [n \in Ports |-> Free]

-----------------------------------------------------------------------------
(* Control flow of the main goroutine.                                     *)

At(p, l)   == pc[p] = l
Goto(p, l) == pc' = [pc EXCEPT ![p] = l]
Loop(p, i) == idx' = [idx EXCEPT ![p] = i]

\* An error before conduit.go:117 returns without running Teardown ...
Reject(p) == Goto(p, "exit") /\ result' = [result EXCEPT ![p] = "error"]
\* Mutant: os.Exit with the command's status skips the deferred Teardown.
Return_ExitsAtOnce(p, r) ==
  /\ Goto(p, IF r = "exec" THEN "exit" ELSE "stop")
  /\ result' = [result EXCEPT ![p] = r]

\* ... and any return, or panic, after it runs the deferred Teardown.
Return(p, r) == Goto(p, "stop") /\ result' = [result EXCEPT ![p] = r]

\* What the cloud controller answers, and how a call may fail.
Accepted(p)   == token[p] = "valid"
MayFail(p)    == Faults \/ ~Accepted(p)
AppAnswers(p) == Accepted(p) /\ appGUID[p] \in apps
AppMayFail(p) == Faults \/ ~AppAnswers(p)

\* The apps of the space that have the name n: at most one.
NameOf(a) == IF a \in Procs THEN name[a] ELSE OtherName[a]
Named(n)  == {a \in apps : NameOf(a) = n}

\* net.Listen on port n; closing the listeners of p; the ports p holds.
Take(p, n)     == ports[n] = Free /\ ports' = [ports EXCEPT ![n] = p]
Held(p)        == {n \in Ports : ports[n] = p}
Release(ns)    == ports' = [n \in Ports |-> IF n \in ns THEN Free ELSE ports[n]]

-----------------------------------------------------------------------------
(* plugin.go:18-52 and conduit.go:50-115, before Teardown is deferred.      *)

\* The plugin asks the cf command for the organisation, the space, the
\* endpoint, the token and the TLS setting; without one of them it ends.
GetDefaults(p) ==
  /\ At(p, "defaults")
  /\ \/ Goto(p, "args") /\ UNCHANGED result
     \/ Faults /\ Reject(p)
  /\ UNCHANGED <<flags, idx, appGUID, local, token, shutdown, reported, apps, ports>>

\* Flags are aliased and a name is chosen.
ParseArgs(p) ==
  /\ At(p, "args")
  /\ LET o    == opt[p]
         keep == o.noDelete \/ o.existing
     IN /\ deleteApp' = [deleteApp EXCEPT ![p] = ~keep]
        /\ \/ /\ o.name # NoName
              /\ name' = [name EXCEPT ![p] = o.name]
              /\ Goto(p, "connect") /\ UNCHANGED result
           \/ /\ o.name = NoName /\ ~o.existing
              /\ \E n \in RandomNames : name' = [name EXCEPT ![p] = n]
              /\ Goto(p, "connect") /\ UNCHANGED result
           \/ /\ o.name = NoName /\ o.existing
              /\ Reject(p) /\ UNCHANGED name
  /\ UNCHANGED <<opt, idx, appGUID, local, token, shutdown, reported, apps, ports>>

\* NewClient asks for /v2/info; PortIsInUse tries the first local port and
\* closes it again, so the port is only known to be free at this instant.
\* Cipher suites, a TLS version or bind parameters that make no sense are
\* among the faults.
Connect(p) ==
  /\ At(p, "connect")
  /\ \/ /\ Accepted(p)
        /\ ports[opt[p].base] = Free
        /\ Goto(p, "org") /\ UNCHANGED result
     \/ /\ MayFail(p) \/ ports[opt[p].base] # Free
        /\ Reject(p)
  /\ UNCHANGED <<flags, idx, appGUID, local, token, shutdown, reported, apps, ports>>

-----------------------------------------------------------------------------
(* App.Init, DeployApp and PrepareForExistingApp.                          *)

\* A remote call that only reads, at pc from, going on to pc to.
Read(p, from, to, answers, mayFail) ==
  /\ At(p, from)
  /\ \/ answers /\ Goto(p, to) /\ UNCHANGED result
     \/ mayFail /\ Return(p, "error")
  /\ Loop(p, 0)
  /\ UNCHANGED <<flags, appGUID, local, token, shutdown, reported, apps, ports>>

AppInit(p) ==
  \/ Read(p, "org", "space", Accepted(p), MayFail(p))
  \/ opt[p].existing /\ Read(p, "space", "find", Accepted(p), MayFail(p))
  \/ ~opt[p].existing /\ Read(p, "space", "create", Accepted(p), MayFail(p))

\* Cloud Foundry keeps names unique in a space.  When the answer is lost the
\* app exists, but CreateApp has returned "" and an error.
CreateApp(p) ==
  /\ At(p, "create")
  /\ \/ /\ Accepted(p) /\ Named(name[p]) = {}
        /\ apps' = apps \union {p}
        /\ \/ /\ appGUID' = [appGUID EXCEPT ![p] = p]
              /\ Goto(p, "upload") /\ UNCHANGED result
           \/ /\ Faults
              /\ Return(p, "error") /\ UNCHANGED appGUID
     \/ /\ MayFail(p) \/ Named(name[p]) # {}
        /\ Return(p, "error") /\ UNCHANGED <<appGUID, apps>>
  /\ UNCHANGED <<flags, idx, local, token, shutdown, reported, ports>>

UploadStaticAppBits(p) == Read(p, "upload", "start", AppAnswers(p), AppMayFail(p))
StartApp(p)            == Read(p, "start", "poll", AppAnswers(p), AppMayFail(p))

\* Mutant: tests the count before it is incremented.
PollForAppState_OneMore(p) ==
  /\ At(p, "poll") /\ AppAnswers(p)
  /\ Loop(p, idx[p] + 1)
  /\ \/ idx[p] > MaxPollRetries /\ Return(p, "error")
     \/ idx[p] <= MaxPollRetries /\ UNCHANGED <<pc, result>>
  /\ UNCHANGED <<flags, appGUID, local, token, shutdown, reported, apps, ports>>

\* Mutant: the count of the rounds is lost.
PollForAppState_Forever(p) ==
  \/ Read(p, "poll", "list", AppAnswers(p), AppMayFail(p))
  \/ /\ At(p, "poll") /\ AppAnswers(p)
     /\ Loop(p, 1 - idx[p])
     /\ UNCHANGED <<pc, result, flags, appGUID, local, token, shutdown, reported, apps, ports>>

\* Each round asks for the app's state; idx counts the rounds that found it
\* not STARTED yet.
PollForAppState(p) ==
  \/ Read(p, "poll", "list", AppAnswers(p), AppMayFail(p))
  \/ /\ At(p, "poll") /\ AppAnswers(p)
     /\ Loop(p, idx[p] + 1)
     /\ \/ idx[p] + 1 > MaxPollRetries /\ Return(p, "error")
        \/ idx[p] + 1 <= MaxPollRetries /\ UNCHANGED <<pc, result>>
     /\ UNCHANGED <<flags, appGUID, local, token, shutdown, reported, apps, ports>>

\* bindServices: one BindService per requested service.  It also fails when
\* no instance has the name, or the credentials lack a host or a port.
BindServices(p) ==
  \/ Read(p, "list", "bind", Accepted(p), MayFail(p))
  \/ /\ At(p, "bind")
     /\ \/ /\ AppAnswers(p) /\ Loop(p, idx[p] + 1)
           /\ \/ idx[p] + 1 = Len(opt[p].tls) /\ Goto(p, "env")
              \/ idx[p] + 1 < Len(opt[p].tls) /\ UNCHANGED pc
           /\ UNCHANGED result
        \/ AppMayFail(p) /\ Return(p, "error") /\ UNCHANGED idx
     /\ UNCHANGED <<flags, appGUID, local, token, shutdown, reported, apps, ports>>

\* The app named on the command line is looked up, and must be bound to the
\* services asked for.
PrepareForExistingApp(p) ==
  \/ /\ At(p, "find")
     /\ \/ /\ Accepted(p)
           /\ \E a \in Named(name[p]) : appGUID' = [appGUID EXCEPT ![p] = a]
           /\ Goto(p, "instances") /\ UNCHANGED result
        \/ /\ MayFail(p) \/ Named(name[p]) = {}
           /\ Return(p, "error") /\ UNCHANGED appGUID
     /\ UNCHANGED <<flags, idx, local, token, shutdown, reported, apps, ports>>
  \/ Read(p, "instances", "bindings", Accepted(p), MayFail(p))
  \/ Read(p, "bindings", "env", Accepted(p), TRUE)

-----------------------------------------------------------------------------
(* App.SetupTunnels.                                                       *)

\* The mysql provider makes a directory and writes a my.cnf into it.
InitEnv(p) == opt[p].mysql /\ workDir' = [workDir EXCEPT ![p] = "made"]

\* initServiceBindings.  An error of InitEnv is ignored.  The services found
\* may not be the ones asked for, or not of a type the program takes, some
\* after InitEnv has run.  A body that is not JSON leaves
\* SystemEnv nil, and the loop over it panics.
FetchEnv(p) ==
  /\ At(p, "env")
  /\ Loop(p, 0)
  /\ \/ /\ AppAnswers(p)
        /\ tunnel' = [tunnel EXCEPT ![p] = "new"]
        /\ Goto(p, "listen") /\ UNCHANGED result
        /\ \/ InitEnv(p)
           \/ (Faults \/ ~opt[p].mysql) /\ UNCHANGED workDir
     \/ /\ Return(p, "error") /\ UNCHANGED tunnel
        /\ \/ AppAnswers(p) /\ InitEnv(p)
           \/ UNCHANGED workDir
     \/ /\ Faults /\ Return(p, "panic") /\ UNCHANGED <<tunnel, workDir>>
  /\ UNCHANGED <<flags, appGUID, tlsPorts, token, shutdown, reported, apps, ports>>

\* Mutant: an error of net.Listen is only logged.
ListenSSH_Ignores(p) ==
  /\ At(p, "listen")
  /\ LET n == LocalPort(opt[p], idx[p] + 1) IN
     Take(p, n) \/ (ports[n] # Free /\ UNCHANGED ports)
  /\ \/ /\ idx[p] + 1 < Len(opt[p].tls)
        /\ Loop(p, idx[p] + 1) /\ UNCHANGED <<pc, tunnel>>
     \/ /\ idx[p] + 1 = Len(opt[p].tls)
        /\ Loop(p, 0) /\ Goto(p, "probe")
        /\ tunnel' = [tunnel EXCEPT ![p] = "started"]
  /\ UNCHANGED <<flags, appGUID, tlsPorts, workDir, token, shutdown, result, reported, apps>>

\* ssh.Tunnel.Start listens on every local port.  When one is taken it
\* returns at once: shutdownChan is still nil, the earlier listeners open.
ListenSSH(p) ==
  /\ At(p, "listen")
  /\ LET n == LocalPort(opt[p], idx[p] + 1) IN
     \/ /\ Take(p, n)
        /\ UNCHANGED result
        /\ \/ /\ idx[p] + 1 < Len(opt[p].tls)
              /\ Loop(p, idx[p] + 1) /\ UNCHANGED <<pc, tunnel>>
           \/ /\ idx[p] + 1 = Len(opt[p].tls)
              /\ Loop(p, 0) /\ Goto(p, "probe")
              /\ tunnel' = [tunnel EXCEPT ![p] = "started"]
     \/ /\ Faults \/ ports[n] # Free
        /\ Return(p, "error") /\ UNCHANGED <<idx, tunnel, ports>>
  /\ UNCHANGED <<flags, appGUID, tlsPorts, workDir, token, shutdown, reported, apps>>

\* WaitForConnection on each local port, in order.
ProbeSSH(p) ==
  /\ At(p, "probe")
  /\ \/ /\ UNCHANGED result
        /\ \/ /\ idx[p] + 1 < Len(opt[p].tls)
              /\ Loop(p, idx[p] + 1) /\ UNCHANGED pc
           \/ /\ idx[p] + 1 = Len(opt[p].tls)
              /\ Loop(p, 0) /\ Goto(p, "listenTLS")
     \/ Faults /\ Return(p, "error") /\ UNCHANGED idx
  /\ UNCHANGED <<flags, appGUID, local, token, shutdown, reported, apps, ports>>

\* startTLSTunnels: listen and probe for each service that needs it ...
ListenTLS(p) ==
  /\ At(p, "listenTLS")
  /\ LET i == idx[p] + 1
         n == TlsPort(opt[p], i) IN
     \/ /\ i > Len(opt[p].tls)
        /\ \/ opt[p].command /\ Goto(p, "run")
           \/ ~opt[p].command /\ Goto(p, "wait")
        /\ UNCHANGED <<idx, tlsPorts, result, ports>>
     \/ /\ i <= Len(opt[p].tls) /\ ~opt[p].tls[i]
        /\ Loop(p, i) /\ UNCHANGED <<pc, tlsPorts, result, ports>>
     \/ /\ i <= Len(opt[p].tls) /\ opt[p].tls[i]
        /\ UNCHANGED idx
        /\ \/ /\ Take(p, n)
              /\ tlsPorts' = [tlsPorts EXCEPT ![p] = @ \union {n}]
              /\ Goto(p, "probeTLS") /\ UNCHANGED result
           \/ /\ Faults \/ ports[n] # Free
              /\ Return(p, "error") /\ UNCHANGED <<tlsPorts, ports>>
  /\ UNCHANGED <<flags, appGUID, tunnel, workDir, token, shutdown, reported, apps>>

\* ... WaitForConnection on the TLS port it has just opened.
ProbeTLS(p) ==
  /\ At(p, "probeTLS")
  /\ \/ Loop(p, idx[p] + 1) /\ Goto(p, "listenTLS") /\ UNCHANGED result
     \/ Faults /\ Return(p, "error") /\ UNCHANGED idx
  /\ UNCHANGED <<flags, appGUID, local, token, shutdown, reported, apps, ports>>

-----------------------------------------------------------------------------
(* The command, or the wait for a signal.                                  *)

RunCommand(p) ==
  /\ At(p, "run")
  /\ \/ Goto(p, "running") /\ UNCHANGED result
     \/ Return(p, "error")
  /\ UNCHANGED <<flags, idx, appGUID, local, token, shutdown, reported, apps, ports>>

\* proc.Wait returns; a status other than 0 is conduit's own.
CommandExits(p) ==
  /\ At(p, "running")
  /\ \E r \in {"nil", "exec"} : Return(p, r)
  /\ UNCHANGED <<flags, idx, appGUID, local, token, shutdown, reported, apps, ports>>

WaitForShutdown(p) ==
  /\ At(p, "wait") /\ shutdown[p]
  /\ Return(p, "nil")
  /\ UNCHANGED <<flags, idx, appGUID, local, token, shutdown, reported, apps, ports>>

-----------------------------------------------------------------------------
(* App.Teardown, deferred by conduit.go:117.                               *)

\* Mutant: the TLS tunnels are not stopped.
StopTunnels_NoTLS(p) ==
  /\ At(p, "stop")
  /\ \/ /\ tunnel[p] = "started"
        /\ tunnel' = [tunnel EXCEPT ![p] = "stopped"]
        /\ Release(Held(p) \intersect LocalPorts(opt[p]))
     \/ tunnel[p] # "started" /\ UNCHANGED <<tunnel, ports>>
  /\ Goto(p, "providers")
  /\ UNCHANGED <<flags, idx, appGUID, tlsPorts, workDir, token, shutdown, result,
                 reported, apps>>

\* Every TLS tunnel that was started, then the SSH tunnel, whose Stop does
\* nothing unless Start has succeeded.
StopTunnels(p) ==
  /\ At(p, "stop")
  /\ \/ /\ tunnel[p] = "started"
        /\ tunnel' = [tunnel EXCEPT ![p] = "stopped"]
        /\ Release(tlsPorts[p] \union (Held(p) \intersect LocalPorts(opt[p])))
     \/ /\ tunnel[p] # "started"
        /\ Release(tlsPorts[p]) /\ UNCHANGED tunnel
  /\ Goto(p, "providers")
  /\ UNCHANGED <<flags, idx, appGUID, tlsPorts, workDir, token, shutdown, result,
                 reported, apps>>

Report(p, e) == reported' = [reported EXCEPT ![p] = @ \union {e}]

\* MySQL.Teardown removes workDir; the other providers keep nothing.  Then
\* the app is destroyed if it is to be, and has been created.
TeardownProviders(p) ==
  /\ At(p, "providers")
  /\ \/ /\ workDir[p] = "made"
        /\ workDir' = [workDir EXCEPT ![p] = "removed"] /\ UNCHANGED reported
     \/ /\ workDir[p] = "made" /\ Faults
        /\ Report(p, "workDir") /\ UNCHANGED workDir
     \/ workDir[p] # "made" /\ UNCHANGED <<workDir, reported>>
  /\ \/ deleteApp[p] /\ appGUID[p] # NoApp /\ Goto(p, "destroy")
     \/ (~deleteApp[p] \/ appGUID[p] = NoApp) /\ Goto(p, "exit")
  /\ UNCHANGED <<flags, idx, appGUID, tunnel, tlsPorts, token, shutdown, result,
                 apps, ports>>

\* Mutant: deletes whatever app has the name now.
DestroyApp_ByName(p, done, failed) ==
  \/ Accepted(p) /\ Named(name[p]) # {} /\ apps' = apps \ Named(name[p]) /\ done
  \/ AppMayFail(p) /\ UNCHANGED apps /\ failed

\* One DELETE of the app, whose answer may be lost after it took effect.
DestroyApp(p, done, failed) ==
  \/ AppAnswers(p) /\ apps' = apps \ {appGUID[p]} /\ done
  \/ AppAnswers(p) /\ Faults /\ apps' = apps \ {appGUID[p]} /\ failed
  \/ AppMayFail(p) /\ UNCHANGED apps /\ failed

Exits(p)      == Goto(p, "exit") /\ UNCHANGED reported
GivesUp(p)    == Goto(p, "exit") /\ Report(p, "app")
Refreshes(p)  == Goto(p, "refresh") /\ UNCHANGED reported

\* Mutant: no second try with a new token.
Destroy_Once(p) ==
  /\ At(p, "destroy")
  /\ DestroyApp(p, Exits(p), GivesUp(p))
  /\ UNCHANGED <<flags, idx, appGUID, local, token, shutdown, result, ports>>

Destroy(p) ==
  /\ At(p, "destroy")
  /\ DestroyApp(p, Exits(p), Refreshes(p))
  /\ UNCHANGED <<flags, idx, appGUID, local, token, shutdown, result, ports>>

\* The output of `cf oauth-token` becomes the token of a new CF client, which
\* asks for /v2/info.  A newline in it makes every request fail at once.
RefreshAccessToken(p) ==
  /\ At(p, "refresh")
  /\ \/ /\ ~CliTokenNewline
        /\ token' = [token EXCEPT ![p] = "valid"]
        /\ Goto(p, "destroyAgain") /\ UNCHANGED reported
     \/ /\ CliTokenNewline \/ Faults
        /\ GivesUp(p) /\ UNCHANGED token
  /\ UNCHANGED <<flags, idx, appGUID, local, shutdown, result, apps, ports>>

\* Mutant: the error of the second DELETE is dropped.
DestroyAgain_Silent(p) ==
  /\ At(p, "destroyAgain")
  /\ DestroyApp(p, Exits(p), Exits(p))
  /\ UNCHANGED <<flags, idx, appGUID, local, token, shutdown, result, ports>>

DestroyAgain(p) ==
  /\ At(p, "destroyAgain")
  /\ DestroyApp(p, Exits(p), GivesUp(p))
  /\ UNCHANGED <<flags, idx, appGUID, local, token, shutdown, result, ports>>

\* os.Exit: the operating system closes what is still open.
Exit(p) ==
  /\ At(p, "exit")
  /\ Goto(p, "exited") /\ Release(Held(p))
  /\ UNCHANGED <<flags, idx, appGUID, local, token, shutdown, result, reported, apps>>

-----------------------------------------------------------------------------
(* The goroutine of main.go's init, and what happens outside.              *)

Signal(p) ==
  /\ ~At(p, "exited") /\ ~shutdown[p]
  /\ shutdown' = [shutdown EXCEPT ![p] = TRUE]
  /\ UNCHANGED <<flags, pc, idx, appGUID, local, token, result, reported, apps, ports>>

\* A token just issued outlives the call it was issued for.
TokenExpire(p) ==
  /\ TokenExpires /\ token[p] = "valid"
  /\ pc[p] \notin {"destroyAgain", "exit", "exited"}
  /\ token' = [token EXCEPT ![p] = "expired"]
  /\ UNCHANGED <<flags, pc, idx, appGUID, local, shutdown, result, reported, apps, ports>>

\* Somebody deletes an app with `cf delete`.
ExternalDelete(a) ==
  /\ Faults /\ a \in apps
  /\ apps' = apps \ {a}
  /\ UNCHANGED <<flags, pc, idx, appGUID, local, token, shutdown, result, reported, ports>>

AllExited == (\A p \in Procs : At(p, "exited")) /\ UNCHANGED vars

-----------------------------------------------------------------------------
SetupStep(p) ==
  \/ GetDefaults(p) \/ ParseArgs(p) \/ Connect(p) \/ AppInit(p)
  \/ CreateApp(p) \/ UploadStaticAppBits(p) \/ StartApp(p) \/ PollForAppState(p)
  \/ BindServices(p) \/ PrepareForExistingApp(p)
  \/ FetchEnv(p) \/ ListenSSH(p) \/ ProbeSSH(p) \/ ListenTLS(p) \/ ProbeTLS(p)

TeardownStep(p) ==
  \/ StopTunnels(p) \/ TeardownProviders(p)
  \/ Destroy(p) \/ RefreshAccessToken(p) \/ DestroyAgain(p) \/ Exit(p)

\* What the main goroutine does of itself, the command's end apart.
Main(p) == SetupStep(p) \/ RunCommand(p) \/ WaitForShutdown(p) \/ TeardownStep(p)

Next ==
  \/ \E p \in Procs : Main(p) \/ CommandExits(p) \/ Signal(p) \/ TokenExpire(p)
  \/ \E a \in Apps : ExternalDelete(a)
  \/ AllExited

Spec == Init /\ [][Next]_vars

\* The Go scheduler runs the main goroutine, and its calls return.
FairSpec == Spec /\ \A p \in Procs : WF_vars(Main(p))

-----------------------------------------------------------------------------
(* Properties.                                                             *)

\* Every variable has its type; the loop index never passes the services
\* named or the retries PollForAppState allows.
TypeOK ==
  /\ opt \in [Procs -> Options]
  /\ pc \in [Procs -> PC]
  /\ idx \in [Procs -> Nat]
  /\ \A p \in Procs : idx[p] <= Len(opt[p].tls) \/ idx[p] <= MaxPollRetries + 1
  /\ deleteApp \in [Procs -> BOOLEAN]
  /\ appGUID \in [Procs -> Apps \union {NoApp}]
  /\ tunnel \in [Procs -> {"nil", "new", "started", "stopped"}]
  /\ tlsPorts \in [Procs -> SUBSET Ports]
  /\ workDir \in [Procs -> {"none", "made", "removed"}]
  /\ token \in [Procs -> {"valid", "expired"}]
  /\ shutdown \in [Procs -> BOOLEAN]
  /\ result \in [Procs -> {"nil", "error", "exec", "panic"}]
  /\ reported \in [Procs -> SUBSET {"workDir", "app"}]
  /\ apps \subseteq Apps
  /\ ports \in [Ports -> Procs \union {Free}]

\* conduit never deletes an app it did not create: an app disappears in a
\* step of the invocation that created it, in Teardown and with leave to
\* delete, or by the hand of somebody else (README.md:75).
OnlyCreatorDeletes ==
  [][\A a \in apps \ apps' : \A p \in Procs :
       pc'[p] # pc[p] => /\ a = p /\ deleteApp[p]
                         /\ pc[p] \in {"destroy", "destroyAgain"}]_vars

\* The invariant behind it: who may delete holds no GUID but that of the app
\* it created, and has left the setup steps when it destroys.
DestroyTargetsOwnApp ==
  \A p \in Procs : deleteApp[p] => appGUID[p] \in {NoApp, p}

\* An app that was to be deleted is never left behind in silence: the failed
\* DELETE is reported, or the failed setup is the command's own result.
NoSilentOrphan ==
  \A p \in Procs :
    At(p, "exited") /\ deleteApp[p] /\ p \in apps
      => "app" \in reported[p] \/ result[p] = "error"

\* "The app cf-conduit created, will be deleted when the tunnel is closed"
\* (README.md:71): once the command has returned the app is gone.
AppDeletedWhenClosed ==
  \A p \in Procs : At(p, "exited") /\ deleteApp[p] => p \notin apps

\* What the code keeps of it when no call fails of itself: an app is left only if
\* the token has expired and its renewal brought the newline along, and then
\* it is named in the report (app.go:219-236).
AppGoneOrTokenLapsed ==
  \A p \in Procs :
    At(p, "exited") /\ deleteApp[p] /\ p \in apps
      => CliTokenNewline /\ token[p] = "expired" /\ "app" \in reported[p]

\* No my.cnf with a password outlives the command unreported, whatever made
\* the command return.
CredentialsRemoved ==
  \A p \in Procs :
    At(p, "exited") /\ workDir[p] = "made" => "workDir" \in reported[p]

\* While the user connects, or the command runs, every address handed out is
\* a listener of this very invocation, however many compete for the ports.
ReadyHoldsPorts ==
  \A p \in Procs :
    pc[p] \in Ready =>
      \A n \in LocalPorts(opt[p]) \union TlsPorts(opt[p]) : ports[n] = p

\* Past StopTunnels no port is held, unless Start itself failed midway: then
\* Stop is a no-op and the listeners stay open for as long as Teardown takes.
PortsReleased ==
  \A p \in Procs :
    /\ pc[p] \in Teardown \ {"stop"} /\ tunnel[p] # "new" => Held(p) = {}
    /\ tunnel[p] = "new" => Held(p) \subseteq LocalPorts(opt[p])

\* A signal ends the command: however far the setup is, the main goroutine
\* comes to the deferred Teardown and exits, unless a child process runs.
ShutdownExits ==
  \A p \in Procs : shutdown[p] ~> pc[p] \in {"exited", "running"}

\* A port in use is somebody else's: the numbers nextPort counts out for one
\* command line, with TLS tunnels among them or not, never meet (app.go:335-355,
\* :447-501).
NeverOwnPort ==
  \A p \in Procs :
    LET i == idx[p] + 1 IN
    /\ At(p, "listen") => ports[LocalPort(opt[p], i)] # p
    /\ At(p, "listenTLS") /\ i \in DOMAIN opt[p].tls /\ opt[p].tls[i]
         => ports[TlsPort(opt[p], i)] # p

\* How many places of the course of a command are still ahead.  Between
\* listenTLS and probeTLS startTLSTunnels goes to and fro.
Ahead(l) ==
  CASE l = "defaults"                    -> 23
    [] l = "args"                        -> 22
    [] l = "connect"                     -> 21
    [] l = "org"                         -> 20
    [] l = "space"                       -> 19
    [] l \in {"create", "find"}          -> 18
    [] l \in {"upload", "instances"}     -> 17
    [] l \in {"start", "bindings"}       -> 16
    [] l = "poll"                        -> 15
    [] l = "list"                        -> 14
    [] l = "bind"                        -> 13
    [] l = "env"                         -> 12
    [] l = "listen"                      -> 11
    [] l = "probe"                       -> 10
    [] l \in {"listenTLS", "probeTLS"}   -> 9
    [] l \in {"run", "wait"}             -> 8
    [] l = "running"                     -> 7
    [] l = "stop"                        -> 6
    [] l = "providers"                   -> 5
    [] l = "destroy"                     -> 4
    [] l = "refresh"                     -> 3
    [] l = "destroyAgain"                -> 2
    [] l = "exit"                        -> 1
    [] l = "exited"                      -> 0

\* A bound on the steps the main goroutine has left: the places ahead, each
\* with as many turns as its loop, or the poll, may take.
Turns(p) == Len(opt[p].tls) + MaxPollRetries + 1
Left(p)  == Ahead(pc[p]) * (2 * Turns(p) + 2) + 2 * (Turns(p) - idx[p])
            + (IF At(p, "listenTLS") THEN 1 ELSE 0)

\* A command comes to its end in that many steps: every step of the main
\* goroutine, through setup, loops, failure and the second DELETE, leaves fewer,
\* and no step of anybody else leaves more (conduit.go:117-158).
Progresses ==
  [][\A p \in Procs : /\ Main(p) \/ CommandExits(p) => Left(p)' < Left(p)
                      /\ Left(p)' <= Left(p)]_vars

\* The promise of AppCustody, read off this state.  An app is "gone" for good
\* once it does not exist and CreateApp has been passed.
MakesApp == {"defaults", "args", "connect", "org", "space", "create", "find"}

Custody == INSTANCE AppCustody WITH
  Owners    <- Procs,
  Others    <- OtherApps,
  Outsiders <- Faults,
  kind      <- [p \in Procs |-> IF opt[p].existing THEN "existing"
                                ELSE IF opt[p].noDelete THEN "kept" ELSE "temporary"],
  app       <- [p \in Procs |-> IF p \in apps THEN "live"
                                ELSE IF pc[p] \in MakesApp THEN "none" ELSE "gone"],
  told      <- {p \in Procs : result[p] = "error" \/ "app" \in reported[p]},
  open      <- {p \in Procs : ~At(p, "exited")},
  others    <- apps \intersect OtherApps

\* Whatever fails and whoever interferes, conduit keeps the custody of its app:
\* it makes one at most, deletes no other, and does not end in silence while
\* a temporary app of its own lives on (README.md:69-75).
KeepsCustody == Custody!Spec
=============================================================================
