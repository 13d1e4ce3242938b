--------------------------- MODULE ServiceBindings ---------------------------
(***************************************************************************)
(* What conduit makes of the services it is asked for: the checks of       *)
(* App.bindServices and App.PrepareForExistingApp, the loop of             *)
(* App.initServiceBindings that hands out local ports and rewrites the     *)
(* credentials, and what the service providers tell the command to run.    *)
(*                                                                         *)
(* The space is a sequence of service instances in the order of the loop:  *)
(* the sorted keys of VCAP_SERVICES, and the instances under each key.     *)
(***************************************************************************)
EXTENDS Naturals, Sequences, FiniteSets, SequencesExt

CONSTANTS
  Space,         \* the service instances: [type, name, creds]
  Requests,      \* the sets of names a user may ask for
  Programs,      \* the programs a user may run; "" for none
  Base,          \* --local-port
  Interference   \* may a binding disappear before the environment is fetched?

Positions == 1..Len(Space)

\* A host is the sequence of the pieces it is written in: << >> is the empty
\* text, and <<"my", "db">> ends with <<"db">>.  Absent is a member of credentials
\* that is not there.  Two keys that differ only in case are one member here, but
\* Port, which looks for "port" and no other.
Hosts  == Seq(STRING)
NoHost == << >>
Absent == <<"absent">>
Local  == <<"127.0.0.1">>

Addresses   == [host : Hosts, port : Nat]
Credentials == [host : Hosts, hostname : Hosts, port : Nat, texts : Seq(Addresses),
                tls : BOOLEAN, ssl : BOOLEAN, rediss : BOOLEAN]
Instances   == [type : STRING, name : STRING, creds : Credentials]

ASSUME BaseAssumption  == Base \in Nat \ {0}
ASSUME SpaceAssumption ==
  /\ Space \in Seq(Instances)
  /\ \A s \in Positions : \A t \in Positions : Space[s].name = Space[t].name => s = t

-----------------------------------------------------------------------------
(* client/credentials.go.  texts are the addresses that the other string    *)
(* members mention, port 0 where one names a host only.                    *)

Host(c) ==
  IF c.host # Absent THEN c.host ELSE IF c.hostname # Absent THEN c.hostname ELSE NoHost
Port(c) == c.port

\* tls: a member "tls" that is true; ssl: ssl=true in the URI or the JDBC URI.
IsTLSEnabled(c) == c.tls \/ c.ssl

\* strings.Replace knows nothing of where an address begins and ends: it finds
\* the old one also where a host ends with the old host (with no host, every one
\* does), and where a port begins with the digits of the old port.  What stands
\* before and behind it is left standing.
Tens == <<1, 10, 100, 1000, 10000>>
Begins(m, n, k) == n # 0 /\ m \div Tens[k] = n
Catches(a, old) == IsSuffix(old.host, a.host) /\ \E k \in 1..5 : Begins(a.port, old.port, k)
Rewritten(a, old, new) ==
  IF Catches(a, old)
  THEN LET k      == CHOOSE k \in 1..5 : Begins(a.port, old.port, k)
           before == SubSeq(a.host, 1, Len(a.host) - Len(old.host))
       IN  [host |-> before \o new.host, port |-> (new.port * Tens[k]) + (a.port % Tens[k])]
  ELSE a

Addressed(c, new, texts) ==
  [host     |-> IF c.host = Absent THEN Absent ELSE new.host,
   hostname |-> IF c.hostname = Absent THEN Absent ELSE new.host,
   port |-> new.port, texts |-> texts, tls |-> c.tls, ssl |-> c.ssl, rediss |-> c.rediss]
Address(c) == [host |-> Host(c), port |-> Port(c)]

\* Mutant: the host of the new address goes in first, and then the address
\* to look for is not the old one any more.
SetAddress_HostFirst(c, new) ==
  Addressed(c, new, [i \in DOMAIN c.texts |->
                       Rewritten(c.texts[i], [Address(c) EXCEPT !.host = new.host], new)])

\* Mutant: whatever names the host is taken for the address.
SetAddress_AnyPort(c, new) ==
  Addressed(c, new, [i \in DOMAIN c.texts |->
                       IF c.texts[i].host = Host(c) THEN new ELSE c.texts[i]])

SetAddress(c, new) ==
  Addressed(c, new, [i \in DOMAIN c.texts |-> Rewritten(c.texts[i], Address(c), new)])

-----------------------------------------------------------------------------
(* service/*.go: the four providers.  A login, that is user, password and   *)
(* database, is named by the instance it is for.                           *)

Providers == {"influxdb", "mysql", "postgres", "redis"}

KnownClients(type) ==
  CASE type = "influxdb" -> {"influx", "chronograf", "telegraf", "influx_inspect", "inch"}
    [] type = "mysql"    -> {"mysql", "mysqldump"}
    [] type = "postgres" -> {"psql", "pg_dump"}
    [] type = "redis"    -> {"redis-cli"}
NonTLSClients(type) == IF type = "redis" THEN {"redis-cli"} ELSE {}

ProviderIsTLSEnabled(type, c) ==
  type # "influxdb" /\ (IsTLSEnabled(c) \/ (type = "redis" /\ c.rediss))

\* What InitEnv puts into the environment, or the my.cnf it names, when it
\* succeeds (only mysql's, which writes a file, may fail), and what
\* AdditionalProgramArgs puts before the user's arguments.
Nothing == [host |-> NoHost, port |-> 0, login |-> ""]
InitEnv(type, name, c) ==
  CASE type = "influxdb" -> [Nothing EXCEPT !.login = name]
    [] type \in {"mysql", "postgres"} -> [host |-> Host(c), port |-> Port(c), login |-> name]
    [] type = "redis" -> Nothing
InitEnvMayFail(type) == type = "mysql"
AdditionalProgramArgs(type, name, c) ==
  CASE type = "influxdb" -> [host |-> Host(c), port |-> Port(c), login |-> ""]
    [] type \in {"mysql", "postgres"} -> Nothing
    [] type = "redis" -> [host |-> Host(c), port |-> Port(c), login |-> name]

-----------------------------------------------------------------------------

VARIABLES
  request, program, existing,   \* the command line
  pc,            \* "prepare", "fetch", "visit", then "ready" or "error"
  bound,         \* positions of the instances bound to the app
  at,            \* the instance the loop is at
  unsatisfied,   \* unsatisfiedServiceInstanceNames
  nextPort,      \* App.nextPort
  forwardAddrs,  \* App.forwardAddrs; at: the position it is for
  creds,         \* the credentials in App.appEnv
  kept,          \* positions still in VCAP_SERVICES, of those visited
  runEnv,        \* what InitEnv has told the program
  satisfied      \* programServiceTypeSatisfied

input == <<request, program, existing>>
ports == <<nextPort, forwardAddrs>>
told  == <<runEnv, satisfied>>
vars  == <<input, pc, bound, at, unsatisfied, ports, creds, kept, told>>

Init ==
  /\ request \in Requests /\ program \in Programs /\ existing \in BOOLEAN
  /\ pc = "prepare" /\ at = 1
  /\ bound \in IF existing THEN SUBSET Positions ELSE {{}}
  /\ unsatisfied = request
  /\ nextPort = Base /\ forwardAddrs = << >>
  /\ creds = [i \in Positions |-> Space[i].creds]
  /\ kept = {} /\ runEnv = Nothing /\ satisfied = FALSE

Named(n)      == {i \in Positions : Space[i].name = n}
HasAddress(c) == Host(c) # NoHost /\ Port(c) # 0
Fail          == pc' = "error"

\* Mutant: the bound credentials are not looked at.
BindServices_Unchecked ==
  /\ pc = "prepare" /\ ~existing
  /\ IF \A n \in request : Named(n) # {}
     THEN pc' = "fetch" /\ bound' = UNION {Named(n) : n \in request}
     ELSE Fail /\ UNCHANGED bound
  /\ UNCHANGED <<input, at, unsatisfied, ports, creds, kept, told>>

\* An app of its own is bound to what is asked for, if that has an address.
BindServices ==
  /\ pc = "prepare" /\ ~existing
  /\ IF \A n \in request : \E i \in Named(n) : HasAddress(creds[i])
     THEN pc' = "fetch" /\ bound' = UNION {Named(n) : n \in request}
     ELSE Fail /\ UNCHANGED bound
  /\ UNCHANGED <<input, at, unsatisfied, ports, creds, kept, told>>

\* An existing app has to be bound to it already; its credentials are not seen.
PrepareForExistingApp ==
  /\ pc = "prepare" /\ existing
  /\ IF \A n \in request : Named(n) \intersect bound # {} THEN pc' = "fetch" ELSE Fail
  /\ UNCHANGED <<input, bound, at, unsatisfied, ports, creds, kept, told>>

\* The environment lists what is bound by then.
GetAppEnv ==
  /\ pc = "fetch" /\ pc' = "visit"
  /\ \/ UNCHANGED bound
     \/ Interference /\ \E i \in bound : bound' = bound \ {i}
  /\ UNCHANGED <<input, at, unsatisfied, ports, creds, kept, told>>

-----------------------------------------------------------------------------
(* The loop of initServiceBindings.                                        *)

Here == Space[at]
Visiting(b) == pc = "visit" /\ at \in Positions /\ b = (at \in bound /\ Here.name \in unsatisfied)

\* Mutant: the loop goes on after the last instance.
Skip_OneMore ==
  /\ pc = "visit" /\ at <= Len(Space) + 1
  /\ ~(at \in bound /\ Here.name \in unsatisfied)
  /\ at' = at + 1
  /\ UNCHANGED <<input, pc, bound, unsatisfied, ports, creds, kept, told>>

Skip ==
  /\ Visiting(FALSE) /\ at' = at + 1
  /\ UNCHANGED <<input, pc, bound, unsatisfied, ports, creds, kept, told>>

UnknownType ==
  /\ Visiting(TRUE) /\ Here.type \notin Providers
  /\ unsatisfied' = unsatisfied \ {Here.name}
  /\ Fail
  /\ UNCHANGED <<input, bound, at, ports, creds, kept, told>>

ForwardAddr    == [at : Positions, RemoteAddr : Addresses, LocalPort : Nat, TLSTunnelPort : Nat]
ConnectPort(f) == IF f.TLSTunnelPort # 0 THEN f.TLSTunnelPort ELSE f.LocalPort

\* The address to forward to, and a second port where the program cannot
\* speak the TLS that its redis wants.
NeedsTLSTunnel ==
  /\ Here.type = "redis" /\ ProviderIsTLSEnabled(Here.type, creds[at])
  /\ program \in NonTLSClients(Here.type)
Forward ==
  [at |-> at, RemoteAddr |-> Address(creds[at]),
   LocalPort |-> nextPort, TLSTunnelPort |-> IF NeedsTLSTunnel THEN nextPort + 1 ELSE 0]

\* Mutant: the port of the TLS tunnel is handed out again.
TakePorts_Once ==
  nextPort' = nextPort + 1 /\ forwardAddrs' = Append(forwardAddrs, Forward)

TakePorts ==
  /\ nextPort' = nextPort + (IF NeedsTLSTunnel THEN 2 ELSE 1)
  /\ forwardAddrs' = Append(forwardAddrs, Forward)

\* Mutant: InitEnv runs before SetAddress.
TellProgram_Before ==
  IF ~satisfied /\ program \in KnownClients(Here.type)
  THEN satisfied' = TRUE /\ runEnv' = InitEnv(Here.type, Here.name, creds[at])
  ELSE UNCHANGED told

\* Only the first service of the program's type.  An error of InitEnv is dropped,
\* with the environment as it was, and the program is taken to be satisfied.
TellProgram ==
  IF ~satisfied /\ program \in KnownClients(Here.type)
  THEN /\ satisfied' = TRUE
       /\ \/ runEnv' = InitEnv(Here.type, Here.name, creds'[at])
          \/ InitEnvMayFail(Here.type) /\ UNCHANGED runEnv
  ELSE UNCHANGED told

\* Mutant: the name stays among the unsatisfied ones.
Keep_Unsatisfied ==
  /\ Visiting(TRUE) /\ Here.type \in Providers
  /\ kept' = kept \union {at}
  /\ TakePorts
  /\ creds' = [creds EXCEPT ![at] = SetAddress(@, [host |-> Local, port |-> ConnectPort(Forward)])]
  /\ TellProgram
  /\ at' = at + 1
  /\ UNCHANGED <<input, pc, bound, unsatisfied>>

Keep ==
  /\ Visiting(TRUE) /\ Here.type \in Providers
  /\ unsatisfied' = unsatisfied \ {Here.name}
  /\ kept' = kept \union {at}
  /\ TakePorts
  /\ creds' = [creds EXCEPT ![at] = SetAddress(@, [host |-> Local, port |-> ConnectPort(Forward)])]
  /\ TellProgram
  /\ at' = at + 1
  /\ UNCHANGED <<input, pc, bound>>

\* After the loop: is everything there, and something for the program?
Check ==
  /\ pc = "visit" /\ at \notin Positions
  /\ IF unsatisfied = {} /\ (program # "" => satisfied) THEN pc' = "ready" ELSE Fail
  /\ UNCHANGED <<input, bound, at, unsatisfied, ports, creds, kept, told>>

Done == pc \in {"ready", "error"} /\ UNCHANGED vars

Next ==
  \/ BindServices \/ PrepareForExistingApp \/ GetAppEnv
  \/ Skip \/ UnknownType \/ Keep \/ Check \/ Done

Spec == Init /\ [][Next]_vars

-----------------------------------------------------------------------------
(* What RunCommand then gives the program.                                 *)

\* getProgramSpecificArgs: the first instance left under the one key whose
\* provider knows the program.
First(S) == CHOOSE i \in S : \A j \in S : i <= j
ForProgram == {i \in kept : program \in KnownClients(Space[i].type)}
ProgramSpecificArgs ==
  LET i == First(ForProgram) IN AdditionalProgramArgs(Space[i].type, Space[i].name, creds[i])

\* The program reads a value from its arguments or from its environment.
ProgramSees(args) ==
  LET Either(a, e, none) == IF a # none THEN a ELSE e
  IN  [host  |-> Either(args.host, runEnv.host, NoHost), port |-> Either(args.port, runEnv.port, 0),
       login |-> Either(args.login, runEnv.login, "")]

-----------------------------------------------------------------------------
(* Properties.                                                             *)

\* Every variable has its type, and the loop stays within the space.
TypeOK ==
  /\ request \in Requests /\ program \in Programs /\ existing \in BOOLEAN
  /\ pc \in {"prepare", "fetch", "visit", "ready", "error"}
  /\ bound \subseteq Positions /\ kept \subseteq Positions
  /\ at \in 1..(Len(Space) + 1)
  /\ unsatisfied \subseteq request
  /\ nextPort \in Nat
  /\ forwardAddrs \in Seq(ForwardAddr)
  /\ satisfied \in BOOLEAN

\* No local port is handed out twice, neither to a forward nor to a TLS tunnel:
\* the ports of a later forward lie above those of an earlier one, and all lie
\* between --local-port and the next port.
PortsDistinct ==
  \A j \in DOMAIN forwardAddrs :
    LET f == forwardAddrs[j] IN
    /\ Base <= f.LocalPort /\ f.LocalPort < nextPort
    /\ f.TLSTunnelPort # 0 => f.LocalPort < f.TLSTunnelPort /\ f.TLSTunnelPort < nextPort
    /\ \A i \in 1..(j - 1) :
         forwardAddrs[i].LocalPort < f.LocalPort /\ forwardAddrs[i].TLSTunnelPort < f.LocalPort

\* The numbers are those ConduitApp computes (its LocalPort and TlsPort): one
\* for each forward before, and one more for each of them with a TLS tunnel.
PortsAsPlanned ==
  \A j \in DOMAIN forwardAddrs :
    LET f     == forwardAddrs[j]
        first == Base + (j - 1)
                 + Cardinality({i \in 1..(j - 1) : forwardAddrs[i].TLSTunnelPort # 0})
    IN  f.LocalPort = first /\ f.TLSTunnelPort \in {0, first + 1}

\* Of what is asked for: what the app is bound to, and what conduit can serve.
Wanted == {i \in bound : Space[i].name \in request}
Served == {i \in Wanted : Space[i].type \in Providers}
LoopOver == pc \in {"ready", "error"} /\ at > 1

\* The outcome of the whole, without the loop: conduit goes on exactly if each
\* service asked for is in the environment and of a type it knows, and one of
\* them is for the program; it then keeps these and no other, each forwarded
\* once.  (That a program no provider knows ends in an error is what the code
\* does, app.go:391-398, and not what is promised: see AnyProgramRuns.)
OutcomeCorrect ==
  LoopOver =>
    /\ pc = "ready" <=>
         /\ request = {Space[i].name : i \in Served}
         /\ program # "" => \E i \in Served : program \in KnownClients(Space[i].type)
    /\ pc = "ready" =>
         /\ kept = Served
         /\ \A i \in Served : Cardinality({k \in DOMAIN forwardAddrs : forwardAddrs[k].at = i}) = 1

\* "made available to any application given after the `--`" (README.md:153): when
\* everything asked for is there and served, the command is run, whatever it is.
AnyProgramRuns ==
  LoopOver /\ request = {Space[i].name : i \in Served} => pc = "ready"

\* The credentials shown to the user lead into the tunnel: the address of each
\* service kept is that of its own forward, the forward leads to the address
\* the service had, and a string that held this address now holds the tunnel's.
CredentialsReachTunnel ==
  \A j \in DOMAIN forwardAddrs :
    LET f      == forwardAddrs[j]
        c      == creds[f.at]
        before == Space[f.at].creds
    IN  /\ f.RemoteAddr = Address(before)
        /\ Port(c) = ConnectPort(f)
        /\ Host(before) # NoHost => Host(c) = Local
        /\ \A n \in DOMAIN before.texts :
             before.texts[n] = Address(before) /\ Port(before) # 0
               => c.texts[n] = [host |-> Local, port |-> ConnectPort(f)]

\* Services not kept are left alone.  In those kept, SetAddress touches no string
\* that names another port (one that neither is the service's nor goes on from
\* its digits) or a host that is not, and does not end with, the service's.
OthersUntouched ==
  \A i \in Positions :
    LET before == Space[i].creds IN
    /\ i \notin kept => creds[i] = before
    /\ \A n \in DOMAIN before.texts :
         LET t == before.texts[n] IN
         \/ ~IsSuffix(Host(before), t.host)
         \/ t.port # Port(before) /\ t.port < 10 * Port(before)
         => creds[i].texts[n] = t

\* Credentials are "modified to target the local tunnel" (conduit/app.go:288-289):
\* what is changed in the texts of a service leads to its tunnel from then on.
RewrittenReachTunnel ==
  \A j \in DOMAIN forwardAddrs :
    LET f == forwardAddrs[j]
        c == creds[f.at]
    IN  \A n \in DOMAIN c.texts :
          c.texts[n] # Space[f.at].creds.texts[n]
            => c.texts[n] = [host |-> Local, port |-> ConnectPort(f)]

\* With an app of its own, conduit never forwards to an address it does not
\* know.  (An existing app's credentials are not checked: app.go:262 has no
\* counterpart in PrepareForExistingApp.)
DeployedHaveAddress ==
  ~existing => \A j \in DOMAIN forwardAddrs :
                 forwardAddrs[j].RemoteAddr.host # NoHost /\ forwardAddrs[j].RemoteAddr.port # 0

\* Whichever way a provider tells it, in the environment, a file or arguments
\* put together much later, the program gets the address and the login of one
\* and the same service, the first of its type, and the address is the tunnel's.
\* Or it gets nothing: when mysql's InitEnv has failed the program is started all
\* the same (app.go:362-363), but never told half of it, or of another service.
ProgramReachesOneService ==
  pc = "ready" /\ program # "" =>
    \E j \in DOMAIN forwardAddrs :
      LET f    == forwardAddrs[j]
          sees == ProgramSees(ProgramSpecificArgs)
      IN  /\ program \in KnownClients(Space[f.at].type)
          /\ \A i \in 1..(j - 1) : program \notin KnownClients(Space[forwardAddrs[i].at].type)
          /\ \/ sees = [host |-> Host(creds[f.at]), port |-> ConnectPort(f), login |-> Space[f.at].name]
             \/ InitEnvMayFail(Space[f.at].type) /\ sees = Nothing
=============================================================================
