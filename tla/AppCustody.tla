----------------------------- MODULE AppCustody -----------------------------
(***************************************************************************)
(* What `cf conduit` promises about apps, whatever happens while it runs:  *)
(* an invocation makes at most one app, and only when it was not told to   *)
(* use an existing one; it deletes no app but that one, and only when it   *)
(* is temporary; and it does not end while its temporary app lives on      *)
(* unless it has told the user of a failure.  ConduitApp implements this.  *)
(***************************************************************************)

CONSTANTS
  Owners,      \* the invocations
  Others,      \* the apps that none of them makes
  Outsiders    \* may somebody else delete apps of the space?

VARIABLES
  kind,    \* "temporary": to be deleted; "kept": not; "existing": makes none
  app,     \* the owner's app: "none" yet, "live", or "gone" for good
  told,    \* the owners that have told the user of a failure
  open,    \* the owners still running
  others   \* the other apps that live

vars == <<kind, app, told, open, others>>

Init ==
  /\ kind \in [Owners -> {"temporary", "kept", "existing"}]
  /\ app  = [p \in Owners |-> "none"]
  /\ told = {} /\ open = Owners
  /\ others = Others

Becomes(p, s) == app' = [app EXCEPT ![p] = s]
Tell(p)       == told' = told \union {p}
MayTell(p)    == UNCHANGED told \/ Tell(p)

Create(p) ==
  /\ p \in open /\ app[p] = "none" /\ kind[p] # "existing"
  /\ Becomes(p, "live") /\ MayTell(p)
  /\ UNCHANGED <<kind, open, others>>

\* There will be no app: the invocation uses an existing one, or has failed.
Renounce(p) ==
  /\ p \in open /\ app[p] = "none"
  /\ Becomes(p, "gone") /\ MayTell(p)
  /\ UNCHANGED <<kind, open, others>>

Delete(p) ==
  /\ p \in open /\ app[p] = "live" /\ kind[p] = "temporary"
  /\ Becomes(p, "gone") /\ MayTell(p)
  /\ UNCHANGED <<kind, open, others>>

Report(p) ==
  /\ p \in open /\ app[p] # "none"
  /\ Tell(p)
  /\ UNCHANGED <<kind, app, open, others>>

Close(p) ==
  /\ p \in open /\ app[p] # "none"
  /\ kind[p] = "temporary" /\ app[p] = "live" => p \in told
  /\ open' = open \ {p}
  /\ UNCHANGED <<kind, app, told, others>>

Outsider ==
  /\ Outsiders
  /\ \/ /\ \E p \in Owners : app[p] = "live" /\ Becomes(p, "gone")
        /\ UNCHANGED others
     \/ /\ \E a \in others : others' = others \ {a}
        /\ UNCHANGED app
  /\ UNCHANGED <<kind, told, open>>

Next ==
  \/ \E p \in Owners : Create(p) \/ Renounce(p) \/ Delete(p) \/ Report(p) \/ Close(p)
  \/ Outsider

Spec == Init /\ [][Next]_vars
=============================================================================
