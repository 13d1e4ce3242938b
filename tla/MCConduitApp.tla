---------------------------- MODULE MCConduitApp ----------------------------
(* Instances of ConduitApp for TLC.                                        *)
EXTENDS ConduitApp, TLC

CONSTANTS p1, p2, other

TwoProcs   == {p1, p2}
OneOther   == {other}
OthersName == [a \in OneOther |-> "mine"]
OneName    == {"r1"}

Option == [name |-> NoName, existing |-> FALSE, noDelete |-> FALSE,
           command |-> FALSE, mysql |-> FALSE, base |-> 1, tls |-> <<FALSE>>]

\* A bare invocation with a plain service and one behind a TLS tunnel, one of an
\* existing app, one that keeps an app whose name is taken, and a mysql command.
\* Their ports overlap: 1 to 3, 2 and 3, 2, and 3.
MixedOptions ==
  { [Option EXCEPT !.tls = <<FALSE, TRUE>>],
    [Option EXCEPT !.name = "mine", !.existing = TRUE, !.tls = <<TRUE>>, !.base = 2],
    [Option EXCEPT !.name = "mine", !.noDelete = TRUE, !.base = 2],
    [Option EXCEPT !.command = TRUE, !.mysql = TRUE, !.base = 3] }

\* One with the wait for a signal, one with a command, on the same ports.
PlainOptions == { Option, [Option EXCEPT !.command = TRUE, !.mysql = TRUE] }

Symmetry == Permutations(TwoProcs)
=============================================================================
