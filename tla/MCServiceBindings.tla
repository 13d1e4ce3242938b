-------------------------- MODULE MCServiceBindings --------------------------
(* A space for TLC, and what users ask of it.                              *)
EXTENDS ServiceBindings

Creds(h, p, texts) ==
  [host |-> h, hostname |-> Absent, port |-> p, texts |-> texts,
   tls |-> FALSE, ssl |-> FALSE, rediss |-> FALSE]
Addr(h, p) == [host |-> h, port |-> p]
Instance(t, n, c) == [type |-> t, name |-> n, creds |-> c]

Server(n) == <<n>>

\* Two services of a type, one of them without a host; both names of the host
\* in one, only the second in another; a redis with TLS and one without.  Texts
\* mention another server, a server whose name ends like the service's host, a
\* port that begins like the service's own, and the host with no port at all.
MixedSpace == <<
  Instance("influxdb", "flux", Creds(Server("h1"), 8086, << >>)),
  Instance("mysql", "my",
    [Creds(Server("h2"), 330, <<Addr(Server("h2"), 330), Addr(Server("h2"), 3306),
                                Addr(Server("h9"), 330), Addr(<<"x", "h2">>, 330)>>)
       EXCEPT !.hostname = Server("h3"), !.ssl = TRUE]),
  Instance("postgres", "pg",
    [Creds(Absent, 5432, <<Addr(Server("h4"), 5432), Addr(Server("h4"), 0)>>)
       EXCEPT !.hostname = Server("h4")]),
  Instance("postgres", "pg2", Creds(NoHost, 5432, <<Addr(Server("h9"), 5432), Addr(Server("h9"), 5431)>>)),
  Instance("redis", "rd", [Creds(Server("h5"), 6379, <<Addr(Server("h5"), 6379)>>) EXCEPT !.rediss = TRUE]),
  Instance("redis", "rd2", Creds(Server("h5"), 6380, <<Addr(Server("h5"), 6380), Addr(Server("h5"), 6379)>>)),
  Instance("waffle", "waf", Creds(Server("h6"), 80, << >>)) >>

AllNames == {"flux", "my", "pg", "pg2", "rd", "rd2", "waf", "ghost"}
SmallRequests == {R \in SUBSET AllNames : Cardinality(R) \in 1..3}
SomePrograms == {"", "influx", "mysql", "pg_dump", "redis-cli", "vi"}
=============================================================================
