---------------------------- MODULE MCScheduler -----------------------------
(* Tasks and responses for small instances of Scheduler.                   *)
EXTENDS Scheduler, TLC

MCHosts == {"name", "addr"}
MCLiteralIPs == {"addr"}
MCValues == {0, 1, 2}

Params(oids) ==
  [scalar |-> [f \in ParamFields |-> IF f = "InventoryEveryN" THEN 2 ELSE 1],
   extraOIDs |-> oids]

TaskOf(id, type, targets, family, snmp) ==
  [TaskID |-> id, Type |-> type, IntervalSeconds |-> 60, Targets |-> targets,
   SNMP |-> snmp, SkipTLSVerify |-> FALSE, AddressFamily |-> family]

PingBoth == TaskOf(1, "ping", <<"name">>, "both", NoSNMP)     \* two jobs
PingV4   == TaskOf(1, "ping", <<"name">>, "v4", NoSNMP)       \* one job
Trace    == TaskOf(2, "traceroute", <<"addr", "addr">>, "", NoSNMP)
Poll1    == TaskOf(2, "snmp_poll", <<"addr">>, "", Params(<<>>))
Poll2    == TaskOf(2, "snmp_poll", <<"addr">>, "", Params(<<1>>))
NoParams == TaskOf(1, "snmp_poll", <<"addr">>, "", NoSNMP)

Response(tasks, src, upd) == [tasks |-> tasks, source |-> src, update |-> upd]

None == <<"", "">>
V4   == <<"10.0.0.1", "">>
V46  == <<"10.0.0.1", "fd00::1">>

\* A ping restarted for its family, a poll restarted for its OIDs, either
\* removed, a poll without parameters, two changes of source addresses, one id
\* that stands for two tasks, an update directive.
MixedResponses ==
  {Response(<<PingBoth, Trace>>, V4, "none"),
   Response(<<PingV4, Trace>>, V4, "none"),
   Response(<<Trace>>, V46, "v2"),
   Response(<<PingV4, PingBoth>>, V46, "none"),
   Response(<<Poll1>>, V46, "none"),
   Response(<<Poll2, NoParams>>, V46, "none")}

\* A traceroute and a poll that contend for one slot, replaced or removed,
\* and two update directives of which the channel holds one.
ContendResponses ==
  {Response(<<Trace>>, None, "v2"),
   Response(<<Poll1>>, None, "v3")}

\* The names of goroutines are interchangeable.
Symmetry == Permutations(Goroutines)
=============================================================================
