------------------------------ MODULE MCAgent -------------------------------
(* Two probes, one of each kind, for small instances of Agent.             *)
EXTENDS Agent

MCProbes == {"ping", "poll"}
MCKindOf == [p \in MCProbes |-> IF p = "poll" THEN "snmp" ELSE "probe"]
NoPoison == {}
=============================================================================
