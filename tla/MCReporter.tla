----------------------------- MODULE MCReporter -----------------------------
(* Values of Reporter's constants that a configuration file cannot write,  *)
(* and a bound that keeps the safety run small.                            *)
EXTENDS Reporter

NoPoison  == {}
OnePoison == {<<"snmp", 2>>}

\* Two SNMP results fill a batch; overflow and eviction need a third result
\* and are explored on the probe side, whose code is the same.
TwoSnmpResults == made["snmp"] <= 2
=============================================================================
