------------------------------ MODULE TaskDiff ------------------------------
(***************************************************************************)
(* A task as the server sends it, the field-by-field comparison that       *)
(* decides whether its runner is restarted (scheduler.go), and how many    *)
(* probe jobs one round of it has (probe.go).                              *)
(***************************************************************************)
EXTENDS Integers, Sequences, FiniteSets

CONSTANTS
  Values,      \* what a string or number field may hold
  Hosts,       \* the targets of tasks
  LiteralIPs,  \* those of Hosts that net.ParseIP accepts
  NoSNMP       \* a nil SNMP pointer

ASSUME TaskDiffAssumption == LiteralIPs \subseteq Hosts

\* The scalar fields of probe.SNMPParams.
ParamFields ==
  {"DeviceID", "Version", "Community", "Port", "TimeoutSeconds", "Retries",
   "InventoryEveryN", "V3User", "V3AuthProto", "V3AuthPass", "V3PrivProto",
   "V3PrivPass", "CollectIfaces"}

SNMPParams == [scalar : [ParamFields -> Values], extraOIDs : Seq(Values)]

Families == {"", "auto", "v4", "v6", "both"}

Task ==
  [TaskID : Int, Type : STRING, IntervalSeconds : Int, Targets : Seq(Hosts),
   SNMP : SNMPParams \cup {NoSNMP}, SkipTLSVerify : BOOLEAN,
   AddressFamily : STRING]

-----------------------------------------------------------------------------
\* The scalar fields snmpParamsChanged looks at.
ComparedFields ==
  {"DeviceID", "Version", "Community", "Port", "TimeoutSeconds", "Retries",
   "InventoryEveryN", "V3User", "V3AuthProto", "V3AuthPass", "V3PrivProto",
   "V3PrivPass", "CollectIfaces"}

\* Faulty: the extra OIDs are not compared.
snmpScalarsChanged(a, b) ==
  \/ (a = NoSNMP) # (b = NoSNMP)
  \/ /\ a # NoSNMP /\ b # NoSNMP
     /\ \E f \in ComparedFields : a.scalar[f] # b.scalar[f]

snmpParamsChanged(a, b) ==
  \/ (a = NoSNMP) # (b = NoSNMP)
  \/ /\ a # NoSNMP /\ b # NoSNMP
     /\ \/ \E f \in ComparedFields : a.scalar[f] # b.scalar[f]
        \/ a.extraOIDs # b.extraOIDs

targetsChanged(a, b) ==
  \/ Len(a) # Len(b)
  \/ \E i \in 1 .. Len(a) : a[i] # b[i]

\* Faulty: the address family is not compared; or every task is restarted.
taskChangedButFamily(old, cur) ==
  \/ old.IntervalSeconds # cur.IntervalSeconds
  \/ old.Type # cur.Type
  \/ old.SkipTLSVerify # cur.SkipTLSVerify
  \/ targetsChanged(old.Targets, cur.Targets)
  \/ snmpParamsChanged(old.SNMP, cur.SNMP)
taskChangedAlways(old, cur) == TRUE

taskChanged(old, cur) ==
  \/ old.IntervalSeconds # cur.IntervalSeconds
  \/ old.Type # cur.Type
  \/ old.SkipTLSVerify # cur.SkipTLSVerify
  \/ old.AddressFamily # cur.AddressFamily
  \/ targetsChanged(old.Targets, cur.Targets)
  \/ snmpParamsChanged(old.SNMP, cur.SNMP)

-----------------------------------------------------------------------------
\* The families a target is probed with; "" leaves the choice to the system.
famProbesFor(addressFamily, host) ==
  CASE host \in LiteralIPs     -> {""}
    [] addressFamily = "v4"    -> {"ip4"}
    [] addressFamily = "v6"    -> {"ip6"}
    [] addressFamily = "both"  -> {"ip4", "ip6"}
    [] OTHER                   -> {""}

\* Each target of the task, by its place in the list, with each family.
Jobs(task) ==
  {j \in (1 .. Len(task.Targets)) \X {"", "ip4", "ip6"} :
     j[2] \in famProbesFor(task.AddressFamily, task.Targets[j[1]])}
=============================================================================
