----------------------------- MODULE MCSnmpPoll -----------------------------
(* A poll of every second tick and devices of every kind of answer, for    *)
(* small instances of SnmpPoll.                                            *)
EXTENDS MCScheduler, SnmpPoll

OID(id)    == [dot |-> FALSE, id |-> id]
Dotted(id) == [dot |-> TRUE, id |-> id]

PollOf(target, v1, ifaces, oids) ==
  [target |-> target, v1 |-> v1, CollectIfaces |-> ifaces, ExtraOIDs |-> oids]

MCPollParams ==
  {PollOf(FALSE, FALSE, TRUE, <<>>), PollOf(TRUE, TRUE, FALSE, <<>>),
   PollOf(TRUE, FALSE, TRUE, <<OID("temp"), OID("fan")>>),
   PollOf(TRUE, FALSE, TRUE, <<OID("sysName"), Dotted("temp")>>)}

Value(id) ==
  CASE id = "sysUpTime" -> [kind |-> "ticks", val |-> "7"]
    [] id = "sysContact" -> [kind |-> "nosuch", val |-> ""]
    [] id = "fan" -> [kind |-> "null", val |-> ""]
    [] OTHER -> [kind |-> "string", val |-> id]

MCValue == [id \in SystemOIDs \cup {"temp", "fan"} |-> Value(id)]

Cell(col, idx, val) == [col |-> col, idx |-> idx, val |-> val]

Table  == <<Cell("descr", 2, "eth2"), Cell("descr", 1, "eth1"), Cell("in32", 1, 5),
            Cell("in32", 2, 6), Cell("bps", 1, 10000000)>>
XTable == <<Cell("name", 1, "e1"), Cell("hcIn", 1, 0), Cell("hcOut", 2, 9),
            Cell("mbps", 3, 100)>>

Device(connects, error, status, tab, xtab) ==
  [connects |-> connects, error |-> error, status |-> status, value |-> MCValue,
   ifTable |-> tab, ifXTable |-> xtab]

\* No connection, an error status, an error of one kind or of two in one text,
\* and walks that fail, find nothing or find interfaces.
MCDevices ==
  {Device(FALSE, {"timeout"}, FALSE, Table, XTable),
   Device(TRUE, {}, TRUE, Table, XTable)}
  \cup {Device(TRUE, {e}, FALSE, Table, XTable) : e \in Phrases}
  \cup {Device(TRUE, {"time window", e}, FALSE, Table, XTable) :
          e \in {"usm", "authent", "timeout"}}
  \cup {Device(TRUE, {"timeout", e}, FALSE, Table, XTable) : e \in {"usm", "authent"}}
  \cup {Device(TRUE, {}, FALSE, t, x) :
          t \in {Failed, <<>>, Table}, x \in {Failed, XTable}}

\* The counters of three interfaces, in any order.
MCWalks ==
  {w \in [1 .. 3 -> {Cell("in32", i, i) : i \in 1 .. 3}] :
     \A k, l \in 1 .. 3 : k # l => w[k] # w[l]}
=============================================================================
