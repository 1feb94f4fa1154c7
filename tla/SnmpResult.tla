----------------------------- MODULE SnmpResult -----------------------------
(***************************************************************************)
(* internal/probe/snmp.go: what one poll of a device concludes from what   *)
(* the device (and gosnmp) answers. All of it is calculation; when a poll  *)
(* takes place is module SnmpPoll.                                         *)
(*                                                                         *)
(* An OID is an id and whether it is written with a leading dot, gosnmp    *)
(* itself always writes one. A value is a record of its kind and content.  *)
(***************************************************************************)
EXTENDS Integers, Sequences, FiniteSets, SequencesExt

CONSTANTS
  MaxInterfaces,   \* maxInterfaces
  PollParams,      \* the parameters of polls: target, v1 (Version is "1"),
                   \* CollectIfaces, ExtraOIDs
  Devices,         \* what a device may answer: connects, error, status, value,
                   \* ifTable, ifXTable
  Walks,           \* sequences of cells of ifTable, no cell twice
  Failed           \* a walk that failed

\* What a walk finds: a sequence of cells [col, idx, val], none of them twice.
\* An index is part of an OID, and a 64-bit counter is unsigned.
IsWalk(w) ==
  /\ Len(w) \in Nat /\ DOMAIN w = 1 .. Len(w)
  /\ \A k \in DOMAIN w :
       /\ w[k].idx \in Nat
       /\ w[k].col \in {"hcIn", "hcOut"} => w[k].val \in Nat
  /\ \A k, l \in DOMAIN w : k # l => w[k].idx # w[l].idx \/ w[k].col # w[l].col

ASSUME SnmpAssumption ==
  /\ MaxInterfaces \in Nat \ {0}
  /\ PollParams \subseteq [target : BOOLEAN, v1 : BOOLEAN, CollectIfaces : BOOLEAN,
                           ExtraOIDs : Seq([dot : BOOLEAN, id : STRING])]
  /\ \A d \in Devices : /\ d.ifTable # Failed => IsWalk(d.ifTable)
                        /\ d.ifXTable # Failed => IsWalk(d.ifXTable)
  /\ \A w \in Walks : IsWalk(w)

SystemGroup == {"sysDescr", "sysObjectID", "sysContact", "sysName", "sysLocation"}
SystemOIDs  == SystemGroup \cup {"sysUpTime"}

-----------------------------------------------------------------------------
(* Errors                                                                  *)

\* What the text of an error may contain; an error is the set of these.
CredentialPhrases == {"usm", "authent", "unknown user", "wrong digest", "decryption"}
Phrases == CredentialPhrases \cup {"time window", "timeout"}

\* Faulty: the USM phrases are looked for first.
classifyAuthFirst(e) ==
  IF e \cap CredentialPhrases # {} THEN "auth_fail"
  ELSE IF "timeout" \in e THEN "snmp_timeout" ELSE "snmp_error"

\* Faulty: a timeout is looked for before the USM phrases.
classifyTimeoutFirst(e) ==
  IF "time window" \in e THEN "snmp_error"
  ELSE IF "timeout" \in e THEN "snmp_timeout"
  ELSE IF e \cap CredentialPhrases # {} THEN "auth_fail" ELSE "snmp_error"

classifySNMPError(e) ==
  IF "time window" \in e THEN "snmp_error"
  ELSE IF e \cap CredentialPhrases # {} THEN "auth_fail"
  ELSE IF "timeout" \in e THEN "snmp_timeout" ELSE "snmp_error"

-----------------------------------------------------------------------------
(* Interfaces                                                              *)

\* The columns that are kept of ifTable and ifXTable, by name.
Col  == {"descr", "bps", "in32", "out32"}
XCol == {"name", "mbps", "hcIn", "hcOut"}

Empty == [c \in Col \cup XCol |-> IF c \in {"descr", "name"} THEN ""
                                  ELSE IF c \in {"hcIn", "hcOut"} THEN -1 ELSE 0]

\* The cells of a walk in one place.
At(cells, i, c) == {k \in DOMAIN cells : cells[k].idx = i /\ cells[k].col = c}

\* dispatch: each cell goes to the row of its index, which it may create; of two
\* for one place the later stays.
dispatch(rows, cells) ==
  [i \in DOMAIN rows \cup {cells[k].idx : k \in DOMAIN cells} |->
     [c \in Col \cup XCol |->
        IF At(cells, i, c) # {} THEN cells[Max(At(cells, i, c))].val
        ELSE IF i \in DOMAIN rows THEN rows[i][c] ELSE Empty[c]]]

\* Faulty: a counter of ifXTable counts if it is not zero.
CounterIfPositive(hc, narrow) == IF hc > 0 THEN hc ELSE narrow

\* A counter of ifXTable counts if it was there at all (-1: it was not).
Counter(hc, narrow) == IF hc >= 0 THEN hc ELSE narrow

Interface(i, row) ==
  [IfIndex   |-> i,
   Name      |-> IF row["name"] = "" THEN row["descr"] ELSE row["name"],
   SpeedMbps |-> IF row["mbps"] > 0 THEN row["mbps"] ELSE row["bps"] \div 1000000,
   In        |-> Counter(row["hcIn"], row["in32"]),
   Out       |-> Counter(row["hcOut"], row["out32"])]

\* Faulty: the first rows seen are kept.
KeptFirst(rows, walk) ==
  {i \in DOMAIN rows :
     Cardinality({walk[n].idx : n \in 1 .. (CHOOSE k \in DOMAIN walk :
       /\ walk[k].idx = i
       /\ \A l \in 1 .. k - 1 : walk[l].idx # i) - 1}) < MaxInterfaces}

\* The rows kept are the MaxInterfaces with the smallest index.
Kept(rows, walk) ==
  {i \in DOMAIN rows : Cardinality({j \in DOMAIN rows : j < i}) < MaxInterfaces}

\* collectInterfaces: ifTable and ifXTable, the latter of which may fail.
collectInterfaces(tab, xtab) ==
  LET t    == dispatch(<<>>, tab)
      rows == IF xtab = Failed THEN t ELSE dispatch(t, xtab)
  IN  {Interface(i, rows[i]) :
         i \in Kept(rows, IF xtab = Failed THEN tab ELSE tab \o xtab)}

-----------------------------------------------------------------------------
(* One poll                                                                *)

\* decodeOIDValue by kind of value. A float that is not a number stays one,
\* and encoding/json refuses it.
decodeOIDValue(id, v) ==
  CASE v.kind = "nosuch" -> [OID |-> id, Value |-> "", Err |-> "no_such_object"]
    [] v.kind = "null"   -> [OID |-> id, Value |-> "", Err |-> "null"]
    [] OTHER             -> [OID |-> id, Value |-> v.val, Err |-> ""]

asString(v) == IF v.kind = "string" THEN v.val ELSE ""

\* Faulty: what a failed walk leaves is reported as an empty table.
IfacesAnyway(p, d) ==
  [Has  |-> p.CollectIfaces,
   Rows |-> IF p.CollectIfaces /\ d.ifTable # Failed
              THEN collectInterfaces(d.ifTable, d.ifXTable) ELSE {}]

\* The interfaces of a poll whose GET succeeded.
Ifaces(p, d) ==
  LET walked == p.CollectIfaces /\ d.ifTable # Failed
  IN  [Has  |-> walked,
       Rows |-> IF walked THEN collectInterfaces(d.ifTable, d.ifXTable) ELSE {}]

\* Faulty: the custom OIDs are asked for with the system group only.
AskedSlow(p, full) ==
  {"sysUpTime"} \cup (IF full THEN SystemGroup ELSE {})
  \cup (IF full THEN {p.ExtraOIDs[i].id : i \in DOMAIN p.ExtraOIDs} ELSE {})

\* The ids a poll asks for.
Asked(p, full) ==
  {"sysUpTime"} \cup (IF full THEN SystemGroup ELSE {})
  \cup {p.ExtraOIDs[i].id : i \in DOMAIN p.ExtraOIDs}

\* A variable that is reported as a custom OID: it is not one of the fixed set
\* and it was configured without a leading dot.
Extra(p, id) ==
  /\ id \notin SystemOIDs
  /\ \E i \in DOMAIN p.ExtraOIDs : p.ExtraOIDs[i] = [dot |-> FALSE, id |-> id]

\* The answer to a GET bears an error status: SNMPv1 has no other way to say
\* that one of the objects asked for is missing.
ErrorStatus(p, full, d) ==
  \/ d.status
  \/ p.v1 /\ \E id \in Asked(p, full) : d.value[id].kind = "nosuch"

NoReading == [Success |-> FALSE, ErrorKind |-> "", Uptime |-> FALSE, System |-> <<>>,
              Values |-> {}, HasInterfaces |-> FALSE, Interfaces |-> {}]

\* RunSNMPPoll with the parameters p of a device that answers d.
RunSNMPPoll(p, full, d) ==
  IF ~p.target \/ ~d.connects THEN [NoReading EXCEPT !.ErrorKind = "unreachable"]
  ELSE IF d.error # {} THEN [NoReading EXCEPT !.ErrorKind = classifySNMPError(d.error)]
  ELSE IF ErrorStatus(p, full, d) THEN [NoReading EXCEPT !.ErrorKind = "snmp_error"]
  ELSE LET ifs == Ifaces(p, d)
       IN  [Success |-> TRUE, ErrorKind |-> "",
            Uptime |-> d.value["sysUpTime"].kind = "ticks",
            System |-> [f \in Asked(p, full) \cap SystemGroup |->
                          asString(d.value[f])],
            Values |-> {decodeOIDValue(id, d.value[id]) :
                          id \in {x \in Asked(p, full) : Extra(p, x)}},
            HasInterfaces |-> ifs.Has, Interfaces |-> ifs.Rows]

-----------------------------------------------------------------------------
(* What polls must conclude, of each kind: full or not. SnmpPoll states it   *)
(* of the polls its runners make.                                          *)

\* Whatever became of the interface walks, a poll succeeds if the device
\* answered its GET without an error status, its own or the one SNMPv1 sends for
\* a missing object. The reason of a failure is what the exchange says: "auth_fail"
\* exactly if the error's text names the credentials (also beside a timeout) but not
\* the time window, of which the USM complains too; "snmp_timeout" exactly if it
\* names a timeout and none of them; "unreachable" exactly if nothing was sent.
Verdicts ==
  [full \in BOOLEAN |->
     \A p \in PollParams, d \in Devices :
       LET kind     == RunSNMPPoll(p, full, d).ErrorKind
           sent     == p.target /\ d.connects
           answered == sent /\ d.error = {} /\ ~d.status
           named    == d.error \cap CredentialPhrases # {}
           clock    == "time window" \in d.error
       IN  /\ RunSNMPPoll(p, full, d).Success <=> kind = ""
           /\ kind = "" => answered
           /\ answered => kind = "" \/ p.v1
           /\ kind = "unreachable" <=> ~sent
           /\ kind = "auth_fail" <=> sent /\ named /\ ~clock
           /\ kind = "snmp_timeout" <=>
                sent /\ "timeout" \in d.error /\ ~named /\ ~clock]

\* The server clears its interface table only when the device has none: a walk
\* that failed, or was not asked for, never looks like an empty table, and one
\* whose ifXTable failed still has every interface.
NoFalseClear(full) ==
  \A p \in PollParams, d \in Devices :
    LET r == RunSNMPPoll(p, full, d)
    IN  r.HasInterfaces =>
          /\ r.Success /\ d.ifTable # Failed
          /\ Cardinality(r.Interfaces) >=
               LET n == Cardinality({d.ifTable[k].idx : k \in DOMAIN d.ifTable})
               IN  IF n < MaxInterfaces THEN n ELSE MaxInterfaces

\* The same tables give the same interfaces, whatever the order in which the
\* walks deliver them: beyond the cap the server sees the same ones each time.
SameRowsEveryPoll ==
  \A v, w \in Walks :
    Len(v) = Len(w) /\ ToSet(v) = ToSet(w) =>
      collectInterfaces(v, Failed) = collectInterfaces(w, Failed)

\* A counter the device keeps in 64 bits is reported from there, also while it
\* is zero; otherwise the rate computed from two polls is wrong.
WideCounters ==
  \A d \in Devices :
    d.ifTable # Failed /\ d.ifXTable # Failed =>
      \A row \in collectInterfaces(d.ifTable, d.ifXTable) :
        \A k \in DOMAIN d.ifXTable :
          LET c == d.ifXTable[k]
          IN  c.idx = row.IfIndex => /\ c.col = "hcIn" => row.In = c.val
                                     /\ c.col = "hcOut" => row.Out = c.val

\* Every successful poll has a reading, or the reason there is none, of each
\* custom OID that is written without a leading dot and not one of the system
\* group; the others it never has.
ExtrasReported(full) ==
  \A p \in PollParams, d \in Devices :
    LET r == RunSNMPPoll(p, full, d)
    IN  r.Success =>
          {v.OID : v \in r.Values} =
            {p.ExtraOIDs[i].id : i \in {k \in DOMAIN p.ExtraOIDs :
               ~p.ExtraOIDs[k].dot /\ p.ExtraOIDs[k].id \notin SystemOIDs}}

\* What a successful poll reports is what the device has.
Readings ==
  [full \in BOOLEAN |->
     NoFalseClear(full) /\ SameRowsEveryPoll /\ WideCounters /\ ExtrasReported(full)]
=============================================================================
