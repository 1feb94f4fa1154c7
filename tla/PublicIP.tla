------------------------------ MODULE PublicIP ------------------------------
(***************************************************************************)
(* main.go's runIPRefresh and versionTransport over CertStore: the agent   *)
(* asks the server's /my-ip over IPv4 and then over IPv6 which address it  *)
(* comes from, and sends what it has learned with every request. Each      *)
(* query builds a client of its own from the files on disk, in the middle  *)
(* of a renewal too; what was learned is lost with the process.            *)
(*                                                                         *)
(* The context of a query is cancelled before the body is read, and the    *)
(* error of reading it is not looked at: the body may be cut anywhere, and *)
(* one cut to another address is an address. A detection is one step: what *)
(* it finds is its own until it is stored, and each query may fail.        *)
(***************************************************************************)
EXTENDS CertStore

CONSTANTS
  Network,    \* {"tcp4", "tcp6"}
  Addresses,  \* [Network -> the addresses the agent may have there, "" for none]
  Cuts,       \* [address -> the texts that a body with it may be cut to]
  ParseIP     \* the texts net.ParseIP accepts

ASSUME IPAssumption ==
  /\ "" \notin ParseIP
  /\ \A n \in Network : Addresses[n] \subseteq ParseIP \cup {""}

VARIABLES
  seen,  \* the address of each family from which the server sees the agent, ""
         \* without a way to it
  ips    \* publicIPv4 and publicIPv6 of the transport, "" while unknown

allVars == <<vars, seen, ips>>

Unknown == [n \in Network |-> ""]

\* Faulty: one family without an answer spoils the other's.
FoundBoth(read) == IF \A n \in Network : read[n] \in ParseIP THEN read ELSE Unknown

\* What detect makes of the bodies it read: addresses, or nothing.
Found(read) == [n \in Network |-> IF read[n] \in ParseIP THEN read[n] ELSE ""]

\* The bodies that may be read over n now.
Bodies(n) == IF seen[n] = "" THEN {} ELSE {seen[n]} \cup Cuts[seen[n]]

\* What the two queries may read: nothing without a client or an answer.
Readings ==
  LET read(n) == {""} \cup (IF Matching(disk["crt"], disk["key"]) THEN Bodies(n) ELSE {})
  IN  {r \in [Network -> UNION {read(n) : n \in Network}] : \A n \in Network : r[n] \in read(n)}

\* Faulty: only what is missing is learned.
setIPsMissing(new) == [n \in Network |-> IF ips[n] = "" THEN new[n] ELSE ips[n]]

setIPs(new) == [n \in Network |-> IF new[n] # "" THEN new[n] ELSE ips[n]]

\* A detection that reads one of these.
Detect(readings) ==
  /\ mode = "running"
  /\ UNCHANGED <<vars, seen>>
  /\ \E read \in readings : ips' = setIPs(Found(read))

\* A step of CertStore; what was learned ends with the process.
Store ==
  /\ Next
  /\ ips' = IF mode' = "down" THEN Unknown ELSE ips
  /\ UNCHANGED seen

\* The agent's host, or the NAT before it, gets another address.
Move ==
  /\ \E n \in Network : \E a \in Addresses[n] : seen' = [seen EXCEPT ![n] = a]
  /\ UNCHANGED <<vars, ips>>

IPInit ==
  /\ Init
  /\ seen \in [Network -> UNION {Addresses[n] : n \in Network}]
  /\ \A n \in Network : seen[n] \in Addresses[n]
  /\ ips = Unknown

IPNext == Store \/ Move \/ Detect(Readings)

\* A detection in which the query over n reads its answer whole.
Answered(n) == seen[n] # "" /\ Detect({read \in Readings : read[n] = seen[n]})

\* Asked again and again, some answer over either family is read whole.
IPSpec ==
  IPInit /\ [][IPNext]_allVars /\ Fairness /\ \A n \in Network : SF_allVars(Answered(n))

-----------------------------------------------------------------------------
\* An agent that keeps running comes to report the address the server sees it
\* come from, whether or not the other family has one, also when it changes, when a
\* cut one was learned before, and when detections fall into renewals, unless a
\* renewal was cut between crt and key.
AddressesFollow ==
  \A n \in Network :
    mode = "running" /\ seen[n] \notin {"", ips[n]} ~>
      mode # "running" \/ cut \/ seen[n] \in {"", ips[n]}
=============================================================================
