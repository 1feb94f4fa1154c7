------------------------------- MODULE Probes -------------------------------
(***************************************************************************)
(* internal/probe: how one probe, of one target and family, finds the      *)
(* address it probes and the source address it binds to, and ends. ping,   *)
(* tcpping and traceroute resolve first and choose the source by what they *)
(* got; httpcheck and mtr choose the source first, by a lookup of their    *)
(* own when no family is forced, and resolve again when they connect;      *)
(* dnscheck binds by the name server it asks. mesh types run the same code.*)
(*                                                                         *)
(* Two lookups of one name may differ: a lookup answers any of the name's  *)
(* addresses, in any order, or fails. Source addresses are known by their  *)
(* family. The hops of a traceroute are module Traceroute.                 *)
(***************************************************************************)
EXTENDS Integers, Sequences, FiniteSets

CONSTANTS
  Runs,        \* bound: names for the probes in execution at one time
  MaxRuns,     \* bound: probes begun
  MaxAgain,    \* bound: redirects, and further dials to name servers, of a probe
  Alone,       \* bound: jobs that run by themselves, sharing nothing with others
  Jobs,        \* what Dispatch is called with: type, host, family, sources
  Addrs,       \* [hosts -> their addresses]
  LiteralIPs,  \* the hosts net.ParseIP accepts
  FamilyOf,    \* [addresses -> {"ip4", "ip6"}]
  Nameservers, \* the addresses of the system's name servers
  NoSource, NoAddr

Families == {"ip4", "ip6"}
Hosts    == DOMAIN Addrs
Types    == {"ping", "tcpping", "httpcheck", "dnscheck", "mtr", "traceroute"}
Address  == DOMAIN FamilyOf

ASSUME ProbesAssumption ==
  /\ MaxRuns \in Nat /\ MaxAgain \in Nat
  /\ FamilyOf \in [Address -> Families]
  /\ Addrs \in [Hosts -> SUBSET Address]
  /\ LiteralIPs \subseteq Hosts /\ Nameservers \subseteq Address
  /\ Jobs # {}
  /\ Jobs \subseteq [type : Types, host : Hosts, family : Families \cup {""},
                     sources : SUBSET Families]
  /\ \A j \in Jobs : j.host \in LiteralIPs => j.family = ""
  /\ NoSource \notin Families /\ NoAddr \notin Address

VARIABLES
  run,    \* the probes
  begun   \* how many were begun

probeVars == <<run, begun>>

ResolveFirst == {"ping", "tcpping", "traceroute"}
PickFirst    == {"httpcheck", "mtr"}

\* phase: ended, begin, dial (source chosen, not yet connected) or bound (to
\* src, with dst as the other end); at: the host now connected to; saw: what
\* the lookup for the source answered first; agreed: history, whether the
\* later lookup answered that too; again: redirects or further dials so far.
Fresh(j) == [job |-> j, phase |-> "begin", at |-> j.host, src |-> NoSource,
             dst |-> NoAddr, saw |-> NoAddr, agreed |-> TRUE, again |-> 0,
             result |-> "none"]

\* No probe; of one that has ended only its result is kept.
Idle == [Fresh(CHOOSE j \in Jobs : TRUE) EXCEPT !.phase = "ended"]

ProbesInit ==
  /\ run = [r \in Runs |-> Idle]
  /\ begun = 0

-----------------------------------------------------------------------------
(* Lookups and source selection                                            *)

\* The addresses of a host in a family, "" being both.
Within(host, family) ==
  {a \in Addrs[host] : family \in {"", FamilyOf[a]}}

\* What resolveTargetIP may return; it fails on a name without an answer.
resolveTargetIP(host, family) ==
  IF host \in LiteralIPs THEN Addrs[host] ELSE Within(host, family)

\* What a dialer's own lookup may answer, the empty set when it fails.
DialLookups(host, family) ==
  IF host \in LiteralIPs THEN {Within(host, family)}
                         ELSE SUBSET Within(host, family)

\* The source of a family, if there is one.
sourceIPForFamily(family, sources) ==
  IF family \in sources THEN family ELSE NoSource

sourceIPForIP(addr, sources) == sourceIPForFamily(FamilyOf[addr], sources)

\* Faulty: an IPv4 source is taken whenever there is one.
pickSourceIPv4(host, sources) ==
  {[src |-> IF "ip4" \in sources THEN "ip4" ELSE sourceIPForIP(a, sources),
    saw |-> a] : a \in Addrs[host]}

\* What pickSourceIP may return, with the address it saw: a lookup that fails
\* yields the IPv4 source.
pickSourceIP(host, sources) ==
  {[src |-> sourceIPForIP(a, sources), saw |-> a] : a \in Addrs[host]}
  \cup IF host \in LiteralIPs THEN {}
       ELSE {[src |-> sourceIPForFamily("ip4", sources), saw |-> NoAddr]}

-----------------------------------------------------------------------------
(* One probe                                                               *)

In(r, types, phase) == run[r].job.type \in types /\ run[r].phase = phase

Become(r, rec) == run' = [run EXCEPT ![r] = rec] /\ UNCHANGED begun

Ended(res) == [Idle EXCEPT !.result = res]

Begin(r, j) ==
  /\ run[r].phase = "ended"
  /\ begun < MaxRuns                                              \* bound
  /\ \A s \in Runs : {run[s].job, j} \cap Alone # {} => run[s].phase = "ended"
  /\ run' = [run EXCEPT ![r] = Fresh(j)]
  /\ begun' = begun + 1

\* The resolution, the socket, the exchange or its timeout: what can fail. A
\* traceroute whose socket is bound ends as Traceroute says.
Fails(r) ==
  /\ run[r].phase \in {"begin", "dial", "bound"}
  /\ ~In(r, {"traceroute"}, "bound")
  /\ Become(r, Ended("fail"))

\* Faulty: the source is chosen by a lookup of its own.
ResolveTwice(r) ==
  /\ In(r, ResolveFirst, "begin")
  /\ \E a, b \in resolveTargetIP(run[r].job.host, run[r].job.family) :
       Become(r, [run[r] EXCEPT !.phase = "bound", !.dst = a,
                    !.src = sourceIPForIP(b, run[r].job.sources)])

Resolve(r) ==
  /\ In(r, ResolveFirst, "begin")
  /\ \E a \in resolveTargetIP(run[r].job.host, run[r].job.family) :
       Become(r, [run[r] EXCEPT !.phase = "bound", !.dst = a,
                    !.src = sourceIPForIP(a, run[r].job.sources)])

\* Faulty: the forced family does not count.
PickSourceByHost(r) ==
  /\ In(r, PickFirst, "begin")
  /\ \E p \in pickSourceIP(run[r].job.host, run[r].job.sources) :
       Become(r, [run[r] EXCEPT !.phase = "dial", !.src = p.src, !.saw = p.saw])

\* A forced family decides alone, also when it has no source.
PickSource(r) ==
  LET j == run[r].job
  IN  /\ In(r, PickFirst, "begin")
      /\ \/ /\ j.family # ""
            /\ Become(r, [run[r] EXCEPT !.phase = "dial",
                            !.src = sourceIPForFamily(j.family, j.sources)])
         \/ /\ j.family = ""
            /\ \E p \in pickSourceIP(j.host, j.sources) :
                 Become(r, [run[r] EXCEPT !.phase = "dial", !.src = p.src,
                                          !.saw = p.saw])

\* net.Dialer looks the host up and tries those addresses that fit LocalAddr.
DialHost(r, family) ==
  \E found \in DialLookups(run[r].at, family) :
    LET fitting == {a \in found : run[r].src \in {NoSource, FamilyOf[a]}}
        seen    == [run[r] EXCEPT
                      !.agreed = @ /\ run[r].saw \in found \cup
                                        (IF run[r].job.family = "" THEN {}
                                                                   ELSE {NoAddr})]
    IN  \/ /\ found # {} /\ fitting = {}
           /\ Become(r, [Ended("unsuitable") EXCEPT !.agreed = seen.agreed,
                                                    !.again = seen.again])
        \/ \E a \in fitting :
             Become(r, [seen EXCEPT !.phase = "bound", !.dst = a])

HTTPDial(r) == In(r, {"httpcheck"}, "dial") /\ DialHost(r, run[r].job.family)

\* The answer redirects to another host; the client and its dialer stay.
Redirect(r, h) ==
  /\ In(r, {"httpcheck"}, "bound")
  /\ run[r].again < MaxAgain /\ h # run[r].at
  /\ Become(r, [run[r] EXCEPT !.phase = "dial", !.at = h, !.dst = NoAddr,
                              !.again = @ + 1])

\* mtr resolves the target itself, within the family of -4 or -6.
MTRStart(r) ==
  /\ In(r, {"mtr"}, "dial")
  /\ \E a \in Within(run[r].at, run[r].job.family) :
       Become(r, [run[r] EXCEPT !.phase = "bound", !.dst = a,
                    !.agreed = run[r].job.family # "" \/ run[r].saw = a])

\* The resolver dials a name server, over UDP whatever it asks for: a truncated
\* answer is asked for again in the same way, as is one that did not come.
DNSDial(r) ==
  /\ In(r, {"dnscheck"}, "begin") \/ (In(r, {"dnscheck"}, "bound")
                                      /\ run[r].again < MaxAgain)
  /\ \E a \in Nameservers :
       Become(r, [run[r] EXCEPT !.phase = "bound", !.dst = a,
                    !.src = sourceIPForIP(a, run[r].job.sources),
                    !.again = IF run[r].phase = "bound" THEN @ + 1 ELSE @])

\* The exchange succeeds; mtr cannot bind to a source of the other family.
Succeeds(r) ==
  /\ In(r, Types \ {"traceroute"}, "bound")
  /\ run[r].src \in {NoSource, FamilyOf[run[r].dst]}
  /\ Become(r, Ended("ok"))

Advance(r) ==
  \/ Fails(r) \/ Resolve(r) \/ PickSource(r) \/ HTTPDial(r) \/ MTRStart(r)
  \/ DNSDial(r) \/ Succeeds(r) \/ \E h \in Hosts : Redirect(r, h)

-----------------------------------------------------------------------------
(* Properties                                                              *)

\* No family is forced on a type that chooses its source before it connects.
Guessed(p) == p.job.type \in PickFirst /\ p.job.family = ""

\* A probe leaves from the configured source of the family it probes over, or
\* unbound when that family has none (README 5.1); only an httpcheck and an
\* mtr in automatic mode, whose source comes from another lookup, may not.
BoundBySource ==
  \A r \in Runs : run[r].phase = "bound" /\ ~Guessed(run[r]) =>
    run[r].src = sourceIPForIP(run[r].dst, run[r].job.sources)

\* No probe binds a source of one family to a target of the other, whatever
\* the name servers answer from lookup to lookup, but an mtr in automatic mode
\* whose lookup differed from the agent's.
NeverMisbound ==
  \A r \in Runs : run[r].phase = "bound" =>
    \/ run[r].src \in {NoSource, FamilyOf[run[r].dst]}
    \/ run[r].job.type = "mtr" /\ run[r].job.family = "" /\ ~run[r].agreed

\* A result labelled (v4) or (v6) was measured over that family, also through
\* redirects; of a dnscheck the label tells the record asked for.
FamilyKept ==
  \A r \in Runs :
    run[r].phase = "bound" /\ run[r].job.family # "" =>
      run[r].job.type = "dnscheck" \/ FamilyOf[run[r].dst] = run[r].job.family

\* A probe fails for want of an address that fits its source only if the
\* answers to its two lookups differed or a redirect led it to another host.
NoFalseOutage ==
  \A r \in Runs :
    run[r].result = "unsuitable" => run[r].again > 0 \/ ~run[r].agreed
=============================================================================
