---------------------------- MODULE MCTraceroute ----------------------------
(* A name with an address of each family, a literal address, and jobs of   *)
(* every type, for small instances of Traceroute.                          *)
EXTENDS Traceroute, TLC

MCFamilyOf == ("name4" :> "ip4") @@ ("name6" :> "ip6") @@ ("lit6" :> "ip6")
MCAddrs    == ("name" :> {"name4", "name6"}) @@ ("lit" :> {"lit6"})

Job(type, host, family, sources) ==
  [type |-> type, host |-> host, family |-> family, sources |-> sources]

MCJobs ==
  {Job("ping", "name", "", Families), Job("tcpping", "name", "ip6", {"ip4"}),
   Job("httpcheck", "name", "", Families), Job("httpcheck", "name", "", {"ip6"}),
   Job("httpcheck", "name", "ip6", {"ip4"}), Job("httpcheck", "lit", "", Families),
   Job("mtr", "name", "", Families), Job("mtr", "name", "ip6", {"ip4"}),
   Job("dnscheck", "name", "ip4", Families),
   Job("traceroute", "name", "", Families), Job("traceroute", "lit", "", {"ip4"})}

MCAlone == {j \in MCJobs : j.type # "traceroute"}

\* The name's IPv4 address is two hops away, everything else one.
MCDist == [a \in DOMAIN MCFamilyOf |-> IF a = "name4" THEN 2 ELSE 1]

\* A whole quotation, one cut before the sequence number, one without a header.
MCQuotes == {[ihl |-> 5, len |-> 28], [ihl |-> 5, len |-> 27], [ihl |-> 0, len |-> 48]}

Message(kind, from, id) == [kind |-> kind, from |-> from, id |-> id, seq |-> 1, of |-> 0]

\* Echo requests of a traceroute that "name" runs against this host with the
\* identifier 1, and the reply to a ping.
MCForeign ==
  {Message("request", "name4", 1), Message("request", "name6", 1),
   Message("reply", "name4", 7)}
=============================================================================
