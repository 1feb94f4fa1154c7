-------------------------- MODULE TracerouteProofs --------------------------
(* Theorems about Traceroute and the Probes in it, for any jobs, name      *)
(* servers, sources, hops and messages.                                    *)
EXTENDS Traceroute, FunctionTheorems, SequenceTheorems, TLAPS

ProbeRec == [job : Jobs, phase : {"ended", "begin", "dial", "bound"},
             at : Hosts, src : Families \cup {NoSource},
             dst : Address \cup {NoAddr}, saw : Address \cup {NoAddr},
             agreed : BOOLEAN, again : Nat,
             result : {"none", "ok", "fail", "unsuitable"}]

Fits(src, addr) == src \in {NoSource, FamilyOf[addr]}

\* One probe, wherever it is: how its source came about, and what the ends of
\* its connection are.
DialSource(p) ==
  /\ p.job.type \in PickFirst
  /\ p.job.family # "" => p.src = sourceIPForFamily(p.job.family, p.job.sources)

SawSource(p) ==
  Guessed(p) /\ p.saw # NoAddr => p.src = sourceIPForIP(p.saw, p.job.sources)

BoundEnds(p) ==
  /\ p.dst \in Address
  /\ ~Guessed(p) => p.src = sourceIPForIP(p.dst, p.job.sources)
  /\ Fits(p.src, p.dst) \/ (p.job.type = "mtr" /\ p.job.family = "" /\ ~p.agreed)
  /\ p.job.family # "" =>
       p.job.type = "dnscheck" \/ FamilyOf[p.dst] = p.job.family

Good(p) ==
  /\ p.phase = "dial" => DialSource(p)
  /\ p.phase \in {"dial", "bound"} => SawSource(p)
  /\ p.phase = "bound" => BoundEnds(p)
  /\ p.phase # "ended" => p.result = "none"
  /\ p.result = "unsuitable" => p.again > 0 \/ ~p.agreed

ProbesInv == run \in [Runs -> ProbeRec] /\ \A r \in Runs : Good(run[r])

LEMMA JobFacts ==
  \A j \in Jobs : /\ j.type \in Types /\ j.host \in Hosts
                  /\ j.family \in Families \cup {""} /\ j.sources \subseteq Families
                  /\ j.host \in LiteralIPs => j.family = ""
  BY ProbesAssumption

\* The same of the job of a probe.
LEMMA ProbeFacts ==
  ASSUME NEW p \in ProbeRec
  PROVE  /\ p.job \in Jobs /\ p.at \in Hosts /\ p.again \in Nat
         /\ p.job.host \in Hosts /\ p.job.family \in Families \cup {""}
         /\ p.job.sources \in SUBSET Families
         /\ p.job.family # "" => p.job.family \in Families
         /\ p.job.host \in LiteralIPs => p.job.family = ""
  BY JobFacts DEF ProbeRec

LEMMA SourceFacts ==
  /\ \A f \in Families, s \in SUBSET Families :
       sourceIPForFamily(f, s) \in {f, NoSource}
  /\ \A a \in Address, s \in SUBSET Families :
       /\ sourceIPForIP(a, s) = sourceIPForFamily(FamilyOf[a], s)
       /\ sourceIPForIP(a, s) \in Families \cup {NoSource}
       /\ Fits(sourceIPForIP(a, s), a)
  BY ProbesAssumption DEF sourceIPForFamily, sourceIPForIP, Fits

LEMMA WithinFacts ==
  ASSUME NEW h \in Hosts, NEW f \in Families \cup {""}, NEW a \in Within(h, f)
  PROVE  a \in Address /\ (f # "" => FamilyOf[a] = f)
  BY ProbesAssumption DEF Within

LEMMA LookupFacts ==
  ASSUME NEW h \in Hosts, NEW f \in Families \cup {""}
  PROVE  /\ \A found \in DialLookups(h, f) : found \subseteq Within(h, f)
         /\ (h \in LiteralIPs => f = "") => resolveTargetIP(h, f) \subseteq Within(h, f)
  BY ProbesAssumption DEF Within, DialLookups, resolveTargetIP

\* A probe that begins, and one that has ended.
LEMMA FreshGood ==
  ASSUME NEW j \in Jobs
  PROVE  Fresh(j) \in ProbeRec /\ Good(Fresh(j))
  <1>1. Fresh(j) \in ProbeRec
    BY JobFacts, ProbesAssumption DEF Fresh, ProbeRec
  <1>2. Fresh(j).phase = "begin" /\ Fresh(j).result = "none"
    BY DEF Fresh
  <1> QED BY <1>1, <1>2 DEF Good

LEMMA EndedGood ==
  ASSUME NEW res \in {"none", "ok", "fail"}
  PROVE  Ended(res) \in ProbeRec /\ Good(Ended(res)) /\ Idle \in ProbeRec /\ Good(Idle)
  <1> DEFINE j == CHOOSE j \in Jobs : TRUE
  <1>1. j \in Jobs
    BY ProbesAssumption
  <1> HIDE DEF j
  <1>2. Fresh(j) \in ProbeRec
    BY <1>1, FreshGood
  <1>3. Idle = [Fresh(j) EXCEPT !.phase = "ended"]
    BY DEF Idle, j
  <1>4. Idle \in ProbeRec /\ Idle.phase = "ended" /\ Idle.result = "none"
    <2>1. Fresh(j).result = "none"
      BY DEF Fresh
    <2> QED BY <1>2, <1>3, <2>1 DEF ProbeRec
  <1>5. Ended(res) \in ProbeRec /\ Ended(res).phase = "ended" /\ Ended(res).result = res
    BY <1>4 DEF Ended, ProbeRec
  <1> QED BY <1>4, <1>5 DEF Good

-----------------------------------------------------------------------------
(* The steps of one probe p.                                               *)

LEMMA UnsuitableRec ==
  Ended("unsuitable") \in ProbeRec /\ Ended("unsuitable").phase = "ended"
  <1>1. Idle \in ProbeRec
    BY EndedGood
  <1>2. Idle.phase = "ended"
    BY DEF Idle, Fresh
  <1> QED BY <1>1, <1>2 DEF Ended, ProbeRec

LEMMA EndedGoodRec ==
  ASSUME NEW q \in ProbeRec, q.phase = "ended", ~q.agreed
  PROVE  Good(q)
  BY DEF Good

LEMMA ResolvedFacts ==
  ASSUME NEW p \in ProbeRec, NEW a \in resolveTargetIP(p.job.host, p.job.family)
  PROVE  /\ a \in Address /\ (p.job.family # "" => FamilyOf[a] = p.job.family)
         /\ sourceIPForIP(a, p.job.sources) \in Families \cup {NoSource}
         /\ Fits(sourceIPForIP(a, p.job.sources), a)
  <1>1. /\ p.job.host \in Hosts /\ p.job.family \in Families \cup {""}
        /\ p.job.host \in LiteralIPs => p.job.family = ""
        /\ p.job.sources \in SUBSET Families
    BY ProbeFacts
  <1>2. resolveTargetIP(p.job.host, p.job.family) \subseteq Within(p.job.host, p.job.family)
    BY <1>1, LookupFacts, Zenon
  <1>3. a \in Within(p.job.host, p.job.family)
    BY <1>2
  <1>4. a \in Address /\ (p.job.family # "" => FamilyOf[a] = p.job.family)
    BY <1>1, <1>3, WithinFacts, Zenon
  <1> QED BY <1>1, <1>4, SourceFacts, Zenon

LEMMA ResolveGood ==
  ASSUME NEW p \in ProbeRec, Good(p), p.job.type \in ResolveFirst, p.phase = "begin",
         NEW a \in resolveTargetIP(p.job.host, p.job.family),
         NEW q \in ProbeRec, q.job = p.job, q.result = p.result,
         q.phase = "bound", q.dst = a, q.src = sourceIPForIP(a, p.job.sources)
  PROVE  Good(q)
  <1>1. /\ p.job \in Jobs /\ p.result = "none" /\ p.job.type \notin PickFirst
    BY DEF Good, ProbeRec, ResolveFirst, PickFirst
  <1>2. /\ a \in Address
        /\ p.job.family # "" => FamilyOf[a] = p.job.family
    BY ResolvedFacts
  <1>5. Fits(q.src, q.dst)
    BY ResolvedFacts
  <1>6. ~Guessed(q)
    BY <1>1 DEF Guessed
  <1>7. /\ q.dst \in Address
        /\ q.src = sourceIPForIP(q.dst, q.job.sources)
        /\ q.job.family # "" => FamilyOf[q.dst] = q.job.family
    BY <1>2
  <1>8. q.phase # "dial" /\ q.phase # "ended" /\ q.result # "unsuitable"
    BY <1>1
  <1>9. BoundEnds(q) /\ SawSource(q)
    BY <1>5, <1>6, <1>7 DEF BoundEnds, SawSource
  <1> QED BY <1>1, <1>8, <1>9 DEF Good

\* The source is chosen before the address: by the family that is forced, or
\* by what the lookup saw.
LEMMA PickedSource ==
  ASSUME NEW p \in ProbeRec, NEW c \in pickSourceIP(p.job.host, p.job.sources)
  PROVE  /\ c.src \in Families \cup {NoSource} /\ c.saw \in Address \cup {NoAddr}
         /\ c.saw # NoAddr => c.src = sourceIPForIP(c.saw, p.job.sources)
  <1>1. CASE \E a \in Addrs[p.job.host] :
               c = [src |-> sourceIPForIP(a, p.job.sources), saw |-> a]
    <2>1. PICK a \in Addrs[p.job.host] :
            c = [src |-> sourceIPForIP(a, p.job.sources), saw |-> a]
      BY <1>1
    <2>2. a \in Address
      BY ProbeFacts, ProbesAssumption
    <2>3. sourceIPForIP(a, p.job.sources) \in Families \cup {NoSource}
      BY <2>2, ProbeFacts, SourceFacts, Zenon
    <2> QED BY <2>1, <2>2, <2>3
  <1>2. CASE c = [src |-> sourceIPForFamily("ip4", p.job.sources), saw |-> NoAddr]
    <2>1. "ip4" \in Families
      BY DEF Families
    <2> QED BY <1>2, <2>1, ProbeFacts, SourceFacts
  <1> QED BY <1>1, <1>2 DEF pickSourceIP

LEMMA PickGood ==
  ASSUME NEW q \in ProbeRec, q.phase = "dial", q.result = "none",
         q.job.type \in PickFirst,
         q.job.family # "" => q.src = sourceIPForFamily(q.job.family, q.job.sources),
         q.job.family = "" /\ q.saw # NoAddr =>
           q.src = sourceIPForIP(q.saw, q.job.sources)
  PROVE  Good(q)
  <1>1. q.phase # "bound" /\ q.phase # "ended" /\ q.result # "unsuitable"
    OBVIOUS
  <1>2. DialSource(q) /\ SawSource(q)
    BY DEF DialSource, SawSource, Guessed
  <1> QED BY <1>1, <1>2 DEF Good

\* What the dialer's lookup answers is of the family asked for.
LEMMA DialFound ==
  ASSUME NEW p \in ProbeRec, NEW found \in DialLookups(p.at, p.job.family),
         NEW a \in found
  PROVE  a \in Address /\ (p.job.family # "" => FamilyOf[a] = p.job.family)
  <1>1. p.at \in Hosts /\ p.job.family \in Families \cup {""}
    BY ProbeFacts
  <1>2. found \subseteq Within(p.at, p.job.family)
    BY <1>1, LookupFacts, Zenon
  <1>3. a \in Within(p.at, p.job.family)
    BY <1>2
  <1> QED BY <1>1, <1>3, WithinFacts, Zenon

\* One of those addresses fits the source, and the httpcheck is connected.
LEMMA DialGood ==
  ASSUME NEW p \in ProbeRec, Good(p), p.job.type = "httpcheck", p.phase = "dial",
         NEW found \in DialLookups(p.at, p.job.family), NEW a \in found,
         Fits(p.src, a),
         NEW q \in ProbeRec, q.job = p.job, q.result = p.result,
         q.phase = "bound", q.dst = a, q.src = p.src, q.saw = p.saw
  PROVE  Good(q)
  <1>1. q.result = "none"
    BY DEF Good
  <1>2. a \in Address /\ (p.job.family # "" => FamilyOf[a] = p.job.family)
    BY DialFound
  <1>3. Guessed(q) <=> p.job.family = ""
    BY DEF Guessed, PickFirst
  <1>4. p.job.family # "" => q.src = sourceIPForIP(a, p.job.sources)
    BY <1>2, ProbeFacts, SourceFacts DEF Good, DialSource
  <1>5. Guessed(q) /\ q.saw # NoAddr => q.src = sourceIPForIP(q.saw, q.job.sources)
    BY DEF Good, SawSource, Guessed
  <1>6. /\ Fits(q.src, q.dst) /\ q.dst \in Address
        /\ ~Guessed(q) => q.src = sourceIPForIP(q.dst, q.job.sources)
        /\ q.job.family # "" => FamilyOf[q.dst] = q.job.family
    BY <1>2, <1>3, <1>4
  <1>7. q.phase # "dial" /\ q.phase # "ended" /\ q.result # "unsuitable"
    BY <1>1
  <1>8. BoundEnds(q) /\ SawSource(q)
    BY <1>5, <1>6 DEF BoundEnds, SawSource
  <1> QED BY <1>1, <1>7, <1>8 DEF Good

\* None fits: then the lookup for the source had not seen what this one found.
LEMMA UnsuitableGood ==
  ASSUME NEW p \in ProbeRec, Good(p), p.job.type = "httpcheck", p.phase = "dial",
         NEW found \in DialLookups(p.at, p.job.family), found # {},
         \A a \in found : ~Fits(p.src, a)
  PROVE  p.job.family = "" /\ p.saw \notin found
  <1>1. ASSUME p.job.family = "", p.saw \in found PROVE FALSE
    <2>1. p.saw \in Address /\ p.saw # NoAddr
      <3>1. p.saw \in Address
        BY <1>1, DialFound, Zenon
      <3> QED BY <3>1, ProbesAssumption
    <2>2. Fits(sourceIPForIP(p.saw, p.job.sources), p.saw)
      BY <2>1, ProbeFacts, SourceFacts, Zenon
    <2>3. p.src = sourceIPForIP(p.saw, p.job.sources)
      BY <1>1, <2>1 DEF Good, SawSource, Guessed, PickFirst
    <2> QED BY <1>1, <2>2, <2>3
  <1>2. ASSUME p.job.family # "" PROVE FALSE
    <2>1. p.src = sourceIPForFamily(p.job.family, p.job.sources)
      BY <1>2 DEF Good, DialSource
    <2>2. PICK a \in found : a \in Address /\ FamilyOf[a] = p.job.family
      BY <1>2, DialFound
    <2>3. sourceIPForIP(a, p.job.sources) = sourceIPForFamily(p.job.family, p.job.sources)
      BY <2>2 DEF sourceIPForIP
    <2>4. Fits(sourceIPForIP(a, p.job.sources), a)
      BY <2>2, ProbeFacts, SourceFacts, Zenon
    <2> QED BY <2>1, <2>3, <2>4
  <1> QED BY <1>1, <1>2

\* mtr finds its target by a lookup of its own.
LEMMA MTRGood ==
  ASSUME NEW p \in ProbeRec, Good(p), p.job.type = "mtr", p.phase = "dial",
         NEW a \in Within(p.at, p.job.family),
         NEW q \in ProbeRec, q.job = p.job, q.result = p.result,
         q.phase = "bound", q.dst = a, q.src = p.src, q.saw = p.saw,
         q.agreed => p.job.family # "" \/ p.saw = a
  PROVE  Good(q)
  <1>1. q.result = "none"
    BY DEF Good
  <1>2. a \in Address /\ (p.job.family # "" => FamilyOf[a] = p.job.family)
    <2>1. p.at \in Hosts /\ p.job.family \in Families \cup {""}
      BY ProbeFacts
    <2> QED BY <2>1, WithinFacts, Zenon
  <1>3. Guessed(q) <=> p.job.family = ""
    BY DEF Guessed, PickFirst
  <1>4. p.job.family # "" =>
          q.src = sourceIPForIP(a, p.job.sources) /\ Fits(q.src, a)
    BY <1>2, ProbeFacts, SourceFacts DEF Good, DialSource
  <1>5. Guessed(q) /\ q.saw # NoAddr => q.src = sourceIPForIP(q.saw, q.job.sources)
    BY DEF Good, SawSource, Guessed
  <1>6. \/ Fits(q.src, q.dst)
        \/ q.job.type = "mtr" /\ q.job.family = "" /\ ~q.agreed
    <2>1. ASSUME q.agreed, p.job.family = "" PROVE Fits(q.src, q.dst)
      <3>1. p.saw = a /\ a # NoAddr
        BY <1>2, <2>1, ProbesAssumption
      <3>2. Fits(sourceIPForIP(a, p.job.sources), a)
        BY <1>2, ProbeFacts, SourceFacts, Zenon
      <3> QED BY <1>3, <1>5, <2>1, <3>1, <3>2
    <2>2. p.job.family # "" => Fits(q.src, q.dst)
      BY <1>4
    <2> QED BY <2>1, <2>2
  <1>7. /\ q.dst \in Address
        /\ ~Guessed(q) => q.src = sourceIPForIP(q.dst, q.job.sources)
        /\ q.job.family # "" => FamilyOf[q.dst] = q.job.family
    BY <1>2, <1>3, <1>4
  <1>8. q.phase # "dial" /\ q.phase # "ended" /\ q.result # "unsuitable"
    BY <1>1
  <1>9. BoundEnds(q) /\ SawSource(q)
    BY <1>5, <1>6, <1>7 DEF BoundEnds, SawSource
  <1> QED BY <1>1, <1>8, <1>9 DEF Good

\* dnscheck binds by the name server.
LEMMA DNSGood ==
  ASSUME NEW p \in ProbeRec, p.job.type = "dnscheck", NEW a \in Nameservers,
         NEW q \in ProbeRec, q.job = p.job, q.result = "none",
         q.phase = "bound", q.dst = a, q.src = sourceIPForIP(a, p.job.sources)
  PROVE  Good(q)
  <1>1. a \in Address
    BY ProbesAssumption
  <1>2. ~Guessed(q)
    BY DEF Guessed, PickFirst
  <1>3. Fits(q.src, q.dst)
    BY <1>1, ProbeFacts, SourceFacts
  <1>4. q.phase # "dial" /\ q.phase # "ended" /\ q.result # "unsuitable"
    OBVIOUS
  <1>5. q.dst \in Address /\ q.src = sourceIPForIP(q.dst, q.job.sources)
    BY <1>1
  <1>6. q.job.family # "" => q.job.type = "dnscheck"
    OBVIOUS
  <1>7. BoundEnds(q) /\ SawSource(q)
    BY <1>2, <1>3, <1>5, <1>6 DEF BoundEnds, SawSource
  <1> QED BY <1>4, <1>7 DEF Good

\* A redirect keeps the source and the forced family.
LEMMA RedirectGood ==
  ASSUME NEW p \in ProbeRec, Good(p), p.job.type = "httpcheck", p.phase = "bound",
         NEW q \in ProbeRec, q.job = p.job, q.result = p.result,
         q.phase = "dial", q.src = p.src, q.saw = p.saw
  PROVE  Good(q)
  <1>1. q.result = "none" /\ q.job.type \in PickFirst
    BY DEF Good, PickFirst
  <1>2. q.job.family = "" /\ q.saw # NoAddr =>
          q.src = sourceIPForIP(q.saw, q.job.sources)
    BY DEF Good, SawSource, Guessed, PickFirst
  <1>3. ASSUME q.job.family # ""
        PROVE  q.src = sourceIPForFamily(q.job.family, q.job.sources)
    <2>1. /\ p.dst \in Address /\ FamilyOf[p.dst] = p.job.family
          /\ p.src = sourceIPForIP(p.dst, p.job.sources)
      BY <1>3 DEF Good, BoundEnds, Guessed
    <2>2. p.job.sources \in SUBSET Families
      BY ProbeFacts, Zenon
    <2>3. sourceIPForIP(p.dst, p.job.sources)
            = sourceIPForFamily(FamilyOf[p.dst], p.job.sources)
      BY <2>1, <2>2, SourceFacts, Zenon
    <2> QED BY <2>1, <2>3
  <1> QED BY <1>1, <1>2, <1>3, PickGood, Zenon

-----------------------------------------------------------------------------
(* The steps of the system.                                                *)

LEMMA BecomeInv ==
  ASSUME ProbesInv, NEW r \in Runs, NEW q \in ProbeRec, Good(q),
         run' = [run EXCEPT ![r] = q]
  PROVE  ProbesInv'
  BY DEF ProbesInv

LEMMA AdvanceStep ==
  ASSUME ProbesInv, NEW r \in Runs, Advance(r)
  PROVE  ProbesInv'
  <1> DEFINE p == run[r]
  <1>1. p \in ProbeRec /\ Good(p)
    BY DEF ProbesInv
  <1>2. /\ p.job \in Jobs /\ p.phase \in {"ended", "begin", "dial", "bound"}
        /\ p.at \in Hosts /\ p.src \in Families \cup {NoSource}
        /\ p.dst \in Address \cup {NoAddr} /\ p.saw \in Address \cup {NoAddr}
        /\ p.agreed \in BOOLEAN /\ p.again \in Nat
        /\ p.phase # "ended" => p.result = "none"
    BY <1>1 DEF ProbeRec, Good
  <1>3. CASE Fails(r)
    BY <1>3, EndedGood, BecomeInv DEF Fails, Become
  <1>4. CASE Succeeds(r)
    BY <1>4, EndedGood, BecomeInv DEF Succeeds, Become
  <1>5. CASE Resolve(r)
    <2>1. PICK a \in resolveTargetIP(p.job.host, p.job.family) :
            run' = [run EXCEPT ![r] = [p EXCEPT !.phase = "bound", !.dst = a,
                                        !.src = sourceIPForIP(a, p.job.sources)]]
      BY <1>5 DEF Resolve, Become
    <2> DEFINE q == [p EXCEPT !.phase = "bound", !.dst = a,
                              !.src = sourceIPForIP(a, p.job.sources)]
    <2>2. p.job.type \in ResolveFirst /\ p.phase = "begin"
      BY <1>5 DEF Resolve, In
    <2>3. sourceIPForIP(a, p.job.sources) \in Families \cup {NoSource} /\ a \in Address
      BY <1>1, <2>1, ResolvedFacts
    <2>4. /\ q \in ProbeRec /\ q.job = p.job /\ q.result = p.result
          /\ q.phase = "bound" /\ q.dst = a /\ q.src = sourceIPForIP(a, p.job.sources)
      BY <1>1, <2>3 DEF ProbeRec
    <2> HIDE DEF p, q
    <2>5. Good(q)
      BY <1>1, <2>1, <2>2, <2>4, ResolveGood
    <2> QED BY <2>1, <2>4, <2>5, BecomeInv DEF q, p
  <1>6. CASE PickSource(r)
    <2>1. p.job.type \in PickFirst /\ p.phase = "begin" /\ p.result = "none"
      BY <1>2, <1>6 DEF PickSource, In
    <2>2. CASE p.job.family # ""
      <3> DEFINE s == sourceIPForFamily(p.job.family, p.job.sources)
                 q == [p EXCEPT !.phase = "dial", !.src = s]
      <3>1. run' = [run EXCEPT ![r] = q]
        BY <1>6, <2>2 DEF PickSource, Become
      <3>2. s \in Families \cup {NoSource}
        BY <1>1, <2>2, ProbeFacts, SourceFacts
      <3>3. /\ q \in ProbeRec /\ q.job = p.job /\ q.result = "none"
            /\ q.phase = "dial" /\ q.src = s
        BY <1>1, <2>1, <3>2 DEF ProbeRec
      <3> HIDE DEF p, q
      <3>4. Good(q)
        BY <2>1, <2>2, <3>3, PickGood
      <3> QED BY <3>1, <3>3, <3>4, BecomeInv DEF q, p
    <2>3. CASE p.job.family = ""
      <3>1. PICK c \in pickSourceIP(p.job.host, p.job.sources) :
              run' = [run EXCEPT ![r] = [p EXCEPT !.phase = "dial", !.src = c.src,
                                                  !.saw = c.saw]]
        BY <1>6, <2>3 DEF PickSource, Become
      <3> DEFINE q == [p EXCEPT !.phase = "dial", !.src = c.src, !.saw = c.saw]
      <3>2. /\ c.src \in Families \cup {NoSource} /\ c.saw \in Address \cup {NoAddr}
            /\ c.saw # NoAddr => c.src = sourceIPForIP(c.saw, p.job.sources)
        BY <1>1, PickedSource
      <3>3. /\ q \in ProbeRec /\ q.job = p.job /\ q.result = "none"
            /\ q.phase = "dial" /\ q.src = c.src /\ q.saw = c.saw
        BY <1>1, <2>1, <3>2 DEF ProbeRec
      <3> HIDE DEF p, q
      <3>4. Good(q)
        BY <2>1, <2>3, <3>2, <3>3, PickGood
      <3> QED BY <3>1, <3>3, <3>4, BecomeInv DEF q, p
    <2> QED BY <2>2, <2>3
  <1>7. CASE HTTPDial(r)
    <2>1. p.job.type = "httpcheck" /\ p.phase = "dial" /\ p.result = "none"
      BY <1>2, <1>7 DEF HTTPDial, In
    <2>2. PICK found \in DialLookups(p.at, p.job.family) :
            LET fitting == {a \in found : p.src \in {NoSource, FamilyOf[a]}}
                seen    == [p EXCEPT
                              !.agreed = @ /\ p.saw \in found \cup
                                (IF p.job.family = "" THEN {} ELSE {NoAddr})]
            IN  \/ /\ found # {} /\ fitting = {}
                   /\ Become(r, [Ended("unsuitable") EXCEPT !.agreed = seen.agreed,
                                                            !.again = seen.again])
                \/ \E a \in fitting :
                     Become(r, [seen EXCEPT !.phase = "bound", !.dst = a])
      BY <1>7 DEF HTTPDial, DialHost
    <2> DEFINE agreed == p.agreed /\ p.saw \in found \cup
                           (IF p.job.family = "" THEN {} ELSE {NoAddr})
               seen == [p EXCEPT !.agreed = agreed]
    <2>3. agreed \in BOOLEAN /\ (agreed /\ p.job.family = "" => p.saw \in found)
      OBVIOUS
    <2> HIDE DEF agreed
    <2>4. /\ seen \in ProbeRec /\ seen.job = p.job /\ seen.result = "none"
          /\ seen.src = p.src /\ seen.saw = p.saw /\ seen.again = p.again
          /\ seen.agreed = agreed
      BY <1>1, <2>1, <2>3 DEF ProbeRec
    <2>5. CASE /\ found # {} /\ {a \in found : p.src \in {NoSource, FamilyOf[a]}} = {}
               /\ run' = [run EXCEPT ![r] = [Ended("unsuitable") EXCEPT
                                          !.agreed = seen.agreed, !.again = seen.again]]
      <3> DEFINE e == Ended("unsuitable")
                 q == [e EXCEPT !.agreed = agreed, !.again = p.again]
      <3>1. \A a \in found : ~Fits(p.src, a)
        BY <2>5 DEF Fits
      <3>2. e \in ProbeRec /\ e.phase = "ended"
        BY UnsuitableRec
      <3>3. q \in ProbeRec /\ q.phase = "ended" /\ q.agreed = agreed
        <4> HIDE DEF e
        <4> QED BY <1>2, <2>3, <3>2 DEF ProbeRec
      <3>4. run' = [run EXCEPT ![r] = q]
        BY <2>4, <2>5, Zenon
      <3> HIDE DEF p, q
      <3>5. p.job.family = "" /\ p.saw \notin found
        BY <1>1, <2>1, <2>5, <3>1, UnsuitableGood
      <3>6. ~agreed
        BY <2>3, <3>5
      <3>7. Good(q)
        BY <3>3, <3>6, EndedGoodRec
      <3> QED BY <3>3, <3>4, <3>7, BecomeInv
    <2>6. CASE \E a \in {a \in found : p.src \in {NoSource, FamilyOf[a]}} :
                 run' = [run EXCEPT ![r] = [seen EXCEPT !.phase = "bound", !.dst = a]]
      <3>1. PICK a \in found :
              /\ Fits(p.src, a)
              /\ run' = [run EXCEPT ![r] = [seen EXCEPT !.phase = "bound", !.dst = a]]
        BY <2>6 DEF Fits
      <3> DEFINE q == [seen EXCEPT !.phase = "bound", !.dst = a]
      <3>2. a \in Address
        BY <1>1, DialFound
      <3> HIDE DEF seen
      <3>3. /\ q \in ProbeRec /\ q.job = p.job /\ q.result = p.result /\ q.phase = "bound"
            /\ q.dst = a /\ q.src = p.src /\ q.saw = p.saw
        BY <2>1, <2>4, <3>2 DEF ProbeRec
      <3> HIDE DEF p, q
      <3>4. Good(q)
        BY <1>1, <2>1, <3>1, <3>3, DialGood
      <3> QED BY <3>1, <3>3, <3>4, BecomeInv DEF q
    <2> QED BY <2>2, <2>5, <2>6, Zenon DEF Become, agreed
  <1>8. CASE MTRStart(r)
    <2>1. PICK a \in Within(p.at, p.job.family) :
            run' = [run EXCEPT ![r] = [p EXCEPT !.phase = "bound", !.dst = a,
                                    !.agreed = p.job.family # "" \/ p.saw = a]]
      BY <1>8 DEF MTRStart, Become
    <2> DEFINE agreed == p.job.family # "" \/ p.saw = a
               q == [p EXCEPT !.phase = "bound", !.dst = a, !.agreed = agreed]
    <2>2. p.job.type = "mtr" /\ p.phase = "dial" /\ p.result = "none"
      BY <1>2, <1>8 DEF MTRStart, In
    <2>3. a \in Address
      BY <1>1, ProbeFacts, WithinFacts
    <2>4. agreed \in BOOLEAN
      OBVIOUS
    <2> HIDE DEF agreed
    <2>5. /\ q \in ProbeRec /\ q.job = p.job /\ q.result = p.result /\ q.phase = "bound"
          /\ q.dst = a /\ q.src = p.src /\ q.saw = p.saw /\ q.agreed = agreed
      BY <1>1, <2>3, <2>4 DEF ProbeRec
    <2>6. run' = [run EXCEPT ![r] = q]
      BY <2>1 DEF agreed
    <2>7. q.agreed => p.job.family # "" \/ p.saw = a
      BY <2>5 DEF agreed
    <2> HIDE DEF p, q
    <2>8. Good(q)
      BY <1>1, <2>1, <2>2, <2>5, <2>7, MTRGood
    <2> QED BY <2>5, <2>6, <2>8, BecomeInv
  <1>9. CASE DNSDial(r)
    <2>1. PICK a \in Nameservers :
            run' = [run EXCEPT ![r] = [p EXCEPT !.phase = "bound", !.dst = a,
                                    !.src = sourceIPForIP(a, p.job.sources),
                                    !.again = IF p.phase = "bound" THEN @ + 1 ELSE @]]
      BY <1>9 DEF DNSDial, Become
    <2> DEFINE s == sourceIPForIP(a, p.job.sources)
               n == IF p.phase = "bound" THEN p.again + 1 ELSE p.again
               q == [p EXCEPT !.phase = "bound", !.dst = a, !.src = s, !.again = n]
    <2>2. p.job.type = "dnscheck" /\ p.result = "none"
      BY <1>2, <1>9 DEF DNSDial, In
    <2>3. a \in Address /\ n \in Nat
      <3>1. a \in Address
        BY ProbesAssumption
      <3>2. n \in Nat
        BY <1>2
      <3> QED BY <3>1, <3>2
    <2>4. s \in Families \cup {NoSource}
      BY <1>1, <2>3, ProbeFacts, SourceFacts, Zenon
    <2>5. run' = [run EXCEPT ![r] = q]
      BY <2>1
    <2> HIDE DEF n
    <2>6. /\ q \in ProbeRec /\ q.job = p.job /\ q.result = "none" /\ q.phase = "bound"
          /\ q.dst = a /\ q.src = s
      BY <1>1, <2>2, <2>3, <2>4 DEF ProbeRec
    <2> HIDE DEF p, q
    <2>7. Good(q)
      BY <1>1, <2>2, <2>6, DNSGood
    <2> QED BY <2>5, <2>6, <2>7, BecomeInv
  <1>10. CASE \E h \in Hosts : Redirect(r, h)
    <2>1. PICK h \in Hosts :
            /\ p.job.type = "httpcheck" /\ p.phase = "bound"
            /\ run' = [run EXCEPT ![r] = [p EXCEPT !.phase = "dial", !.at = h,
                                          !.dst = NoAddr, !.again = @ + 1]]
      BY <1>10 DEF Redirect, Become, In
    <2> DEFINE n == p.again + 1
               q == [p EXCEPT !.phase = "dial", !.at = h, !.dst = NoAddr, !.again = n]
    <2>2. n \in Nat
      BY <1>2
    <2>3. run' = [run EXCEPT ![r] = q]
      BY <2>1
    <2> HIDE DEF n
    <2>4. /\ q \in ProbeRec /\ q.job = p.job /\ q.result = p.result /\ q.phase = "dial"
          /\ q.src = p.src /\ q.saw = p.saw
      BY <1>1, <2>2 DEF ProbeRec
    <2> HIDE DEF p, q
    <2>5. Good(q)
      BY <1>1, <2>1, <2>4, RedirectGood
    <2> QED BY <2>3, <2>4, <2>5, BecomeInv
  <1> QED BY <1>3, <1>4, <1>5, <1>6, <1>7, <1>8, <1>9, <1>10 DEF Advance

\* The steps of a traceroute end a probe or leave the probes alone.
LEMMA ProbesStep == ProbesInv /\ [Next]_vars => ProbesInv'
  <1> SUFFICES ASSUME ProbesInv, [Next]_vars PROVE ProbesInv'
    OBVIOUS
  <1>1. CASE UNCHANGED run
    BY <1>1 DEF ProbesInv
  <1>2. ASSUME NEW r \in Runs, NEW res \in {"ok", "fail"}, Become(r, Ended(res))
        PROVE  ProbesInv'
    BY <1>2, EndedGood, BecomeInv DEF Become
  <1>3. ASSUME NEW r \in Runs, NEW j \in Jobs, Start(r, j) PROVE ProbesInv'
    BY <1>3, FreshGood, BecomeInv DEF Start, Begin
  <1>4. ASSUME NEW r \in Runs, Probing(r) PROVE ProbesInv'
    BY <1>4, AdvanceStep DEF Probing
  <1>5. ASSUME NEW r \in Runs, TraceStep(r) \/ Cancel(r) PROVE ProbesInv'
    <2>1. \/ UNCHANGED run
          \/ \E res \in {"ok", "fail"} : Become(r, Ended(res))
      BY <1>5 DEF TraceStep, Cancel, Listen, ListenFails, NextHop, Send, SendFails,
                  PassTime, HopTimeout, TimedOut, Answered, EndTrace, probeVars
    <2> QED BY <1>1, <1>2, <2>1
  <1> QED BY <1>1, <1>3, <1>4, <1>5 DEF Next, vars, probeVars

LEMMA AlwaysProbes == Spec => []ProbesInv
  <1>1. Init => ProbesInv
    BY EndedGood DEF Init, ProbesInit, ProbesInv
  <1> QED BY <1>1, ProbesStep, PTL DEF Spec

\* A probe leaves from the configured source of the family it probes over, for
\* every job, whatever its lookups answer, httpcheck and mtr in automatic mode
\* exempted.
THEOREM SourcesCorrect == Spec => []BoundBySource
  <1>1. ProbesInv => BoundBySource
    BY DEF ProbesInv, Good, BoundEnds, BoundBySource
  <1> QED BY <1>1, AlwaysProbes, PTL

\* No socket is bound to a source of the other family, but mtr's in automatic
\* mode after a lookup that differed from the agent's.
THEOREM NoneMisbound == Spec => []NeverMisbound
  <1>1. ProbesInv => NeverMisbound
    BY DEF ProbesInv, Good, BoundEnds, NeverMisbound, Fits
  <1> QED BY <1>1, AlwaysProbes, PTL

\* A result that names a family was measured over it.
THEOREM FamiliesCorrect == Spec => []FamilyKept
  <1>1. ProbesInv => FamilyKept
    BY DEF ProbesInv, Good, BoundEnds, FamilyKept
  <1> QED BY <1>1, AlwaysProbes, PTL

\* An httpcheck finds no address for its source only after a redirect or when
\* its two lookups differed.
THEOREM OutagesReal == Spec => []NoFalseOutage
  <1>1. ProbesInv => NoFalseOutage
    BY DEF ProbesInv, Good, NoFalseOutage
  <1> QED BY <1>1, AlwaysProbes, PTL

-----------------------------------------------------------------------------
(* The answers of the hops.                                                *)

Messages ==
  {Timeout}
  \cup [kind : {"exceeded"}, from : {Router}, id : Int, seq : Int, ihl : Int,
        len : Int, of : Int]
  \cup [kind : {"request", "reply"}, from : Address, id : Int, seq : Int, of : Int]

Echoes == [number : Nat \ {0}, id : Int, seq : Int, dst : Address]

TraceRec == [number : Nat, dst : Address \cup {NoAddr},
             stage : {"none", "check", "send", "wait"}, live : BOOLEAN, ttl : Nat,
             left : Int, hops : Seq(Messages), late : Int]

Own(t) ==
  \A i \in DOMAIN t.hops :
    t.hops[i].kind \in {"exceeded", "reply"} =>
      t.hops[i].seq = i /\ t.hops[i].of = t.number

\* A traceroute under way has a number the counter gave out, and is at the hop
\* after those it recorded.
Counted(t, last) ==
  /\ t.number <= last
  /\ t.stage # "none" =>
       t.number > 0 /\ t.ttl = Len(t.hops) + 1 /\ t.dst \in Address

TraceInv ==
  /\ traceID \in Nat
  /\ trace \in [Runs -> TraceRec]
  /\ \A r \in Runs : Counted(trace[r], traceID)
  /\ sent \subseteq Echoes
  /\ \A e \in sent : e.number <= traceID /\ e.id = EchoID(e.number)

OwnInv == IDsDistinct => \A r \in Runs : Own(trace[r])

LEMMA EchoIDSame ==
  ASSUME NEW n \in Nat, n < IDSpace
  PROVE  EchoID(n) = n
  <1>1. IDSpace \in Nat \ {0}
    BY TracerouteAssumption
  <1> QED BY <1>1 DEF EchoID

LEMMA ArrivingFrom ==
  ASSUME NEW f, NEW m \in Arriving(f)
  PROVE  (\E e \in sent : m \in Answers(e)) \/ m \in Foreign
  <1>1. CASE m \in UNION {Answers(e) : e \in {x \in sent : FamilyOf[x.dst] = f}}
    BY <1>1
  <1>2. CASE m \in {x \in Foreign : FamilyOf[x.from] = f}
    BY <1>2
  <1> QED BY <1>1, <1>2 DEF Arriving

LEMMA AnswerFacts ==
  ASSUME NEW e \in Echoes, NEW m \in Answers(e)
  PROVE  m \in Messages /\ m.id = e.id /\ m.of = e.number
  <1>1. e.seq \in Int /\ e.id \in Int /\ e.number \in Int /\ e.dst \in Address
    BY DEF Echoes
  <1>2. CASE m \in {[kind |-> "exceeded", from |-> Router, id |-> e.id,
                     seq |-> e.seq, ihl |-> q.ihl, len |-> q.len,
                     of |-> e.number] : q \in Quotes}
    <2>1. PICK q \in Quotes :
            m = [kind |-> "exceeded", from |-> Router, id |-> e.id, seq |-> e.seq,
                 ihl |-> q.ihl, len |-> q.len, of |-> e.number]
      BY <1>2
    <2>2. q.ihl \in Int /\ q.len \in Int
      BY TracerouteAssumption
    <2> QED BY <1>1, <2>1, <2>2 DEF Messages
  <1>3. CASE m = [kind |-> "reply", from |-> e.dst, id |-> e.id, seq |-> e.seq,
                  of |-> e.number]
    BY <1>1, <1>3 DEF Messages
  <1> QED BY <1>2, <1>3 DEF Answers

LEMMA ForeignFacts == \A m \in Foreign : m \in Messages /\ m.kind # "exceeded"
  <1> SUFFICES ASSUME NEW m \in Foreign PROVE m \in Messages /\ m.kind # "exceeded"
    OBVIOUS
  <1>1. m \in [kind : {"request", "reply"}, from : Address, id : 0 .. IDSpace - 1,
               seq : Nat, of : {0}]
    BY TracerouteAssumption
  <1> QED BY <1>1, TracerouteAssumption DEF Messages

LEMMA ArrivingMessage ==
  ASSUME TraceInv, NEW f, NEW m \in Arriving(f)
  PROVE  m \in Messages
  BY ArrivingFrom, AnswerFacts, ForeignFacts DEF TraceInv

\* A message probeHop returns on, but for another host's echo request, answers
\* the echo request of this hop.
LEMMA AcceptedAnswers ==
  ASSUME TraceInv, IDsDistinct, NEW r \in Runs, trace[r].stage = "wait",
         NEW m \in Arriving(FamilyOf[trace[r].dst]),
         Acceptable(m, FamilyOf[trace[r].dst] = "ip4", EchoID(trace[r].number),
                    trace[r].ttl)
  PROVE  /\ m \in Messages
         /\ m.kind \in {"exceeded", "reply"} =>
              m.seq = trace[r].ttl /\ m.of = trace[r].number
  <1> DEFINE n == trace[r].number
  <1>1. n \in 1 .. traceID /\ traceID \in Nat /\ n < IDSpace /\ traceID < IDSpace
    BY TracerouteAssumption DEF TraceInv, Counted, TraceRec, IDsDistinct
  <1>2. EchoID(n) = n
    BY <1>1, EchoIDSame
  <1>3. m.id = n /\ m.seq = trace[r].ttl
    BY <1>2 DEF Acceptable, matchesEcho
  <1>4. CASE \E e \in sent : m \in Answers(e)
    <2>1. PICK e \in sent : m \in Answers(e)
      BY <1>4
    <2>2. /\ e \in Echoes /\ e.number \in 1 .. traceID /\ e.number \in Nat
          /\ e.id = EchoID(e.number)
      BY <1>1 DEF TraceInv, Echoes
    <2>3. e.id = e.number
      <3>1. e.number < IDSpace
        BY <1>1, <2>2, TracerouteAssumption
      <3> QED BY <2>2, <3>1, EchoIDSame
    <2>4. m \in Messages /\ m.id = e.id /\ m.of = e.number
      BY <2>1, <2>2, AnswerFacts
    <2> QED BY <1>3, <2>3, <2>4
  <1>5. CASE m \in Foreign
    <2>1. m.kind # "reply"
      BY <1>1, <1>3, <1>5 DEF IDsDistinct
    <2> QED BY <1>5, <2>1, ForeignFacts
  <1>6. (\E e \in sent : m \in Answers(e)) \/ m \in Foreign
    BY ArrivingFrom
  <1> QED BY <1>4, <1>5, <1>6

LEMMA AppendHop ==
  ASSUME NEW t \in TraceRec, NEW m \in Messages
  PROVE  /\ Append(t.hops, m) \in Seq(Messages)
         /\ Len(Append(t.hops, m)) = Len(t.hops) + 1 /\ Len(t.hops) \in Nat
         /\ \A i \in 1 .. Len(t.hops) : Append(t.hops, m)[i] = t.hops[i]
         /\ Append(t.hops, m)[Len(t.hops) + 1] = m
         /\ DOMAIN Append(t.hops, m) = 1 .. Len(t.hops) + 1
         /\ DOMAIN t.hops = 1 .. Len(t.hops)
  BY AppendProperties DEF TraceRec

\* One more hop, answered by a message for it or not at all.
LEMMA HopOwn ==
  ASSUME NEW t \in TraceRec, t.ttl = Len(t.hops) + 1, Own(t), NEW m \in Messages,
         m.kind \in {"exceeded", "reply"} => m.seq = t.ttl /\ m.of = t.number,
         NEW u \in TraceRec, u.hops = Append(t.hops, m), u.number = t.number
  PROVE  Own(u)
  <1> SUFFICES ASSUME NEW i \in 1 .. Len(t.hops) + 1,
                      u.hops[i].kind \in {"exceeded", "reply"}
               PROVE  u.hops[i].seq = i /\ u.hops[i].of = u.number
    BY AppendHop DEF Own
  <1>1. CASE i = Len(t.hops) + 1
    BY <1>1, AppendHop
  <1>2. CASE i # Len(t.hops) + 1
    <2>1. i \in 1 .. Len(t.hops) /\ u.hops[i] = t.hops[i]
      BY <1>2, AppendHop
    <2>2. t.hops[i].seq = i /\ t.hops[i].of = t.number
      BY <2>1, AppendHop DEF Own
    <2> QED BY <2>1, <2>2
  <1> QED BY <1>1, <1>2

\* A step of the run r that sends nothing.
LEMMA StepInv ==
  ASSUME TraceInv, OwnInv, NEW r \in Runs, NEW u \in TraceRec,
         trace' = [trace EXCEPT ![r] = u], UNCHANGED sent,
         traceID' \in {traceID, traceID + 1}, Counted(u, traceID'),
         IDsDistinct => Own(u)
  PROVE  TraceInv' /\ OwnInv'
  <1>1. traceID \in Nat /\ traceID' \in Nat /\ traceID <= traceID'
    BY DEF TraceInv
  <1>2. IDsDistinct' => IDsDistinct
    <2> SUFFICES ASSUME traceID' < IDSpace,
                        \A m \in Foreign : m.kind = "reply" => m.id \notin 1 .. traceID'
                 PROVE  IDsDistinct
      BY DEF IDsDistinct
    <2>1. traceID < IDSpace
      BY <1>1, TracerouteAssumption
    <2>2. 1 .. traceID \subseteq 1 .. traceID'
      BY <1>1
    <2> QED BY <2>1, <2>2 DEF IDsDistinct
  <1>3. trace' \in [Runs -> TraceRec]
    BY DEF TraceInv
  <1>4. \A s \in Runs : Counted(trace'[s], traceID')
    <2> SUFFICES ASSUME NEW s \in Runs, s # r PROVE Counted(trace[s], traceID')
      BY DEF TraceInv
    <2>1. Counted(trace[s], traceID) /\ trace[s].number \in Nat
      BY DEF TraceInv, TraceRec
    <2> QED BY <1>1, <2>1 DEF Counted
  <1>5. \A e \in sent : e.number <= traceID' /\ e.id = EchoID(e.number)
    <2> SUFFICES ASSUME NEW e \in sent PROVE e.number <= traceID'
      BY DEF TraceInv
    <2>1. e.number \in Nat /\ e.number <= traceID
      BY DEF TraceInv, Echoes
    <2> QED BY <1>1, <2>1
  <1>6. OwnInv'
    <2> SUFFICES ASSUME IDsDistinct', NEW s \in Runs PROVE Own(trace'[s])
      BY DEF OwnInv, Own
    <2>1. CASE s = r
      BY <1>2, <2>1 DEF TraceInv
    <2>2. CASE s # r
      BY <1>2, <2>2 DEF TraceInv, OwnInv
    <2> QED BY <2>1, <2>2
  <1>7. TraceInv'
    BY <1>1, <1>3, <1>4, <1>5 DEF TraceInv
  <1> QED BY <1>6, <1>7

LEMMA EmptyHops == <<>> \in Seq(Messages) /\ Len(<<>>) = 0 /\ DOMAIN <<>> = {}
  OBVIOUS

LEMMA NoTraceFacts ==
  /\ NoTrace \in TraceRec /\ Own(NoTrace)
  /\ \A last \in Nat : Counted(NoTrace, last)
  BY EmptyHops DEF NoTrace, TraceRec, Own, Counted

\* A step that records one more hop and leaves the rest of the run's record.
LEMMA HopInv ==
  ASSUME TraceInv, OwnInv, UNCHANGED <<traceID, sent>>,
         NEW r \in Runs, trace[r].stage # "none", NEW m \in Messages,
         IDsDistinct => (m.kind \in {"exceeded", "reply"} =>
                           m.seq = trace[r].ttl /\ m.of = trace[r].number),
         NEW stage \in {"none", "check"}, NEW ttl \in Nat,
         stage = "check" => ttl = trace[r].ttl + 1,
         trace' = [trace EXCEPT ![r] = [trace[r] EXCEPT
                     !.stage = stage, !.ttl = ttl, !.hops = Append(trace[r].hops, m)]]
  PROVE  TraceInv' /\ OwnInv'
  <1> DEFINE t == trace[r]
             u == [t EXCEPT !.stage = stage, !.ttl = ttl, !.hops = Append(t.hops, m)]
  <1>1. /\ t \in TraceRec /\ Counted(t, traceID) /\ t.ttl = Len(t.hops) + 1
        /\ t.number > 0 /\ t.dst \in Address /\ t.stage # "none"
    BY DEF TraceInv, Counted
  <1> HIDE DEF t
  <1>2. Append(t.hops, m) \in Seq(Messages) /\ Len(Append(t.hops, m)) = Len(t.hops) + 1
    BY <1>1, AppendHop
  <1>3. /\ u \in TraceRec /\ u.hops = Append(t.hops, m) /\ u.number = t.number
        /\ u.stage = stage /\ u.ttl = ttl /\ u.dst = t.dst
    BY <1>1, <1>2 DEF TraceRec
  <1>4. trace' = [trace EXCEPT ![r] = u]
    BY DEF t
  <1> HIDE DEF u
  <1>5. Counted(u, traceID')
    BY <1>1, <1>2, <1>3 DEF Counted, t
  <1>6. IDsDistinct => Own(u)
    <2> SUFFICES ASSUME IDsDistinct PROVE Own(u)
      OBVIOUS
    <2>1. Own(t)
      BY DEF OwnInv, t
    <2>2. m.kind \in {"exceeded", "reply"} => m.seq = t.ttl /\ m.of = t.number
      BY DEF t
    <2> QED BY <1>1, <1>3, <2>1, <2>2, HopOwn
  <1> QED BY <1>3, <1>4, <1>5, <1>6, StepInv

\* A step that changes nothing of what is recorded.
LEMMA SameHops ==
  ASSUME TraceInv, OwnInv, UNCHANGED <<traceID, sent>>,
         NEW r \in Runs, NEW u \in TraceRec, trace' = [trace EXCEPT ![r] = u],
         u.hops = trace[r].hops, u.number = trace[r].number,
         u.stage # "none" => /\ trace[r].stage # "none" /\ u.ttl = trace[r].ttl
                             /\ u.dst = trace[r].dst
  PROVE  TraceInv' /\ OwnInv'
  <1>1. Counted(u, traceID')
    BY DEF TraceInv, Counted
  <1>2. IDsDistinct => Own(u)
    BY DEF OwnInv, Own
  <1> QED BY <1>1, <1>2, StepInv

\* The echo request sent bears the identifier of its traceroute.
LEMMA SendInv ==
  ASSUME TraceInv, OwnInv, NEW r \in Runs, Send(r)
  PROVE  TraceInv' /\ OwnInv'
  <1> DEFINE t == trace[r]
             late == IF t.live THEN t.late ELSE t.late + 1
             u == [t EXCEPT !.stage = "wait", !.left = HopWait, !.late = late]
             e == [number |-> t.number, id |-> EchoID(t.number), seq |-> t.ttl,
                   dst |-> t.dst]
  <1>1. /\ t \in TraceRec /\ Counted(t, traceID) /\ t.stage = "send"
        /\ traceID' = traceID /\ sent' = sent \cup {e}
        /\ trace' = [trace EXCEPT ![r] = u]
    BY DEF TraceInv, Send, At, Step
  <1>2. u \in TraceRec /\ u.hops = t.hops /\ u.number = t.number /\ u.stage = "wait"
        /\ u.ttl = t.ttl /\ u.dst = t.dst
    <2>1. late \in Int /\ HopWait \in Int
      BY <1>1, TracerouteAssumption DEF TraceRec
    <2> HIDE DEF late, t
    <2> QED BY <1>1, <2>1 DEF TraceRec
  <1> HIDE DEF u
  <1>3. trace' \in [Runs -> TraceRec] /\ \A s \in Runs : Counted(trace'[s], traceID')
    <2>1. Counted(u, traceID)
      BY <1>1, <1>2 DEF Counted
    <2> QED BY <1>1, <1>2, <2>1 DEF TraceInv
  <1>4. e \in Echoes /\ e.number <= traceID /\ e.id = EchoID(e.number)
    <2>1. /\ t.number \in Nat \ {0} /\ t.number <= traceID /\ t.dst \in Address
          /\ t.ttl \in Int
      BY <1>1 DEF Counted, TraceRec
    <2>2. EchoID(t.number) \in Int
      BY <2>1, TracerouteAssumption DEF EchoID
    <2> HIDE DEF t
    <2> QED BY <2>1, <2>2 DEF Echoes
  <1> HIDE DEF e
  <1>5. TraceInv'
    BY <1>1, <1>3, <1>4 DEF TraceInv
  <1>6. OwnInv'
    <2> SUFFICES ASSUME IDsDistinct', NEW s \in Runs PROVE Own(trace'[s])
      BY DEF OwnInv
    <2>1. Own(trace[s])
      BY <1>1 DEF OwnInv, IDsDistinct
    <2>2. trace'[s].hops = trace[s].hops /\ trace'[s].number = trace[s].number
      BY <1>1, <1>2 DEF TraceInv
    <2> QED BY <2>1, <2>2 DEF Own
  <1> QED BY <1>5, <1>6

\* The run takes the number the counter comes to.
LEMMA ListenInv ==
  ASSUME ProbesInv, TraceInv, OwnInv, NEW r \in Runs, Listen(r)
  PROVE  TraceInv' /\ OwnInv'
  <1> DEFINE u == [NoTrace EXCEPT !.number = traceID + 1, !.dst = run[r].dst,
                                  !.stage = "check"]
  <1>1. run[r].dst \in Address
    BY DEF Listen, In, ProbesInv, Good, BoundEnds
  <1>2. traceID \in Nat /\ traceID' = traceID + 1 /\ sent' = sent
        /\ trace' = [trace EXCEPT ![r] = u]
    BY DEF TraceInv, Listen, Step
  <1>3. /\ u \in TraceRec /\ u.hops = <<>> /\ u.number = traceID + 1
        /\ u.stage = "check" /\ u.ttl = 1 /\ u.dst = run[r].dst
    <2>1. traceID + 1 \in Nat
      BY <1>2
    <2>2. /\ NoTrace \in TraceRec /\ NoTrace.hops = <<>> /\ NoTrace.ttl = 1
      BY NoTraceFacts DEF NoTrace
    <2> HIDE DEF NoTrace
    <2> QED BY <1>1, <2>1, <2>2 DEF TraceRec
  <1> HIDE DEF u
  <1>4. Counted(u, traceID')
    <2>1. u.number <= traceID' /\ u.number > 0 /\ u.ttl = Len(u.hops) + 1
      BY <1>2, <1>3, EmptyHops
    <2> QED BY <1>1, <1>3, <2>1 DEF Counted
  <1>5. Own(u)
    BY <1>3, EmptyHops DEF Own
  <1> QED BY <1>2, <1>3, <1>4, <1>5, StepInv

LEMMA AnsweredInv ==
  ASSUME TraceInv, OwnInv, NEW r \in Runs, Answered(r)
  PROVE  TraceInv' /\ OwnInv'
  <1> DEFINE t == trace[r]
  <1>1. PICK m \in Arriving(FamilyOf[t.dst]) :
          /\ Acceptable(m, FamilyOf[t.dst] = "ip4", EchoID(t.number), t.ttl)
          /\ \/ trace' = [trace EXCEPT ![r] = [t EXCEPT !.stage = "none",
                                                 !.hops = Append(t.hops, m)]]
             \/ trace' = [trace EXCEPT ![r] = [t EXCEPT !.stage = "check",
                                                 !.ttl = t.ttl + 1,
                                                 !.hops = Append(t.hops, m)]]
    BY DEF Answered, EndTrace, Step
  <1>2. t.stage = "wait" /\ t \in TraceRec /\ UNCHANGED <<traceID, sent>>
    BY DEF Answered, At, TraceInv
  <1>3. m \in Messages
    BY <1>1, ArrivingMessage
  <1>4. IDsDistinct => (m.kind \in {"exceeded", "reply"} =>
                          m.seq = t.ttl /\ m.of = t.number)
    BY <1>1, <1>2, AcceptedAnswers
  <1>5. t.ttl \in Nat /\ t.ttl + 1 \in Nat /\ t = [t EXCEPT !.ttl = t.ttl]
    BY <1>2 DEF TraceRec
  <1>6. CASE trace' = [trace EXCEPT ![r] = [t EXCEPT !.stage = "none",
                                              !.hops = Append(t.hops, m)]]
    <2>1. [t EXCEPT !.stage = "none", !.hops = Append(t.hops, m)]
            = [t EXCEPT !.stage = "none", !.ttl = t.ttl, !.hops = Append(t.hops, m)]
      BY <1>2 DEF TraceRec
    <2> QED BY <1>2, <1>3, <1>4, <1>5, <1>6, <2>1, HopInv
  <1>7. CASE trace' = [trace EXCEPT ![r] = [t EXCEPT !.stage = "check",
                                              !.ttl = t.ttl + 1,
                                              !.hops = Append(t.hops, m)]]
    BY <1>2, <1>3, <1>4, <1>5, <1>7, HopInv
  <1> QED BY <1>1, <1>6, <1>7

LEMMA TraceNext ==
  ProbesInv /\ TraceInv /\ OwnInv /\ [Next]_vars => TraceInv' /\ OwnInv'
  <1> SUFFICES ASSUME ProbesInv, TraceInv, OwnInv, [Next]_vars
               PROVE  TraceInv' /\ OwnInv'
    OBVIOUS
  <1>1. CASE UNCHANGED <<trace, traceID, sent>>
    BY <1>1 DEF TraceInv, OwnInv, IDsDistinct
  <1>2. ASSUME NEW r \in Runs, NEW j \in Jobs, Start(r, j) PROVE TraceInv' /\ OwnInv'
    <2>1. UNCHANGED <<traceID, sent>> /\ trace' = [trace EXCEPT ![r] = NoTrace]
      BY <1>2 DEF Start, Step
    <2>2. Counted(NoTrace, traceID')
      BY <2>1, NoTraceFacts DEF TraceInv
    <2> QED BY <2>1, <2>2, NoTraceFacts, StepInv
  <1> SUFFICES ASSUME NEW r \in Runs, TraceStep(r) \/ Cancel(r)
               PROVE  TraceInv' /\ OwnInv'
    BY <1>1, <1>2 DEF Next, Probing, vars
  <1> DEFINE t == trace[r]
  <1>3. t \in TraceRec
    BY DEF TraceInv
  <1>4. CASE Listen(r)
    BY <1>4, ListenInv
  <1>5. CASE ListenFails(r)
    BY <1>1, <1>5 DEF ListenFails
  <1>6. CASE NextHop(r)
    <2> DEFINE u == [t EXCEPT !.stage = "none", !.hops = t.hops]
               v == [t EXCEPT !.stage = "send"]
    <2>1. /\ t.stage = "check" /\ UNCHANGED <<traceID, sent>>
          /\ trace' = [trace EXCEPT ![r] = u] \/ trace' = [trace EXCEPT ![r] = v]
      BY <1>6 DEF NextHop, EndTrace, Step, At
    <2>2. /\ u \in TraceRec /\ u.hops = t.hops /\ u.number = t.number /\ u.stage = "none"
          /\ v \in TraceRec /\ v.hops = t.hops /\ v.number = t.number
          /\ v.ttl = t.ttl /\ v.dst = t.dst
      BY <1>3 DEF TraceRec
    <2> HIDE DEF u, v
    <2>3. CASE trace' = [trace EXCEPT ![r] = u]
      BY <2>1, <2>2, <2>3, SameHops
    <2>4. CASE trace' = [trace EXCEPT ![r] = v]
      BY <2>1, <2>2, <2>4, SameHops
    <2> QED BY <2>1, <2>3, <2>4
  <1>7. CASE Send(r)
    BY <1>7, SendInv
  <1>8. CASE SendFails(r) \/ HopTimeout(r)
    <2>1. /\ t.stage # "none" /\ UNCHANGED <<traceID, sent>>
          /\ trace' = [trace EXCEPT ![r] = [t EXCEPT !.stage = "check",
                                              !.ttl = t.ttl + 1,
                                              !.hops = Append(t.hops, Timeout)]]
      BY <1>8 DEF SendFails, HopTimeout, TimedOut, Step, At
    <2>2. Timeout \in Messages /\ Timeout.kind = "timeout" /\ t.ttl + 1 \in Nat
      BY <1>3 DEF Messages, Timeout, TraceRec
    <2>3. Timeout.kind \notin {"exceeded", "reply"}
      BY <2>2
    <2> QED BY <2>1, <2>2, <2>3, HopInv
  <1>9. CASE PassTime(r)
    <2> DEFINE u == [t EXCEPT !.left = t.left - 1]
    <2>1. /\ t.stage = "wait" /\ UNCHANGED <<traceID, sent>>
          /\ trace' = [trace EXCEPT ![r] = u]
      BY <1>9 DEF PassTime, Step, At
    <2>2. /\ u \in TraceRec /\ u.hops = t.hops /\ u.number = t.number
          /\ u.ttl = t.ttl /\ u.dst = t.dst
      BY <1>3 DEF TraceRec
    <2> HIDE DEF u
    <2> QED BY <2>1, <2>2, SameHops
  <1>10. CASE Answered(r)
    BY <1>10, AnsweredInv
  <1>11. CASE Cancel(r)
    <2> DEFINE u == [t EXCEPT !.live = FALSE]
    <2>1. /\ t.stage # "none" /\ UNCHANGED <<traceID, sent>>
          /\ trace' = [trace EXCEPT ![r] = u]
      BY <1>11 DEF Cancel, Step, At
    <2>2. /\ u \in TraceRec /\ u.hops = t.hops /\ u.number = t.number
          /\ u.ttl = t.ttl /\ u.dst = t.dst
      BY <1>3 DEF TraceRec
    <2> HIDE DEF u
    <2> QED BY <2>1, <2>2, SameHops
  <1> QED
    BY <1>4, <1>5, <1>6, <1>7, <1>8, <1>9, <1>10, <1>11 DEF TraceStep

\* For any jobs, hops and messages, whatever is lost, late or doubled, every
\* hop a traceroute recorded is the answer to its own echo request, as long as
\* the counter of identifiers has not gone round and no ping of this host bears
\* one it gave out: without that two traceroutes, or a traceroute and a ping,
\* would take each other's answers.
THEOREM AnswersCorrect == Spec => [](IDsDistinct => OwnAnswer)
  <1>1. Init => TraceInv /\ OwnInv
    BY NoTraceFacts DEF Init, TraceInv, OwnInv
  <1>2. OwnInv => (IDsDistinct => OwnAnswer)
    BY DEF OwnInv, Own, OwnAnswer
  <1> QED BY <1>1, <1>2, AlwaysProbes, TraceNext, PTL DEF Spec
-----------------------------------------------------------------------------
(* What is read of a quotation, and what is sent after a cancellation.     *)

QuotesHold(t) ==
  \A i \in DOMAIN t.hops :
    t.hops[i].kind = "exceeded" =>
      t.hops[i].len >= Offset(t.hops[i], FamilyOf[t.dst] = "ip4") + 8

\* What is sent late was about to be sent when the context was cancelled: no
\* traceroute comes to its sending stage any more.
Punctual(t) ==
  /\ t.late <= 1
  /\ t.live \/ t.stage = "send" => t.late = 0

SoundInv == \A r \in Runs : QuotesHold(trace[r]) /\ Punctual(trace[r])

LEMMA NoTraceSound ==
  ASSUME NEW t, t.hops = <<>>, t.late = 0
  PROVE  QuotesHold(t) /\ Punctual(t)
  BY EmptyHops DEF QuotesHold, Punctual

\* A step of one run.
LEMMA OneSound ==
  ASSUME SoundInv, TraceInv, NEW r \in Runs, NEW u, trace' = [trace EXCEPT ![r] = u],
         QuotesHold(u), Punctual(u)
  PROVE  SoundInv'
  BY DEF SoundInv, TraceInv

\* One more hop: if it is the sender of a TimeExceeded, its quotation holds
\* what was read of it.
LEMMA HopSound ==
  ASSUME NEW t \in TraceRec, QuotesHold(t), Punctual(t), NEW m \in Messages,
         t.stage \in {"wait", "send"},
         m.kind = "exceeded" => m.len >= Offset(m, FamilyOf[t.dst] = "ip4") + 8,
         NEW u \in TraceRec, u.hops = Append(t.hops, m), u.dst = t.dst,
         u.live = t.live, u.late = t.late, u.stage # "send"
  PROVE  QuotesHold(u) /\ Punctual(u)
  <1>1. QuotesHold(u)
    <2> SUFFICES ASSUME NEW i \in 1 .. Len(t.hops) + 1, u.hops[i].kind = "exceeded"
                 PROVE  u.hops[i].len >= Offset(u.hops[i], FamilyOf[u.dst] = "ip4") + 8
      BY AppendHop DEF QuotesHold
    <2>1. CASE i = Len(t.hops) + 1
      BY <2>1, AppendHop
    <2>2. CASE i # Len(t.hops) + 1
      <3>1. i \in 1 .. Len(t.hops) /\ u.hops[i] = t.hops[i]
        BY <2>2, AppendHop
      <3> QED BY <3>1, AppendHop DEF QuotesHold
    <2> QED BY <2>1, <2>2
  <1> QED BY <1>1 DEF Punctual

LEMMA SoundStep == TraceInv /\ SoundInv /\ ProbesInv /\ [Next]_vars => SoundInv'
  <1> SUFFICES ASSUME TraceInv, SoundInv, [Next]_vars PROVE SoundInv'
    OBVIOUS
  <1>1. CASE UNCHANGED trace
    BY <1>1 DEF SoundInv
  <1>2. ASSUME NEW r \in Runs, NEW j \in Jobs, Start(r, j) PROVE SoundInv'
    <2>1. trace' = [trace EXCEPT ![r] = NoTrace]
      BY <1>2 DEF Start, Step
    <2>2. NoTrace.hops = <<>> /\ NoTrace.late = 0
      BY DEF NoTrace
    <2> QED BY <2>1, <2>2, NoTraceSound, OneSound
  <1> SUFFICES ASSUME NEW r \in Runs, TraceStep(r) \/ Cancel(r) PROVE SoundInv'
    BY <1>1, <1>2 DEF Next, Probing, vars
  <1> DEFINE t == trace[r]
  <1>3. t \in TraceRec /\ QuotesHold(t) /\ Punctual(t)
    BY DEF TraceInv, SoundInv
  <1> HIDE DEF t
  <1>4. CASE Listen(r)
    <2> DEFINE u == [NoTrace EXCEPT !.number = traceID + 1, !.dst = run[r].dst,
                                    !.stage = "check"]
    <2>1. trace' = [trace EXCEPT ![r] = u]
      BY <1>4 DEF Listen, Step
    <2>2. u.hops = <<>> /\ u.late = 0
      BY DEF NoTrace
    <2> HIDE DEF u
    <2> QED BY <2>1, <2>2, NoTraceSound, OneSound
  <1>5. CASE ListenFails(r)
    BY <1>1, <1>5 DEF ListenFails
  <1>6. CASE NextHop(r)
    <2> DEFINE u == [t EXCEPT !.stage = "none", !.hops = t.hops]
               v == [t EXCEPT !.stage = "send"]
    <2>1. \/ trace' = [trace EXCEPT ![r] = u]
          \/ t.live /\ trace' = [trace EXCEPT ![r] = v]
      BY <1>6 DEF NextHop, EndTrace, Step, t
    <2>2. QuotesHold(u) /\ Punctual(u)
      BY <1>3 DEF QuotesHold, Punctual, TraceRec
    <2>3. t.live => QuotesHold(v) /\ Punctual(v)
      BY <1>3 DEF QuotesHold, Punctual, TraceRec
    <2> HIDE DEF u, v
    <2> QED BY <2>1, <2>2, <2>3, OneSound
  <1>7. CASE Send(r)
    <2> DEFINE late == IF t.live THEN t.late ELSE t.late + 1
               u == [t EXCEPT !.stage = "wait", !.left = HopWait, !.late = late]
    <2>1. t.stage = "send" /\ trace' = [trace EXCEPT ![r] = u]
      BY <1>7 DEF Send, At, Step, t
    <2>2. late <= 1 /\ (t.live => late = 0)
      BY <1>3, <2>1 DEF Punctual
    <2> HIDE DEF late
    <2>3. u.hops = t.hops /\ u.dst = t.dst /\ u.live = t.live /\ u.late = late
          /\ u.stage = "wait"
      BY <1>3 DEF TraceRec
    <2> HIDE DEF u
    <2>4. QuotesHold(u) /\ Punctual(u)
      BY <1>3, <2>2, <2>3 DEF QuotesHold, Punctual
    <2> QED BY <2>1, <2>4, OneSound
  <1>8. CASE SendFails(r) \/ HopTimeout(r)
    <2> DEFINE u == [t EXCEPT !.stage = "check", !.ttl = t.ttl + 1,
                              !.hops = Append(t.hops, Timeout)]
    <2>1. t.stage \in {"send", "wait"} /\ trace' = [trace EXCEPT ![r] = u]
      BY <1>8 DEF SendFails, HopTimeout, TimedOut, Step, At, t
    <2>2. Timeout \in Messages /\ Timeout.kind # "exceeded"
      BY DEF Messages, Timeout
    <2>3. t.ttl + 1 \in Nat /\ Append(t.hops, Timeout) \in Seq(Messages)
      BY <1>3, <2>2, AppendHop DEF TraceRec
    <2>4. /\ u \in TraceRec /\ u.hops = Append(t.hops, Timeout) /\ u.dst = t.dst
          /\ u.live = t.live /\ u.late = t.late /\ u.stage = "check"
      BY <1>3, <2>3 DEF TraceRec
    <2> HIDE DEF u
    <2>5. QuotesHold(u) /\ Punctual(u)
      BY <1>3, <2>1, <2>2, <2>4, HopSound
    <2> QED BY <2>1, <2>5, OneSound
  <1>9. CASE PassTime(r)
    <2> DEFINE u == [t EXCEPT !.left = t.left - 1]
    <2>1. trace' = [trace EXCEPT ![r] = u]
      BY <1>9 DEF PassTime, Step, t
    <2>2. QuotesHold(u) /\ Punctual(u)
      BY <1>3 DEF QuotesHold, Punctual, TraceRec
    <2> HIDE DEF u
    <2> QED BY <2>1, <2>2, OneSound
  <1>10. CASE Answered(r)
    <2>1. PICK m \in Arriving(FamilyOf[t.dst]) :
            /\ Acceptable(m, FamilyOf[t.dst] = "ip4", EchoID(t.number), t.ttl)
            /\ \/ trace' = [trace EXCEPT ![r] = [t EXCEPT !.stage = "none",
                                                   !.hops = Append(t.hops, m)]]
               \/ trace' = [trace EXCEPT ![r] = [t EXCEPT !.stage = "check",
                                                   !.ttl = t.ttl + 1,
                                                   !.hops = Append(t.hops, m)]]
      BY <1>10 DEF Answered, EndTrace, Step, t
    <2> DEFINE u == [t EXCEPT !.stage = "none", !.hops = Append(t.hops, m)]
               v == [t EXCEPT !.stage = "check", !.ttl = t.ttl + 1,
                              !.hops = Append(t.hops, m)]
    <2>2. m \in Messages /\ t.stage = "wait"
      BY <1>10, ArrivingMessage DEF Answered, At, t
    <2>3. m.kind = "exceeded" => m.len >= Offset(m, FamilyOf[t.dst] = "ip4") + 8
      BY <2>1 DEF Acceptable, matchesEcho
    <2>4. t.ttl + 1 \in Nat /\ Append(t.hops, m) \in Seq(Messages)
      BY <1>3, <2>2, AppendHop DEF TraceRec
    <2>5. /\ u \in TraceRec /\ u.hops = Append(t.hops, m) /\ u.dst = t.dst
          /\ u.live = t.live /\ u.late = t.late /\ u.stage = "none"
      BY <1>3, <2>4 DEF TraceRec
    <2>6. /\ v \in TraceRec /\ v.hops = Append(t.hops, m) /\ v.dst = t.dst
          /\ v.live = t.live /\ v.late = t.late /\ v.stage = "check"
      BY <1>3, <2>4 DEF TraceRec
    <2>7. trace' = [trace EXCEPT ![r] = u] \/ trace' = [trace EXCEPT ![r] = v]
      BY <2>1
    <2> HIDE DEF u, v
    <2>8. QuotesHold(u) /\ Punctual(u)
      BY <1>3, <2>2, <2>3, <2>5, HopSound
    <2>9. QuotesHold(v) /\ Punctual(v)
      BY <1>3, <2>2, <2>3, <2>6, HopSound
    <2> QED BY <2>7, <2>8, <2>9, OneSound
  <1>11. CASE Cancel(r)
    <2> DEFINE u == [t EXCEPT !.live = FALSE]
    <2>1. t.live /\ trace' = [trace EXCEPT ![r] = u]
      BY <1>11 DEF Cancel, Step, t
    <2>2. QuotesHold(u) /\ Punctual(u)
      BY <1>3, <2>1 DEF QuotesHold, Punctual, TraceRec
    <2> HIDE DEF u
    <2> QED BY <2>1, <2>2, OneSound
  <1> QED
    BY <1>4, <1>5, <1>6, <1>7, <1>8, <1>9, <1>10, <1>11 DEF TraceStep

LEMMA AlwaysSound == Spec => []SoundInv
  <1>1. Init => TraceInv /\ OwnInv /\ SoundInv
    <2>1. Init => TraceInv /\ OwnInv
      BY NoTraceFacts DEF Init, TraceInv, OwnInv
    <2>2. NoTrace.hops = <<>> /\ NoTrace.late = 0
      BY DEF NoTrace
    <2> QED BY <2>1, <2>2, NoTraceSound DEF Init, SoundInv
  <1> QED BY <1>1, AlwaysProbes, TraceNext, SoundStep, PTL DEF Spec

\* For any header length and length a TimeExceeded claims of its quotation, the
\* identifier and the sequence number are read only where they are: no message
\* makes matchesEcho read beyond what it was given.
THEOREM ReadsWithinQuote == Spec => []QuoteHolds
  <1>1. SoundInv => QuoteHolds
    BY DEF SoundInv, QuotesHold, QuoteHolds
  <1> QED BY <1>1, AlwaysSound, PTL

\* For any number of hops and any moment of the cancellation, a traceroute
\* whose context is cancelled sends at most one more echo request.
THEOREM CancelledTracesStop == Spec => []OneSendAfterCancel
  <1>1. SoundInv => OneSendAfterCancel
    BY DEF SoundInv, Punctual, OneSendAfterCancel
  <1> QED BY <1>1, AlwaysSound, PTL
=============================================================================
