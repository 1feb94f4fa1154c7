----------------------------- MODULE Traceroute -----------------------------
(***************************************************************************)
(* internal/probe/traceroute.go on top of Probes: a traceroute that has    *)
(* bound its raw socket sends one echo request per hop and waits for an    *)
(* answer. A raw socket receives every ICMP message of its family the host *)
(* gets: answers to other traceroutes and pings, answers that come late,   *)
(* echo requests of other hosts.                                           *)
(*                                                                         *)
(* What was sent may be answered at any time later, any number of times or *)
(* never. Time passes for a run while it waits; the deadline of a hop is   *)
(* set once, before its first read.                                        *)
(***************************************************************************)
EXTENDS Probes

CONSTANTS
  MaxHops,   \* traceMaxHops
  HopWait,   \* traceHopWait, in time units
  IDSpace,   \* how many echo identifiers there are, 2^16
  Dist,      \* [addresses -> the first TTL that reaches them]
  Router,    \* the sender of every TimeExceeded
  Quotes,    \* ihl and length of what a TimeExceeded may quote
  Foreign    \* messages that answer nothing a traceroute of this agent sent

ASSUME TracerouteAssumption ==
  /\ MaxHops \in Nat /\ HopWait \in Nat /\ IDSpace \in Nat \ {0}
  /\ Dist \in [Address -> Nat]
  /\ Router \notin Address
  /\ Quotes \subseteq [ihl : 0 .. 15, len : Nat]
  /\ Foreign \subseteq [kind : {"request", "reply"}, from : Address,
                        id : 0 .. IDSpace - 1, seq : Nat, of : {0}]

VARIABLES
  trace,     \* the traceroute of each run
  traceID,   \* the counter traceID
  sent       \* history: every echo request sent, with its traceroute's number

vars == <<probeVars, trace, traceID, sent>>

\* The stages of a traceroute: none, check (the loop's head), send, wait.
NoTrace == [number |-> 0, dst |-> NoAddr, stage |-> "none", live |-> TRUE,
            ttl |-> 1, left |-> 0, hops |-> <<>>, late |-> 0]

Timeout == [kind |-> "timeout"]

Init ==
  /\ ProbesInit
  /\ trace = [r \in Runs |-> NoTrace]
  /\ traceID = 0
  /\ sent = {}

\* The counter has not gone round, and no ping of this host drew at random an
\* identifier it gave out: what keeps the traceroutes' identifiers apart.
IDsDistinct ==
  /\ traceID < IDSpace
  /\ \A m \in Foreign : m.kind = "reply" => m.id \notin 1 .. traceID

-----------------------------------------------------------------------------
(* Messages                                                                *)

EchoIDFixed(n) == 1                         \* faulty: one identifier for all
EchoID(n) == n % IDSpace

\* Faulty: the length of the quotation is not checked.
matchesEchoUnchecked(q, isV4, id, seq) ==
  /\ isV4 => q.ihl * 4 >= 20
  /\ q.id = id /\ q.seq = seq

\* Where the ICMP message begins in what a TimeExceeded quotes.
Offset(q, isV4) == IF isV4 THEN q.ihl * 4 ELSE 40

matchesEcho(q, isV4, id, seq) ==
  /\ isV4 => q.ihl * 4 >= 20
  /\ q.len >= Offset(q, isV4) + 8
  /\ q.id = id /\ q.seq = seq

\* What the network may answer to the echo request e.
Answers(e) ==
  IF e.seq < Dist[e.dst]
    THEN {[kind |-> "exceeded", from |-> Router, id |-> e.id, seq |-> e.seq,
           ihl |-> q.ihl, len |-> q.len, of |-> e.number] : q \in Quotes}
    ELSE {[kind |-> "reply", from |-> e.dst, id |-> e.id, seq |-> e.seq,
           of |-> e.number]}

\* What a socket of a family may receive.
Arriving(family) ==
  (UNION {Answers(e) : e \in {x \in sent : FamilyOf[x.dst] = family}})
  \cup {m \in Foreign : FamilyOf[m.from] = family}

\* probeHop returns on the message; every other one it reads past. An Echo is
\* compared alone: whether it is a reply is not looked at.
Acceptable(m, isV4, id, seq) ==
  IF m.kind = "exceeded" THEN matchesEcho(m, isV4, id, seq)
                         ELSE m.id = id /\ m.seq = seq

-----------------------------------------------------------------------------
(* The hops                                                                *)

At(r, stage) == trace[r].stage = stage

Step(r, t) == trace' = [trace EXCEPT ![r] = t]

\* The socket is bound and the run takes its number.
Listen(r) ==
  /\ In(r, {"traceroute"}, "bound") /\ At(r, "none")
  /\ traceID' = traceID + 1
  /\ Step(r, [NoTrace EXCEPT !.number = traceID + 1, !.dst = run[r].dst,
                               !.stage = "check"])
  /\ UNCHANGED <<probeVars, sent>>

\* The socket cannot be had.
ListenFails(r) ==
  /\ In(r, {"traceroute"}, "bound") /\ At(r, "none")
  /\ Become(r, Ended("fail"))
  /\ UNCHANGED <<trace, traceID, sent>>

\* The traceroute is over; its socket is closed.
EndTrace(r, hops, res) ==
  /\ Become(r, Ended(res))
  /\ Step(r, [trace[r] EXCEPT !.stage = "none", !.hops = hops])

\* Faulty: the context is not looked at.
NextHopAnyway(r) ==
  /\ At(r, "check")
  /\ IF trace[r].ttl > MaxHops
       THEN EndTrace(r, trace[r].hops, "fail")
       ELSE Step(r, [trace[r] EXCEPT !.stage = "send"]) /\ UNCHANGED probeVars
  /\ UNCHANGED <<traceID, sent>>

\* The loop's head: the hops are used up or the context is cancelled.
NextHop(r) ==
  /\ At(r, "check")
  /\ IF trace[r].ttl > MaxHops \/ ~trace[r].live
       THEN EndTrace(r, trace[r].hops, "fail")
       ELSE Step(r, [trace[r] EXCEPT !.stage = "send"]) /\ UNCHANGED probeVars
  /\ UNCHANGED <<traceID, sent>>

Send(r) ==
  /\ At(r, "send")
  /\ sent' = sent \cup {[number |-> trace[r].number, id |-> EchoID(trace[r].number),
                         seq |-> trace[r].ttl, dst |-> trace[r].dst]}
  /\ Step(r, [trace[r] EXCEPT !.stage = "wait", !.left = HopWait,
                              !.late = IF trace[r].live THEN @ ELSE @ + 1])
  /\ UNCHANGED <<probeVars, traceID>>

\* The hop is recorded without an answer.
TimedOut(r) ==
  /\ Step(r, [trace[r] EXCEPT !.stage = "check", !.ttl = @ + 1,
                              !.hops = Append(@, Timeout)])
  /\ UNCHANGED <<probeVars, traceID, sent>>

SendFails(r) == At(r, "send") /\ TimedOut(r)

\* Faulty: the deadline is set again after each message that is read past.
PassTimeRearmed(r) ==
  /\ At(r, "wait") /\ trace[r].left > 0
  /\ \E left \in {trace[r].left - 1} \cup
                   (IF Arriving(FamilyOf[trace[r].dst]) # {} THEN {HopWait} ELSE {}) :
       Step(r, [trace[r] EXCEPT !.left = left])
  /\ UNCHANGED <<probeVars, traceID, sent>>

\* Time passes, whatever messages are read past in it.
PassTime(r) ==
  /\ At(r, "wait") /\ trace[r].left > 0
  /\ Step(r, [trace[r] EXCEPT !.left = @ - 1])
  /\ UNCHANGED <<probeVars, traceID, sent>>

HopTimeout(r) == At(r, "wait") /\ trace[r].left = 0 /\ TimedOut(r)

\* An answer: the hop is its sender; the target's own ends the traceroute.
Answered(r) ==
  /\ At(r, "wait")
  /\ \E m \in Arriving(FamilyOf[trace[r].dst]) :
       /\ Acceptable(m, FamilyOf[trace[r].dst] = "ip4", EchoID(trace[r].number),
                     trace[r].ttl)
       /\ LET hops == Append(trace[r].hops, m)
          IN  IF m.from = trace[r].dst
                THEN EndTrace(r, hops, "ok")
                ELSE /\ Step(r, [trace[r] EXCEPT !.stage = "check", !.ttl = @ + 1,
                                                 !.hops = hops])
                     /\ UNCHANGED probeVars
  /\ UNCHANGED <<traceID, sent>>

\* The runner is replaced, removed or shut down.
Cancel(r) ==
  /\ ~At(r, "none") /\ trace[r].live
  /\ Step(r, [trace[r] EXCEPT !.live = FALSE])
  /\ UNCHANGED <<probeVars, traceID, sent>>

TraceStep(r) ==
  \/ Listen(r) \/ ListenFails(r) \/ NextHop(r) \/ Send(r) \/ SendFails(r)
  \/ PassTime(r) \/ HopTimeout(r) \/ Answered(r)

\* A new probe; of an earlier one in its name nothing is left.
Start(r, j) == Begin(r, j) /\ Step(r, NoTrace) /\ UNCHANGED <<traceID, sent>>

Probing(r) == Advance(r) /\ UNCHANGED <<trace, traceID, sent>>

Next ==
  \E r \in Runs :
    (\E j \in Jobs : Start(r, j)) \/ Probing(r) \/ TraceStep(r) \/ Cancel(r)

Spec == Init /\ [][Next]_vars

\* Every lookup, dial, request and wait has a timeout and mtr a fixed number of
\* cycles, so a probe that is under way takes its next step; nothing is assumed
\* of who answers.
Fairness ==
  \A r \in Runs :
    /\ WF_vars(Probing(r))
    /\ WF_vars(TraceStep(r))

FairSpec == Spec /\ Fairness

-----------------------------------------------------------------------------
(* Properties                                                              *)

\* Every hop a traceroute reports answered the echo request it had sent for
\* that very hop (README 4.3.5), however late, doubled or out of order answers
\* to itself and to others come; but for an echo request of another host that
\* bears the same identifier and sequence number.
OwnAnswer ==
  \A r \in Runs : \A i \in DOMAIN trace[r].hops :
    LET m == trace[r].hops[i]
    IN  m.kind \in {"exceeded", "reply"} => m.seq = i /\ m.of = trace[r].number

\* matchesEcho reads the identifier and the sequence number only of quotations
\* that hold them: of a shorter one, with whatever header length it claims, the
\* read would be out of range and end the agent.
QuoteHolds ==
  \A r \in Runs : \A i \in DOMAIN trace[r].hops :
    LET m == trace[r].hops[i]
    IN  m.kind = "exceeded" => m.len >= Offset(m, FamilyOf[trace[r].dst] = "ip4") + 8

\* A traceroute whose runner was cancelled sends at most the echo request it
\* was about to send.
OneSendAfterCancel == \A r \in Runs : trace[r].late <= 1

\* Every probe ends and gives its slot back, also under a stream of messages
\* that are not for it.
ProbesEnd == \A r \in Runs : run[r].phase # "ended" ~> run[r].phase = "ended"
=============================================================================
