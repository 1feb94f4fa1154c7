--------------------------- MODULE ReporterProofs ---------------------------
(* Theorems about Reporter, for every value of its constants.              *)
EXTENDS Reporter, SequenceTheorems, FiniteSetTheorems, FunctionTheorems, TLAPS

USE ReporterAssumption

LEMMA CapIsPositive == Cap \in Nat \ {0}
  BY DEF Cap

\* Add appends, and at the cap it first gives up the oldest entry.
LEMMA AddResult ==
  ASSUME NEW b \in Seq(Ids), Len(b) <= Cap, NEW v \in Ids
  PROVE  /\ Add(b, v) \in Seq(Ids)
         /\ Len(Add(b, v)) <= Cap
         /\ Len(b) < Cap => Add(b, v) = Append(b, v)
         /\ Len(b) >= Cap =>
              /\ Len(b) = Cap /\ b # <<>>
              /\ Len(Add(b, v)) = Cap
              /\ \A m \in 1 .. Cap :
                   Add(b, v)[m] = IF m < Cap THEN b[m + 1] ELSE v
  <1> DEFINE a == Append(b, v)
  <1>1. a \in Seq(Ids) /\ Len(a) = Len(b) + 1 /\ Len(b) \in Nat
    BY AppendProperties
  <1>2. CASE Len(b) < Cap
    <2>1. ~(Len(a) - Cap > 0)
      BY <1>1, <1>2, CapIsPositive
    <2>2. Add(b, v) = a
      BY <2>1 DEF Add
    <2> QED BY <2>2, <1>1, <1>2, CapIsPositive
  <1>3. CASE Len(b) >= Cap
    <2>1. Len(b) = Cap /\ Len(a) - Cap = 1 /\ b # <<>>
      BY <1>1, <1>3, CapIsPositive
    <2>2. Add(b, v) = SubSeq(a, 2, Len(a))
      BY <2>1, <1>1, CapIsPositive DEF Add
    <2>3. \A m \in 1 .. Len(a) : a[m] = IF m <= Len(b) THEN b[m] ELSE v
      BY <1>1, AppendProperties
    <2>4. /\ Add(b, v) \in Seq(Ids)
          /\ Len(Add(b, v)) = Cap
          /\ \A m \in 1 .. Cap : Add(b, v)[m] = a[m + 1]
      BY <2>1, <2>2, <1>1, CapIsPositive, SubSeqProperties
    <2> QED BY <2>1, <2>3, <2>4, <1>1, CapIsPositive
  <1> QED BY <1>1, <1>2, <1>3, CapIsPositive

LEMMA NextDelayType ==
  \A d \in 0 .. MaxDelay : NextDelay(d) \in 1 .. MaxDelay
  BY DEF NextDelay

\* Receiving from a channel leaves channel, buffer and history well-typed.
LEMMA TakeType ==
  ASSUME TypeOK, NEW k \in Kinds, Take(k)
  PROVE  /\ queue' \in [Kinds -> Seq(Ids)] /\ buf' \in [Kinds -> Seq(Ids)]
         /\ \A j \in Kinds : Len(queue'[j]) <= Cap /\ Len(buf'[j]) <= Cap
         /\ fate' \in [Kinds -> [Ids -> Fates]]
  <1>1. /\ queue[k] \in Seq(Ids) /\ queue[k] # <<>> /\ buf[k] \in Seq(Ids)
        /\ Len(queue[k]) <= Cap /\ Len(buf[k]) <= Cap
    BY DEF TypeOK, Take
  <1>2. /\ Head(queue[k]) \in Ids
        /\ Tail(queue[k]) \in Seq(Ids)
        /\ Len(Tail(queue[k])) <= Cap
    BY <1>1, CapIsPositive, HeadTailProperties
  <1>3. /\ Add(buf[k], Head(queue[k])) \in Seq(Ids)
        /\ Len(Add(buf[k], Head(queue[k]))) <= Cap
    BY <1>1, <1>2, AddResult
  <1>4. queue' \in [Kinds -> Seq(Ids)] /\ buf' \in [Kinds -> Seq(Ids)]
    BY <1>2, <1>3 DEF Take, TypeOK
  <1>5. \A j \in Kinds : Len(queue'[j]) <= Cap /\ Len(buf'[j]) <= Cap
    BY <1>2, <1>3 DEF Take, TypeOK
  <1>6. fate' \in [Kinds -> [Ids -> Fates]]
    BY DEF Take, TypeOK, Fates
  <1> QED BY <1>4, <1>5, <1>6

\* The head of todo is a kind, and its tail again a list of flush calls.
LEMMA TodoHead ==
  ASSUME TypeOK, pc \in {"flush", "post"}
  PROVE  /\ Head(todo) \in Kinds
         /\ Tail(todo) \in {<<>>, <<"snmp">>}
  <1>1. todo \in {<<"probe">>, <<"snmp">>, <<"probe", "snmp">>}
    BY DEF TypeOK
  <1>2. CASE todo = <<"probe">>
    <2>1. Head(todo) = "probe" /\ Tail(todo) = <<>>
      BY <1>2
    <2> QED BY <2>1 DEF Kinds
  <1>3. CASE todo = <<"snmp">>
    <2>1. Head(todo) = "snmp" /\ Tail(todo) = <<>>
      BY <1>3
    <2> QED BY <2>1 DEF Kinds
  <1>4. CASE todo = <<"probe", "snmp">>
    <2>1. Head(todo) = "probe" /\ Tail(todo) = <<"snmp">>
      BY <1>4
    <2> QED BY <2>1 DEF Kinds
  <1> QED BY <1>1, <1>2, <1>3, <1>4

LEMMA DisposeType ==
  ASSUME TypeOK, NEW k \in Kinds, Dispose(k)
  PROVE  /\ buf' \in [Kinds -> Seq(Ids)]
         /\ \A j \in Kinds : Len(buf'[j]) <= Cap
         /\ retryDelay' \in [Kinds -> 0 .. MaxDelay]
         /\ retryIn' \in [Kinds -> 0 .. MaxDelay]
  <1>1. <<>> \in Seq(Ids) /\ Len(<<>>) = 0 /\ 0 <= Cap
    BY CapIsPositive
  <1>2. buf' \in [Kinds -> Seq(Ids)]
    BY <1>1 DEF Dispose, TypeOK
  <1>3. \A j \in Kinds : Len(buf'[j]) <= Cap
    BY <1>1 DEF Dispose, TypeOK
  <1> QED BY <1>2, <1>3 DEF Dispose, TypeOK

LEMMA BackOffType ==
  ASSUME TypeOK, NEW k \in Kinds, BackOff(k)
  PROVE  /\ buf' \in [Kinds -> Seq(Ids)]
         /\ \A j \in Kinds : Len(buf'[j]) <= Cap
         /\ retryDelay' \in [Kinds -> 0 .. MaxDelay]
         /\ retryIn' \in [Kinds -> 0 .. MaxDelay]
  <1>1. NextDelay(retryDelay[k]) \in 0 .. MaxDelay
    <2>1. retryDelay[k] \in 0 .. MaxDelay
      BY DEF TypeOK
    <2>2. NextDelay(retryDelay[k]) \in 1 .. MaxDelay
      BY <2>1, NextDelayType
    <2> QED BY <2>2
  <1> QED BY <1>1 DEF BackOff, TypeOK

LEMMA InitType == Init => TypeOK
  <1> SUFFICES ASSUME Init PROVE TypeOK
    OBVIOUS
  <1>1. <<>> \in Seq(Ids) /\ Len(<<>>) = 0 /\ 0 <= Cap
    BY CapIsPositive
  <1>2. queue \in [Kinds -> Seq(Ids)] /\ buf \in [Kinds -> Seq(Ids)]
    BY <1>1 DEF Init
  <1>3. \A k \in Kinds : Len(queue[k]) <= Cap /\ Len(buf[k]) <= Cap
    BY <1>1 DEF Init
  <1>4. /\ retryDelay \in [Kinds -> 0 .. MaxDelay]
        /\ retryIn \in [Kinds -> 0 .. MaxDelay]
        /\ made \in [Kinds -> 0 .. MaxResults]
        /\ madeBefore \in [Kinds -> 0 .. MaxResults]
        /\ failures \in [Kinds -> 0 .. MaxFailures]
    BY DEF Init
  <1>5. fate \in [Kinds -> [Ids -> Fates]] /\ tried \in [Kinds -> SUBSET Ids]
    BY DEF Init, Fates
  <1> QED BY <1>2, <1>3, <1>4, <1>5 DEF Init, TypeOK

LEMMA TypeStep == TypeOK /\ [Next]_vars => TypeOK'
  <1> SUFFICES ASSUME TypeOK, [Next]_vars PROVE TypeOK'
    OBVIOUS
  <1>1. ASSUME NEW k \in Kinds, Enqueue(k) PROVE TypeOK'
    <2>1. /\ made[k] \in Nat /\ made[k] + 1 \in Ids
          /\ made' \in [Kinds -> 0 .. MaxResults]
      <3>1. made[k] \in 0 .. MaxResults /\ made[k] < MaxResults
        BY <1>1 DEF Enqueue, TypeOK
      <3>2. made[k] + 1 \in 0 .. MaxResults /\ made[k] + 1 \in Ids
        BY <3>1, ReporterAssumption DEF Ids
      <3>3. made' = [made EXCEPT ![k] = @ + 1]
        BY <1>1 DEF Enqueue
      <3> QED BY <3>1, <3>2, <3>3 DEF TypeOK
    <2>2. CASE Len(queue[k]) < Cap
      <3>1. /\ queue' = [queue EXCEPT ![k] = Append(@, made[k] + 1)]
            /\ fate' = [fate EXCEPT ![k][made[k] + 1] = "held"]
        <4>1. ~(Len(queue[k]) >= Cap)
          <5>1. Len(queue[k]) \in Nat
            BY DEF TypeOK
          <5> QED BY <2>2, <5>1, CapIsPositive
        <4> QED BY <1>1, <4>1 DEF Enqueue
      <3>2. /\ Append(queue[k], made[k] + 1) \in Seq(Ids)
            /\ Len(Append(queue[k], made[k] + 1)) <= Cap
        BY <2>1, <2>2, CapIsPositive DEF TypeOK
      <3>3. fate' \in [Kinds -> [Ids -> Fates]]
        BY <2>1, <3>1 DEF TypeOK, Fates
      <3> QED BY <1>1, <2>1, <3>1, <3>2, <3>3 DEF Enqueue, TypeOK, retry
    <2>3. CASE ~(Len(queue[k]) < Cap)
      <3>1. /\ queue' = queue
            /\ fate' = [fate EXCEPT ![k][made[k] + 1] = "overflow"]
        BY <1>1, <2>3 DEF Enqueue
      <3>2. fate' \in [Kinds -> [Ids -> Fates]]
        BY <2>1, <3>1 DEF TypeOK, Fates
      <3> QED BY <1>1, <2>1, <3>1, <3>2 DEF Enqueue, TypeOK, retry
    <2> QED BY <2>2, <2>3
  <1>2. ASSUME NEW k \in Kinds, Recv(k) PROVE TypeOK'
    <2>1. Take(k)
      BY <1>2 DEF Recv
    <2>2. /\ pc' \in {"select", "flush", "post", "drain", "done"}
          /\ todo' \in {<<>>, <<"probe">>, <<"snmp">>, <<"probe", "snmp">>}
          /\ pc' \in {"flush", "post"} <=> todo' # <<>>
      <3>1. k = "probe" \/ k = "snmp"
        BY DEF Kinds
      <3>2. <<k>> # <<>>
        OBVIOUS
      <3> QED BY <1>2, <3>1, <3>2 DEF Recv, TypeOK
    <2> QED BY <1>2, <2>1, <2>2, TakeType DEF Recv, TypeOK, retry
  <1>3. ASSUME NEW k \in Kinds, Drain(k) PROVE TypeOK'
    <2>1. Take(k)
      BY <1>3 DEF Drain
    <2> QED BY <1>3, <2>1, TakeType DEF Drain, TypeOK, retry
  <1>4. CASE TickFlush
    BY <1>4 DEF TickFlush, TypeOK, store, retry, ghost
  <1>5. CASE CtxDone
    BY <1>5 DEF CtxDone, TypeOK, store, retry, ghost
  <1>6. CASE DrainEnd
    BY <1>6 DEF DrainEnd, TypeOK, store, retry, ghost
  <1>7. CASE FlushSkip
    BY <1>7, TodoHead DEF FlushSkip, FlushReturns, TypeOK, store, retry, ghost
  <1>8. CASE StartUpload
    <2>1. Head(todo) \in Kinds
      BY <1>8, TodoHead DEF StartUpload
    <2>2. Elems(buf[Head(todo)]) \subseteq Ids
      BY <2>1 DEF Elems, TypeOK
    <2>3. tried' \in [Kinds -> SUBSET Ids]
      BY <1>8, <2>1, <2>2 DEF StartUpload, TypeOK
    <2> QED BY <1>8, <2>3 DEF StartUpload, TypeOK, store, retry, ghost
  <1>9. ASSUME NEW outcome \in Outcomes, UploadReturns(outcome) PROVE TypeOK'
    <2>1. PICK k \in Kinds : k = Head(todo)
      BY <1>9, TodoHead DEF UploadReturns
    <2>2. /\ buf' \in [Kinds -> Seq(Ids)]
          /\ \A j \in Kinds : Len(buf'[j]) <= Cap
          /\ retryDelay' \in [Kinds -> 0 .. MaxDelay]
          /\ retryIn' \in [Kinds -> 0 .. MaxDelay]
      BY <1>9, <2>1, DisposeType, BackOffType DEF UploadReturns
    <2>3. Record(k, outcome)
      BY <1>9, <2>1 DEF UploadReturns
    <2>4. Verdict(outcome) \in Fates
      BY DEF Verdict, Fates
    <2>5. fate' \in [Kinds -> [Ids -> Fates]]
      BY <2>1, <2>3, <2>4 DEF Record, TypeOK
    <2>6. failures' \in [Kinds -> 0 .. MaxFailures]
      BY <2>1, <2>3 DEF Record, TypeOK
    <2>7. /\ pc' \in {"select", "flush", "post", "drain", "done"}
          /\ todo' \in {<<>>, <<"probe">>, <<"snmp">>, <<"probe", "snmp">>}
          /\ pc' \in {"flush", "post"} <=> todo' # <<>>
      BY <1>9, TodoHead DEF UploadReturns, FlushReturns
    <2> QED BY <1>9, <2>2, <2>5, <2>6, <2>7 DEF UploadReturns, TypeOK
  <1>10. CASE TickerFires
    BY <1>10 DEF TickerFires, TypeOK, store, retry, ghost
  <1>11. CASE Elapse
    <2>1. retryIn' \in [Kinds -> 0 .. MaxDelay]
      <3>1. \A j \in Kinds :
              (IF retryIn[j] > 0 THEN retryIn[j] - 1 ELSE 0) \in 0 .. MaxDelay
        BY DEF TypeOK
      <3> QED BY <1>11, <3>1 DEF Elapse
    <2> QED BY <1>11, <2>1 DEF Elapse, TypeOK, store, ghost
  <1>12. CASE Cancel
    BY <1>12 DEF Cancel, TypeOK, store, retry
  <1>13. CASE UNCHANGED vars
    BY <1>13 DEF vars, TypeOK, store, retry, ghost
  <1> QED
    BY <1>1, <1>2, <1>3, <1>4, <1>5, <1>6, <1>7, <1>8, <1>9, <1>10, <1>11,
       <1>12, <1>13 DEF Next, Run

\* Channels and buffers never outgrow their cap, no delay outgrows MaxDelay,
\* and Run owes flush calls exactly while it flushes.
THEOREM TypeCorrect == Spec => []TypeOK
  BY InitType, TypeStep, PTL DEF Spec

-----------------------------------------------------------------------------
(* Arrival order and conservation are inductive only together: a result    *)
(* that is evicted or disposed of must not also stand somewhere else, and  *)
(* that no result stands twice is what the order gives.                    *)

\* The parts of ArrivalOrder and NothingLost for one kind, over any state.
OrderedLine(b, q, last) ==
  /\ Increasing(b) /\ Increasing(q)
  /\ \A m \in DOMAIN b, n \in DOMAIN q : b[m] < q[n]
  /\ \A v \in Elems(b) \cup Elems(q) : v <= last

HeldIn(f, b, q) == {i \in Ids : f[i] = "held"} = Elems(b) \cup Elems(q)

LEMMA Parts ==
  /\ ArrivalOrder <=> \A k \in Kinds : OrderedLine(buf[k], queue[k], made[k])
  /\ NothingLost <=> \A k \in Kinds : HeldIn(fate[k], buf[k], queue[k])
  BY DEF ArrivalOrder, NothingLost, OrderedLine, HeldIn

LEMMA PartsPrimed ==
  /\ ArrivalOrder' <=> \A k \in Kinds : OrderedLine(buf'[k], queue'[k], made'[k])
  /\ NothingLost' <=> \A k \in Kinds : HeldIn(fate'[k], buf'[k], queue'[k])
  BY DEF ArrivalOrder, NothingLost, OrderedLine, HeldIn, Increasing, Elems

LEMMA AppendElems ==
  ASSUME NEW s \in Seq(Ids), NEW v \in Ids
  PROVE  /\ Append(s, v) \in Seq(Ids) /\ Len(Append(s, v)) = Len(s) + 1
         /\ DOMAIN Append(s, v) = 1 .. Len(s) + 1 /\ DOMAIN s = 1 .. Len(s)
         /\ \A m \in 1 .. Len(s) : Append(s, v)[m] = s[m]
         /\ Append(s, v)[Len(s) + 1] = v
         /\ Elems(Append(s, v)) = Elems(s) \cup {v}
  <1>1. /\ Append(s, v) \in Seq(Ids) /\ Len(Append(s, v)) = Len(s) + 1
        /\ DOMAIN Append(s, v) = 1 .. Len(s) + 1 /\ DOMAIN s = 1 .. Len(s)
        /\ \A m \in 1 .. Len(s) : Append(s, v)[m] = s[m]
        /\ Append(s, v)[Len(s) + 1] = v
        /\ Len(s) \in Nat
    BY AppendProperties
  <1>2. Elems(Append(s, v)) = Elems(s) \cup {v}
    BY <1>1 DEF Elems
  <1> QED BY <1>1, <1>2

LEMMA TailElems ==
  ASSUME NEW s \in Seq(Ids), s # <<>>
  PROVE  /\ Tail(s) \in Seq(Ids) /\ Len(Tail(s)) = Len(s) - 1
         /\ DOMAIN Tail(s) = 1 .. Len(s) - 1 /\ DOMAIN s = 1 .. Len(s)
         /\ Len(s) \in Nat \ {0} /\ Head(s) = s[1] /\ Head(s) \in Ids
         /\ \A m \in 1 .. Len(s) - 1 : Tail(s)[m] = s[m + 1]
         /\ Elems(s) = {Head(s)} \cup Elems(Tail(s))
  <1>1. /\ Tail(s) \in Seq(Ids) /\ Len(Tail(s)) = Len(s) - 1
        /\ DOMAIN Tail(s) = 1 .. Len(s) - 1 /\ DOMAIN s = 1 .. Len(s)
        /\ Len(s) \in Nat \ {0} /\ Head(s) = s[1] /\ Head(s) \in Ids
        /\ \A m \in 1 .. Len(s) - 1 : Tail(s)[m] = s[m + 1]
    BY HeadTailProperties, EmptySeq
  <1>2. Elems(s) \subseteq {Head(s)} \cup Elems(Tail(s))
    <2> SUFFICES ASSUME NEW m \in DOMAIN s
                 PROVE  s[m] \in {Head(s)} \cup Elems(Tail(s))
      BY DEF Elems
    <2>1. CASE m = 1
      BY <1>1, <2>1
    <2>2. CASE m # 1
      <3>1. m - 1 \in DOMAIN Tail(s) /\ Tail(s)[m - 1] = s[m]
        BY <1>1, <2>2
      <3> QED BY <3>1 DEF Elems
    <2> QED BY <2>1, <2>2
  <1>3. {Head(s)} \cup Elems(Tail(s)) \subseteq Elems(s)
    <2>1. Head(s) \in Elems(s)
      BY <1>1 DEF Elems
    <2>2. ASSUME NEW m \in DOMAIN Tail(s) PROVE Tail(s)[m] \in Elems(s)
      BY <1>1 DEF Elems
    <2> QED BY <2>1, <2>2 DEF Elems
  <1> QED BY <1>1, <1>2, <1>3

\* Receiving from the channel moves its head to the end of the buffer; at the
\* cap the oldest entry of the buffer is the one result that is given up.
LEMMA TakeLine ==
  ASSUME NEW b \in Seq(Ids), NEW q \in Seq(Ids), NEW last \in Nat,
         Len(b) <= Cap, q # <<>>, OrderedLine(b, q, last),
         NEW f \in [Ids -> Fates], HeldIn(f, b, q),
         NEW g, g = IF Len(b) < Cap THEN f ELSE [f EXCEPT ![Head(b)] = "evicted"],
         NEW h, h = Head(q), NEW t, t = Tail(q), NEW c, c = Add(b, h)
  PROVE  OrderedLine(c, t, last) /\ HeldIn(g, c, t)
  <1>1. /\ t \in Seq(Ids) /\ DOMAIN t = 1 .. Len(q) - 1 /\ DOMAIN q = 1 .. Len(q)
        /\ Len(q) \in Nat \ {0} /\ h = q[1] /\ h \in Ids
        /\ \A m \in 1 .. Len(q) - 1 : t[m] = q[m + 1]
        /\ Elems(q) = {h} \cup Elems(t)
        /\ \A n \in DOMAIN q : q[n] \in Nat
        /\ Len(b) \in Nat /\ DOMAIN b = 1 .. Len(b) /\ h \in Nat
        /\ \A m \in DOMAIN b : b[m] \in Nat
    <2>1. /\ t \in Seq(Ids) /\ DOMAIN t = 1 .. Len(q) - 1 /\ DOMAIN q = 1 .. Len(q)
          /\ Len(q) \in Nat \ {0} /\ h = q[1] /\ h \in Ids
          /\ \A m \in 1 .. Len(q) - 1 : t[m] = q[m + 1]
          /\ Elems(q) = {h} \cup Elems(t)
      BY TailElems
    <2>2. h \in Nat /\ \A n \in DOMAIN q : q[n] \in Nat
      BY <2>1 DEF Ids
    <2>3. Len(b) \in Nat /\ DOMAIN b = 1 .. Len(b) /\ \A m \in DOMAIN b : b[m] \in Nat
      BY DEF Ids
    <2> QED BY <2>1, <2>2, <2>3
  <1>2. \A n \in DOMAIN t : h < t[n]
    BY <1>1 DEF OrderedLine, Increasing
  <1>3. Increasing(t)
    <2> SUFFICES ASSUME NEW m \in DOMAIN t, NEW n \in DOMAIN t, m < n
                 PROVE  t[m] < t[n]
      BY DEF Increasing
    <2>1. /\ m + 1 \in DOMAIN q /\ n + 1 \in DOMAIN q /\ m + 1 < n + 1
          /\ t[m] = q[m + 1] /\ t[n] = q[n + 1]
      BY <1>1
    <2> QED BY <2>1 DEF OrderedLine, Increasing
  <1>4. \A m \in DOMAIN b : b[m] < h
    BY <1>1 DEF OrderedLine
  <1>5. CASE Len(b) < Cap
    <2>1. c = Append(b, h) /\ g = f
      BY <1>1, <1>5, AddResult
    <2>2. /\ DOMAIN c = 1 .. Len(b) + 1 /\ DOMAIN b = 1 .. Len(b)
          /\ \A m \in 1 .. Len(b) : c[m] = b[m]
          /\ c[Len(b) + 1] = h /\ Len(b) \in Nat
          /\ Elems(c) = Elems(b) \cup {h}
      <3>1. /\ DOMAIN Append(b, h) = 1 .. Len(b) + 1
            /\ \A m \in 1 .. Len(b) : Append(b, h)[m] = b[m]
            /\ Append(b, h)[Len(b) + 1] = h
            /\ Elems(Append(b, h)) = Elems(b) \cup {h}
        BY <1>1, AppendElems
      <3> QED BY <1>1, <2>1, <3>1
    <2>3. Increasing(c)
      <3> SUFFICES ASSUME NEW m \in 1 .. Len(b) + 1, NEW n \in 1 .. Len(b) + 1,
                          m < n
                   PROVE  c[m] < c[n]
        BY <2>2 DEF Increasing
      <3>1. m \in DOMAIN b /\ c[m] = b[m]
        BY <2>2
      <3>2. CASE n = Len(b) + 1
        BY <1>4, <2>2, <3>1, <3>2
      <3>3. CASE n # Len(b) + 1
        <4>1. n \in DOMAIN b /\ c[n] = b[n]
          BY <2>2, <3>3
        <4> QED BY <3>1, <4>1 DEF OrderedLine, Increasing
      <3> QED BY <3>2, <3>3
    <2>4. \A m \in DOMAIN c, n \in DOMAIN t : c[m] < t[n]
      <3> SUFFICES ASSUME NEW m \in DOMAIN c, NEW n \in DOMAIN t
                   PROVE  c[m] < t[n]
        OBVIOUS
      <3>1. CASE m = Len(b) + 1
        BY <1>2, <2>2, <3>1
      <3>2. CASE m # Len(b) + 1
        <4>1. m \in DOMAIN b /\ c[m] = b[m]
          BY <2>2, <3>2
        <4>2. n + 1 \in DOMAIN q /\ t[n] = q[n + 1]
          BY <1>1
        <4> QED BY <4>1, <4>2 DEF OrderedLine
      <3> QED BY <3>1, <3>2
    <2>5. Elems(c) \cup Elems(t) = Elems(b) \cup Elems(q)
      BY <1>1, <2>2
    <2> QED BY <1>3, <2>1, <2>3, <2>4, <2>5 DEF OrderedLine, HeldIn
  <1>6. CASE ~(Len(b) < Cap)
    <2>1. /\ Len(b) = Cap /\ b # <<>> /\ c \in Seq(Ids) /\ Len(c) = Cap
          /\ \A m \in 1 .. Cap : c[m] = IF m < Cap THEN b[m + 1] ELSE h
          /\ g = [f EXCEPT ![Head(b)] = "evicted"]
      <3>1. Len(b) >= Cap
        BY <1>1, <1>6, CapIsPositive
      <3>2. h \in Ids
        BY <1>1
      <3>3. /\ Len(b) = Cap /\ b # <<>> /\ c \in Seq(Ids) /\ Len(c) = Cap
            /\ \A m \in 1 .. Cap : c[m] = IF m < Cap THEN b[m + 1] ELSE h
        BY <3>1, <3>2, AddResult
      <3>4. g = [f EXCEPT ![Head(b)] = "evicted"]
        BY <1>6
      <3> QED BY <3>3, <3>4
    <2>2. /\ DOMAIN c = 1 .. Cap /\ DOMAIN b = 1 .. Cap
          /\ Head(b) = b[1] /\ Head(b) \in Ids
      BY <2>1, TailElems
    <2>3. Increasing(c)
      <3> SUFFICES ASSUME NEW m \in 1 .. Cap, NEW n \in 1 .. Cap, m < n
                   PROVE  c[m] < c[n]
        BY <2>2 DEF Increasing
      <3>1. m < Cap /\ c[m] = b[m + 1] /\ m + 1 \in DOMAIN b
        BY <2>1, <2>2, CapIsPositive
      <3>2. CASE n = Cap
        <4>1. c[n] = h
          BY <2>1, <3>2, CapIsPositive
        <4> QED BY <1>4, <3>1, <4>1
      <3>3. CASE n # Cap
        <4>1. c[n] = b[n + 1] /\ n + 1 \in DOMAIN b /\ m + 1 < n + 1
          BY <2>1, <2>2, <3>3, CapIsPositive
        <4> QED BY <3>1, <4>1 DEF OrderedLine, Increasing
      <3> QED BY <3>2, <3>3
    <2>4. \A m \in DOMAIN c, n \in DOMAIN t : c[m] < t[n]
      <3> SUFFICES ASSUME NEW m \in DOMAIN c, NEW n \in DOMAIN t
                   PROVE  c[m] < t[n]
        OBVIOUS
      <3>1. CASE m = Cap
        BY <1>2, <2>1, <2>2, <3>1
      <3>2. CASE m # Cap
        <4>1. m + 1 \in DOMAIN b /\ c[m] = b[m + 1]
          BY <2>1, <2>2, <3>2, CapIsPositive
        <4>2. n + 1 \in DOMAIN q /\ t[n] = q[n + 1]
          BY <1>1
        <4> QED BY <4>1, <4>2 DEF OrderedLine
      <3> QED BY <3>1, <3>2
    <2>5. Elems(c) = (Elems(b) \ {Head(b)}) \cup {h}
      <3>1. ASSUME NEW m \in DOMAIN c
            PROVE  c[m] \in (Elems(b) \ {Head(b)}) \cup {h}
        <4>1. CASE m = Cap
          BY <2>1, <2>2, <4>1
        <4>2. CASE m # Cap
          <5>1. m + 1 \in DOMAIN b /\ c[m] = b[m + 1] /\ 1 \in DOMAIN b /\ 1 < m + 1
            BY <2>1, <2>2, <4>2, CapIsPositive
          <5>2. b[1] < b[m + 1]
            BY <5>1 DEF OrderedLine, Increasing
          <5>3. b[1] \in Nat /\ b[m + 1] \in Nat
            BY <1>1, <5>1
          <5> QED BY <2>2, <5>1, <5>2, <5>3 DEF Elems
        <4> QED BY <4>1, <4>2
      <3>2. ASSUME NEW m \in DOMAIN b, b[m] # Head(b) PROVE b[m] \in Elems(c)
        <4>1. m - 1 \in DOMAIN c /\ c[m - 1] = b[m]
          BY <2>1, <2>2, <3>2, CapIsPositive
        <4> QED BY <4>1 DEF Elems
      <3>3. h \in Elems(c)
        BY <2>1, <2>2, CapIsPositive DEF Elems
      <3> QED BY <3>1, <3>2, <3>3 DEF Elems
    <2>6. Head(b) \notin Elems(q)
      <3>1. 1 \in DOMAIN b
        BY <2>2, CapIsPositive
      <3>2. \A n \in DOMAIN q : b[1] < q[n]
        BY <3>1 DEF OrderedLine
      <3>3. b[1] \in Nat /\ \A n \in DOMAIN q : q[n] \in Nat
        BY <1>1, <3>1
      <3>4. \A n \in DOMAIN q : b[1] # q[n]
        BY <3>2, <3>3
      <3> QED BY <2>2, <3>4 DEF Elems
    <2>7. Elems(c) \cup Elems(t) = (Elems(b) \cup Elems(q)) \ {Head(b)}
      BY <1>1, <2>5, <2>6
    <2>8. {i \in Ids : g[i] = "held"} = {i \in Ids : f[i] = "held"} \ {Head(b)}
      BY <2>1, <2>2
    <2> QED BY <1>3, <2>3, <2>4, <2>7, <2>8 DEF OrderedLine, HeldIn
  <1> QED BY <1>5, <1>6

\* The next result joins the end of the line.
LEMMA OfferLine ==
  ASSUME NEW b \in Seq(Ids), NEW q \in Seq(Ids), NEW last \in Nat,
         last + 1 \in Ids, OrderedLine(b, q, last),
         NEW f \in [Ids -> Fates], HeldIn(f, b, q),
         NEW g, g = [f EXCEPT ![last + 1] = "held"],
         NEW r, r = Append(q, last + 1)
  PROVE  OrderedLine(b, r, last + 1) /\ HeldIn(g, b, r)
  <1>1. /\ DOMAIN r = 1 .. Len(q) + 1 /\ DOMAIN q = 1 .. Len(q)
        /\ \A m \in 1 .. Len(q) : r[m] = q[m]
        /\ r[Len(q) + 1] = last + 1
        /\ Elems(r) = Elems(q) \cup {last + 1}
        /\ Len(q) \in Nat
    BY AppendElems
  <1>2. \A m \in DOMAIN q : q[m] \in Nat /\ q[m] < last + 1
    <2> SUFFICES ASSUME NEW m \in DOMAIN q PROVE q[m] \in Nat /\ q[m] < last + 1
      OBVIOUS
    <2>1. q[m] \in Ids /\ q[m] \in Elems(q)
      BY DEF Elems
    <2> QED BY <2>1 DEF OrderedLine, Ids
  <1>3. \A m \in DOMAIN b : b[m] \in Nat /\ b[m] < last + 1
    <2> SUFFICES ASSUME NEW m \in DOMAIN b PROVE b[m] \in Nat /\ b[m] < last + 1
      OBVIOUS
    <2>1. b[m] \in Ids /\ b[m] \in Elems(b)
      BY DEF Elems
    <2> QED BY <2>1 DEF OrderedLine, Ids
  <1>4. Increasing(r)
    <2> SUFFICES ASSUME NEW m \in 1 .. Len(q) + 1, NEW n \in 1 .. Len(q) + 1, m < n
                 PROVE  r[m] < r[n]
      BY <1>1 DEF Increasing
    <2>1. m \in DOMAIN q /\ r[m] = q[m]
      BY <1>1
    <2>2. CASE n = Len(q) + 1
      BY <1>1, <1>2, <2>1, <2>2
    <2>3. CASE n # Len(q) + 1
      <3>1. n \in DOMAIN q /\ r[n] = q[n]
        <4>1. Len(q) \in Nat
          BY <1>1
        <4>2. n \in 1 .. Len(q)
          BY <2>3, <4>1
        <4> QED BY <1>1, <4>2
      <3> QED BY <2>1, <3>1 DEF OrderedLine, Increasing
    <2> QED BY <2>2, <2>3
  <1>5. \A m \in DOMAIN b, n \in DOMAIN r : b[m] < r[n]
    <2> SUFFICES ASSUME NEW m \in DOMAIN b, NEW n \in DOMAIN r PROVE b[m] < r[n]
      OBVIOUS
    <2>1. CASE n = Len(q) + 1
      BY <1>1, <1>3, <2>1
    <2>2. CASE n # Len(q) + 1
      <3>1. n \in DOMAIN q /\ r[n] = q[n]
        BY <1>1, <2>2
      <3> QED BY <3>1 DEF OrderedLine
    <2> QED BY <2>1, <2>2
  <1>6. \A v \in Elems(b) \cup Elems(r) : v <= last + 1
    BY <1>1, <1>2, <1>3 DEF Elems
  <1>7. {i \in Ids : g[i] = "held"} = {i \in Ids : f[i] = "held"} \cup {last + 1}
    OBVIOUS
  <1> QED BY <1>1, <1>4, <1>5, <1>6, <1>7 DEF OrderedLine, HeldIn

\* A result turned away was not in the line.
LEMMA OverflowLine ==
  ASSUME NEW b \in Seq(Ids), NEW q \in Seq(Ids), NEW last \in Nat,
         last + 1 \in Ids, OrderedLine(b, q, last),
         NEW f \in [Ids -> Fates], HeldIn(f, b, q),
         NEW g, g = [f EXCEPT ![last + 1] = "overflow"]
  PROVE  OrderedLine(b, q, last + 1) /\ HeldIn(g, b, q)
  <1>1. Elems(b) \subseteq Nat /\ Elems(q) \subseteq Nat
    BY DEF Elems, Ids
  <1>2. OrderedLine(b, q, last + 1)
    BY <1>1 DEF OrderedLine
  <1>3. last + 1 \notin Elems(b) \cup Elems(q)
    BY <1>1 DEF OrderedLine
  <1>4. {i \in Ids : g[i] = "held"} = {i \in Ids : f[i] = "held"} \ {last + 1}
    OBVIOUS
  <1> QED BY <1>2, <1>3, <1>4 DEF HeldIn

\* Disposing of the buffer disposes of its results and of no other.
LEMMA DisposeLine ==
  ASSUME NEW b \in Seq(Ids), NEW q \in Seq(Ids), NEW last \in Nat,
         OrderedLine(b, q, last),
         NEW f, HeldIn(f, b, q), NEW g,
         {i \in Ids : g[i] = "held"} = {i \in Ids : f[i] = "held"} \ Elems(b)
  PROVE  OrderedLine(<<>>, q, last) /\ HeldIn(g, <<>>, q)
  <1>1. Elems(<<>>) = {} /\ DOMAIN <<>> = {}
    BY DEF Elems
  <1>2. OrderedLine(<<>>, q, last)
    BY <1>1 DEF OrderedLine, Increasing
  <1>3. Elems(b) \cap Elems(q) = {}
    <2> SUFFICES ASSUME NEW m \in DOMAIN b, NEW n \in DOMAIN q PROVE b[m] # q[n]
      BY DEF Elems
    <2>1. b[m] < q[n] /\ b[m] \in Nat /\ q[n] \in Nat
      BY DEF OrderedLine, Ids
    <2> QED BY <2>1
  <1> QED BY <1>1, <1>2, <1>3 DEF HeldIn

LineInv == TypeOK /\ ArrivalOrder /\ NothingLost

LEMMA TakeStep ==
  ASSUME LineInv, NEW k \in Kinds, Take(k), made' = made
  PROVE  ArrivalOrder' /\ NothingLost'
  <1> SUFFICES ASSUME NEW j \in Kinds
               PROVE  /\ OrderedLine(buf'[j], queue'[j], made'[j])
                      /\ HeldIn(fate'[j], buf'[j], queue'[j])
    BY PartsPrimed
  <1>1. /\ OrderedLine(buf[j], queue[j], made[j])
        /\ HeldIn(fate[j], buf[j], queue[j])
        /\ buf[j] \in Seq(Ids) /\ queue[j] \in Seq(Ids) /\ made[j] \in Nat
        /\ fate[j] \in [Ids -> Fates] /\ Len(buf[j]) <= Cap
    BY Parts DEF LineInv, TypeOK
  <1>2. CASE j = k
    <2>1. /\ queue[k] # <<>>
          /\ queue'[k] = Tail(queue[k])
          /\ buf'[k] = Add(buf[k], Head(queue[k]))
      BY DEF Take, LineInv, TypeOK
    <2>2. fate'[k] = IF Len(buf[k]) < Cap THEN fate[k]
                     ELSE [fate[k] EXCEPT ![Head(buf[k])] = "evicted"]
      BY DEF Take, LineInv, TypeOK
    <2> QED BY <1>1, <1>2, <2>1, <2>2, TakeLine
  <1>3. CASE j # k
    <2>1. buf'[j] = buf[j] /\ queue'[j] = queue[j] /\ fate'[j] = fate[j]
      BY <1>3 DEF Take, LineInv, TypeOK
    <2> QED BY <1>1, <2>1
  <1> QED BY <1>2, <1>3

LEMMA LineStep == LineInv /\ [Next]_vars => LineInv'
  <1> SUFFICES ASSUME LineInv, [Next]_vars PROVE ArrivalOrder' /\ NothingLost'
    BY TypeStep DEF LineInv
  <1>1. \A j \in Kinds :
          /\ OrderedLine(buf[j], queue[j], made[j])
          /\ HeldIn(fate[j], buf[j], queue[j])
          /\ buf[j] \in Seq(Ids) /\ queue[j] \in Seq(Ids) /\ made[j] \in Nat
          /\ fate[j] \in [Ids -> Fates]
    BY Parts DEF LineInv, TypeOK
  <1>2. ASSUME NEW k \in Kinds, Enqueue(k) PROVE ArrivalOrder' /\ NothingLost'
    <2> SUFFICES ASSUME NEW j \in Kinds
                 PROVE  /\ OrderedLine(buf'[j], queue'[j], made'[j])
                        /\ HeldIn(fate'[j], buf'[j], queue'[j])
      BY PartsPrimed
    <2>1. buf' = buf /\ made[k] + 1 \in Ids /\ made'[k] = made[k] + 1
      <3>1. made[k] \in 0 .. MaxResults /\ made[k] < MaxResults
        BY <1>2 DEF Enqueue, LineInv, TypeOK
      <3>2. made'[k] = made[k] + 1
        BY <1>2 DEF Enqueue, LineInv, TypeOK
      <3> QED BY <1>2, <3>1, <3>2 DEF Enqueue, Ids
    <2>2. CASE j # k
      <3>1. queue'[j] = queue[j] /\ made'[j] = made[j] /\ fate'[j] = fate[j]
        BY <1>2, <2>2 DEF Enqueue, LineInv, TypeOK
      <3> QED BY <1>1, <2>1, <3>1
    <2>3. CASE j = k /\ Len(queue[k]) < Cap
      <3>1. /\ queue' = [queue EXCEPT ![k] = Append(@, made[k] + 1)]
            /\ fate' = [fate EXCEPT ![k][made[k] + 1] = "held"]
        BY <1>2, <2>3, CapIsPositive DEF Enqueue, LineInv, TypeOK
      <3>2. /\ queue'[k] = Append(queue[k], made[k] + 1)
            /\ fate'[k] = [fate[k] EXCEPT ![made[k] + 1] = "held"]
        BY <3>1 DEF LineInv, TypeOK
      <3>3. /\ OrderedLine(buf[k], queue'[k], made[k] + 1)
            /\ HeldIn(fate'[k], buf[k], queue'[k])
        BY <1>1, <2>1, <3>2, OfferLine
      <3> QED BY <2>1, <2>3, <3>3
    <2>4. CASE j = k /\ ~(Len(queue[k]) < Cap)
      <3>1. queue' = queue /\ fate' = [fate EXCEPT ![k][made[k] + 1] = "overflow"]
        BY <1>2, <2>4 DEF Enqueue
      <3>2. fate'[k] = [fate[k] EXCEPT ![made[k] + 1] = "overflow"]
        BY <3>1 DEF LineInv, TypeOK
      <3>3. /\ OrderedLine(buf[k], queue[k], made[k] + 1)
            /\ HeldIn(fate'[k], buf[k], queue[k])
        BY <1>1, <2>1, <3>2, OverflowLine
      <3> QED BY <2>1, <2>4, <3>1, <3>3
    <2> QED BY <2>2, <2>3, <2>4
  <1>3. ASSUME NEW k \in Kinds, Recv(k) PROVE ArrivalOrder' /\ NothingLost'
    BY <1>3, TakeStep DEF Recv
  <1>4. ASSUME NEW k \in Kinds, Drain(k) PROVE ArrivalOrder' /\ NothingLost'
    BY <1>4, TakeStep DEF Drain
  <1>5. ASSUME NEW outcome \in Outcomes, UploadReturns(outcome)
        PROVE  ArrivalOrder' /\ NothingLost'
    <2> SUFFICES ASSUME NEW j \in Kinds
                 PROVE  /\ OrderedLine(buf'[j], queue'[j], made'[j])
                        /\ HeldIn(fate'[j], buf'[j], queue'[j])
      BY PartsPrimed
    <2>1. PICK k \in Kinds : k = Head(todo)
      BY <1>5, TodoHead DEF UploadReturns, LineInv
    <2>2. queue' = queue /\ made' = made /\ Record(k, outcome)
      BY <1>5, <2>1 DEF UploadReturns
    <2>3. fate'[k] = [i \in Ids |-> IF i \in Elems(buf[k]) THEN Verdict(outcome)
                                                           ELSE fate[k][i]]
      BY <2>2 DEF Record, LineInv, TypeOK
    <2>4. CASE j # k
      <3>1. buf'[j] = buf[j]
        BY <1>5, <2>1, <2>4
           DEF UploadReturns, Dispose, BackOff, LineInv, TypeOK
      <3>2. fate'[j] = fate[j]
        BY <2>2, <2>4 DEF Record, LineInv, TypeOK
      <3> QED BY <1>1, <2>2, <3>1, <3>2
    <2>5. CASE j = k /\ Discards(outcome)
      <3>1. buf'[k] = <<>>
        BY <1>5, <2>1, <2>5 DEF UploadReturns, Dispose, LineInv, TypeOK
      <3>2. Verdict(outcome) # "held"
        BY <2>5 DEF Discards, Verdict
      <3>4. {i \in Ids : fate'[k][i] = "held"}
              = {i \in Ids : fate[k][i] = "held"} \ Elems(buf[k])
        BY <2>3, <3>2
      <3>3. /\ OrderedLine(<<>>, queue[k], made[k])
            /\ HeldIn(fate'[k], <<>>, queue[k])
        BY <1>1, <3>4, DisposeLine
      <3> QED BY <2>2, <2>5, <3>1, <3>3
    <2>6. CASE j = k /\ ~Discards(outcome)
      <3>1. buf' = buf
        BY <1>5, <2>1, <2>6 DEF UploadReturns, BackOff
      <3>2. Verdict(outcome) = "held"
        BY <2>6 DEF Discards, Verdict, Outcomes
      <3>3. {i \in Ids : fate'[k][i] = "held"} = {i \in Ids : fate[k][i] = "held"}
        BY <1>1, <2>3, <3>2 DEF HeldIn
      <3> QED BY <1>1, <2>2, <2>6, <3>1, <3>3 DEF HeldIn
    <2> QED BY <2>4, <2>5, <2>6
  <1>6. CASE UNCHANGED <<queue, buf, made, fate>>
    BY <1>1, <1>6, PartsPrimed
  <1> QED
    BY <1>2, <1>3, <1>4, <1>5, <1>6
       DEF Next, Run, TickFlush, CtxDone, DrainEnd, FlushSkip, StartUpload,
           TickerFires, Elapse, Cancel, vars, store, ghost

LEMMA InitLine == Init => LineInv
  <1> SUFFICES ASSUME Init PROVE ArrivalOrder /\ NothingLost
    BY InitType DEF LineInv
  <1>1. \A k \in Kinds : buf[k] = <<>> /\ queue[k] = <<>>
    BY DEF Init
  <1>2. Elems(<<>>) = {} /\ DOMAIN <<>> = {}
    BY DEF Elems
  <1>3. \A k \in Kinds : OrderedLine(buf[k], queue[k], made[k])
    BY <1>1, <1>2 DEF OrderedLine, Increasing
  <1>4. \A k \in Kinds, i \in Ids : fate[k][i] # "held"
    BY DEF Init
  <1>5. \A k \in Kinds : HeldIn(fate[k], buf[k], queue[k])
    BY <1>1, <1>2, <1>4 DEF HeldIn
  <1> QED BY <1>3, <1>5, Parts

\* Whatever the sizes, delays and outcomes: the results still in the agent are
\* those whose fate is open, and they stand in the order they were offered.
THEOREM LineCorrect == Spec => [](ArrivalOrder /\ NothingLost)
  <1>1. LineInv => ArrivalOrder /\ NothingLost
    BY DEF LineInv
  <1> QED BY <1>1, InitLine, LineStep, PTL DEF Spec

\* The half about what is held, as the runs check it.
THEOREM NothingIsLost == Spec => []NothingLost
  BY LineCorrect, PTL

-----------------------------------------------------------------------------
(* The flush calls: what the drain at the end has sent once more, and when *)
(* the buffer gives up a result.                                           *)

\* A kind that has no flush call after the one under way is the kind of that
\* one, or had none before.
LEMMA TodoRest ==
  ASSUME TypeOK, pc \in {"flush", "post"},
         NEW k \in Kinds, k \notin Elems(Tail(todo))
  PROVE  k = Head(todo) \/ k \notin Elems(todo)
  <1>1. todo \in {<<"probe">>, <<"snmp">>, <<"probe", "snmp">>}
    BY DEF TypeOK
  <1>2. CASE todo = <<"probe">>
    <2>1. Head(todo) = "probe" /\ DOMAIN todo = {1} /\ todo[1] = "probe"
      BY <1>2
    <2> QED BY <2>1 DEF Elems
  <1>4. CASE todo = <<"snmp">>
    <2>1. Head(todo) = "snmp" /\ DOMAIN todo = {1} /\ todo[1] = "snmp"
      BY <1>4
    <2> QED BY <2>1 DEF Elems
  <1>3. CASE todo = <<"probe", "snmp">>
    <2>1. Head(todo) = "probe" /\ Tail(todo) = <<"snmp">>
      BY <1>3
    <2>2. <<"snmp">>[1] = "snmp" /\ 1 \in DOMAIN <<"snmp">>
      OBVIOUS
    <2>3. "snmp" \in Elems(Tail(todo))
      BY <2>1, <2>2 DEF Elems
    <2> QED BY <2>1, <2>3 DEF Kinds
  <1> QED BY <1>1, <1>2, <1>3, <1>4

\* The two flush calls of a tick, or of the end, are for both kinds.
LEMMA BothTodo ==
  ASSUME todo' = <<"probe", "snmp">>, NEW k \in Kinds
  PROVE  k \in Elems(todo')
  <1>1. todo'[1] = "probe" /\ todo'[2] = "snmp" /\ DOMAIN todo' = 1 .. 2
    OBVIOUS
  <1> QED BY <1>1 DEF Elems, Kinds

-----------------------------------------------------------------------------
(* The last attempt. What is still held when Run returns is in a channel or *)
(* in a buffer (NothingLost). The channels were empty when the last flush   *)
(* began, so what they hold came later; a buffer whose forced flush is over *)
(* is empty or was sent.                                                    *)

Phase ==
  /\ pc = "drain" \/ force => cancelled
  /\ force => pc \in {"flush", "post", "done"}
  /\ pc = "done" => force

OnlyLater ==
  /\ \A k \in Kinds : madeBefore[k] <= made[k]
  /\ force => \A k \in Kinds : \A v \in Elems(queue[k]) : v > madeBefore[k]

SentBuffers ==
  /\ force => \A k \in Kinds : k \notin Elems(todo) => Elems(buf[k]) \subseteq tried[k]
  /\ force /\ pc = "post" => Elems(buf[Head(todo)]) \subseteq tried[Head(todo)]

DrainInv == LineInv /\ Phase /\ OnlyLater /\ SentBuffers

LEMMA InitDrain == Init => Phase /\ OnlyLater /\ SentBuffers
  BY DEF Init, Phase, OnlyLater, SentBuffers

LEMMA DrainStep == DrainInv /\ [Next]_vars => DrainInv'
  <1> SUFFICES ASSUME DrainInv, [Next]_vars PROVE (Phase /\ OnlyLater /\ SentBuffers)'
    BY LineStep DEF DrainInv
  <1>0. TypeOK /\ Phase /\ OnlyLater /\ SentBuffers
    BY DEF DrainInv, LineInv
  <1>1. ASSUME NEW k \in Kinds, Enqueue(k)
        PROVE  (Phase /\ OnlyLater /\ SentBuffers)'
    <2>1. /\ made[k] \in 0 .. MaxResults /\ made[k] + 1 \in Ids
          /\ made'[k] = made[k] + 1
          /\ \A j \in Kinds : /\ j # k => made'[j] = made[j]
                             /\ made[j] \in Nat /\ madeBefore[j] \in Nat
      <3>1. /\ made' = [made EXCEPT ![k] = @ + 1] /\ made[k] < MaxResults
            /\ made \in [Kinds -> 0 .. MaxResults]
            /\ madeBefore \in [Kinds -> 0 .. MaxResults]
        BY <1>0, <1>1 DEF Enqueue, TypeOK
      <3>2. \A j \in Kinds : made[j] \in 0 .. MaxResults /\ madeBefore[j] \in 0 .. MaxResults
        BY <3>1
      <3>3. made[k] + 1 \in Ids
        BY <3>1, <3>2 DEF Ids
      <3> QED BY <3>1, <3>2, <3>3
    <2>2. UNCHANGED <<buf, retry, pc, todo, force, tick, cancelled, madeBefore, tried>>
      BY <1>1 DEF Enqueue
    <2>3. Phase' /\ SentBuffers'
      <3>1. Phase'
        BY <1>0, <2>2 DEF Phase
      <3>2. SentBuffers'
        BY <1>0, <2>2 DEF SentBuffers, Elems
      <3> QED BY <3>1, <3>2
    <2>4. \A j \in Kinds : madeBefore'[j] <= made'[j]
      BY <1>0, <2>1, <2>2 DEF OnlyLater
    <2>5. ASSUME force, NEW j \in Kinds, NEW v \in Elems(queue'[j])
          PROVE  v > madeBefore[j]
      <3>1. CASE queue'[j] = queue[j]
        BY <1>0, <2>5, <3>1 DEF OnlyLater
      <3>2. CASE queue'[j] # queue[j]
        <4>1. j = k /\ queue'[k] = Append(queue[k], made[k] + 1)
          BY <1>0, <1>1, <3>2 DEF Enqueue, TypeOK
        <4>2. queue[k] \in Seq(Ids)
          BY <1>0 DEF TypeOK
        <4>3. Elems(queue'[k]) = Elems(queue[k]) \cup {made[k] + 1}
          BY <2>1, <4>1, <4>2, AppendElems
        <4>4. made[k] + 1 > madeBefore[k]
          BY <1>0, <2>1 DEF OnlyLater
        <4> QED BY <1>0, <2>5, <4>1, <4>3, <4>4 DEF OnlyLater
      <3> QED BY <3>1, <3>2
    <2> QED BY <2>2, <2>3, <2>4, <2>5 DEF OnlyLater, Elems
  <1>2. ASSUME NEW k \in Kinds, Recv(k) \/ Drain(k)
        PROVE  (Phase /\ OnlyLater /\ SentBuffers)'
    <2>1. /\ ~force' /\ made' = made /\ madeBefore' = madeBefore
          /\ cancelled' = cancelled /\ pc' # "done"
          /\ pc' = "drain" => pc = "drain"
      BY <1>0, <1>2 DEF Recv, Drain, Phase
    <2> QED BY <1>0, <2>1 DEF Phase, OnlyLater, SentBuffers
  <1>3. ASSUME TickFlush \/ CtxDone
        PROVE  (Phase /\ OnlyLater /\ SentBuffers)'
    <2>1. /\ ~force' /\ made' = made /\ madeBefore' = madeBefore
          /\ cancelled' = cancelled /\ pc' # "done"
          /\ pc' = "drain" => cancelled
      BY <1>0, <1>3 DEF TickFlush, CtxDone, Phase, ghost
    <2> QED BY <1>0, <2>1 DEF Phase, OnlyLater, SentBuffers
  <1>4. CASE DrainEnd
    <2>1. \A k \in Kinds : queue'[k] = <<>> /\ k \in Elems(todo')
      BY <1>4, BothTodo DEF DrainEnd, store
    <2>2. /\ pc' = "flush" /\ cancelled' /\ made' = made
          /\ madeBefore' = madeBefore
      BY <1>0, <1>4 DEF DrainEnd, Phase, ghost
    <2>3. Elems(<<>>) = {}
      BY DEF Elems
    <2> QED BY <1>0, <2>1, <2>2, <2>3 DEF Phase, OnlyLater, SentBuffers, Elems
  <1>5. CASE FlushSkip
    <2>1. Head(todo) \in Kinds /\ Tail(todo) \in {<<>>, <<"snmp">>}
      BY <1>0, <1>5, TodoHead DEF FlushSkip
    <2>2. UNCHANGED <<store, retry, force, tick, cancelled, ghost, tried>>
      BY <1>5 DEF FlushSkip
    <2>3. /\ todo' = Tail(todo)
          /\ pc' = "flush" \/ pc' = (IF force THEN "done" ELSE "select")
      BY <1>5 DEF FlushSkip, FlushReturns
    <2>4. force => buf[Head(todo)] = <<>>
      BY <1>5 DEF FlushSkip, Suppressed
    <2>5. Phase' /\ OnlyLater'
      BY <1>0, <1>5, <2>2, <2>3 DEF Phase, OnlyLater, FlushSkip, store, ghost, Elems
    <2>6. ASSUME force, NEW k \in Kinds, k \notin Elems(Tail(todo))
          PROVE  Elems(buf[k]) \subseteq tried[k]
      <3>1. CASE k = Head(todo)
        BY <2>4, <2>6, <3>1 DEF Elems
      <3>2. CASE k \notin Elems(todo)
        BY <1>0, <2>6, <3>2 DEF SentBuffers
      <3> QED BY <1>0, <1>5, <2>6, <3>1, <3>2, TodoRest DEF FlushSkip
    <2>7. pc' # "post"
      BY <2>3
    <2> QED BY <2>2, <2>3, <2>5, <2>6, <2>7 DEF SentBuffers, store, Elems
  <1>6. CASE StartUpload
    <2>1. Head(todo) \in Kinds
      BY <1>0, <1>6, TodoHead DEF StartUpload
    <2>2. UNCHANGED <<store, retry, todo, force, tick, cancelled, ghost>> /\ pc' = "post"
      BY <1>6 DEF StartUpload
    <2>3. Phase' /\ OnlyLater'
      BY <1>0, <2>2, <1>6 DEF Phase, OnlyLater, store, ghost, Elems, StartUpload
    <2>4. ASSUME force
          PROVE  /\ \A k \in Kinds : tried[k] \subseteq tried'[k]
                 /\ Elems(buf[Head(todo)]) \subseteq tried'[Head(todo)]
      <3>1. cancelled
        BY <1>0, <2>4 DEF Phase
      <3>2. tried' = [tried EXCEPT ![Head(todo)] = @ \cup Elems(buf[Head(todo)])]
        BY <1>6, <3>1 DEF StartUpload
      <3> QED BY <1>0, <2>1, <3>2 DEF TypeOK
    <2>5. buf' = buf /\ todo' = todo /\ force' = force
      BY <2>2 DEF store
    <2> QED BY <1>0, <2>3, <2>4, <2>5 DEF SentBuffers, Elems
  <1>7. ASSUME NEW outcome \in Outcomes, UploadReturns(outcome)
        PROVE  (Phase /\ OnlyLater /\ SentBuffers)'
    <2>1. PICK h \in Kinds : h = Head(todo)
      BY <1>0, <1>7, TodoHead DEF UploadReturns
    <2>2. UNCHANGED <<queue, force, tick, cancelled, made, madeBefore, tried>>
      BY <1>7 DEF UploadReturns
    <2>3. /\ todo' = Tail(todo) /\ pc = "post"
          /\ pc' = "flush" \/ pc' = (IF force THEN "done" ELSE "select")
      BY <1>7 DEF UploadReturns, FlushReturns
    <2>4. Phase' /\ OnlyLater'
      BY <1>0, <2>2, <2>3 DEF Phase, OnlyLater, Elems
    <2>5. /\ \A k \in Kinds : k # h => buf'[k] = buf[k]
          /\ buf'[h] = <<>> \/ buf'[h] = buf[h]
      BY <1>0, <1>7, <2>1 DEF UploadReturns, Dispose, BackOff, TypeOK
    <2>6. ASSUME force, NEW k \in Kinds, k \notin Elems(Tail(todo))
          PROVE  Elems(buf'[k]) \subseteq tried[k]
      <3>1. CASE k = h
        <4>1. Elems(buf[h]) \subseteq tried[h] /\ Elems(<<>>) = {}
          BY <1>0, <2>1, <2>3, <2>6 DEF SentBuffers, Elems
        <4> QED BY <2>5, <3>1, <4>1
      <3>2. CASE k # h
        <4>1. k \notin Elems(todo)
          BY <1>0, <2>1, <2>3, <2>6, <3>2, TodoRest
        <4> QED BY <1>0, <2>5, <2>6, <3>2, <4>1 DEF SentBuffers
      <3> QED BY <3>1, <3>2
    <2>7. pc' # "post"
      BY <2>3
    <2> QED BY <2>2, <2>3, <2>4, <2>6, <2>7 DEF SentBuffers, Elems
  <1>8. CASE Cancel
    <2>1. ~force
      BY <1>0, <1>8 DEF Cancel, Phase
    <2>2. /\ force' = force /\ pc' = pc /\ made' = made /\ madeBefore' = made
          /\ cancelled'
      BY <1>8 DEF Cancel
    <2>3. \A k \in Kinds : made[k] <= made[k]
      BY <1>0 DEF TypeOK
    <2> QED BY <1>0, <2>1, <2>2, <2>3 DEF Phase, OnlyLater, SentBuffers
  <1>9. CASE UNCHANGED <<queue, buf, pc, todo, force, cancelled, made, madeBefore, tried>>
    BY <1>0, <1>9 DEF Phase, OnlyLater, SentBuffers, Elems
  <1> QED
    BY <1>1, <1>2, <1>3, <1>4, <1>5, <1>6, <1>7, <1>8, <1>9
       DEF Next, Run, TickerFires, Elapse, vars, store, ghost

\* Whatever the server answers and however full channels and buffers are: of
\* the results offered before the cancellation, those still held when Run
\* returns were sent once more after it.
THEOREM LastAttempt == Spec => []FinalAttempt
  <1>1. Init => DrainInv
    BY InitLine, InitDrain DEF DrainInv
  <1>2. DrainInv => FinalAttempt
    <2> SUFFICES ASSUME DrainInv, pc = "done", NEW k \in Kinds,
                        NEW i \in 1 .. madeBefore[k], fate[k][i] = "held"
                 PROVE  i \in tried[k]
      BY DEF FinalAttempt
    <2>1. TypeOK /\ Phase /\ OnlyLater /\ SentBuffers /\ NothingLost
      BY DEF DrainInv, LineInv
    <2>2. force
      BY <2>1 DEF Phase
    <2>7. todo = <<>>
      BY <2>1 DEF TypeOK
    <2>3. i \in Ids /\ madeBefore[k] \in Nat
      <3>1. madeBefore[k] \in 0 .. MaxResults
        BY <2>1 DEF TypeOK
      <3> QED BY <3>1 DEF Ids
    <2>4. i \in Elems(buf[k]) \cup Elems(queue[k])
      BY <2>1, <2>3 DEF NothingLost
    <2>5. i \notin Elems(queue[k])
      <3>1. \A v \in Elems(queue[k]) : v > madeBefore[k]
        BY <2>1, <2>2 DEF OnlyLater
      <3>2. i <= madeBefore[k] /\ i \in Nat
        BY <2>3 DEF Ids
      <3> QED BY <2>3, <3>1, <3>2
    <2>6. k \notin Elems(todo)
      BY <2>7 DEF Elems
    <2> QED BY <2>1, <2>2, <2>4, <2>5, <2>6 DEF SentBuffers
  <1> QED BY <1>1, <1>2, DrainStep, PTL DEF Spec

-----------------------------------------------------------------------------
(* Eviction. Outside the drain a buffer that reaches BatchSize is flushed   *)
(* before Run receives again: it stays as long only if the flush failed or  *)
(* was suppressed, and then the endpoint has failed.                        *)

Small(b) == Len(b) < BatchSize \/ b = <<>>

FailureWaits == \A k \in Kinds : retryIn[k] > 0 => failures[k] > 0

FlushedInTime ==
  pc \in {"select", "flush", "post"} /\ force = FALSE =>
    \A k \in Kinds : failures[k] = 0 /\ k \notin Elems(todo) => Small(buf[k])

OutageInv == TypeOK /\ Phase /\ FailureWaits /\ FlushedInTime

LEMMA CapHoldsBatch == BatchSize <= Cap /\ Cap \in Nat \ {0}
  <1>1. CASE BatchSize <= 0
    BY <1>1, CapIsPositive
  <1>2. CASE BatchSize > 0
    <2>1. BatchSize * CapFactor >= BatchSize
      BY <1>2
    <2>2. BatchSize * CapFactor \in Int
      OBVIOUS
    <2> QED BY <2>1, <2>2, CapIsPositive DEF Cap
  <1> QED BY <1>1, <1>2

\* Only a select loses the least entry of a full buffer, and to its own kind.
LEMMA Evicts ==
  ASSUME TypeOK, NEW k \in Kinds, Take(k),
         NEW j \in Kinds, NEW i \in Ids, fate'[j][i] = "evicted", fate[j][i] # "evicted"
  PROVE  j = k /\ Len(buf[k]) >= Cap
  <1>1. fate' = IF Len(buf[k]) < Cap THEN fate
                ELSE [fate EXCEPT ![k][Head(buf[k])] = "evicted"]
    BY DEF Take
  <1>2. Len(buf[k]) \in Nat
    BY DEF TypeOK
  <1>3. ~(Len(buf[k]) < Cap)
    BY <1>1
  <1>4. Len(buf[k]) >= Cap
    BY <1>2, <1>3, CapHoldsBatch
  <1>5. j = k
    BY <1>1, <1>3 DEF TypeOK
  <1> QED BY <1>4, <1>5

\* The flush calls that are left when an upload has returned.
LEMMA UploadEnd ==
  ASSUME TypeOK, pc = "post", todo' = Tail(todo),
         NEW j \in Kinds, j \notin Elems(todo')
  PROVE  j = Head(todo) \/ j \notin Elems(todo)
  <1>1. Elems(todo') = Elems(Tail(todo))
    BY DEF Elems
  <1> QED BY <1>1, TodoRest

LEMMA PhaseStep == TypeOK /\ Phase /\ [Next]_vars => Phase'
  BY DEF TypeOK, Phase, Next, Run, Recv, Drain, TickFlush, CtxDone, DrainEnd, FlushSkip,
         FlushReturns, StartUpload, UploadReturns, Enqueue, TickerFires, Elapse, Cancel, vars

LEMMA OutageStep == OutageInv /\ [Next]_vars => OutageInv'
  <1> SUFFICES ASSUME OutageInv, [Next]_vars
               PROVE  Phase' /\ FailureWaits' /\ FlushedInTime'
    BY TypeStep DEF OutageInv
  <1>0. TypeOK /\ Phase /\ FailureWaits /\ FlushedInTime
    BY DEF OutageInv
  <1>1. Phase'
    BY <1>0, PhaseStep
  <1>2. ASSUME NEW k \in Kinds, Recv(k) PROVE FailureWaits' /\ FlushedInTime'
    <2>1. /\ UNCHANGED <<retry, force>> /\ pc = "select" /\ Take(k)
          /\ IF Len(buf'[k]) >= BatchSize THEN todo' = <<k>> ELSE todo' = todo
      BY <1>2 DEF Recv
    <2>2. todo = <<>> /\ Elems(todo) = {}
      BY <1>0, <2>1 DEF TypeOK, Elems
    <2>3. FailureWaits'
      BY <1>0, <2>1 DEF FailureWaits, retry
    <2>4. ASSUME NEW j \in Kinds, failures[j] = 0, j \notin Elems(todo'), force = FALSE
          PROVE  Small(buf'[j])
      <3>1. CASE j = k
        <4>1. <<k>>[1] = k /\ 1 \in DOMAIN <<k>>
          OBVIOUS
        <4>2. k \in Elems(<<k>>)
          BY <4>1 DEF Elems
        <4>3. ~(Len(buf'[k]) >= BatchSize)
          BY <2>1, <2>4, <3>1, <4>2
        <4>4. buf'[k] \in Seq(Ids)
          BY <1>0, <2>1, TakeType
        <4>5. Len(buf'[k]) \in Nat
          BY <4>4
        <4> QED BY <3>1, <4>3, <4>5 DEF Small
      <3>2. CASE j # k
        <4>1. buf'[j] = buf[j]
          BY <1>0, <2>1, <3>2 DEF Take, TypeOK
        <4> QED BY <1>0, <2>1, <2>2, <2>4, <4>1 DEF FlushedInTime
      <3> QED BY <3>1, <3>2
    <2>5. FlushedInTime'
      BY <2>1, <2>4 DEF FlushedInTime, retry, Small, Elems
    <2> QED BY <2>3, <2>5
  <1>3. CASE TickFlush
    <2>1. \A k \in Kinds : k \in Elems(todo')
      BY <1>3, BothTodo DEF TickFlush
    <2> QED BY <1>0, <1>1, <1>3, <2>1 DEF TickFlush, FailureWaits, FlushedInTime, retry
  <1>4. CASE DrainEnd
    <2>1. force' = TRUE /\ UNCHANGED retry
      BY <1>4 DEF DrainEnd
    <2> QED BY <1>0, <1>1, <2>1 DEF FailureWaits, FlushedInTime, retry
  <1>5. ASSUME CtxDone \/ \E k \in Kinds : Drain(k)
        PROVE  FailureWaits' /\ FlushedInTime'
    <2>1. pc' = "drain" /\ UNCHANGED retry
      BY <1>5 DEF CtxDone, Drain
    <2> QED BY <1>0, <2>1 DEF FailureWaits, FlushedInTime, retry
  <1>6. CASE FlushSkip
    <2>1. /\ pc = "flush" /\ Suppressed(Head(todo)) /\ todo' = Tail(todo)
          /\ UNCHANGED <<buf, retry, force>>
      BY <1>6 DEF FlushSkip, FlushReturns, store
    <2>2. ASSUME NEW j \in Kinds, failures[j] = 0, j \notin Elems(Tail(todo)),
                 force = FALSE
          PROVE  Small(buf[j])
      <3>1. CASE j = Head(todo)
        <4>1. ~(retryIn[j] > 0)
          BY <1>0, <2>2 DEF FailureWaits
        <4>2. buf[j] = <<>>
          BY <2>1, <3>1, <4>1 DEF Suppressed
        <4> QED BY <4>2 DEF Small
      <3>2. CASE j \notin Elems(todo)
        BY <1>0, <2>1, <2>2, <3>2 DEF FlushedInTime
      <3> QED BY <1>0, <2>1, <2>2, <3>1, <3>2, TodoRest
    <2>3. FailureWaits'
      BY <1>0, <2>1 DEF FailureWaits, retry
    <2>4. FlushedInTime'
      BY <2>1, <2>2 DEF FlushedInTime, Small, Elems, retry
    <2> QED BY <1>1, <2>3, <2>4
  <1>7. ASSUME NEW outcome \in Outcomes, UploadReturns(outcome)
        PROVE  FailureWaits' /\ FlushedInTime'
    <2>1. PICK h \in Kinds : h = Head(todo)
      BY <1>0, <1>7, TodoHead DEF UploadReturns
    <2>2. /\ pc = "post" /\ todo' = Tail(todo) /\ UNCHANGED force
          /\ IF Discards(outcome) THEN Dispose(h) ELSE BackOff(h)
          /\ Record(h, outcome)
      BY <1>7, <2>1 DEF UploadReturns, FlushReturns
    <2>3. ASSUME NEW j \in Kinds, j # h
          PROVE  failures'[j] = failures[j] /\ retryIn'[j] = retryIn[j]
                 /\ buf'[j] = buf[j]
      BY <1>0, <2>2, <2>3 DEF Record, Dispose, BackOff, TypeOK
    <2>4. CASE Discards(outcome)
      <3>1. buf'[h] = <<>> /\ retryIn'[h] = 0
        BY <1>0, <2>2, <2>4 DEF Dispose, TypeOK
      <3> QED BY <1>0, <2>1, <2>2, <2>3, <3>1, UploadEnd
              DEF FailureWaits, FlushedInTime, Small
    <2>5. CASE ~Discards(outcome)
      <3>1. Verdict(outcome) = "held"
        BY <2>5 DEF Discards, Verdict, Outcomes
      <3>2. failures'[h] > 0
        <4>1. /\ failures[h] \in 0 .. MaxFailures
              /\ failures'[h] = IF failures[h] < MaxFailures THEN failures[h] + 1
                                                             ELSE failures[h]
          BY <1>0, <2>2, <3>1 DEF Record, TypeOK
        <4> QED BY <4>1
      <3> QED BY <1>0, <2>1, <2>2, <2>3, <3>2, UploadEnd
              DEF FailureWaits, FlushedInTime, Small
    <2> QED BY <2>4, <2>5
  <1>8. CASE Elapse
    <2>1. \A k \in Kinds : retryIn'[k] = IF retryIn[k] > 0 THEN retryIn[k] - 1 ELSE 0
      BY <1>8 DEF Elapse
    <2>2. \A k \in Kinds : retryIn[k] \in 0 .. MaxDelay
      BY <1>0 DEF TypeOK
    <2>3. UNCHANGED <<failures, pc, force, todo, buf>>
      BY <1>8 DEF Elapse, store
    <2>4. FailureWaits'
      BY <1>0, <2>1, <2>2, <2>3 DEF FailureWaits
    <2>5. FlushedInTime'
      BY <1>0, <2>3 DEF FlushedInTime, Small, Elems
    <2> QED BY <1>1, <2>4, <2>5
  <1>9. ASSUME UNCHANGED <<buf, retry, todo, force>>, pc' = pc \/ pc = "flush"
        PROVE  FailureWaits' /\ FlushedInTime'
    BY <1>0, <1>9 DEF FailureWaits, FlushedInTime, Small, Elems, retry
  <1> QED
    BY <1>1, <1>2, <1>3, <1>4, <1>5, <1>6, <1>7, <1>8, <1>9
       DEF Next, Run, Enqueue, StartUpload, TickerFires, Cancel, vars, store

\* For every size and delay: while Run selects, no result loses its place in a
\* buffer whose endpoint has not failed since its last batch.
THEOREM EvictionsCorrect == Spec => EvictedOnlyInOutage
  <1>1. Init => OutageInv
    <2> SUFFICES ASSUME Init PROVE Phase /\ FailureWaits /\ FlushedInTime
      BY InitType DEF OutageInv
    <2>1. \A k \in Kinds : buf[k] = <<>> /\ retryIn[k] = 0
      BY DEF Init
    <2> QED BY <2>1, InitDrain DEF FailureWaits, FlushedInTime, Small
  <1>2. OutageInv /\ [Next]_vars =>
          [\A k \in Kinds, i \in Ids :
             pc = "select" /\ fate'[k][i] = "evicted" /\ fate[k][i] # "evicted"
               => failures[k] > 0]_vars
    <2> SUFFICES ASSUME OutageInv, Next, NEW j \in Kinds, NEW i \in Ids, pc = "select",
                        fate'[j][i] = "evicted", fate[j][i] # "evicted"
                 PROVE  failures[j] > 0
      OBVIOUS
    <2>0. TypeOK /\ Phase /\ FlushedInTime
      BY DEF OutageInv
    <2>1. ASSUME NEW k \in Kinds, Recv(k) PROVE failures[j] > 0
      <3>1. j = k /\ Len(buf[k]) >= Cap
        BY <2>0, <2>1, Evicts DEF Recv
      <3>2. buf[j] \in Seq(Ids) /\ Len(buf[j]) \in Nat /\ failures[j] \in 0 .. MaxFailures
        BY <2>0 DEF TypeOK
      <3>3. ~Small(buf[j])
        BY <3>1, <3>2, CapHoldsBatch DEF Small
      <3>4. todo = <<>> /\ Elems(<<>>) = {}
        BY <2>0 DEF TypeOK, Elems
      <3>5. force = FALSE
        BY <2>0 DEF Phase, TypeOK
      <3>6. failures[j] # 0
        BY <2>0, <3>3, <3>4, <3>5 DEF FlushedInTime
      <3> QED BY <3>2, <3>6
    <2>2. ASSUME NEW k \in Kinds, Enqueue(k) PROVE FALSE
      <3>1. \/ fate' = [fate EXCEPT ![k][made[k] + 1] = "held"]
            \/ fate' = [fate EXCEPT ![k][made[k] + 1] = "overflow"]
        BY <2>2 DEF Enqueue
      <3>2. fate[k] \in [Ids -> Fates] /\ fate \in [Kinds -> [Ids -> Fates]]
        BY <2>0 DEF TypeOK
      <3>3. fate'[j][i] \in {fate[j][i], "held", "overflow"}
        BY <3>1, <3>2
      <3> QED BY <3>3
    <2>3. fate' = fate \/ \E k \in Kinds : Recv(k) \/ Enqueue(k)
      BY DEF Next, Run, Drain, TickFlush, CtxDone, DrainEnd, FlushSkip, StartUpload,
             UploadReturns, TickerFires, Elapse, Cancel, ghost
    <2> QED BY <2>1, <2>2, <2>3
  <1> QED BY <1>1, <1>2, OutageStep, PTL DEF Spec, EvictedOnlyInOutage

-----------------------------------------------------------------------------
(* The backoff. A wait has something to wait for only because an upload     *)
(* under way has something to send.                                         *)

\* The subsets of 1 .. n + 1 are those of 1 .. n, and as many that hold n + 1.
LEMMA PowerOfTwo ==
  ASSUME NEW n \in Nat
  PROVE  2^n \in Nat \ {0} /\ 2^(n + 1) = 2 * 2^n /\ 2^0 = 1
  <1> DEFINE P == SUBSET (1 .. n)
             Q == {s \cup {n + 1} : s \in P}
             f == [s \in P |-> s \cup {n + 1}]
  <1>1. /\ IsFiniteSet(1 .. n) /\ Cardinality(1 .. n) = n
        /\ IsFiniteSet(1 .. (n + 1)) /\ Cardinality(1 .. (n + 1)) = n + 1
    <2>1. n + 1 \in Int /\ n \in Int /\ 1 \in Int
      OBVIOUS
    <2> QED BY <2>1, FS_Interval
  <1>2. /\ IsFiniteSet(P) /\ Cardinality(P) = 2^n /\ Cardinality(P) \in Nat
        /\ Cardinality(SUBSET (1 .. (n + 1))) = 2^(n + 1)
    BY <1>1, FS_SUBSET, FS_CardinalityType
  <1>3. IsFiniteSet(Q) /\ Cardinality(Q) = Cardinality(P)
    <2>1. f \in Bijection(P, Q)
      <3>1. f \in [P -> Q] /\ \A t \in Q : \E s \in P : f[s] = t
        OBVIOUS
      <3>2. ASSUME NEW a \in P, NEW b \in P, f[a] = f[b] PROVE a = b
        <4>1. n + 1 \notin a /\ n + 1 \notin b
          OBVIOUS
        <4>2. a \cup {n + 1} = b \cup {n + 1}
          BY <3>2
        <4> QED BY <4>1, <4>2
      <3> QED BY <3>1, <3>2, Fun_IsBij
    <2> QED BY <1>2, <2>1, FS_Bijection DEF ExistsBijection
  <1>4. SUBSET (1 .. (n + 1)) = P \cup Q /\ P \cap Q = {}
    <2>1. 1 .. (n + 1) = (1 .. n) \cup {n + 1} /\ n + 1 \notin 1 .. n
      OBVIOUS
    <2>2. ASSUME NEW t \in SUBSET (1 .. (n + 1)), n + 1 \in t PROVE t \in Q
      <3>1. t \ {n + 1} \in P /\ t = (t \ {n + 1}) \cup {n + 1}
        BY <2>1, <2>2
      <3> QED BY <3>1
    <2>3. ASSUME NEW t \in SUBSET (1 .. (n + 1)), n + 1 \notin t PROVE t \in P
      BY <2>1, <2>3
    <2>4. P \subseteq SUBSET (1 .. (n + 1)) /\ Q \subseteq SUBSET (1 .. (n + 1))
      BY <2>1
    <2>5. P \cap Q = {}
      BY <2>1
    <2> HIDE DEF P, Q
    <2> QED BY <2>2, <2>3, <2>4, <2>5
  <1> HIDE DEF P, Q
  <1>5. Cardinality(P \cup Q) = Cardinality(P) + Cardinality(P)
    <2>1. Cardinality(P \cap Q) = 0
      BY <1>4, FS_EmptySet
    <2>2. Cardinality(P \cup Q) = Cardinality(P) + Cardinality(Q) - Cardinality(P \cap Q)
      BY <1>2, <1>3, FS_Union
    <2> QED BY <1>2, <1>3, <2>1, <2>2
  <1>6. Cardinality(P) # 0
    <2>1. {} \in P
      BY DEF P
    <2> QED BY <1>2, <2>1, FS_EmptySet
  <1>7. 2^0 = 1
    OBVIOUS
  <1>8. 2^n = Cardinality(P) /\ 2^(n + 1) = Cardinality(P) + Cardinality(P)
    BY <1>2, <1>4, <1>5
  <1>9. 2^n \in Nat \ {0}
    BY <1>2, <1>6
  <1>10. 2^(n + 1) = 2 * 2^n
    BY <1>8, <1>9
  <1> QED BY <1>7, <1>9, <1>10

\* One more failure brings the closed form to its next value.
LEMMA BackoffNext ==
  ASSUME NEW n \in Nat
  PROVE  /\ BackoffAfter(n) \in 0 .. MaxDelay
         /\ NextDelay(BackoffAfter(n)) = BackoffAfter(n + 1)
  <1>1. CASE n = 0
    <2>1. BackoffAfter(n) = 0 /\ (n + 1) - 1 = 0 /\ n + 1 # 0
      BY <1>1 DEF BackoffAfter
    <2>2. BackoffAfter(n + 1) = InitialDelay
      <3>1. 2^((n + 1) - 1) = 1
        BY <2>1, PowerOfTwo
      <3> QED BY <2>1, <3>1 DEF BackoffAfter
    <2> QED BY <2>1, <2>2 DEF NextDelay
  <1>2. CASE n # 0
    <2> DEFINE x == InitialDelay * 2^(n - 1)
               y == InitialDelay * 2^((n + 1) - 1)
    <2>1. PICK p \in Nat \ {0} : 2^(n - 1) = p /\ 2^((n + 1) - 1) = 2 * p
      <3>1. n - 1 \in Nat /\ (n - 1) + 1 = n /\ (n + 1) - 1 = n
        BY <1>2
      <3>2. 2^(n - 1) \in Nat \ {0} /\ 2^((n - 1) + 1) = 2 * 2^(n - 1)
        BY <3>1, PowerOfTwo
      <3> QED BY <3>1, <3>2
    <2>2. x \in Nat \ {0} /\ y = 2 * x
      <3>1. \A d, q \in Nat \ {0} : d * q \in Nat \ {0} /\ d * (2 * q) = 2 * (d * q)
        OBVIOUS
      <3> QED BY <2>1, <3>1
    <2>3. /\ BackoffAfter(n) = IF x > MaxDelay THEN MaxDelay ELSE x
          /\ BackoffAfter(n + 1) = IF y > MaxDelay THEN MaxDelay ELSE y
      BY <1>2 DEF BackoffAfter
    <2> HIDE DEF x, y
    <2> QED BY <2>2, <2>3 DEF NextDelay
  <1> QED BY <1>1, <1>2

LEMMA NextDelayGrows == \A d \in 0 .. MaxDelay : NextDelay(d) >= d
  BY DEF NextDelay

\* The schedule of one kind.
Schedule(n, delay, left, b) ==
  /\ n < MaxFailures => delay = BackoffAfter(n)
  /\ n = MaxFailures => delay >= BackoffAfter(MaxFailures)
  /\ left <= delay
  /\ delay > 0 => b # <<>>

Scheduled(k) == Schedule(failures[k], retryDelay[k], retryIn[k], buf[k])

PostFull == pc = "post" => buf[Head(todo)] # <<>>

BackoffInv == TypeOK /\ PostFull /\ \A k \in Kinds : Scheduled(k)

LEMMA FailureScheduled ==
  ASSUME NEW n \in 0 .. MaxFailures, NEW d \in 0 .. MaxDelay, NEW left, NEW b,
         Schedule(n, d, left, b), b # <<>>
  PROVE  Schedule(IF n < MaxFailures THEN n + 1 ELSE n, NextDelay(d), NextDelay(d), b)
  <1> DEFINE m == IF n < MaxFailures THEN n + 1 ELSE n
  <1>1. NextDelay(d) \in 1 .. MaxDelay /\ NextDelay(d) >= d
    BY NextDelayType, NextDelayGrows
  <1>2. n < MaxFailures => NextDelay(d) = BackoffAfter(n + 1)
    BY BackoffNext DEF Schedule
  <1>3. m = MaxFailures => NextDelay(d) >= BackoffAfter(MaxFailures)
    <2>1. BackoffAfter(MaxFailures) \in 0 .. MaxDelay
      BY BackoffNext
    <2>2. CASE n < MaxFailures
      BY <1>2, <2>1, <2>2
    <2>3. CASE n = MaxFailures
      BY <1>1, <2>1, <2>3 DEF Schedule
    <2> QED BY <2>2, <2>3
  <1>4. m < MaxFailures => NextDelay(d) = BackoffAfter(m)
    BY <1>2
  <1>5. NextDelay(d) <= NextDelay(d)
    BY <1>1
  <1> HIDE DEF m
  <1> QED BY <1>3, <1>4, <1>5 DEF Schedule, m

LEMMA BackoffSame ==
  ASSUME BackoffInv, UNCHANGED <<retryDelay, failures>>,
         \A k \in Kinds : /\ buf[k] # <<>> => buf'[k] # <<>>
                          /\ retryIn'[k] <= retryDelay[k]
  PROVE  \A k \in Kinds : Scheduled(k)'
  BY DEF BackoffInv, Scheduled, Schedule

LEMMA TakeFills ==
  ASSUME TypeOK, NEW k \in Kinds, Take(k)
  PROVE  \A j \in Kinds : buf[j] # <<>> => buf'[j] # <<>>
  <1>1. /\ queue[k] \in Seq(Ids) /\ queue[k] # <<>> /\ buf[k] \in Seq(Ids)
        /\ Len(buf[k]) <= Cap /\ Head(queue[k]) \in Ids
    BY HeadTailProperties DEF TypeOK, Take
  <1>2. buf'[k] = Add(buf[k], Head(queue[k])) /\ \A j \in Kinds : j # k => buf'[j] = buf[j]
    BY DEF TypeOK, Take
  <1>3. Add(buf[k], Head(queue[k])) # <<>>
    <2> DEFINE b == Add(buf[k], Head(queue[k]))
    <2>1. Len(b) > 0
      <3>1. CASE Len(buf[k]) < Cap
        <4>1. b = Append(buf[k], Head(queue[k]))
          BY <1>1, <3>1, AddResult
        <4>2. Len(b) = Len(buf[k]) + 1 /\ Len(buf[k]) \in Nat
          BY <1>1, <4>1, AppendProperties
        <4> QED BY <4>2
      <3>2. CASE Len(buf[k]) >= Cap
        <4>1. Len(b) = Cap
          BY <1>1, <3>2, AddResult
        <4> QED BY <4>1, CapIsPositive
      <3>3. Len(buf[k]) \in Nat
        BY <1>1
      <3> QED BY <3>1, <3>2, <3>3, CapIsPositive
    <2> QED BY <2>1
  <1> QED BY <1>2, <1>3

LEMMA BackoffUpload ==
  ASSUME BackoffInv, NEW outcome \in Outcomes, UploadReturns(outcome)
  PROVE  PostFull' /\ \A k \in Kinds : Scheduled(k)'
  <1>1. PICK h \in Kinds : h = Head(todo)
    BY TodoHead DEF BackoffInv, UploadReturns
  <1>2. /\ pc = "post" /\ pc' # "post" /\ buf[h] # <<>>
        /\ IF Discards(outcome) THEN Dispose(h) ELSE BackOff(h)
        /\ Record(h, outcome)
    BY <1>1 DEF BackoffInv, PostFull, UploadReturns, FlushReturns
  <1>3. /\ failures \in [Kinds -> 0 .. MaxFailures] /\ buf \in [Kinds -> Seq(Ids)]
        /\ retryDelay \in [Kinds -> 0 .. MaxDelay] /\ retryIn \in [Kinds -> 0 .. MaxDelay]
        /\ \A k \in Kinds : Scheduled(k)
    BY DEF BackoffInv, TypeOK
  <1>4. \A j \in Kinds : j # h => Scheduled(j)'
    <2> SUFFICES ASSUME NEW j \in Kinds, j # h PROVE Scheduled(j)'
      OBVIOUS
    <2>1. /\ failures'[j] = failures[j] /\ retryDelay'[j] = retryDelay[j]
          /\ retryIn'[j] = retryIn[j] /\ buf'[j] = buf[j]
      BY <1>2, <1>3 DEF Record, Dispose, BackOff
    <2> QED BY <1>3, <2>1 DEF Scheduled
  <1>5. CASE Discards(outcome)
    <2>1. Verdict(outcome) # "held"
      BY <1>5 DEF Discards, Verdict
    <2>2. /\ failures'[h] = 0 /\ retryDelay'[h] = 0 /\ retryIn'[h] = 0
      BY <1>2, <1>3, <1>5, <2>1 DEF Record, Dispose
    <2>3. Scheduled(h)'
      BY <2>2 DEF Scheduled, Schedule, BackoffAfter
    <2> QED BY <1>2, <1>4, <2>3 DEF PostFull
  <1>6. CASE ~Discards(outcome)
    <2>1. Verdict(outcome) = "held"
      BY <1>6 DEF Discards, Verdict, Outcomes
    <2>2. /\ failures'[h] = IF failures[h] < MaxFailures THEN failures[h] + 1
                                                        ELSE failures[h]
          /\ retryDelay'[h] = NextDelay(retryDelay[h])
          /\ retryIn'[h] = NextDelay(retryDelay[h]) /\ buf'[h] = buf[h]
      BY <1>2, <1>3, <1>6, <2>1 DEF Record, BackOff
    <2>3. Scheduled(h)'
      <3>1. failures[h] \in 0 .. MaxFailures /\ retryDelay[h] \in 0 .. MaxDelay
        BY <1>3
      <3>2. Schedule(failures[h], retryDelay[h], retryIn[h], buf[h])
        BY <1>3 DEF Scheduled
      <3> QED BY <1>2, <2>2, <3>1, <3>2, FailureScheduled DEF Scheduled
    <2> QED BY <1>2, <1>4, <2>3 DEF PostFull
  <1> QED BY <1>5, <1>6

LEMMA BackoffStep == BackoffInv /\ [Next]_vars => BackoffInv'
  <1> SUFFICES ASSUME BackoffInv, [Next]_vars
               PROVE  PostFull' /\ \A k \in Kinds : Scheduled(k)'
    BY TypeStep DEF BackoffInv
  <1>1. \A k \in Kinds : retryIn[k] <= retryDelay[k]
    BY DEF BackoffInv, Scheduled, Schedule
  <1>2. ASSUME NEW k \in Kinds, Recv(k) \/ Drain(k)
        PROVE  PostFull' /\ \A j \in Kinds : Scheduled(j)'
    <2>1. Take(k) /\ UNCHANGED retry /\ pc' # "post"
      BY <1>2 DEF Recv, Drain
    <2>2. \A j \in Kinds : buf[j] # <<>> => buf'[j] # <<>>
      BY <2>1, TakeFills DEF BackoffInv
    <2> QED BY <1>1, <2>1, <2>2, BackoffSame DEF retry, PostFull
  <1>3. ASSUME UNCHANGED <<buf, retry>> PROVE \A k \in Kinds : Scheduled(k)'
    BY <1>1, <1>3, BackoffSame DEF retry
  <1>4. CASE Elapse
    <2>1. \A k \in Kinds : retryIn'[k] = IF retryIn[k] > 0 THEN retryIn[k] - 1 ELSE 0
      BY <1>4 DEF Elapse
    <2>2. \A k \in Kinds : retryIn[k] \in 0 .. MaxDelay /\ retryDelay[k] \in 0 .. MaxDelay
      BY DEF BackoffInv, TypeOK
    <2>3. \A k \in Kinds : retryIn'[k] <= retryDelay[k]
      BY <1>1, <2>1, <2>2
    <2> QED BY <1>4, <2>3, BackoffSame DEF Elapse, store, BackoffInv, PostFull
  <1>5. ASSUME NEW outcome \in Outcomes, UploadReturns(outcome)
        PROVE  PostFull' /\ \A k \in Kinds : Scheduled(k)'
    BY <1>5, BackoffUpload
  <1>6. CASE StartUpload
    BY <1>3, <1>6 DEF StartUpload, store, Suppressed, PostFull
  <1>7. ASSUME UNCHANGED <<buf, retry>>, pc' # "post" \/ UNCHANGED <<pc, todo>>
        PROVE  PostFull' /\ \A k \in Kinds : Scheduled(k)'
    BY <1>3, <1>7 DEF PostFull, BackoffInv
  <1>8. CASE UNCHANGED vars \/ Cancel \/ TickerFires \/ \E k \in Kinds : Enqueue(k)
    BY <1>7, <1>8 DEF vars, store, Cancel, TickerFires, Enqueue
  <1>9. CASE TickFlush \/ CtxDone \/ DrainEnd \/ FlushSkip
    BY <1>7, <1>9 DEF TickFlush, CtxDone, DrainEnd, FlushSkip, FlushReturns, store
  <1> QED BY <1>2, <1>4, <1>5, <1>6, <1>8, <1>9 DEF Next, Run

\* For any delays: the wait after n failures in a row is the n-th power's, up to
\* the cap and no further, and no wait outlives the batch it is for.
THEOREM BackoffCorrect == Spec => []BackoffSchedule
  <1>1. Init => BackoffInv
    <2> SUFFICES ASSUME Init PROVE PostFull /\ \A k \in Kinds : Scheduled(k)
      BY InitType DEF BackoffInv
    <2>1. \A k \in Kinds : failures[k] = 0 /\ retryDelay[k] = 0 /\ retryIn[k] = 0
      BY DEF Init
    <2>2. \A k \in Kinds : Scheduled(k)
      BY <2>1 DEF Scheduled, Schedule, BackoffAfter
    <2> QED BY <2>2 DEF Init, PostFull
  <1>2. BackoffInv => BackoffSchedule
    BY DEF BackoffInv, Scheduled, Schedule, BackoffSchedule
  <1> QED BY <1>1, <1>2, BackoffStep, PTL DEF Spec
=============================================================================
