------------------------- MODULE ReporterLineProofs --------------------------
(* Reporter implements ResultLine, for every value of its constants: each  *)
(* step of channels, buffers, batches and retries is a step of the line of *)
(* its kind, or leaves all lines alone.                                    *)
EXTENDS ReporterProofs

USE ReporterAssumption

-----------------------------------------------------------------------------
(* Sequences                                                               *)

\* A result that joins a channel joins the end of its line.
LEMMA ConcatAppend ==
  ASSUME NEW b \in Seq(Ids), NEW q \in Seq(Ids), NEW v \in Ids
  PROVE  b \o Append(q, v) = Append(b \o q, v)
  <1>1. /\ Append(q, v) \in Seq(Ids) /\ Len(Append(q, v)) = Len(q) + 1
        /\ \A m \in 1 .. Len(q) : Append(q, v)[m] = q[m]
        /\ Append(q, v)[Len(q) + 1] = v
    BY AppendElems
  <1>2. /\ b \o q \in Seq(Ids) /\ Len(b \o q) = Len(b) + Len(q)
        /\ \A m \in 1 .. Len(b) + Len(q) :
             (b \o q)[m] = IF m <= Len(b) THEN b[m] ELSE q[m - Len(b)]
    BY ConcatProperties
  <1>3. /\ b \o Append(q, v) \in Seq(Ids)
        /\ Len(b \o Append(q, v)) = Len(b) + Len(q) + 1
        /\ \A m \in 1 .. Len(b) + Len(q) + 1 :
             (b \o Append(q, v))[m] = IF m <= Len(b) THEN b[m]
                                      ELSE Append(q, v)[m - Len(b)]
    <2>1. Len(b) \in Nat /\ Len(q) \in Nat
      BY LenProperties
    <2> DEFINE p == Append(q, v)
    <2>2. p \in Seq(Ids) /\ Len(b) + Len(p) = Len(b) + Len(q) + 1
      BY <1>1, <2>1
    <2> HIDE DEF p
    <2>3. /\ b \o p \in Seq(Ids) /\ Len(b \o p) = Len(b) + Len(p)
          /\ \A m \in 1 .. Len(b) + Len(p) :
               (b \o p)[m] = IF m <= Len(b) THEN b[m] ELSE p[m - Len(b)]
      BY <2>2, ConcatProperties
    <2> QED BY <2>2, <2>3 DEF p
  <1>4. /\ Append(b \o q, v) \in Seq(Ids)
        /\ Len(Append(b \o q, v)) = Len(b) + Len(q) + 1
        /\ \A m \in 1 .. Len(b) + Len(q) : Append(b \o q, v)[m] = (b \o q)[m]
        /\ Append(b \o q, v)[Len(b) + Len(q) + 1] = v
    BY <1>2, AppendElems
  <1>5. Len(b) \in Nat /\ Len(q) \in Nat
    BY LenProperties
  <1>6. ASSUME NEW m \in 1 .. Len(b) + Len(q) + 1
        PROVE  (b \o Append(q, v))[m] = Append(b \o q, v)[m]
    <2>1. CASE m <= Len(b)
      <3>1. m \in 1 .. Len(b) + Len(q)
        BY <1>5, <2>1
      <3> QED BY <1>2, <1>3, <1>4, <2>1, <3>1
    <2>2. CASE m > Len(b) /\ m <= Len(b) + Len(q)
      <3>1. m \in 1 .. Len(b) + Len(q) /\ m - Len(b) \in 1 .. Len(q) /\ ~(m <= Len(b))
        BY <1>5, <2>2
      <3> QED BY <1>1, <1>2, <1>3, <1>4, <3>1
    <2>3. CASE m = Len(b) + Len(q) + 1
      <3>1. m - Len(b) = Len(q) + 1 /\ ~(m <= Len(b))
        BY <1>5, <2>3
      <3> QED BY <1>1, <1>3, <1>4, <2>3, <3>1
    <2> QED BY <1>5, <2>1, <2>2, <2>3
  <1> QED BY <1>3, <1>4, <1>6, SeqEqual

\* What a receive does to a line: nothing below the cap, else the oldest result
\* leaves it.
LEMMA ConcatTake ==
  ASSUME NEW b \in Seq(Ids), NEW q \in Seq(Ids), Len(b) <= Cap, q # <<>>
  PROVE  /\ Len(b) < Cap => Add(b, Head(q)) \o Tail(q) = b \o q
         /\ Len(b) >= Cap =>
              /\ b \o q # <<>> /\ Head(b \o q) = Head(b)
              /\ Add(b, Head(q)) \o Tail(q) = Tail(b \o q)
  <1> DEFINE a == Add(b, Head(q))
  <1>1. /\ Tail(q) \in Seq(Ids) /\ Len(Tail(q)) = Len(q) - 1
        /\ Head(q) = q[1] /\ Head(q) \in Ids /\ Len(q) \in Nat \ {0}
        /\ \A m \in 1 .. Len(q) - 1 : Tail(q)[m] = q[m + 1]
    BY TailElems
  <1>2. /\ b \o q \in Seq(Ids) /\ Len(b \o q) = Len(b) + Len(q) /\ Len(b) \in Nat
        /\ \A m \in 1 .. Len(b) + Len(q) :
             (b \o q)[m] = IF m <= Len(b) THEN b[m] ELSE q[m - Len(b)]
    BY ConcatProperties, LenProperties
  <1>3. /\ a \in Seq(Ids)
        /\ Len(b) < Cap => a = Append(b, Head(q))
        /\ Len(b) >= Cap =>
             /\ Len(b) = Cap /\ b # <<>> /\ Len(a) = Cap
             /\ \A m \in 1 .. Cap : a[m] = IF m < Cap THEN b[m + 1] ELSE Head(q)
    BY <1>1, AddResult
  <1>4. /\ a \o Tail(q) \in Seq(Ids) /\ Len(a \o Tail(q)) = Len(a) + Len(q) - 1
        /\ \A m \in 1 .. Len(a) + Len(q) - 1 :
             (a \o Tail(q))[m] = IF m <= Len(a) THEN a[m] ELSE Tail(q)[m - Len(a)]
    <2>1. Len(a) \in Nat
      BY <1>3, LenProperties
    <2>2. Len(a) + Len(Tail(q)) = Len(a) + Len(q) - 1
      BY <1>1, <2>1
    <2> HIDE DEF a
    <2> QED BY <1>1, <1>3, <2>2, ConcatProperties
  <1> HIDE DEF a
  <1>5. CASE Len(b) < Cap
    <2>1. /\ Len(a) = Len(b) + 1
          /\ \A m \in 1 .. Len(b) : a[m] = b[m]
          /\ a[Len(b) + 1] = q[1]
      BY <1>1, <1>3, <1>5, AppendElems
    <2>2. ASSUME NEW m \in 1 .. Len(b) + Len(q)
          PROVE  (a \o Tail(q))[m] = (b \o q)[m]
      <3>0. (a \o Tail(q))[m] = IF m <= Len(b) + 1 THEN a[m]
                                ELSE Tail(q)[m - (Len(b) + 1)]
        <4>1. m \in 1 .. Len(a) + Len(q) - 1
          BY <1>1, <1>2, <2>1
        <4> QED BY <1>4, <2>1, <4>1
      <3>1. CASE m <= Len(b)
        BY <1>2, <2>1, <3>0, <3>1
      <3>2. CASE m = Len(b) + 1
        BY <1>2, <2>1, <3>0, <3>2
      <3>3. CASE m > Len(b) + 1
        <4>1. m - (Len(b) + 1) \in 1 .. Len(q) - 1 /\ ~(m <= Len(b) + 1)
              /\ (m - (Len(b) + 1)) + 1 = m - Len(b) /\ ~(m <= Len(b))
          BY <1>1, <1>2, <3>3
        <4>2. Tail(q)[m - (Len(b) + 1)] = q[m - Len(b)]
          BY <1>1, <4>1
        <4>3. (b \o q)[m] = q[m - Len(b)]
          BY <1>2, <4>1
        <4> QED BY <3>0, <4>1, <4>2, <4>3
      <3>4. m <= Len(b) \/ m = Len(b) + 1 \/ m > Len(b) + 1
        BY <1>1, <1>2
      <3> QED BY <3>1, <3>2, <3>3, <3>4, Zenon
    <2>3. Len(a) + Len(q) - 1 = Len(b) + Len(q)
      BY <1>1, <1>2, <2>1
    <2>4. a \o Tail(q) = b \o q
      BY <1>2, <1>4, <2>2, <2>3, SeqEqual
    <2>5. ~(Len(b) >= Cap)
      BY <1>2, <1>5, CapIsPositive
    <2> QED BY <2>4, <2>5 DEF a
  <1>6. CASE Len(b) >= Cap
    <2>1. /\ Len(b) = Cap /\ Len(a) = Cap /\ b # <<>>
          /\ \A m \in 1 .. Cap : a[m] = IF m < Cap THEN b[m + 1] ELSE Head(q)
      BY <1>3, <1>6
    <2>2. b \o q # <<>> /\ Head(b \o q) = Head(b)
      <3>1. Len(b \o q) > 0 /\ 1 \in 1 .. Len(b) + Len(q) /\ 1 <= Len(b)
        BY <1>1, <1>2, <2>1, CapIsPositive
      <3>2. b \o q # <<>>
        BY <3>1
      <3>3. Head(b \o q) = (b \o q)[1] /\ Head(b) = b[1]
        BY <1>2, <2>1, <3>2, TailElems
      <3> QED BY <1>2, <3>1, <3>2, <3>3
    <2>3. /\ Tail(b \o q) \in Seq(Ids) /\ Len(Tail(b \o q)) = Len(b) + Len(q) - 1
          /\ \A m \in 1 .. Len(b) + Len(q) - 1 : Tail(b \o q)[m] = (b \o q)[m + 1]
      BY <1>2, <2>2, TailElems
    <2>4. ASSUME NEW m \in 1 .. Cap + Len(q) - 1
          PROVE  (a \o Tail(q))[m] = Tail(b \o q)[m]
      <3>0. /\ Tail(b \o q)[m] = IF m + 1 <= Cap THEN b[m + 1] ELSE q[m + 1 - Cap]
            /\ (a \o Tail(q))[m] = IF m <= Cap THEN a[m] ELSE Tail(q)[m - Cap]
        <4>1. m \in 1 .. Len(b) + Len(q) - 1 /\ m + 1 \in 1 .. Len(b) + Len(q)
          BY <1>1, <2>1, CapIsPositive
        <4>2. Tail(b \o q)[m] = (b \o q)[m + 1] /\ m + 1 - Len(b) = m + 1 - Cap
          BY <2>1, <2>3, <4>1
        <4>3. (b \o q)[m + 1] = IF m + 1 <= Cap THEN b[m + 1] ELSE q[m + 1 - Cap]
          BY <1>2, <2>1, <4>1
        <4>4. (a \o Tail(q))[m] = IF m <= Cap THEN a[m] ELSE Tail(q)[m - Cap]
          BY <1>4, <2>1, <4>1
        <4> QED BY <4>2, <4>3, <4>4
      <3>1. CASE m < Cap
        <4>1. m \in 1 .. Cap /\ m + 1 <= Cap /\ m <= Cap
          BY <3>1, CapIsPositive
        <4> QED BY <2>1, <3>0, <3>1, <4>1
      <3>2. CASE m = Cap
        <4>1. ~(m + 1 <= Cap) /\ m + 1 - Cap = 1 /\ m \in 1 .. Cap /\ ~(m < Cap) /\ m <= Cap
          BY <3>2, CapIsPositive
        <4> QED BY <1>1, <2>1, <3>0, <4>1
      <3>3. CASE m > Cap
        <4>1. m - Cap \in 1 .. Len(q) - 1 /\ (m - Cap) + 1 = m + 1 - Cap
              /\ ~(m + 1 <= Cap) /\ ~(m <= Cap)
          BY <1>1, <3>3, CapIsPositive
        <4>2. Tail(q)[m - Cap] = q[m + 1 - Cap]
          BY <1>1, <4>1
        <4> QED BY <3>0, <4>1, <4>2
      <3>4. m < Cap \/ m = Cap \/ m > Cap
        BY <1>1, CapIsPositive
      <3> QED BY <3>1, <3>2, <3>3, <3>4, Zenon
    <2>5. a \o Tail(q) = Tail(b \o q)
      BY <1>4, <2>1, <2>3, <2>4, SeqEqual
    <2> QED BY <2>1, <2>2, <2>5, CapIsPositive DEF a
  <1> QED BY <1>2, <1>5, <1>6, CapIsPositive

\* Without its buffer a line is its channel.
LEMMA ConcatDrop ==
  ASSUME NEW b \in Seq(Ids), NEW q \in Seq(Ids)
  PROVE  /\ SubSeq(b \o q, Len(b) + 1, Len(b \o q)) = q
         /\ \A m \in 1 .. Len(b) : (b \o q)[m] = b[m]
         /\ Len(b) \in 0 .. Len(b \o q)
  <1>1. /\ b \o q \in Seq(Ids) /\ Len(b \o q) = Len(b) + Len(q)
        /\ Len(b) \in Nat /\ Len(q) \in Nat
        /\ \A m \in 1 .. Len(b) + Len(q) :
             (b \o q)[m] = IF m <= Len(b) THEN b[m] ELSE q[m - Len(b)]
    BY ConcatProperties, LenProperties
  <1> DEFINE s == SubSeq(b \o q, Len(b) + 1, Len(b \o q))
  <1>2. \A m \in Len(b) + 1 .. Len(b \o q) : (b \o q)[m] \in Ids
    BY <1>1, ElementOfSeq
  <1>3. /\ s \in Seq(Ids) /\ Len(s) = Len(q)
        /\ \A m \in 1 .. Len(q) : s[m] = (b \o q)[Len(b) + m]
    <2>1. /\ Len(b) + 1 \in Int /\ Len(b \o q) \in Int
          /\ Len(b \o q) - (Len(b) + 1) + 1 = Len(q)
          /\ (IF Len(b) + 1 <= Len(b \o q) THEN Len(q) ELSE 0) = Len(q)
      BY <1>1
    <2>2. /\ s \in Seq(Ids)
          /\ Len(s) = IF Len(b) + 1 <= Len(b \o q) THEN Len(q) ELSE 0
          /\ \A m \in 1 .. Len(q) : s[m] = (b \o q)[(Len(b) + 1) + m - 1]
      BY <1>2, <2>1, SubSeqProperties
    <2>3. \A m \in 1 .. Len(q) : (Len(b) + 1) + m - 1 = Len(b) + m
      BY <1>1
    <2> QED BY <2>1, <2>2, <2>3
  <1> HIDE DEF s
  <1>4. ASSUME NEW m \in 1 .. Len(q) PROVE s[m] = q[m]
    <2>1. /\ Len(b) + m \in 1 .. Len(b) + Len(q)
          /\ ~(Len(b) + m <= Len(b)) /\ Len(b) + m - Len(b) = m
      BY <1>1
    <2> QED BY <1>1, <1>3, <2>1
  <1>5. s = q
    BY <1>3, <1>4, SeqEqual
  <1>6. \A m \in 1 .. Len(b) : m \in 1 .. Len(b) + Len(q) /\ m <= Len(b)
    BY <1>1
  <1> QED BY <1>1, <1>5, <1>6 DEF s

-----------------------------------------------------------------------------
(* Steps                                                                   *)

Lines == [k \in Kinds |-> buf[k] \o queue[k]]

\* A step that changes the line of one kind.
LEMMA OneLine ==
  ASSUME NEW k \in Kinds, NEW s, buf'[k] \o queue'[k] = s,
         \A j \in Kinds : j # k => buf'[j] = buf[j] /\ queue'[j] = queue[j]
  PROVE  Lines' = [Lines EXCEPT ![k] = s]
  BY DEF Lines

LEMMA SameLines ==
  ASSUME \A j \in Kinds : buf'[j] \o queue'[j] = buf[j] \o queue[j]
  PROVE  Lines' = Lines
  BY DEF Lines

LEMMA OfferStep ==
  ASSUME TypeOK, NEW k \in Kinds, Enqueue(k)
  PROVE  Line!Offer(k)
  <1>1. /\ buf[k] \in Seq(Ids) /\ queue[k] \in Seq(Ids) /\ buf' = buf
        /\ made[k] < MaxResults /\ made' = [made EXCEPT ![k] = @ + 1]
        /\ made[k] \in 0 .. MaxResults
    BY DEF TypeOK, Enqueue
  <1>2. CASE /\ queue' = [queue EXCEPT ![k] = Append(@, made[k] + 1)]
             /\ fate' = [fate EXCEPT ![k][made[k] + 1] = "held"]
    <2>1. made[k] + 1 \in Ids
      BY <1>1 DEF Ids
    <2>2. /\ queue'[k] = Append(queue[k], made[k] + 1)
          /\ \A j \in Kinds : j # k => queue'[j] = queue[j]
      BY <1>2 DEF TypeOK
    <2>3. buf'[k] \o queue'[k] = Append(buf[k] \o queue[k], made[k] + 1)
      <3>1. buf[k] \o Append(queue[k], made[k] + 1)
              = Append(buf[k] \o queue[k], made[k] + 1)
        BY <1>1, <2>1, ConcatAppend
      <3>2. buf'[k] = buf[k]
        BY <1>1
      <3> QED BY <2>2, <3>1, <3>2, Zenon
    <2>4. Lines' = [Lines EXCEPT ![k] = Append(buf[k] \o queue[k], made[k] + 1)]
      BY <1>1, <2>2, <2>3, OneLine
    <2>5. Lines[k] = buf[k] \o queue[k]
      BY DEF Lines
    <2>6. Lines' = [Lines EXCEPT ![k] = Append(@, made[k] + 1)]
      BY <2>4, <2>5
    <2> QED BY <1>1, <1>2, <2>6 DEF Line!Offer, Lines
  <1>3. CASE queue' = queue /\ fate' = [fate EXCEPT ![k][made[k] + 1] = "overflow"]
    <2>1. Lines' = Lines
      BY <1>1, <1>3, SameLines
    <2> QED BY <1>1, <1>3, <2>1 DEF Line!Offer, Lines
  <1> QED BY <1>2, <1>3 DEF Enqueue

LEMMA TakeLineStep ==
  ASSUME TypeOK, NEW k \in Kinds, Take(k), made' = made
  PROVE  Line!Evict(k) \/ UNCHANGED <<Lines, made, fate>>
  <1>1. /\ buf[k] \in Seq(Ids) /\ queue[k] \in Seq(Ids) /\ queue[k] # <<>>
        /\ Len(buf[k]) <= Cap /\ Len(buf[k]) \in Nat
        /\ queue'[k] = Tail(queue[k]) /\ buf'[k] = Add(buf[k], Head(queue[k]))
        /\ \A j \in Kinds : j # k => buf'[j] = buf[j] /\ queue'[j] = queue[j]
        /\ fate' = IF Len(buf[k]) < Cap THEN fate
                   ELSE [fate EXCEPT ![k][Head(buf[k])] = "evicted"]
    BY DEF TypeOK, Take
  <1>2. CASE Len(buf[k]) < Cap
    <2>1. Add(buf[k], Head(queue[k])) \o Tail(queue[k]) = buf[k] \o queue[k]
      BY <1>1, <1>2, ConcatTake, Zenon
    <2>2. \A j \in Kinds : buf'[j] \o queue'[j] = buf[j] \o queue[j]
      BY <1>1, <2>1, Zenon
    <2>3. Lines' = Lines
      BY <2>2, SameLines
    <2> QED BY <1>1, <1>2, <2>3
  <1>3. CASE ~(Len(buf[k]) < Cap)
    <2>1. Len(buf[k]) >= Cap
      BY <1>1, <1>3, CapIsPositive
    <2>2. /\ buf[k] \o queue[k] # <<>> /\ Head(buf[k] \o queue[k]) = Head(buf[k])
          /\ buf'[k] \o queue'[k] = Tail(buf[k] \o queue[k])
      <3>1. /\ buf[k] \o queue[k] # <<>> /\ Head(buf[k] \o queue[k]) = Head(buf[k])
            /\ Add(buf[k], Head(queue[k])) \o Tail(queue[k]) = Tail(buf[k] \o queue[k])
        BY <1>1, <2>1, ConcatTake, Zenon
      <3>2. buf'[k] = Add(buf[k], Head(queue[k])) /\ queue'[k] = Tail(queue[k])
        BY <1>1
      <3> QED BY <3>1, <3>2, Zenon
    <2>3. Lines' = [Lines EXCEPT ![k] = Tail(buf[k] \o queue[k])]
      BY <1>1, <2>2, OneLine
    <2>4. Lines[k] = buf[k] \o queue[k]
      BY DEF Lines
    <2>5. /\ Lines[k] # <<>> /\ Lines' = [Lines EXCEPT ![k] = Tail(@)]
          /\ fate' = [fate EXCEPT ![k][Head(Lines[k])] = "evicted"]
      BY <1>1, <1>3, <2>2, <2>3, <2>4
    <2> QED BY <2>5 DEF Line!Evict, Lines
  <1> QED BY <1>2, <1>3

\* An upload that disposes of a batch settles that much of the line; one that
\* fails, or of nothing, leaves the line alone.
LEMMA UploadLineStep ==
  ASSUME LineInv, NEW outcome \in Outcomes, UploadReturns(outcome)
  PROVE  (\E k \in Kinds : Line!Settle(k)) \/ UNCHANGED <<Lines, made, fate>>
  <1>1. PICK k \in Kinds : k = Head(todo)
    BY TodoHead DEF UploadReturns, LineInv
  <1>2. /\ IF Discards(outcome) THEN Dispose(k) ELSE BackOff(k)
        /\ Record(k, outcome) /\ queue' = queue /\ made' = made
    BY <1>1 DEF UploadReturns
  <1>3. /\ buf[k] \in Seq(Ids) /\ queue[k] \in Seq(Ids) /\ buf \in [Kinds -> Seq(Ids)]
        /\ fate \in [Kinds -> [Ids -> Fates]] /\ NothingLost
    BY DEF LineInv, TypeOK
  <1>4. fate' = [fate EXCEPT ![k] =
                   [i \in Ids |-> IF i \in Elems(buf[k]) THEN Verdict(outcome)
                                                         ELSE fate[k][i]]]
    BY <1>2 DEF Record
  <1>5. CASE ~Discards(outcome)
    <2>1. Verdict(outcome) = "held" /\ buf' = buf
      BY <1>2, <1>5 DEF Discards, Verdict, Outcomes, BackOff
    <2>2. \A i \in Elems(buf[k]) : i \in Ids => fate[k][i] = "held"
      BY <1>3 DEF NothingLost
    <2>3. [i \in Ids |-> IF i \in Elems(buf[k]) THEN "held" ELSE fate[k][i]] = fate[k]
      BY <1>3, <2>2
    <2>4. fate' = fate
      BY <1>3, <1>4, <2>1, <2>3
    <2>5. Lines' = Lines
      BY <1>2, <2>1, SameLines
    <2> QED BY <1>2, <2>4, <2>5
  <1>6. CASE Discards(outcome)
    <2>1. /\ buf'[k] = <<>> /\ \A j \in Kinds : j # k => buf'[j] = buf[j]
      BY <1>2, <1>3, <1>6 DEF Dispose
    <2>2. buf'[k] \o queue'[k] = queue[k]
      BY <1>2, <1>3, <2>1, ConcatEmptySeq
    <2>3. Lines' = [Lines EXCEPT ![k] = queue[k]]
      BY <1>2, <2>1, <2>2, OneLine
    <2>4. Lines[k] = buf[k] \o queue[k]
      BY DEF Lines
    <2>5. CASE buf[k] = <<>>
      <3>1. Elems(buf[k]) = {}
        BY <2>5 DEF Elems
      <3>2. [i \in Ids |-> IF i \in Elems(buf[k]) THEN Verdict(outcome)
                                                   ELSE fate[k][i]] = fate[k]
        BY <1>3, <3>1
      <3>3. fate' = fate
        BY <1>3, <1>4, <3>2
      <3>4. \A j \in Kinds : buf'[j] \o queue'[j] = buf[j] \o queue[j]
        BY <1>2, <2>1, <2>5
      <3> QED BY <1>2, <3>3, <3>4, SameLines
    <2>6. CASE buf[k] # <<>>
      <3> DEFINE n == Len(buf[k])
      <3>1. /\ n \in 1 .. Len(Lines[k])
            /\ SubSeq(Lines[k], n + 1, Len(Lines[k])) = queue[k]
            /\ \A m \in 1 .. n : Lines[k][m] = buf[k][m]
        <4>1. n \in Nat \ {0}
          BY <1>3, <2>6, EmptySeq
        <4> QED BY <1>3, <2>4, <4>1, ConcatDrop
      <3>2. Verdict(outcome) \in Line!Settled
        BY <1>6 DEF Discards, Verdict, Line!Settled
      <3>3. \A i \in Ids : i \in Elems(buf[k]) <=> \E m \in 1 .. n : Lines[k][m] = i
        <4>1. DOMAIN buf[k] = 1 .. n
          BY <1>3, LenProperties
        <4> QED BY <3>1, <4>1 DEF Elems
      <3>4. [i \in Ids |-> IF i \in Elems(buf[k]) THEN Verdict(outcome) ELSE fate[k][i]]
              = [i \in Ids |-> IF \E m \in 1 .. n : Lines[k][m] = i
                                 THEN Verdict(outcome) ELSE fate[k][i]]
        BY <3>3
      <3>5. /\ Lines' = [Lines EXCEPT ![k] = SubSeq(@, n + 1, Len(@))]
            /\ fate' = [fate EXCEPT ![k] =
                          [i \in Ids |-> IF \E m \in 1 .. n : Lines[k][m] = i
                                           THEN Verdict(outcome) ELSE fate[k][i]]]
        BY <1>4, <2>3, <3>1, <3>4
      <3> HIDE DEF n
      <3>6. Line!Settle(k)
        BY <1>2, <3>1, <3>2, <3>5 DEF Line!Settle, Line!Ids, Ids, Lines
      <3> QED BY <3>6
    <2> QED BY <2>5, <2>6
  <1> QED BY <1>5, <1>6

\* Every behaviour of the reporter is one of the lossy FIFO line its callers
\* see, whatever the sizes, delays, answers and the moment of cancellation.
THEOREM Implements == Spec => LineSpec
  <1>1. Init => Line!Init
    <2> SUFFICES ASSUME Init PROVE Line!Init
      OBVIOUS
    <2>1. Lines = [k \in Kinds |-> <<>>]
      <3>1. <<>> \o <<>> = <<>>
        BY ConcatEmptySeq, EmptySeq
      <3> QED BY <3>1 DEF Init, Lines
    <2> QED BY <2>1 DEF Init, Line!Init, Line!Ids, Ids, Lines
  <1>2. LineInv /\ [Next]_vars => [Line!Next]_(Line!vars)
    <2> SUFFICES ASSUME LineInv, [Next]_vars
                 PROVE  Line!Next \/ UNCHANGED <<Lines, made, fate>>
      BY DEF Line!vars, Lines
    <2>1. ASSUME NEW k \in Kinds, Enqueue(k) PROVE Line!Next
      BY <2>1, OfferStep DEF LineInv, Line!Next
    <2>2. ASSUME NEW k \in Kinds, Recv(k) \/ Drain(k)
          PROVE  Line!Next \/ UNCHANGED <<Lines, made, fate>>
      <3>1. Take(k) /\ made' = made
        BY <2>2 DEF Recv, Drain
      <3> QED BY <3>1, TakeLineStep DEF LineInv, Line!Next
    <2>3. ASSUME NEW outcome \in Outcomes, UploadReturns(outcome)
          PROVE  Line!Next \/ UNCHANGED <<Lines, made, fate>>
      BY <2>3, UploadLineStep DEF Line!Next
    <2>4. CASE UNCHANGED <<queue, buf, made, fate>>
      BY <2>4, SameLines
    <2> QED
      BY <2>1, <2>2, <2>3, <2>4
         DEF Next, Run, TickFlush, CtxDone, DrainEnd, FlushSkip, StartUpload,
             TickerFires, Elapse, Cancel, vars, store, ghost
  <1> QED BY <1>1, <1>2, InitLine, LineStep, PTL DEF Spec, LineSpec, Line!Spec
=============================================================================
