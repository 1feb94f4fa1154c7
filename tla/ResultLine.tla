----------------------------- MODULE ResultLine -----------------------------
(***************************************************************************)
(* What the reporter promises its callers, without channels, buffers,      *)
(* batches, timers or uploads: for each kind of result there is one line,  *)
(* results leave it only from the front, and each one is accounted for.    *)
(*                                                                         *)
(* Results of a kind are numbered 1, 2, ... in the order they are offered. *)
(***************************************************************************)
EXTENDS Naturals, Sequences

CONSTANTS
  Kinds,        \* the kinds of results, one line each
  MaxResults    \* bound: how many results of a kind are ever offered

VARIABLES
  line,   \* [Kinds -> Seq(1..MaxResults)]: the results still held
  made,   \* [Kinds -> 0..MaxResults]: how many have been offered
  fate    \* [Kinds -> [1..MaxResults -> Fates]]

vars == <<line, made, fate>>

Ids == 1 .. MaxResults

Settled == {"answered", "unmarshalable"}

Fates == {"unborn", "held", "overflow", "evicted"} \cup Settled

Init ==
  /\ line = [k \in Kinds |-> <<>>]
  /\ made = [k \in Kinds |-> 0]
  /\ fate = [k \in Kinds |-> [i \in Ids |-> "unborn"]]

\* The next result joins the end of its line, or is turned away at once.
Offer(k) ==
  /\ made[k] < MaxResults
  /\ made' = [made EXCEPT ![k] = @ + 1]
  /\ \/ /\ line' = [line EXCEPT ![k] = Append(@, made[k] + 1)]
        /\ fate' = [fate EXCEPT ![k][made[k] + 1] = "held"]
     \/ /\ fate' = [fate EXCEPT ![k][made[k] + 1] = "overflow"]
        /\ UNCHANGED line

\* The oldest result gives up its place.
Evict(k) ==
  /\ line[k] # <<>>
  /\ line' = [line EXCEPT ![k] = Tail(@)]
  /\ fate' = [fate EXCEPT ![k][Head(line[k])] = "evicted"]
  /\ UNCHANGED made

\* A prefix of the line is disposed of as a whole.
Settle(k) ==
  \E n \in 1 .. Len(line[k]), f \in Settled :
     /\ line' = [line EXCEPT ![k] = SubSeq(@, n + 1, Len(@))]
     /\ fate' = [fate EXCEPT ![k] =
                   [i \in Ids |-> IF \E j \in 1 .. n : line[k][j] = i
                                    THEN f ELSE fate[k][i]]]
     /\ UNCHANGED made

Next == \E k \in Kinds : Offer(k) \/ Evict(k) \/ Settle(k)

Spec == Init /\ [][Next]_vars
=============================================================================
