------------------------------ MODULE Delivery ------------------------------
(***************************************************************************)
(* What the event bus promises a subscriber, without channels, overflow    *)
(* queues or goroutines: published messages are numbered; an open          *)
(* subscription accepts them in order, may miss one that is not critical   *)
(* but never a critical one before a later message, and hands them over in *)
(* that order.  What is lost is lost after the subscription ended, and     *)
(* from the end.                                                           *)
(***************************************************************************)
EXTENDS Integers, Sequences

CONSTANTS Subs, MaxSeq

VARIABLES seq, critical,   \* published numbers 1..seq, the critical ones
          open,            \* subscriptions in force
          from,            \* per subscription: seq when it was opened
          pending, got     \* accepted and not received, received

deliveryVars == <<seq, critical, open, from, pending, got>>

Accepted(s) == {got[s][i] : i \in 1..Len(got[s])} \cup {pending[s][i] : i \in 1..Len(pending[s])}

Init ==
  /\ seq = 0 /\ critical = {} /\ open = {}
  /\ from = [s \in Subs |-> 0]
  /\ pending = [s \in Subs |-> <<>>] /\ got = [s \in Subs |-> <<>>]

Publish ==
  /\ seq < MaxSeq
  /\ seq' = seq + 1
  /\ critical' \in {critical, critical \cup {seq + 1}}
  /\ UNCHANGED <<open, from, pending, got>>

Open(s) ==
  /\ s \notin open
  /\ open' = open \cup {s}
  /\ from' = [from EXCEPT ![s] = seq]
  /\ UNCHANGED <<seq, critical, pending, got>>

\* n is later than what s has, and skips no critical message
Accept(s, n) ==
  /\ s \in open /\ n > from[s]
  /\ \A m \in Accepted(s) : m < n
  /\ \A m \in critical : from[s] < m /\ m < n => m \in Accepted(s)
  /\ pending' = [pending EXCEPT ![s] = Append(@, n)]
  /\ UNCHANGED <<seq, critical, open, from, got>>

Receive(s) ==
  /\ pending[s] # <<>>
  /\ got' = [got EXCEPT ![s] = Append(@, Head(pending[s]))]
  /\ pending' = [pending EXCEPT ![s] = Tail(@)]
  /\ UNCHANGED <<seq, critical, open, from>>

End(s) ==
  /\ s \in open
  /\ open' = open \ {s}
  /\ UNCHANGED <<seq, critical, from, pending, got>>

Lose(s, n) ==
  /\ s \notin open
  /\ pending' = [pending EXCEPT ![s] = SubSeq(@, 1, n)]
  /\ UNCHANGED <<seq, critical, open, from, got>>

Next ==
  \/ Publish
  \/ \E s \in Subs : \/ Open(s) \/ Receive(s) \/ End(s)
                     \/ \E n \in 1..seq : Accept(s, n)
                     \/ \E n \in 0..Len(pending[s]) : Lose(s, n)

Spec == Init /\ [][Next]_deliveryVars

=============================================================================
