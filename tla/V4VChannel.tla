----------------------------- MODULE V4VChannel -----------------------------
(***************************************************************************)
(* What a registered ring promises the domains on its two sides: it is a   *)
(* bounded first-in first-out queue of messages.  A message the hypervisor *)
(* has accepted is handed to the receiver exactly once, unchanged and in   *)
(* the order of acceptance; a refused or failed send leaves no trace.      *)
(***************************************************************************)
EXTENDS Sequences, V4VRing

CONSTANTS Messages,   \* the messages that can be sent, records with a length n
          RingLen     \* the length the ring was registered with

VARIABLES chan,       \* the messages accepted and not yet consumed
          out         \* the message the receiver consumed last

\* The bytes the messages of s occupy.
Occupied(s) ==
  LET sum[i \in 0 .. Len(s)] == IF i = 0 THEN 0 ELSE sum[i - 1] + MessageSize(s[i].n)
  IN  sum[Len(s)]

TypeOK == chan \in Seq(Messages) /\ out \in Seq(Messages) /\ Len(out) <= 1

Init == chan = <<>> /\ out = <<>>

\* The hypervisor accepts m.  Full and empty must stay distinguishable, so
\* the accepted messages never fill the ring to the last byte.
Accept(m) ==
  /\ Occupied(chan) + MessageSize(m.n) < RingLen
  /\ chan' = Append(chan, m)
  /\ out' = out

\* The receiver consumes the oldest message.
Deliver ==
  /\ chan # <<>>
  /\ out' = <<Head(chan)>>
  /\ chan' = Tail(chan)

Next == (\E m \in Messages : Accept(m)) \/ Deliver

Spec == Init /\ [][Next]_<<chan, out>>
=============================================================================
