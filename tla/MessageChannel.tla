--------------------------- MODULE MessageChannel ---------------------------
(***************************************************************************)
(* What a net channel promises to the layers above it: the messages given  *)
(* to it in one direction arrive at most once, in order and intact; any of *)
(* them may be lost, and a later arrival never follows an earlier one.     *)
(***************************************************************************)
EXTENDS Integers, Sequences

CONSTANTS Payloads     \* the messages the layers above may send

VARIABLES
  accepted,    \* the messages given to the channel; the n-th has sequence n
  delivered    \* [sequence, data] records handed to the receiver, in order

vars == <<accepted, delivered>>

LastDelivered ==
  IF delivered = <<>> THEN 0 ELSE delivered[Len(delivered)].sequence

Init == accepted = <<>> /\ delivered = <<>>

Send ==
  /\ \E data \in Payloads : accepted' = Append(accepted, data)
  /\ UNCHANGED delivered

Deliver ==
  /\ \E n \in (LastDelivered + 1) .. Len(accepted) :
       delivered' = Append(delivered, [sequence |-> n, data |-> accepted[n]])
  /\ UNCHANGED accepted

Next == Send \/ Deliver

Spec == Init /\ [][Next]_vars
=============================================================================
