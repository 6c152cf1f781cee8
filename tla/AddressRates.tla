---------------------------- MODULE AddressRates ----------------------------
(***************************************************************************)
(* What the rate limit of addresses promises: every address has a rate of  *)
(* its own, whatever the others do.  It is forgotten only when it has run  *)
(* empty, and an address is turned away for nothing of its own only while  *)
(* there is room for nobody else.                                          *)
(***************************************************************************)
EXTENDS LeakyBucket

CONSTANTS
  Addresses,
  Nothing  \* answered to nobody

VARIABLES
  rates,
  answer,  \* what the last step answered, and whom
  full     \* there is no room for another address

vars == <<rates, answer, full>>

Init ==
  /\ rates = [a \in Addresses |-> Forgotten]
  /\ answer = Nothing
  /\ full \in BOOLEAN

\* Rates that have run empty may be forgotten at any time.
Kept(forgotten) == [a \in Addresses |-> IF a \in forgotten THEN Forgotten ELSE rates[a]]

MayForget == {a \in Addresses : Expired(rates[a])}

Forget == \E forgotten \in SUBSET MayForget : rates' = Kept(forgotten) /\ answer' = Nothing

Tick == rates' = [a \in Addresses |-> Older(rates[a])] /\ answer' = Nothing

\* A request that is answered or refused; a connect is not counted.
Request(a) ==
  \E forgotten \in SUBSET MayForget :
    LET rate == Kept(forgotten)[a]
        charged == Charged(rate)
    IN  /\ answer' = <<a, Limited(rate)>>
        /\ \E after \in {charged} \cup
             (IF Limited(rate) THEN {} ELSE {Refunded(charged), Forgiven(Refunded(charged))}) :
             rates' = [Kept(forgotten) EXCEPT ![a] = after]

TurnAway(a) == full /\ rates[a] = Forgotten /\ answer' = <<a, TRUE>> /\ UNCHANGED rates

Penalise(a) ==
  /\ \E forgotten \in SUBSET MayForget :
       rates' = [Kept(forgotten) EXCEPT ![a] = Penalised(Kept(forgotten)[a])]
  /\ answer' = Nothing

Next ==
  /\ full' \in BOOLEAN
  /\ \/ Forget \/ Tick
     \/ \E a \in Addresses : Request(a) \/ TurnAway(a) \/ Penalise(a)

Spec == Init /\ [][Next]_vars
=============================================================================
