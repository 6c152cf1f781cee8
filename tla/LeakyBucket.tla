----------------------------- MODULE LeakyBucket -----------------------------
(***************************************************************************)
(* The arithmetic of the server's rate limits (server/sv_main.c).  A rate  *)
(* is what is counted against somebody: burst requests, less one for every *)
(* Period of age, the time since lastTime.  An age that has outlasted the  *)
(* whole burst grows no further, so a clock that wraps is left out.        *)
(***************************************************************************)
EXTENDS Integers

CONSTANTS
  Burst, Period,  \* the limits all callers give for an address
  MaxToxic        \* 10000 in the code

ASSUME BucketAssumption == Burst \in Nat \ {0} /\ Period \in Nat \ {0} /\ MaxToxic \in Nat \ {0}

\* What is kept of somebody of whom nothing is counted any more.
Forgotten == [age |-> Period, burst |-> 0, toxic |-> 0]

\* A new bucket.
Fresh == [age |-> 0, burst |-> 0, toxic |-> 0]

Older(rate) == [rate EXCEPT !.age = IF @ >= (rate.burst + 1) * Period THEN @ ELSE @ + 1]

\* The bucket can be given to somebody else.
Expired(rate) == rate.age > rate.burst * Period

\* Mutant: the time already accounted for is counted again.
LeakedTwice(rate) ==
  LET expired == rate.age \div Period
  IN  IF expired > rate.burst THEN [rate EXCEPT !.age = 0, !.burst = 0]
      ELSE [rate EXCEPT !.burst = @ - expired]

Leaked(rate) ==
  LET expired == rate.age \div Period
  IN  IF expired > rate.burst THEN [rate EXCEPT !.age = 0, !.burst = 0]
      ELSE [rate EXCEPT !.age = @ % Period, !.burst = @ - expired]

\* SVC_RateLimit: what it answers, and what it leaves.
Limited(rate) == Leaked(rate).burst >= Burst

Charged(rate) == IF Limited(rate) THEN Leaked(rate) ELSE [Leaked(rate) EXCEPT !.burst = @ + 1]

\* Mutant: an accepted connect leaves the penalty as it is.
ForgivenNever(rate) == rate

\* SVC_RateRestoreToxic
Forgiven(rate) == IF rate.toxic > 0 THEN [rate EXCEPT !.toxic = @ - 1] ELSE rate

\* SVC_RateRestoreBurst
Refunded(rate) == IF rate.burst > 0 THEN [rate EXCEPT !.burst = @ - 1] ELSE rate

\* SVC_RateDrop
Penalised(rate) ==
  LET toxic == IF rate.toxic < MaxToxic THEN rate.toxic + 1 ELSE rate.toxic
  IN  [age |-> 0, burst |-> Burst * toxic, toxic |-> toxic]
=============================================================================
