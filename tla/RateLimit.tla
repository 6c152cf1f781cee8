------------------------------ MODULE RateLimit ------------------------------
(***************************************************************************)
(* The rate limit of addresses on the server (server/sv_main.c), with its  *)
(* callers (server/sv_client.c): a fixed number of buckets, recycled when  *)
(* they have run empty, and found through doubly linked hash chains.       *)
(*                                                                         *)
(* A bucket that was never used is all zero: its type is NA_BOT, which is  *)
(* not NA_BAD, and its hash is 0.  It is reclaimed like any other, which   *)
(* empties the head of chain 0: an address with that hash may lose its     *)
(* bucket and get another.  What is promised is promised to the others.    *)
(*                                                                         *)
(* The limits on all answers together and on each client's commands, which *)
(* have no table, are left out.                                            *)
(***************************************************************************)
EXTENDS LeakyBucket, FiniteSets, FiniteSetsExt

CONSTANTS
  Addresses,
  LocalAddresses,  \* those that are not NA_IP: the player on the server's machine
  Hashes, Hash,    \* Hash[a]: SVC_HashForAddress; 0 if a is not NA_IP, and in an unused bucket
  MAX_BUCKETS,
  RelinkBehind,    \* a bucket found behind this position moves to the head
  NULL, Nothing,
  NoAddress,       \* what a bucket has that was never used
  MaxPending       \* bound: clients of one address that were never heard

ASSUME TableAssumption ==
  /\ LocalAddresses \subseteq Addresses /\ Hash \in [Addresses \cup {NoAddress} -> Hashes]
  /\ 0 \in Hashes /\ \A a \in LocalAddresses \cup {NoAddress} : Hash[a] = 0
  /\ MAX_BUCKETS \in Nat \ {0} /\ RelinkBehind \in Nat /\ MaxPending \in Nat
  /\ NULL \notin Nat /\ NoAddress \notin Addresses

VARIABLES
  table,    \* buckets, bucketHashes and start
  pending,  \* how many clients of an address are justConnected
  answer,   \* history: <<address, limited>> of this step, if its address is apart
  meter     \* history: what was answered, drained as time passes

vars == <<table, pending, answer, meter>>

Buckets == 0 .. MAX_BUCKETS - 1
Dummy == MAX_BUCKETS

\* The addresses whose chain neither the first use of a bucket cuts off nor a
\* local player's bucket is ever in.
Apart == {a \in Addresses : Hash[a] # 0}

Init ==
  /\ table = [ buckets |-> [i \in Buckets \cup {Dummy} |->
                 [address |-> NoAddress, rate |-> Forgotten, prev |-> NULL, next |-> NULL]],
               heads |-> [h \in Hashes |-> NULL], start |-> 0 ]
  /\ pending = [a \in Addresses |-> 0]
  /\ answer = Nothing
  /\ meter = [a \in Apart |-> 0]

-----------------------------------------------------------------------------
(* The table *)

\* Mutant: the chain goes on pointing to a head that left it.
UnlinkKeepHead(t, i) ==
  LET b == t.buckets[i]
      before == IF b.prev = NULL THEN t ELSE [t EXCEPT !.buckets[b.prev].next = b.next]
  IN  IF b.next = NULL THEN before ELSE [before EXCEPT !.buckets[b.next].prev = b.prev]

\* Bucket i leaves its chain.
Unlink(t, i) ==
  LET b == t.buckets[i]
      before == IF b.prev = NULL THEN [t EXCEPT !.heads[Hash[b.address]] = b.next]
                ELSE [t EXCEPT !.buckets[b.prev].next = b.next]
  IN  IF b.next = NULL THEN before ELSE [before EXCEPT !.buckets[b.next].prev = b.prev]

\* Bucket i becomes the head of its chain.
LinkAsHead(t, i) ==
  LET h == Hash[t.buckets[i].address]
      head == t.heads[h]
      linked == [t EXCEPT !.buckets[i].next = head, !.buckets[i].prev = NULL, !.heads[h] = i]
  IN  IF head = NULL THEN linked ELSE [linked EXCEPT !.buckets[head].prev = i]

\* The buckets of a chain, in order, then NULL for ever.
Chain(t, h) ==
  LET nth[n \in Nat] == IF n = 0 THEN t.heads[h]
                        ELSE IF nth[n - 1] = NULL THEN NULL ELSE t.buckets[nth[n - 1]].next
  IN  nth

\* Positions in the chain of a where the walk may stop: its own bucket, or
\* that of an address which is not NA_IP.
Stops(t, a) ==
  LET chain == Chain(t, Hash[a])
      searched == {a} \cup LocalAddresses
  IN  {n \in 0 .. MAX_BUCKETS : chain[n] # NULL /\ t.buckets[chain[n]].address \in searched}

\* Mutant: a bucket is recycled in the moment its burst has run out.
MayRecycleAtOnce(b) == b.rate.age >= b.rate.burst * Period

MayRecycle(b) == Expired(b.rate)

\* The next bucket from start on that can be given away.
Recycled(t) ==
  LET free == {n \in Buckets : MayRecycle(t.buckets[(t.start + n) % MAX_BUCKETS])}
  IN  IF free = {} THEN NULL ELSE (t.start + Min(free)) % MAX_BUCKETS

\* Bucket i is reclaimed, used before or not, and given to a.
Occupied(t, i, a) ==
  LinkAsHead([Unlink(t, i) EXCEPT !.buckets[i].address = a, !.buckets[i].rate = Fresh,
                                  !.start = (i + 1) % MAX_BUCKETS], i)

\* SVC_BucketForAddress: the table it leaves and the bucket it returns.
BucketForAddress(t, a) ==
  LET n == Min(Stops(t, a))
      found == Chain(t, Hash[a])[n]
      new == Recycled(t)
  IN  IF Stops(t, a) = {}
      THEN [table |-> IF new = NULL THEN t ELSE Occupied(t, new, a), bucket |-> new]
      ELSE IF t.buckets[found].address \in LocalAddresses
      THEN [table |-> t, bucket |-> Dummy]
      ELSE [table |-> IF n > RelinkBehind THEN LinkAsHead(Unlink(t, found), found) ELSE t,
            bucket |-> found]

\* A new rate for the bucket that was found, if there is one.
RateOf(got) == got.table.buckets[got.bucket].rate
SetRate(t, got, rate) ==
  IF got.bucket = NULL THEN t ELSE [got.table EXCEPT !.buckets[got.bucket].rate = rate]

SVC_RateLimitAddress(t, a) ==
  LET got == BucketForAddress(t, a) IN SetRate(t, got, Charged(RateOf(got)))
SVC_RateRestoreBurstAddress(t, a) ==
  LET got == BucketForAddress(t, a) IN SetRate(t, got, Refunded(RateOf(got)))
SVC_RateRestoreToxicAddress(t, a) ==
  LET got == BucketForAddress(t, a) IN SetRate(t, got, Forgiven(RateOf(got)))
SVC_RateDropAddress(t, a) ==
  LET got == BucketForAddress(t, a) IN SetRate(t, got, Penalised(RateOf(got)))

IsLimited(t, a) ==
  LET got == BucketForAddress(t, a)
  IN  got.bucket = NULL \/ Limited(got.table.buckets[got.bucket].rate)

-----------------------------------------------------------------------------
(* The callers *)

Answer(a, limited) == answer' = IF a \in Apart THEN <<a, limited>> ELSE Nothing

\* SV_GetChallenge, SVC_Status, SVC_Info, and a connect that is refused before
\* its challenge was found good.
Request(a) ==
  /\ table' = SVC_RateLimitAddress(table, a)
  /\ Answer(a, IsLimited(table, a))
  /\ meter' = [x \in Apart |-> IF x = a /\ ~IsLimited(table, a) THEN meter[x] + Period ELSE meter[x]]
  /\ UNCHANGED pending

\* A connect that is not counted, because the challenge is good.  If it is
\* accepted, it may take over a slot the address has waited for before.
SV_DirectConnect(a) ==
  LET restored == SVC_RateRestoreBurstAddress(SVC_RateLimitAddress(table, a), a)
  IN  /\ ~IsLimited(table, a)
      /\ Answer(a, FALSE)
      /\ \/ table' = restored /\ UNCHANGED pending
         \/ /\ table' = SVC_RateRestoreToxicAddress(restored, a)
            /\ \/ pending[a] > 0 /\ UNCHANGED pending
               \/ pending[a] < MaxPending /\ pending' = [pending EXCEPT ![a] = @ + 1]
      /\ UNCHANGED meter

\* The client's first packet; or it is dropped for another reason.
Settle(a) ==
  /\ pending[a] > 0 /\ pending' = [pending EXCEPT ![a] = @ - 1]
  /\ answer' = Nothing
  /\ UNCHANGED <<table, meter>>

\* SV_CheckTimeouts: a client that was never heard.
NoAnswer(a) ==
  /\ pending[a] > 0 /\ pending' = [pending EXCEPT ![a] = @ - 1]
  /\ table' = SVC_RateDropAddress(table, a)
  /\ answer' = Nothing
  /\ UNCHANGED meter

\* Time passes.
Tick ==
  /\ table' = [table EXCEPT !.buckets = [i \in Buckets \cup {Dummy} |->
                 [table.buckets[i] EXCEPT !.rate = Older(@)]]]
  /\ meter' = [a \in Apart |-> IF meter[a] = 0 THEN 0 ELSE meter[a] - 1]
  /\ answer' = Nothing
  /\ UNCHANGED pending

Next ==
  \/ Tick
  \/ \E a \in Addresses : Request(a) \/ SV_DirectConnect(a) \/ Settle(a) \/ NoAnswer(a)

Spec == Init /\ [][Next]_vars

-----------------------------------------------------------------------------
(* Properties *)

MaxBurst == Burst * MaxToxic
Rate == [age : 0 .. (MaxBurst + 1) * Period, burst : 0 .. MaxBurst, toxic : 0 .. MaxToxic]

\* Every variable is what the code could hold; no counter goes below zero.
TypeOK ==
  /\ table \in
       [ buckets : [Buckets \cup {Dummy} ->
           [address : Addresses \cup {NoAddress}, rate : Rate,
            prev : Buckets \cup {NULL}, next : Buckets \cup {NULL}]],
         heads : [Hashes -> Buckets \cup {NULL}], start : Buckets ]
  /\ pending \in [Addresses -> 0 .. MaxPending]
  /\ answer \in {Nothing} \cup (Apart \X BOOLEAN)
  /\ meter \in [Apart -> Nat]

InChain(h) == {Chain(table, h)[n] : n \in 0 .. MAX_BUCKETS} \ {NULL}
BucketsOf(a) == {i \in Buckets : table.buckets[i].address = a}

\* However buckets are recycled, moved and cut off, every chain ends, has only
\* buckets with its hash and can be walked backwards.  All but chain 0 have all
\* the buckets with their hash, and no address there has two.
ChainsWellFormed ==
  /\ \A h \in Hashes :
       /\ Chain(table, h)[MAX_BUCKETS] = NULL
       /\ \A i \in InChain(h) :
            LET b == table.buckets[i]
            IN  /\ Hash[b.address] = h
                /\ IF b.prev = NULL THEN table.heads[h] = i ELSE table.buckets[b.prev].next = i
  /\ \A i \in Buckets :
       LET a == table.buckets[i].address
       IN  Hash[a] # 0 => i \in InChain(Hash[a]) /\ BucketsOf(a) = {i}

\* Types, and the shape of the hash table (SVC_BucketForAddress).
TableInv == TypeOK /\ ChainsWellFormed

\* An address is answered no more than Burst requests at once and one for each
\* Period: recycling gives nobody a second burst, but in chain 0.
WithinBurst == \A a \in Apart : meter[a] < (Burst + 1) * Period

\* The penalty is not progressive: it counts the clients of one address that
\* were unanswered at the same time.
PenaltyCountsSlots ==
  \A a \in Apart : \A i \in BucketsOf(a) : table.buckets[i].rate.toxic + pending[a] <= MaxPending

\* The rates as each address sees its own, and whether another would be turned
\* away.
OwnRate ==
  [a \in Apart |-> IF BucketsOf(a) = {} THEN Forgotten
                   ELSE table.buckets[Min(BucketsOf(a))].rate]
NoRoom == \A i \in Buckets : ~MayRecycle(table.buckets[i])

\* Every address has a rate of its own, except those of chain 0.
OwnRates ==
  INSTANCE AddressRates WITH Addresses <- Apart, rates <- OwnRate, full <- NoRoom

ImplementsOwnRates == OwnRates!Spec
=============================================================================
