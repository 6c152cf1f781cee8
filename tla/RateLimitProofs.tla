--------------------------- MODULE RateLimitProofs ---------------------------
(***************************************************************************)
(* The chains of buckets stay well formed, and nobody outside chain 0 is   *)
(* answered more than the burst, is punished for more than was unanswered  *)
(* at one time, or has any but a rate of its own: for any number of        *)
(* buckets, addresses and hashes.                                          *)
(***************************************************************************)
EXTENDS RateLimit, SequenceTheorems, FiniteSetTheorems,
        WellFoundedInduction, TLAPS

-----------------------------------------------------------------------------
(* Natural numbers *)

\* Every set of natural numbers has a least one; this stands for induction.
LEMMA LeastNatural ==
  ASSUME NEW S, S \subseteq Nat, S # {}
  PROVE  \E n \in S : \A m \in S : n <= m
<1>1. PICK n \in S : \A m \in S : ~(<<m, n>> \in OpToRel(<, Nat))
  BY NatLessThanWellFounded, WFMin
<1>2. \A m \in S : ~(m < n) BY <1>1 DEF OpToRel
<1> QED BY <1>2

\* Quotient and remainder.
LEMMA Division ==
  ASSUME NEW n \in Nat \ {0}, NEW i \in Nat
  PROVE  /\ (i % n) \in 0 .. n - 1
         /\ (i \div n) \in Nat
         /\ i = (n * (i \div n)) + (i % n)
OBVIOUS

-----------------------------------------------------------------------------
(* The inductive invariant *)

Link == Buckets \cup {NULL}
Bucket == [address : Addresses \cup {NoAddress}, rate : Rate, prev : Link, next : Link]
TableType ==
  [ buckets : [Buckets \cup {Dummy} -> Bucket], heads : [Hashes -> Link], start : Buckets ]

\* The n-th bucket of a chain; around the chain there is none.
At(c, n) == IF n \in 1 .. Len(c) THEN c[n] ELSE NULL

\* The links that start at the head of h lead through the buckets of c.
IsChain(t, h, c) ==
  /\ c \in Seq(Buckets)
  /\ \A m, n \in 1 .. Len(c) : c[m] = c[n] => m = n
  /\ t.heads[h] = At(c, 1)
  /\ \A n \in 1 .. Len(c) :
       /\ t.buckets[c[n]].next = At(c, n + 1)
       /\ t.buckets[c[n]].prev = At(c, n - 1)

\* The buckets among M whose address has that hash.
Hashed(t, M, h) == {i \in M : Hash[t.buckets[i].address] = h}

\* The chains but that of 0 hold exactly the buckets of M.
Linked(t, M) ==
  \A h \in Hashes \ {0} : \E c : /\ IsChain(t, h, c)
                                 /\ {c[n] : n \in 1 .. Len(c)} = Hashed(t, M, h)

\* The buckets of M with hash 0 may be in several pieces, and the head is the
\* start of one or nothing; but the links of each piece fit together.
Loose(t, M) ==
  LET Z == Hashed(t, M, 0)
      B == t.buckets
  IN  /\ t.heads[0] \in Z \cup {NULL}
      /\ t.heads[0] # NULL => B[t.heads[0]].prev = NULL
      /\ \A i \in Z : /\ B[i].next \in Z \cup {NULL} /\ B[i].prev \in Z \cup {NULL}
                      /\ B[i].next # NULL => B[B[i].next].prev = i
                      /\ B[i].prev # NULL => B[B[i].prev].next = i

Unique(t) ==
  \A i, j \in Buckets :
    Hash[t.buckets[i].address] # 0 /\ t.buckets[i].address = t.buckets[j].address => i = j

TableOK(t) == t \in TableType /\ Linked(t, Buckets) /\ Loose(t, Buckets) /\ Unique(t)

\* The bucket of an address, whatever table it is in.
Owned(t, a) == {i \in Buckets : t.buckets[i].address = a}

RateIn(t, a) ==
  IF Owned(t, a) = {} THEN Forgotten ELSE t.buckets[Min(Owned(t, a))].rate

\* What was answered is in the rate, but for the part of a period that is
\* rounded off.
Holds(rate, answered) == answered = 0 \/ answered + rate.age < (rate.burst + 1) * Period

\* And that part is all of an address without a bucket.
Metered(t, a, answered) ==
  /\ answered \in Nat /\ answered < (Burst + 1) * Period
  /\ IF Owned(t, a) = {} THEN answered < Period ELSE Holds(RateIn(t, a), answered)

Penalties(t, a, waiting) == RateIn(t, a).toxic + waiting <= MaxPending

IInv ==
  /\ TableOK(table)
  /\ pending \in [Addresses -> 0 .. MaxPending]
  /\ answer \in {Nothing} \cup (Apart \X BOOLEAN)
  /\ meter \in [Apart -> Nat]
  /\ \A a \in Apart : Metered(table, a, meter[a]) /\ Penalties(table, a, pending[a])

-----------------------------------------------------------------------------
(* Writing a link *)

SetNext(t, j, x) == [t EXCEPT !.buckets[j].next = x]
SetPrev(t, j, x) == [t EXCEPT !.buckets[j].prev = x]
SetHead(t, h, x) == [t EXCEPT !.heads[h] = x]

\* The addresses and rates, and where recycling goes on, are the same.
SameContents(t, u) ==
  /\ u.start = t.start
  /\ \A i \in Buckets \cup {Dummy} : u.buckets[i].address = t.buckets[i].address
                                   /\ u.buckets[i].rate = t.buckets[i].rate

LEMMA DummyIsNoBucket == Dummy \notin Buckets /\ NULL \notin Buckets
BY TableAssumption DEF Dummy, Buckets

LEMMA SetNextIs ==
  ASSUME NEW t \in TableType, NEW j \in Buckets, NEW x \in Link
  PROVE  LET u == SetNext(t, j, x)
         IN  /\ u \in TableType /\ SameContents(t, u) /\ u.heads = t.heads
             /\ \A i \in Buckets \cup {Dummy} :
                  /\ u.buckets[i].prev = t.buckets[i].prev
                  /\ u.buckets[i].next = IF i = j THEN x ELSE t.buckets[i].next
<1> DEFINE u == SetNext(t, j, x)
           b == [t.buckets[j] EXCEPT !.next = x]
           bs == [t.buckets EXCEPT ![j] = b]
<1>1. u = [t EXCEPT !.buckets = bs]
  BY DEF SetNext
<1>2. t.buckets \in [Buckets \cup {Dummy} -> Bucket]
  BY DEF TableType
<1>3. t.buckets[j] \in Bucket
  BY <1>2
<1>4. /\ b \in Bucket /\ b.next = x /\ b.prev = t.buckets[j].prev
      /\ b.address = t.buckets[j].address /\ b.rate = t.buckets[j].rate
  BY <1>3 DEF Bucket
<1> HIDE DEF b
<1>5. bs \in [Buckets \cup {Dummy} -> Bucket]
  BY <1>2, <1>4
<1>6. \A i \in Buckets \cup {Dummy} : bs[i] = IF i = j THEN b ELSE t.buckets[i]
  BY <1>2
<1> HIDE DEF bs, u
<1>7. u \in TableType /\ u.heads = t.heads /\ u.start = t.start /\ u.buckets = bs
  BY <1>1, <1>5 DEF TableType
<1>8. \A i \in Buckets \cup {Dummy} :
        /\ u.buckets[i].prev = t.buckets[i].prev
        /\ u.buckets[i].next = IF i = j THEN x ELSE t.buckets[i].next
        /\ u.buckets[i].address = t.buckets[i].address /\ u.buckets[i].rate = t.buckets[i].rate
  BY <1>4, <1>6, <1>7
<1> QED BY <1>7, <1>8 DEF SameContents, u

LEMMA SetPrevIs ==
  ASSUME NEW t \in TableType, NEW j \in Buckets, NEW x \in Link
  PROVE  LET u == SetPrev(t, j, x)
         IN  /\ u \in TableType /\ SameContents(t, u) /\ u.heads = t.heads
             /\ \A i \in Buckets \cup {Dummy} :
                  /\ u.buckets[i].next = t.buckets[i].next
                  /\ u.buckets[i].prev = IF i = j THEN x ELSE t.buckets[i].prev
<1> DEFINE u == SetPrev(t, j, x)
           b == [t.buckets[j] EXCEPT !.prev = x]
           bs == [t.buckets EXCEPT ![j] = b]
<1>1. u = [t EXCEPT !.buckets = bs]
  BY DEF SetPrev
<1>2. t.buckets \in [Buckets \cup {Dummy} -> Bucket]
  BY DEF TableType
<1>3. t.buckets[j] \in Bucket
  BY <1>2
<1>4. /\ b \in Bucket /\ b.prev = x /\ b.next = t.buckets[j].next
      /\ b.address = t.buckets[j].address /\ b.rate = t.buckets[j].rate
  BY <1>3 DEF Bucket
<1> HIDE DEF b
<1>5. bs \in [Buckets \cup {Dummy} -> Bucket]
  BY <1>2, <1>4
<1>6. \A i \in Buckets \cup {Dummy} : bs[i] = IF i = j THEN b ELSE t.buckets[i]
  BY <1>2
<1> HIDE DEF bs, u
<1>7. u \in TableType /\ u.heads = t.heads /\ u.start = t.start /\ u.buckets = bs
  BY <1>1, <1>5 DEF TableType
<1>8. \A i \in Buckets \cup {Dummy} :
        /\ u.buckets[i].next = t.buckets[i].next
        /\ u.buckets[i].prev = IF i = j THEN x ELSE t.buckets[i].prev
        /\ u.buckets[i].address = t.buckets[i].address /\ u.buckets[i].rate = t.buckets[i].rate
  BY <1>4, <1>6, <1>7
<1> QED BY <1>7, <1>8 DEF SameContents, u

LEMMA SetHeadIs ==
  ASSUME NEW t \in TableType, NEW h \in Hashes, NEW x \in Link
  PROVE  LET u == SetHead(t, h, x)
         IN  /\ u \in TableType /\ SameContents(t, u) /\ u.buckets = t.buckets
             /\ \A g \in Hashes : u.heads[g] = IF g = h THEN x ELSE t.heads[g]
BY DEF SetHead, TableType, SameContents

\* What a new address, a new rate and a new start leave of a table.
Assigned(t, i, a, rate, start) ==
  [t EXCEPT !.buckets[i].address = a, !.buckets[i].rate = rate, !.start = start]

LEMMA AssignedIs ==
  ASSUME NEW t \in TableType, NEW i \in Buckets, NEW a \in Addresses, NEW rate \in Rate,
         NEW start \in Buckets
  PROVE  LET u == Assigned(t, i, a, rate, start)
         IN  /\ u \in TableType /\ u.heads = t.heads /\ u.start = start
             /\ \A j \in Buckets \cup {Dummy} :
                  /\ u.buckets[j].address = IF j = i THEN a ELSE t.buckets[j].address
                  /\ u.buckets[j].rate = IF j = i THEN rate ELSE t.buckets[j].rate
                  /\ u.buckets[j].next = t.buckets[j].next
                  /\ u.buckets[j].prev = t.buckets[j].prev
<1> DEFINE u == Assigned(t, i, a, rate, start)
           b == [[t.buckets[i] EXCEPT !.address = a] EXCEPT !.rate = rate]
           bs == [t.buckets EXCEPT ![i] = b]
<1>1. t.buckets \in [Buckets \cup {Dummy} -> Bucket]
  BY DEF TableType
<1>2. u = [[t EXCEPT !.buckets = bs] EXCEPT !.start = start]
  BY <1>1 DEF Assigned, TableType
<1>3. t.buckets[i] \in Bucket
  BY <1>1
<1>4. /\ b \in Bucket /\ b.prev = t.buckets[i].prev /\ b.next = t.buckets[i].next
      /\ b.address = a /\ b.rate = rate
  BY <1>3 DEF Bucket
<1> HIDE DEF b
<1>5. bs \in [Buckets \cup {Dummy} -> Bucket]
  BY <1>1, <1>4
<1>6. \A j \in Buckets \cup {Dummy} : bs[j] = IF j = i THEN b ELSE t.buckets[j]
  BY <1>1
<1> HIDE DEF bs, u
<1>7. u \in TableType /\ u.heads = t.heads /\ u.start = start /\ u.buckets = bs
  BY <1>2, <1>5 DEF TableType
<1>8. \A j \in Buckets \cup {Dummy} :
        /\ u.buckets[j].address = IF j = i THEN a ELSE t.buckets[j].address
        /\ u.buckets[j].rate = IF j = i THEN rate ELSE t.buckets[j].rate
        /\ u.buckets[j].next = t.buckets[j].next
        /\ u.buckets[j].prev = t.buckets[j].prev
  BY <1>4, <1>6, <1>7
<1> QED BY <1>7, <1>8 DEF u

-----------------------------------------------------------------------------
(* Taking a bucket out of its chain, and putting it at the head of one *)

LEMMA UnlinkWrites ==
  ASSUME NEW t \in TableType, NEW i \in Buckets
  PROVE  LET u == Unlink(t, i)
             b == t.buckets[i]
         IN  /\ u \in TableType /\ SameContents(t, u)
             /\ \A h \in Hashes :
                  u.heads[h] = IF b.prev = NULL /\ h = Hash[b.address] THEN b.next ELSE t.heads[h]
             /\ \A j \in Buckets :
                  /\ u.buckets[j].next = IF j = b.prev THEN b.next ELSE t.buckets[j].next
                  /\ u.buckets[j].prev = IF j = b.next THEN b.prev ELSE t.buckets[j].prev
<1> DEFINE b == t.buckets[i]
           h0 == Hash[b.address]
           before == IF b.prev = NULL THEN SetHead(t, h0, b.next) ELSE SetNext(t, b.prev, b.next)
           u == IF b.next = NULL THEN before ELSE SetPrev(before, b.next, b.prev)
<1>1. Unlink(t, i) = u
  BY DEF Unlink, SetHead, SetNext, SetPrev
<1>2. b.prev \in Link /\ b.next \in Link /\ h0 \in Hashes
  BY TableAssumption DEF TableType, Bucket, TableAssumption
<1>3. NULL \notin Buckets
  BY DummyIsNoBucket
<1> HIDE DEF b, h0
<1>4. /\ before \in TableType /\ SameContents(t, before)
      /\ \A h \in Hashes :
           before.heads[h] = IF b.prev = NULL /\ h = h0 THEN b.next ELSE t.heads[h]
      /\ \A j \in Buckets :
           /\ before.buckets[j].next = IF j = b.prev THEN b.next ELSE t.buckets[j].next
           /\ before.buckets[j].prev = t.buckets[j].prev
  <2>1. CASE b.prev = NULL
    BY <1>2, <1>3, <2>1, SetHeadIs
  <2>2. CASE b.prev # NULL
    <3>1. b.prev \in Buckets
      BY <1>2, <2>2 DEF Link
    <3> DEFINE w == SetNext(t, b.prev, b.next)
    <3>2. before = w
      BY <2>2
    <3>3. /\ w \in TableType /\ SameContents(t, w) /\ w.heads = t.heads
          /\ \A j \in Buckets \cup {Dummy} :
               /\ w.buckets[j].prev = t.buckets[j].prev
               /\ w.buckets[j].next = IF j = b.prev THEN b.next ELSE t.buckets[j].next
      <4>1. b.prev \in Buckets /\ b.next \in Link
        BY <1>2, <3>1
      <4>2. QED
        BY <4>1, SetNextIs
    <3> HIDE DEF w, before
    <3>4. QED
      BY <2>2, <3>2, <3>3
  <2>3. QED
    BY <2>1, <2>2
<1> HIDE DEF before
<1>5. /\ u \in TableType /\ SameContents(t, u)
      /\ \A h \in Hashes : u.heads[h] = before.heads[h]
      /\ \A j \in Buckets :
           /\ u.buckets[j].next = before.buckets[j].next
           /\ u.buckets[j].prev = IF j = b.next THEN b.prev ELSE before.buckets[j].prev
  <2>1. CASE b.next = NULL
    BY <1>3, <1>4, <2>1
  <2>2. CASE b.next # NULL
    <3>1. b.next \in Buckets
      BY <1>2, <2>2 DEF Link
    <3> DEFINE w == SetPrev(before, b.next, b.prev)
    <3>2. u = w
      BY <2>2
    <3>3. /\ w \in TableType /\ SameContents(before, w) /\ w.heads = before.heads
          /\ \A j \in Buckets \cup {Dummy} :
               /\ w.buckets[j].next = before.buckets[j].next
               /\ w.buckets[j].prev = IF j = b.next THEN b.prev ELSE before.buckets[j].prev
      <4>1. before \in TableType /\ b.next \in Buckets /\ b.prev \in Link
        BY <1>2, <1>4, <3>1
      <4>2. QED
        BY <4>1, SetPrevIs
    <3> HIDE DEF w, u
    <3>4. SameContents(t, w)
      BY <1>4, <3>3 DEF SameContents
    <3>5. QED
      BY <3>2, <3>3, <3>4
  <2>3. QED
    BY <2>1, <2>2
<1> HIDE DEF u
<1>6. QED
  BY <1>1, <1>4, <1>5 DEF b, h0

LEMMA LinkWrites ==
  ASSUME NEW t \in TableType, NEW i \in Buckets, t.heads[Hash[t.buckets[i].address]] # i
  PROVE  LET u    == LinkAsHead(t, i)
             h0   == Hash[t.buckets[i].address]
             head == t.heads[h0]
         IN  /\ u \in TableType /\ SameContents(t, u)
             /\ \A h \in Hashes : u.heads[h] = IF h = h0 THEN i ELSE t.heads[h]
             /\ \A j \in Buckets :
                  /\ u.buckets[j].next = IF j = i THEN head ELSE t.buckets[j].next
                  /\ u.buckets[j].prev = IF j = i THEN NULL ELSE IF j = head THEN i
                                         ELSE t.buckets[j].prev
<1> DEFINE h0 == Hash[t.buckets[i].address]
           head == t.heads[h0]
           t1 == SetNext(t, i, head)
           t2 == SetPrev(t1, i, NULL)
           t3 == SetHead(t2, h0, i)
           t4 == IF head = NULL THEN t3 ELSE SetPrev(t3, head, i)
<1>1. h0 \in Hashes /\ head \in Link /\ NULL \in Link /\ i \in Link /\ NULL \notin Buckets
  BY TableAssumption, DummyIsNoBucket DEF TableType, Bucket, TableAssumption, Link
<1>2. LinkAsHead(t, i) = t4
  BY DEF LinkAsHead, SetNext, SetPrev, SetHead
<1>3. head # i
  OBVIOUS
<1> HIDE DEF h0, head
<1>4. /\ t1 \in TableType /\ SameContents(t, t1) /\ t1.heads = t.heads
      /\ \A j \in Buckets \cup {Dummy} :
           /\ t1.buckets[j].prev = t.buckets[j].prev
           /\ t1.buckets[j].next = IF j = i THEN head ELSE t.buckets[j].next
  BY <1>1, SetNextIs
<1> HIDE DEF t1
<1>5. /\ t2 \in TableType /\ SameContents(t1, t2) /\ t2.heads = t1.heads
      /\ \A j \in Buckets \cup {Dummy} :
           /\ t2.buckets[j].next = t1.buckets[j].next
           /\ t2.buckets[j].prev = IF j = i THEN NULL ELSE t1.buckets[j].prev
  BY <1>1, <1>4, SetPrevIs
<1> HIDE DEF t2
<1>6. /\ t3 \in TableType /\ SameContents(t2, t3) /\ t3.buckets = t2.buckets
      /\ \A h \in Hashes : t3.heads[h] = IF h = h0 THEN i ELSE t2.heads[h]
  <2>1. t2 \in TableType /\ h0 \in Hashes /\ i \in Link
    BY <1>1, <1>5
  <2>2. QED
    BY <2>1, SetHeadIs
<1> HIDE DEF t3
<1>7. /\ t4 \in TableType /\ SameContents(t3, t4) /\ t4.heads = t3.heads
      /\ \A j \in Buckets :
           /\ t4.buckets[j].next = t3.buckets[j].next
           /\ t4.buckets[j].prev = IF j = head THEN i ELSE t3.buckets[j].prev
  <2>1. CASE head = NULL
    BY <1>1, <1>6, <2>1 DEF SameContents
  <2>2. CASE head # NULL
    <3>1. head \in Buckets
      BY <1>1, <2>2 DEF Link
    <3> DEFINE w == SetPrev(t3, head, i)
    <3>2. t4 = w
      BY <2>2
    <3>3. /\ w \in TableType /\ SameContents(t3, w) /\ w.heads = t3.heads
          /\ \A j \in Buckets \cup {Dummy} :
               /\ w.buckets[j].next = t3.buckets[j].next
               /\ w.buckets[j].prev = IF j = head THEN i ELSE t3.buckets[j].prev
      <4>1. t3 \in TableType /\ head \in Buckets /\ i \in Link
        BY <1>1, <1>6, <3>1
      <4>2. QED
        BY <4>1, SetPrevIs
    <3> HIDE DEF w, t4
    <3>4. QED
      BY <3>2, <3>3
  <2>3. QED
    BY <2>1, <2>2
<1> HIDE DEF t4
<1>8. SameContents(t, t4)
  BY <1>4, <1>5, <1>6, <1>7 DEF SameContents
<1>9. \A h \in Hashes : t4.heads[h] = IF h = h0 THEN i ELSE t.heads[h]
  BY <1>4, <1>5, <1>6, <1>7
<1>10. \A j \in Buckets :
         /\ t4.buckets[j].next = IF j = i THEN head ELSE t.buckets[j].next
         /\ t4.buckets[j].prev = IF j = i THEN NULL ELSE IF j = head THEN i
                                 ELSE t.buckets[j].prev
  BY <1>3, <1>4, <1>5, <1>6, <1>7
<1>11. QED
  BY <1>2, <1>7, <1>8, <1>9, <1>10 DEF h0, head

\* What a chain says of a bucket in it.
LEMMA InChainIs ==
  ASSUME NEW t, NEW h, NEW c, IsChain(t, h, c)
  PROVE  /\ Len(c) \in Nat
         /\ \A n \in 1 .. Len(c) : c[n] \in Buckets
         /\ t.heads[h] = IF Len(c) = 0 THEN NULL ELSE c[1]
         /\ \A n \in 1 .. Len(c) :
              /\ t.buckets[c[n]].next = IF n = Len(c) THEN NULL ELSE c[n + 1]
              /\ t.buckets[c[n]].prev = IF n = 1 THEN NULL ELSE c[n - 1]
         /\ \A m, n \in 1 .. Len(c) : c[m] = c[n] => m = n
<1>1. Len(c) \in Nat /\ \A n \in 1 .. Len(c) : c[n] \in Buckets
  BY LenProperties, ElementOfSeq DEF IsChain
<1>2. At(c, 1) = IF Len(c) = 0 THEN NULL ELSE c[1]
  BY <1>1 DEF At
<1>3. \A n \in 1 .. Len(c) :
        /\ At(c, n + 1) = IF n = Len(c) THEN NULL ELSE c[n + 1]
        /\ At(c, n - 1) = IF n = 1 THEN NULL ELSE c[n - 1]
  BY <1>1 DEF At
<1>4. /\ t.heads[h] = At(c, 1)
      /\ \A n \in 1 .. Len(c) :
           t.buckets[c[n]].next = At(c, n + 1) /\ t.buckets[c[n]].prev = At(c, n - 1)
      /\ \A m, n \in 1 .. Len(c) : c[m] = c[n] => m = n
  BY DEF IsChain
<1>5. QED
  BY <1>1, <1>2, <1>3, <1>4

\* And, the other way round, what makes it one.
LeadsThrough(t, h, c, len) ==
  /\ c \in [1 .. len -> Buckets]
  /\ t.heads[h] = IF len = 0 THEN NULL ELSE c[1]
  /\ \A n \in 1 .. len :
       /\ t.buckets[c[n]].next = IF n = len THEN NULL ELSE c[n + 1]
       /\ t.buckets[c[n]].prev = IF n = 1 THEN NULL ELSE c[n - 1]
  /\ \A m, n \in 1 .. len : c[m] = c[n] => m = n

LEMMA ChainIs ==
  ASSUME NEW t, NEW h, NEW len \in Nat, NEW c, LeadsThrough(t, h, c, len)
  PROVE  IsChain(t, h, c) /\ Len(c) = len
<1>1. c \in Seq(Buckets) /\ Len(c) = len
  BY SeqDef, LenProperties DEF LeadsThrough
<1>2. At(c, 1) = IF len = 0 THEN NULL ELSE c[1]
  BY <1>1 DEF At
<1>3. \A n \in 1 .. len :
        /\ At(c, n + 1) = IF n = len THEN NULL ELSE c[n + 1]
        /\ At(c, n - 1) = IF n = 1 THEN NULL ELSE c[n - 1]
  BY <1>1 DEF At
<1>4. /\ t.heads[h] = At(c, 1)
      /\ \A n \in 1 .. len :
           t.buckets[c[n]].next = At(c, n + 1) /\ t.buckets[c[n]].prev = At(c, n - 1)
      /\ \A m, n \in 1 .. len : c[m] = c[n] => m = n
  BY <1>2, <1>3 DEF LeadsThrough
<1>5. QED
  BY <1>1, <1>4 DEF IsChain

\* A chain that none of the written buckets is in is as it was.
LEMMA SameChain ==
  ASSUME NEW t, NEW u, NEW h, NEW c, IsChain(t, h, c), u.heads[h] = t.heads[h],
         \A n \in 1 .. Len(c) : /\ u.buckets[c[n]].next = t.buckets[c[n]].next
                                /\ u.buckets[c[n]].prev = t.buckets[c[n]].prev
  PROVE  IsChain(u, h, c)
BY DEF IsChain

\* The chain that i is taken out of.
LEMMA UnlinkFromChain ==
  ASSUME NEW t \in TableType, NEW M \in SUBSET Buckets, NEW i \in M,
         NEW c, IsChain(t, Hash[t.buckets[i].address], c),
         {c[n] : n \in 1 .. Len(c)} = Hashed(t, M, Hash[t.buckets[i].address])
  PROVE  /\ t.buckets[i].next \in Hashed(t, M, Hash[t.buckets[i].address]) \cup {NULL}
         /\ t.buckets[i].prev \in Hashed(t, M, Hash[t.buckets[i].address]) \cup {NULL}
         /\ \E d : /\ IsChain(Unlink(t, i), Hash[t.buckets[i].address], d)
                  /\ {d[n] : n \in 1 .. Len(d)} = Hashed(t, M, Hash[t.buckets[i].address]) \ {i}
<1> DEFINE u == Unlink(t, i)
           b == t.buckets[i]
           h0 == Hash[b.address]
<1>1. i \in Buckets /\ h0 \in Hashes
  BY TableAssumption DEF TableType, Bucket, TableAssumption
<1>2. /\ u \in TableType /\ SameContents(t, u)
      /\ \A h \in Hashes :
           u.heads[h] = IF b.prev = NULL /\ h = h0 THEN b.next ELSE t.heads[h]
      /\ \A j \in Buckets :
           /\ u.buckets[j].next = IF j = b.prev THEN b.next ELSE t.buckets[j].next
           /\ u.buckets[j].prev = IF j = b.next THEN b.prev ELSE t.buckets[j].prev
  BY <1>1, UnlinkWrites
<1>4. IsChain(t, h0, c) /\ {c[n] : n \in 1 .. Len(c)} = Hashed(t, M, h0)
  OBVIOUS
<1> DEFINE len == Len(c)
<1>5. /\ len \in Nat
      /\ \A n \in 1 .. len : c[n] \in Buckets
      /\ t.heads[h0] = IF len = 0 THEN NULL ELSE c[1]
      /\ \A n \in 1 .. len :
           /\ t.buckets[c[n]].next = IF n = len THEN NULL ELSE c[n + 1]
           /\ t.buckets[c[n]].prev = IF n = 1 THEN NULL ELSE c[n - 1]
      /\ \A m, n \in 1 .. len : c[m] = c[n] => m = n
  BY <1>4, InChainIs
<1>6. i \in Hashed(t, M, h0)
  BY DEF Hashed
<1>7. PICK k \in 1 .. len : c[k] = i
  BY <1>4, <1>6
<1>8. NULL \notin Buckets
  BY DummyIsNoBucket
<1>9. /\ b.next = IF k = len THEN NULL ELSE c[k + 1]
      /\ b.prev = IF k = 1 THEN NULL ELSE c[k - 1]
  BY <1>5, <1>7
<1>10. /\ b.next # NULL => b.next \in Hashed(t, M, h0)
       /\ b.prev # NULL => b.prev \in Hashed(t, M, h0)
  BY <1>4, <1>5, <1>9
<1> HIDE DEF u, b, h0, len
<1> DEFINE less == len - 1
           at(n) == IF n < k THEN n ELSE n + 1
           d == [n \in 1 .. less |-> c[at(n)]]
<1>12. less \in Nat /\ len = less + 1
  BY <1>5, <1>7
<1> HIDE DEF less
<1>13. \A n \in 1 .. less : at(n) \in 1 .. len /\ at(n) # k
  BY <1>7, <1>12
<1>14. /\ d \in [1 .. less -> Buckets]
       /\ \A n \in 1 .. less : d[n] = c[at(n)]
  BY <1>5, <1>13
<1> HIDE DEF d
<1>15. u.heads[h0] = IF less = 0 THEN NULL ELSE d[1]
  <2>1. CASE k = 1
    <3>1. u.heads[h0] = IF less = 0 THEN NULL ELSE c[2]
      BY <1>1, <1>2, <1>9, <1>12, <2>1
    <3>2. less # 0 => d[1] = c[2]
      BY <1>12, <1>14, <2>1
    <3>3. QED
      BY <3>1, <3>2
  <2>2. CASE k # 1
    <3>1. b.prev # NULL /\ k > 1 /\ less # 0
      BY <1>5, <1>7, <1>8, <1>9, <1>12, <2>2
    <3>2. u.heads[h0] = c[1]
      BY <1>1, <1>2, <1>5, <1>12, <3>1
    <3>3. d[1] = c[1]
      BY <1>12, <1>14, <3>1
    <3>4. QED
      BY <3>1, <3>2, <3>3
  <2>3. QED
    BY <2>1, <2>2
<1>16. ASSUME NEW n \in 1 .. less
       PROVE  u.buckets[d[n]].next = IF n = less THEN NULL ELSE d[n + 1]
  <2> DEFINE m == at(n)
  <2>1. m \in 1 .. len /\ m # k /\ d[n] = c[m] /\ c[m] \in Buckets
    BY <1>5, <1>13, <1>14
  <2>2. n # less => n + 1 \in 1 .. less /\ d[n + 1] = c[at(n + 1)]
    BY <1>12, <1>14
  <2>3. CASE n = k - 1
    <3>1. m = k - 1 /\ b.prev = c[m]
      BY <1>7, <1>9, <1>12, <2>3
    <3>2. u.buckets[c[m]].next = IF k = len THEN NULL ELSE c[k + 1]
      BY <1>2, <1>9, <2>1, <3>1
    <3>3. k = len <=> n = less
      BY <1>7, <1>12, <2>3
    <3>4. n # less => at(n + 1) = k + 1
      BY <1>7, <1>12, <2>3
    <3>5. QED
      BY <2>1, <2>2, <3>2, <3>3, <3>4
  <2>4. CASE n # k - 1
    <3>1. m # k - 1
      BY <1>7, <1>12, <2>4
    <3>2. c[m] # b.prev
      <4>1. k = 1 \/ k - 1 \in 1 .. len
        BY <1>7, <1>5
      <4>2. QED
        BY <1>5, <1>8, <1>9, <2>1, <3>1, <4>1
    <3>3. u.buckets[c[m]].next = IF m = len THEN NULL ELSE c[m + 1]
      BY <1>2, <1>5, <2>1, <3>2
    <3>4. m = len <=> n = less
      BY <1>7, <1>12, <2>4
    <3>5. n # less => at(n + 1) = m + 1
      BY <1>7, <1>12, <2>4
    <3>6. QED
      BY <2>1, <2>2, <3>3, <3>4, <3>5
  <2>5. QED
    BY <2>3, <2>4
<1>17. ASSUME NEW n \in 1 .. less
       PROVE  u.buckets[d[n]].prev = IF n = 1 THEN NULL ELSE d[n - 1]
  <2> DEFINE m == at(n)
  <2>1. m \in 1 .. len /\ m # k /\ d[n] = c[m] /\ c[m] \in Buckets
    BY <1>5, <1>13, <1>14
  <2>2. n # 1 => n - 1 \in 1 .. less /\ d[n - 1] = c[at(n - 1)]
    BY <1>12, <1>14
  <2>3. CASE n = k
    <3>1. m = k + 1 /\ b.next = c[m]
      BY <1>7, <1>9, <1>12, <2>3
    <3>2. u.buckets[c[m]].prev = IF k = 1 THEN NULL ELSE c[k - 1]
      BY <1>2, <1>9, <2>1, <3>1
    <3>3. n # 1 => at(n - 1) = k - 1
      BY <1>7, <1>12, <2>3
    <3>4. QED
      BY <2>1, <2>2, <2>3, <3>2, <3>3
  <2>4. CASE n # k
    <3>1. m # k + 1
      BY <1>7, <1>12, <2>4
    <3>2. c[m] # b.next
      <4>1. k = len \/ k + 1 \in 1 .. len
        BY <1>7, <1>5
      <4>2. QED
        BY <1>5, <1>8, <1>9, <2>1, <3>1, <4>1
    <3>3. u.buckets[c[m]].prev = IF m = 1 THEN NULL ELSE c[m - 1]
      BY <1>2, <1>5, <2>1, <3>2
    <3>4. m = 1 <=> n = 1
      BY <1>7, <1>12, <2>4
    <3>5. n # 1 => at(n - 1) = m - 1
      BY <1>7, <1>12, <2>4
    <3>6. QED
      BY <2>1, <2>2, <3>3, <3>4, <3>5
  <2>5. QED
    BY <2>3, <2>4
<1>18. ASSUME NEW m \in 1 .. less, NEW n \in 1 .. less, d[m] = d[n]
       PROVE  m = n
  <2>1. d[m] = c[at(m)] /\ d[n] = c[at(n)]
    BY <1>14, <1>18
  <2>2. at(m) \in 1 .. len /\ at(n) \in 1 .. len
    BY <1>13, <1>18
  <2>3. at(m) = at(n)
    <3> HIDE DEF at, d
    <3>1. c[at(m)] = c[at(n)]
      BY <1>18, <2>1
    <3>2. QED
      BY <1>5, <2>2, <3>1
  <2>4. QED
    BY <1>7, <1>12, <1>18, <2>3
<1>19. \A n \in 1 .. less :
         /\ u.buckets[d[n]].next = IF n = less THEN NULL ELSE d[n + 1]
         /\ u.buckets[d[n]].prev = IF n = 1 THEN NULL ELSE d[n - 1]
  BY <1>16, <1>17
<1>20. \A m, n \in 1 .. less : d[m] = d[n] => m = n
  BY <1>18
<1>21. less \in Nat /\ d \in [1 .. less -> Buckets]
  BY <1>12, <1>14
<1>22. IsChain(u, h0, d) /\ Len(d) = less
  <2>1. LeadsThrough(u, h0, d, less)
    BY <1>15, <1>19, <1>20, <1>21 DEF LeadsThrough
  <2>2. QED
    BY <1>21, <2>1, ChainIs
<1>23. {d[n] : n \in 1 .. less} = {c[n] : n \in 1 .. len} \ {i}
  <2>1. \A n \in 1 .. less : \E m \in 1 .. len : d[n] = c[m] /\ c[m] # i
    BY <1>5, <1>7, <1>13, <1>14
  <2>2. ASSUME NEW m \in 1 .. len, c[m] # i
        PROVE  \E n \in 1 .. less : d[n] = c[m]
    <3>1. CASE m < k
      <4>1. m \in 1 .. less /\ at(m) = m
        BY <1>7, <1>12, <3>1
      <4>2. QED
        BY <1>14, <4>1
    <3>2. CASE m > k
      <4>1. m - 1 \in 1 .. less /\ at(m - 1) = m
        BY <1>7, <1>12, <3>2
      <4>2. QED
        BY <1>14, <4>1
    <3>3. m # k
      BY <1>7, <2>2
    <3>4. QED
      BY <1>5, <1>7, <3>1, <3>2, <3>3
  <2>3. ASSUME NEW x
        PROVE  (\E n \in 1 .. less : x = d[n]) <=> ((\E n \in 1 .. len : x = c[n]) /\ x # i)
    BY <2>1, <2>2, Zenon
  <2>4. QED
    BY <2>3, Zenon
<1>24. {d[n] : n \in 1 .. Len(d)} = Hashed(t, M, h0) \ {i}
  BY <1>4, <1>22, <1>23 DEF len
<1>25. QED
  BY <1>10, <1>22, <1>24 DEF u, b, h0

\* A piece with hash 0 loses its bucket i.
LEMMA UnlinkLoose ==
  ASSUME NEW t \in TableType, NEW M \in SUBSET Buckets, NEW i \in M, Loose(t, M),
         Hash[t.buckets[i].address] = 0
  PROVE  /\ t.buckets[i].next \in Hashed(t, M, 0) \cup {NULL}
         /\ t.buckets[i].prev \in Hashed(t, M, 0) \cup {NULL}
         /\ Loose(Unlink(t, i), M \ {i})
<1> DEFINE u == Unlink(t, i)
           b == t.buckets[i]
           Z == Hashed(t, M, 0)
<1>1. i \in Z /\ Z \subseteq Buckets /\ 0 \in Hashes
  BY TableAssumption DEF Hashed, TableAssumption
<1>2. /\ SameContents(t, u)
      /\ u.heads[0] = IF b.prev = NULL THEN b.next ELSE t.heads[0]
      /\ \A j \in Buckets :
           /\ u.buckets[j].next = IF j = b.prev THEN b.next ELSE t.buckets[j].next
           /\ u.buckets[j].prev = IF j = b.next THEN b.prev ELSE t.buckets[j].prev
  BY <1>1, UnlinkWrites
<1>3. Hashed(u, M \ {i}, 0) = Z \ {i}
  BY <1>2 DEF Hashed, SameContents
<1>4. /\ t.heads[0] \in Z \cup {NULL}
      /\ t.heads[0] # NULL => t.buckets[t.heads[0]].prev = NULL
      /\ \A j \in Z : /\ t.buckets[j].next \in Z \cup {NULL} /\ t.buckets[j].prev \in Z \cup {NULL}
                      /\ t.buckets[j].next # NULL => t.buckets[t.buckets[j].next].prev = j
                      /\ t.buckets[j].prev # NULL => t.buckets[t.buckets[j].prev].next = j
  BY DEF Loose
<1>5. NULL \notin Buckets
  BY DummyIsNoBucket
<1>6. b.next \in Z \cup {NULL} /\ b.prev \in Z \cup {NULL}
  BY <1>1, <1>4
<1>7. /\ b.next # NULL => t.buckets[b.next].prev = i
      /\ b.prev # NULL => t.buckets[b.prev].next = i
  BY <1>1, <1>4
<1> HIDE DEF u, Z
<1>8. u.heads[0] \in (Z \ {i}) \cup {NULL}
  BY <1>1, <1>2, <1>4, <1>5, <1>6, <1>7
<1>9. u.heads[0] # NULL => u.buckets[u.heads[0]].prev = NULL
  <2>1. CASE b.prev = NULL
    <3>1. u.heads[0] = b.next
      BY <1>2, <2>1
    <3>2. QED
      BY <1>1, <1>2, <1>6, <2>1, <3>1
  <2>2. CASE b.prev # NULL
    <3>1. u.heads[0] = t.heads[0]
      BY <1>2, <2>2
    <3>2. t.heads[0] # NULL => t.heads[0] \in Buckets /\ t.heads[0] # b.next
      BY <1>1, <1>4, <1>5, <1>7
    <3>3. QED
      BY <1>2, <1>4, <3>1, <3>2
  <2>3. QED
    BY <2>1, <2>2
<1>10. ASSUME NEW j \in Z \ {i}
       PROVE  /\ u.buckets[j].next \in (Z \ {i}) \cup {NULL}
              /\ u.buckets[j].prev \in (Z \ {i}) \cup {NULL}
              /\ u.buckets[j].next # NULL => u.buckets[u.buckets[j].next].prev = j
              /\ u.buckets[j].prev # NULL => u.buckets[u.buckets[j].prev].next = j
  <2>1. j \in Buckets /\ j # NULL
    BY <1>1, <1>5
  <2>2. /\ t.buckets[j].next \in Z \cup {NULL} /\ t.buckets[j].prev \in Z \cup {NULL}
        /\ t.buckets[j].next # NULL => t.buckets[t.buckets[j].next].prev = j
        /\ t.buckets[j].prev # NULL => t.buckets[t.buckets[j].prev].next = j
    BY <1>4
  <2>3. /\ u.buckets[j].next \in (Z \ {i}) \cup {NULL}
        /\ u.buckets[j].next # NULL => u.buckets[u.buckets[j].next].prev = j
    <3>1. CASE j = b.prev
      <4>1. u.buckets[j].next = b.next /\ (b.next # NULL => b.next \in Buckets)
        BY <1>1, <1>2, <1>6, <2>1, <3>1
      <4>2. b.next # i
        BY <1>5, <1>7, <1>1, <3>1
      <4>3. QED
        BY <1>2, <1>6, <3>1, <4>1, <4>2
    <3>2. CASE j # b.prev
      <4>1. u.buckets[j].next = t.buckets[j].next
        BY <1>2, <2>1, <3>2
      <4>2. t.buckets[j].next # i
        BY <1>5, <1>1, <2>2, <3>2
      <4>3. t.buckets[j].next # NULL => t.buckets[j].next \in Buckets /\ t.buckets[j].next # b.next
        BY <1>1, <1>7, <2>2
      <4>4. QED
        BY <1>2, <2>2, <4>1, <4>2, <4>3
    <3>3. QED
      BY <3>1, <3>2
  <2>4. /\ u.buckets[j].prev \in (Z \ {i}) \cup {NULL}
        /\ u.buckets[j].prev # NULL => u.buckets[u.buckets[j].prev].next = j
    <3>1. CASE j = b.next
      <4>1. u.buckets[j].prev = b.prev /\ (b.prev # NULL => b.prev \in Buckets)
        BY <1>1, <1>2, <1>6, <2>1, <3>1
      <4>2. b.prev # i
        BY <1>5, <1>7, <1>1, <3>1
      <4>3. QED
        BY <1>2, <1>6, <3>1, <4>1, <4>2
    <3>2. CASE j # b.next
      <4>1. u.buckets[j].prev = t.buckets[j].prev
        BY <1>2, <2>1, <3>2
      <4>2. t.buckets[j].prev # i
        BY <1>5, <1>1, <2>2, <3>2
      <4>3. t.buckets[j].prev # NULL => t.buckets[j].prev \in Buckets /\ t.buckets[j].prev # b.prev
        BY <1>1, <1>7, <2>2
      <4>4. QED
        BY <1>2, <2>2, <4>1, <4>2, <4>3
    <3>3. QED
      BY <3>1, <3>2
  <2>5. QED
    BY <2>3, <2>4
<1>11. Loose(u, M \ {i})
  BY <1>3, <1>8, <1>9, <1>10 DEF Loose
<1>12. QED
  BY <1>6, <1>11 DEF u, Z

\* What is not written to stays loose.
LEMMA SameLoose ==
  ASSUME NEW t, NEW u, NEW M, NEW N, Loose(t, M), u.heads[0] = t.heads[0],
         Hashed(u, N, 0) = Hashed(t, M, 0),
         \A i \in Hashed(t, M, 0) : /\ u.buckets[i].next = t.buckets[i].next
                                   /\ u.buckets[i].prev = t.buckets[i].prev
  PROVE  Loose(u, N)
<1> DEFINE Z == Hashed(t, M, 0)
<1>1. /\ t.heads[0] \in Z \cup {NULL}
      /\ t.heads[0] # NULL => t.buckets[t.heads[0]].prev = NULL
      /\ \A i \in Z : /\ t.buckets[i].next \in Z \cup {NULL} /\ t.buckets[i].prev \in Z \cup {NULL}
                      /\ t.buckets[i].next # NULL => t.buckets[t.buckets[i].next].prev = i
                      /\ t.buckets[i].prev # NULL => t.buckets[t.buckets[i].prev].next = i
  BY DEF Loose
<1> HIDE DEF Z
<1>2. \A i \in Z : /\ u.buckets[i].next = t.buckets[i].next
                   /\ u.buckets[i].prev = t.buckets[i].prev
  BY DEF Z
<1>3. Hashed(u, N, 0) = Z
  BY DEF Z
<1>4. QED
  BY <1>1, <1>2, <1>3 DEF Loose

LEMMA UnlinkKeeps ==
  ASSUME NEW t \in TableType, NEW M \in SUBSET Buckets, NEW i \in M, Linked(t, M), Loose(t, M)
  PROVE  LET u == Unlink(t, i)
         IN  u \in TableType /\ SameContents(t, u) /\ Linked(u, M \ {i}) /\ Loose(u, M \ {i})
<1> DEFINE u == Unlink(t, i)
           b == t.buckets[i]
           h0 == Hash[b.address]
<1>1. i \in Buckets /\ h0 \in Hashes
  BY TableAssumption DEF TableType, Bucket, TableAssumption
<1>2. /\ u \in TableType /\ SameContents(t, u)
      /\ \A h \in Hashes :
           u.heads[h] = IF b.prev = NULL /\ h = h0 THEN b.next ELSE t.heads[h]
      /\ \A j \in Buckets :
           /\ u.buckets[j].next = IF j = b.prev THEN b.next ELSE t.buckets[j].next
           /\ u.buckets[j].prev = IF j = b.next THEN b.prev ELSE t.buckets[j].prev
  BY <1>1, UnlinkWrites
<1>3. \A h : Hashed(u, M \ {i}, h) = Hashed(t, M, h) \ {i}
  BY <1>2 DEF Hashed, SameContents
<1>4. /\ b.next \in Hashed(t, M, h0) \cup {NULL} /\ b.prev \in Hashed(t, M, h0) \cup {NULL}
      /\ h0 # 0 => \E d : /\ IsChain(u, h0, d)
                          /\ {d[n] : n \in 1 .. Len(d)} = Hashed(t, M, h0) \ {i}
      /\ h0 = 0 => Loose(u, M \ {i})
  <2>1. CASE h0 = 0
    BY <2>1, UnlinkLoose
  <2>2. CASE h0 # 0
    <3>1. PICK c : IsChain(t, h0, c) /\ {c[n] : n \in 1 .. Len(c)} = Hashed(t, M, h0)
      BY <1>1, <2>2 DEF Linked
    <3>2. QED
      BY <2>2, <3>1, UnlinkFromChain
  <2>3. QED
    BY <2>1, <2>2
<1>6. i \in Hashed(t, M, h0)
  BY DEF Hashed
<1>8. NULL \notin Buckets
  BY DummyIsNoBucket
<1>10. /\ b.next # NULL => b.next \in Hashed(t, M, h0)
       /\ b.prev # NULL => b.prev \in Hashed(t, M, h0)
  BY <1>4
<1> HIDE DEF u, b, h0
<1>11. ASSUME NEW h \in Hashes \ {0}, h # h0
       PROVE  \E e : IsChain(u, h, e) /\ {e[n] : n \in 1 .. Len(e)} = Hashed(t, M, h) \ {i}
  <2>1. PICK e : IsChain(t, h, e) /\ {e[n] : n \in 1 .. Len(e)} = Hashed(t, M, h)
    BY DEF Linked
  <2>2. Hashed(t, M, h) \cap Hashed(t, M, h0) = {}
    BY <1>11 DEF Hashed
  <2>3. \A n \in 1 .. Len(e) : e[n] \in Buckets /\ e[n] \in Hashed(t, M, h)
    BY <2>1, InChainIs
  <2>4. \A n \in 1 .. Len(e) : e[n] # b.prev /\ e[n] # b.next
    BY <1>8, <1>10, <2>2, <2>3
  <2>5. u.heads[h] = t.heads[h]
    BY <1>2, <1>11
  <2>6. IsChain(u, h, e)
    BY <1>2, <2>1, <2>3, <2>4, <2>5, SameChain
  <2>7. Hashed(t, M, h) \ {i} = Hashed(t, M, h)
    BY <1>6, <2>2
  <2>8. QED
    BY <2>1, <2>6, <2>7
<1>12. ASSUME h0 # 0
       PROVE  Loose(u, M \ {i})
  <2>1. Hashed(t, M, 0) \cap Hashed(t, M, h0) = {} /\ 0 \in Hashes
    BY <1>12, TableAssumption DEF Hashed, TableAssumption
  <2>2. \A j \in Hashed(t, M, 0) : j \in Buckets /\ j # b.prev /\ j # b.next
    BY <1>8, <1>10, <2>1 DEF Hashed
  <2>3. Hashed(u, M \ {i}, 0) = Hashed(t, M, 0)
    BY <1>3, <1>6, <2>1
  <2>4. u.heads[0] = t.heads[0]
    BY <1>2, <1>12, <2>1
  <2>5. QED
    BY <1>2, <2>2, <2>3, <2>4, SameLoose
<1>13. Linked(u, M \ {i})
  <2>1. ASSUME NEW h \in Hashes \ {0}
        PROVE  \E e : IsChain(u, h, e) /\ {e[n] : n \in 1 .. Len(e)} = Hashed(u, M \ {i}, h)
    <3>1. CASE h = h0
      BY <1>3, <1>4, <3>1
    <3>2. CASE h # h0
      BY <1>3, <1>11, <3>2
    <3>3. QED
      BY <3>1, <3>2
  <2>2. QED
    BY <2>1 DEF Linked
<1>14. QED
  BY <1>2, <1>4, <1>12, <1>13 DEF u

\* The chain that i becomes the head of.
LEMMA LinkToChain ==
  ASSUME NEW t \in TableType, NEW M \in SUBSET Buckets, NEW i \in Buckets \ M,
         NEW c, IsChain(t, Hash[t.buckets[i].address], c),
         {c[n] : n \in 1 .. Len(c)} = Hashed(t, M, Hash[t.buckets[i].address])
  PROVE  /\ t.heads[Hash[t.buckets[i].address]]
              \in Hashed(t, M, Hash[t.buckets[i].address]) \cup {NULL}
         /\ \E d : /\ IsChain(LinkAsHead(t, i), Hash[t.buckets[i].address], d)
                  /\ {d[n] : n \in 1 .. Len(d)}
                       = Hashed(t, M, Hash[t.buckets[i].address]) \cup {i}
<1> DEFINE u == LinkAsHead(t, i)
           h0 == Hash[t.buckets[i].address]
           head == t.heads[h0]
<1>1. h0 \in Hashes
  BY TableAssumption DEF TableType, Bucket, TableAssumption
<1>2. IsChain(t, h0, c) /\ {c[n] : n \in 1 .. Len(c)} = Hashed(t, M, h0)
  OBVIOUS
<1> DEFINE len == Len(c)
<1>3. /\ len \in Nat
      /\ \A n \in 1 .. len : c[n] \in Buckets
      /\ head = IF len = 0 THEN NULL ELSE c[1]
      /\ \A n \in 1 .. len :
           /\ t.buckets[c[n]].next = IF n = len THEN NULL ELSE c[n + 1]
           /\ t.buckets[c[n]].prev = IF n = 1 THEN NULL ELSE c[n - 1]
      /\ \A m, n \in 1 .. len : c[m] = c[n] => m = n
  BY <1>2, InChainIs
<1>4. \A n \in 1 .. len : c[n] # i
  BY <1>2 DEF Hashed
<1>5. NULL \notin Buckets
  BY DummyIsNoBucket
<1>6. head # i /\ (head # NULL => head \in Hashed(t, M, h0))
  BY <1>2, <1>3, <1>4, <1>5
<1>7. /\ u \in TableType /\ SameContents(t, u)
      /\ \A h \in Hashes : u.heads[h] = IF h = h0 THEN i ELSE t.heads[h]
      /\ \A j \in Buckets :
           /\ u.buckets[j].next = IF j = i THEN head ELSE t.buckets[j].next
           /\ u.buckets[j].prev = IF j = i THEN NULL ELSE IF j = head THEN i
                                  ELSE t.buckets[j].prev
  <2>1. head # i /\ i \in Buckets
    BY <1>6
  <2>2. QED
    BY <2>1, LinkWrites
<1> HIDE DEF u, h0, head, len
<1> DEFINE more == len + 1
           d == [n \in 1 .. more |-> IF n = 1 THEN i ELSE c[n - 1]]
<1>10. more \in Nat /\ len = more - 1 /\ more >= 1
  BY <1>3
<1> HIDE DEF more
<1>11. \A n \in 1 .. more : n # 1 => n - 1 \in 1 .. len
  BY <1>10
<1>12. /\ d \in [1 .. more -> Buckets]
       /\ \A n \in 1 .. more : d[n] = IF n = 1 THEN i ELSE c[n - 1]
  BY <1>3, <1>11
<1> HIDE DEF d
<1>13. u.heads[h0] = IF more = 0 THEN NULL ELSE d[1]
  BY <1>1, <1>7, <1>10, <1>12
<1>14. ASSUME NEW n \in 1 .. more
       PROVE  u.buckets[d[n]].next = IF n = more THEN NULL ELSE d[n + 1]
  <2>1. CASE n = 1
    <3>1. d[n] = i /\ u.buckets[i].next = head
      BY <1>7, <1>12, <2>1
    <3>2. n # more => d[n + 1] = c[1]
      BY <1>10, <1>12, <2>1
    <3>3. QED
      BY <1>3, <1>10, <2>1, <3>1, <3>2
  <2>2. CASE n # 1
    <3> DEFINE m == n - 1
    <3>1. m \in 1 .. len /\ d[n] = c[m] /\ c[m] # i /\ c[m] \in Buckets
      BY <1>3, <1>4, <1>11, <1>12, <2>2
    <3>2. u.buckets[c[m]].next = IF m = len THEN NULL ELSE c[m + 1]
      BY <1>7, <1>3, <3>1
    <3>3. m = len <=> n = more
      BY <1>10
    <3>4. n # more => d[n + 1] = c[m + 1]
      BY <1>10, <1>12
    <3>5. QED
      BY <3>1, <3>2, <3>3, <3>4
  <2>3. QED
    BY <2>1, <2>2
<1>15. ASSUME NEW n \in 1 .. more
       PROVE  u.buckets[d[n]].prev = IF n = 1 THEN NULL ELSE d[n - 1]
  <2>1. CASE n = 1
    BY <1>7, <1>12, <2>1
  <2>2. CASE n # 1
    <3> DEFINE m == n - 1
    <3>1. m \in 1 .. len /\ d[n] = c[m] /\ c[m] # i /\ c[m] \in Buckets
      BY <1>3, <1>4, <1>11, <1>12, <2>2
    <3>2. u.buckets[c[m]].prev = IF m = 1 THEN i ELSE c[m - 1]
      <4>1. 1 \in 1 .. len /\ head = c[1]
        BY <1>3, <3>1
      <4>2. c[m] = head <=> m = 1
        BY <1>3, <3>1, <4>1
      <4>3. QED
        BY <1>7, <1>3, <3>1, <4>2
    <3>3. d[n - 1] = IF m = 1 THEN i ELSE c[m - 1]
      BY <1>10, <1>12, <2>2
    <3>4. QED
      BY <2>2, <3>1, <3>2, <3>3
  <2>3. QED
    BY <2>1, <2>2
<1>16. ASSUME NEW m \in 1 .. more, NEW n \in 1 .. more, d[m] = d[n]
       PROVE  m = n
  <2>1. m = 1 <=> n = 1
    BY <1>4, <1>16, <1>11, <1>12
  <2>2. CASE m # 1 /\ n # 1
    <3>1. m - 1 = n - 1
      BY <1>3, <1>16, <1>11, <1>12, <2>2
    <3>2. QED
      BY <3>1
  <2>3. QED
    BY <2>1, <2>2
<1>17. \A n \in 1 .. more :
         /\ u.buckets[d[n]].next = IF n = more THEN NULL ELSE d[n + 1]
         /\ u.buckets[d[n]].prev = IF n = 1 THEN NULL ELSE d[n - 1]
  BY <1>14, <1>15
<1>18. \A m, n \in 1 .. more : d[m] = d[n] => m = n
  BY <1>16
<1>19. more \in Nat /\ d \in [1 .. more -> Buckets]
  BY <1>10, <1>12
<1>20. IsChain(u, h0, d) /\ Len(d) = more
  <2>1. LeadsThrough(u, h0, d, more)
    BY <1>13, <1>17, <1>18, <1>19 DEF LeadsThrough
  <2>2. QED
    BY <1>19, <2>1, ChainIs
<1>21. {d[n] : n \in 1 .. more} = {c[n] : n \in 1 .. len} \cup {i}
  <2>1. \A n \in 1 .. more : d[n] = i \/ \E m \in 1 .. len : d[n] = c[m]
    BY <1>11, <1>12
  <2>2. ASSUME NEW m \in 1 .. len
        PROVE  \E n \in 1 .. more : d[n] = c[m]
    <3>1. m + 1 \in 1 .. more /\ d[m + 1] = c[m]
      BY <1>3, <1>10, <1>12
    <3>2. QED
      BY <3>1
  <2>3. 1 \in 1 .. more /\ d[1] = i
    BY <1>10, <1>12
  <2>4. QED
    BY <2>1, <2>2, <2>3
<1>22. {d[n] : n \in 1 .. Len(d)} = Hashed(t, M, h0) \cup {i}
  BY <1>2, <1>20, <1>21 DEF len
<1>23. QED
  BY <1>6, <1>20, <1>22 DEF u, head, h0

\* A bucket with hash 0 becomes the head of a piece.
LEMMA LinkLoose ==
  ASSUME NEW t \in TableType, NEW M \in SUBSET Buckets, NEW i \in Buckets \ M, Loose(t, M),
         Hash[t.buckets[i].address] = 0
  PROVE  /\ t.heads[0] \in Hashed(t, M, 0) \cup {NULL}
         /\ Loose(LinkAsHead(t, i), M \cup {i})
<1> DEFINE u == LinkAsHead(t, i)
           head == t.heads[0]
           Z == Hashed(t, M, 0)
<1>1. i \notin Z /\ Z \subseteq Buckets /\ 0 \in Hashes /\ NULL \notin Buckets
  BY TableAssumption, DummyIsNoBucket DEF Hashed, TableAssumption
<1>2. /\ head \in Z \cup {NULL}
      /\ head # NULL => t.buckets[head].prev = NULL
      /\ \A j \in Z : /\ t.buckets[j].next \in Z \cup {NULL} /\ t.buckets[j].prev \in Z \cup {NULL}
                      /\ t.buckets[j].next # NULL => t.buckets[t.buckets[j].next].prev = j
                      /\ t.buckets[j].prev # NULL => t.buckets[t.buckets[j].prev].next = j
  BY DEF Loose
<1>3. head # i
  BY <1>1, <1>2
<1>4. /\ SameContents(t, u)
      /\ u.heads[0] = i
      /\ \A j \in Buckets :
           /\ u.buckets[j].next = IF j = i THEN head ELSE t.buckets[j].next
           /\ u.buckets[j].prev = IF j = i THEN NULL ELSE IF j = head THEN i
                                  ELSE t.buckets[j].prev
  BY <1>1, <1>3, LinkWrites
<1>5. Hashed(u, M \cup {i}, 0) = Z \cup {i}
  BY <1>4 DEF Hashed, SameContents
<1> HIDE DEF u, Z, head
<1>6. ASSUME NEW j \in Z \cup {i}
      PROVE  /\ u.buckets[j].next \in Z \cup {i} \cup {NULL}
             /\ u.buckets[j].prev \in Z \cup {i} \cup {NULL}
             /\ u.buckets[j].next # NULL => u.buckets[u.buckets[j].next].prev = j
             /\ u.buckets[j].prev # NULL => u.buckets[u.buckets[j].prev].next = j
  <2>1. CASE j = i
    <3>1. u.buckets[j].next = head /\ u.buckets[j].prev = NULL
      BY <1>4, <2>1
    <3>2. head # NULL => u.buckets[head].prev = i
      BY <1>1, <1>2, <1>3, <1>4
    <3>3. QED
      BY <1>2, <2>1, <3>1, <3>2
  <2>2. CASE j # i
    <3>1. j \in Z /\ j \in Buckets /\ j # NULL
      BY <1>1, <2>2
    <3>2. /\ t.buckets[j].next \in Z \cup {NULL} /\ t.buckets[j].prev \in Z \cup {NULL}
          /\ t.buckets[j].next # NULL => t.buckets[t.buckets[j].next].prev = j
          /\ t.buckets[j].prev # NULL => t.buckets[t.buckets[j].prev].next = j
      BY <1>2, <3>1
    <3>3. u.buckets[j].next = t.buckets[j].next
      BY <1>4, <2>2, <3>1
    <3>4. t.buckets[j].next # NULL => u.buckets[t.buckets[j].next].prev = j
      <4>1. SUFFICES ASSUME t.buckets[j].next # NULL
                     PROVE  u.buckets[t.buckets[j].next].prev = j
        OBVIOUS
      <4>2. t.buckets[j].next \in Buckets /\ t.buckets[j].next # i
        BY <1>1, <3>2, <4>1
      <4>3. t.buckets[j].next # head
        BY <1>2, <3>1, <3>2, <4>1
      <4>4. QED
        BY <1>4, <3>2, <4>1, <4>2, <4>3
    <3>5. CASE j = head
      <4>1. u.buckets[j].prev = i /\ u.buckets[i].next = j
        BY <1>4, <2>2, <3>1, <3>5
      <4>2. QED
        BY <3>2, <3>3, <3>4, <4>1
    <3>6. CASE j # head
      <4>1. u.buckets[j].prev = t.buckets[j].prev
        BY <1>4, <2>2, <3>1, <3>6
      <4>2. t.buckets[j].prev # NULL => u.buckets[t.buckets[j].prev].next = j
        BY <1>1, <1>4, <3>2
      <4>3. QED
        BY <3>2, <3>3, <3>4, <4>1, <4>2
    <3>7. QED
      BY <3>5, <3>6
  <2>3. QED
    BY <2>1, <2>2
<1>7. u.buckets[i].prev = NULL
  BY <1>4
<1>8. Loose(u, M \cup {i})
  BY <1>4, <1>5, <1>6, <1>7 DEF Loose
<1>9. QED
  BY <1>2, <1>8 DEF u, Z, head

LEMMA LinkKeeps ==
  ASSUME NEW t \in TableType, NEW M \in SUBSET Buckets, NEW i \in Buckets \ M,
         Linked(t, M), Loose(t, M)
  PROVE  LET u == LinkAsHead(t, i)
         IN  u \in TableType /\ SameContents(t, u) /\ Linked(u, M \cup {i}) /\ Loose(u, M \cup {i})
<1> DEFINE u == LinkAsHead(t, i)
           h0 == Hash[t.buckets[i].address]
           head == t.heads[h0]
<1>1. h0 \in Hashes
  BY TableAssumption DEF TableType, Bucket, TableAssumption
<1>2. /\ head \in Hashed(t, M, h0) \cup {NULL}
      /\ h0 # 0 => \E d : /\ IsChain(u, h0, d)
                          /\ {d[n] : n \in 1 .. Len(d)} = Hashed(t, M, h0) \cup {i}
      /\ h0 = 0 => Loose(u, M \cup {i})
  <2>1. CASE h0 = 0
    BY <2>1, LinkLoose
  <2>2. CASE h0 # 0
    <3>1. PICK c : IsChain(t, h0, c) /\ {c[n] : n \in 1 .. Len(c)} = Hashed(t, M, h0)
      BY <1>1, <2>2 DEF Linked
    <3>2. QED
      BY <2>2, <3>1, LinkToChain
  <2>3. QED
    BY <2>1, <2>2
<1>5. NULL \notin Buckets
  BY DummyIsNoBucket
<1>6. head # i /\ (head # NULL => head \in Hashed(t, M, h0))
  BY <1>2, <1>5 DEF Hashed
<1>7. /\ u \in TableType /\ SameContents(t, u)
      /\ \A h \in Hashes : u.heads[h] = IF h = h0 THEN i ELSE t.heads[h]
      /\ \A j \in Buckets :
           /\ u.buckets[j].next = IF j = i THEN head ELSE t.buckets[j].next
           /\ u.buckets[j].prev = IF j = i THEN NULL ELSE IF j = head THEN i
                                  ELSE t.buckets[j].prev
  <2>1. head # i /\ i \in Buckets
    BY <1>6
  <2>2. QED
    BY <2>1, LinkWrites
<1>8. \A h : Hashed(u, M \cup {i}, h) = Hashed(t, M, h) \cup (IF h = h0 THEN {i} ELSE {})
  BY <1>7 DEF Hashed, SameContents
<1> HIDE DEF u, h0, head
<1>9. ASSUME NEW h \in Hashes \ {0}, h # h0
       PROVE  \E e : IsChain(u, h, e) /\ {e[n] : n \in 1 .. Len(e)} = Hashed(t, M, h)
  <2>1. PICK e : IsChain(t, h, e) /\ {e[n] : n \in 1 .. Len(e)} = Hashed(t, M, h)
    BY DEF Linked
  <2>2. Hashed(t, M, h) \cap Hashed(t, M, h0) = {}
    BY <1>9 DEF Hashed
  <2>3. \A n \in 1 .. Len(e) : e[n] \in Buckets /\ e[n] \in Hashed(t, M, h)
    BY <2>1, InChainIs
  <2>4. \A n \in 1 .. Len(e) : e[n] # i /\ e[n] # head
    BY <1>5, <1>6, <2>2, <2>3 DEF Hashed
  <2>5. u.heads[h] = t.heads[h]
    BY <1>7, <1>9
  <2>6. IsChain(u, h, e)
    BY <1>7, <2>1, <2>3, <2>4, <2>5, SameChain
  <2>7. QED
    BY <2>1, <2>6
<1>10. ASSUME h0 # 0
       PROVE  Loose(u, M \cup {i})
  <2>1. Hashed(t, M, 0) \cap Hashed(t, M, h0) = {} /\ 0 \in Hashes
    BY <1>10, TableAssumption DEF Hashed, TableAssumption
  <2>2. \A j \in Hashed(t, M, 0) : j \in Buckets /\ j # i /\ j # head
    BY <1>5, <1>6, <2>1 DEF Hashed
  <2>3. Hashed(u, M \cup {i}, 0) = Hashed(t, M, 0)
    BY <1>8, <1>10
  <2>4. u.heads[0] = t.heads[0]
    BY <1>7, <1>10, <2>1
  <2>5. QED
    BY <1>7, <2>2, <2>3, <2>4, SameLoose
<1>11. Linked(u, M \cup {i})
  <2>1. ASSUME NEW h \in Hashes \ {0}
        PROVE  \E e : IsChain(u, h, e) /\ {e[n] : n \in 1 .. Len(e)} = Hashed(u, M \cup {i}, h)
    <3>1. CASE h = h0
      BY <1>2, <1>8, <3>1
    <3>2. CASE h # h0
      BY <1>8, <1>9, <3>2
    <3>3. QED
      BY <3>1, <3>2
  <2>2. QED
    BY <2>1 DEF Linked
<1>12. QED
  BY <1>2, <1>7, <1>10, <1>11 DEF u

LEMMA AssignedKeeps ==
  ASSUME NEW t \in TableType, NEW i \in Buckets, NEW M \in SUBSET (Buckets \ {i}),
         Linked(t, M), Loose(t, M),
         NEW a \in Addresses, NEW rate \in Rate, NEW start \in Buckets
  PROVE  Linked(Assigned(t, i, a, rate, start), M) /\ Loose(Assigned(t, i, a, rate, start), M)
<1> DEFINE u == Assigned(t, i, a, rate, start)
<1>1. /\ u.heads = t.heads
      /\ \A j \in Buckets \cup {Dummy} :
           /\ u.buckets[j].address = IF j = i THEN a ELSE t.buckets[j].address
           /\ u.buckets[j].next = t.buckets[j].next
           /\ u.buckets[j].prev = t.buckets[j].prev
  BY AssignedIs
<1> HIDE DEF u
<1>2. \A h : Hashed(u, M, h) = Hashed(t, M, h)
  BY <1>1 DEF Hashed
<1>3. ASSUME NEW h \in Hashes, NEW c, IsChain(t, h, c)
      PROVE  IsChain(u, h, c)
  <2>1. \A n \in 1 .. Len(c) : c[n] \in Buckets
    BY <1>3, InChainIs
  <2>2. QED
    BY <1>1, <1>3, <2>1, SameChain
<1>4. Loose(u, M)
  <2>1. \A j \in Hashed(t, M, 0) : /\ u.buckets[j].next = t.buckets[j].next
                                   /\ u.buckets[j].prev = t.buckets[j].prev
    BY <1>1 DEF Hashed
  <2>2. QED
    BY <1>1, <1>2, <2>1, SameLoose
<1>5. QED
  BY <1>2, <1>3, <1>4 DEF Linked, u

-----------------------------------------------------------------------------
(* Walking a chain *)

\* The walk goes through the chain and then stays at its end.
LEMMA ChainWalk ==
  ASSUME NEW t, NEW h, NEW c, IsChain(t, h, c)
  PROVE  \A n \in Nat : Chain(t, h)[n] = At(c, n + 1)
<1> DEFINE W == [n \in Nat |-> At(c, n + 1)]
           walk == Chain(t, h)
           Step(f, n) == IF n = 0 THEN t.heads[h]
                         ELSE IF f[n - 1] = NULL THEN NULL ELSE t.buckets[f[n - 1]].next
<1>1. /\ Len(c) \in Nat
      /\ \A n \in 1 .. Len(c) : c[n] \in Buckets
      /\ t.heads[h] = IF Len(c) = 0 THEN NULL ELSE c[1]
      /\ \A n \in 1 .. Len(c) : t.buckets[c[n]].next = IF n = Len(c) THEN NULL ELSE c[n + 1]
  BY InChainIs
<1>2. NULL \notin Buckets
  BY DummyIsNoBucket
<1>3. \A n \in Nat : At(c, n + 1) = IF n < Len(c) THEN c[n + 1] ELSE NULL
  BY <1>1 DEF At
<1>4. ASSUME NEW n \in Nat PROVE W[n] = Step(W, n)
  <2>1. W[n] = At(c, n + 1)
    OBVIOUS
  <2>2. CASE n = 0
    BY <1>1, <1>3, <2>1, <2>2
  <2>3. CASE n # 0
    <3>1. n - 1 \in Nat /\ W[n - 1] = At(c, n)
      BY <2>3
    <3>2. At(c, n) = IF n - 1 < Len(c) THEN c[n] ELSE NULL
      BY <1>1, <2>3 DEF At
    <3>3. CASE n - 1 < Len(c)
      <4>1. n \in 1 .. Len(c)
        BY <1>1, <2>3, <3>3
      <4>2. W[n - 1] = c[n] /\ c[n] # NULL
        BY <1>1, <1>2, <3>1, <3>2, <3>3, <4>1
      <4>3. t.buckets[c[n]].next = At(c, n + 1)
        BY <4>1 DEF IsChain
      <4> HIDE DEF W
      <4>4. QED
        BY <2>1, <2>3, <4>2, <4>3
    <3>4. CASE ~(n - 1 < Len(c))
      <4>1. W[n - 1] = NULL /\ W[n] = NULL
        BY <1>1, <1>3, <2>1, <3>1, <3>2, <3>4
      <4> HIDE DEF W
      <4>2. QED
        BY <2>3, <4>1
    <3>5. QED
      BY <3>3, <3>4
  <2>4. QED
    BY <2>2, <2>3
<1>5. walk = [n \in Nat |-> Step(walk, n)]
  <2>1. walk = CHOOSE f : f = [n \in Nat |-> Step(f, n)]
    BY DEF Chain
  <2>2. W = [n \in Nat |-> Step(W, n)]
    BY <1>4
  <2> HIDE DEF W, walk
  <2>3. QED
    BY <2>1, <2>2
<1> DEFINE S == {n \in Nat : walk[n] # W[n]}
<1>6. SUFFICES ASSUME S # {} PROVE FALSE
  OBVIOUS
<1>7. PICK n \in S : \A m \in S : n <= m
  <2>1. S \subseteq Nat
    OBVIOUS
  <2> HIDE DEF S
  <2>2. QED
    BY <1>6, <2>1, LeastNatural
<1> HIDE DEF W, walk
<1>8. CASE n = 0
  BY <1>4, <1>5, <1>7, <1>8
<1>9. CASE n # 0
  <2>1. n - 1 \in Nat /\ ~(n <= n - 1)
    BY <1>7, <1>9
  <2>2. walk[n - 1] = W[n - 1]
    BY <1>7, <2>1
  <2>3. QED
    BY <1>4, <1>5, <1>7, <1>9, <2>2
<1>10. QED
  BY <1>8, <1>9

\* There are no more different buckets than there are buckets.
LEMMA FewBuckets ==
  ASSUME NEW len \in Nat, NEW c, \A n \in 1 .. len : c[n] \in Buckets,
         \A m, n \in 1 .. len : c[m] = c[n] => m = n
  PROVE  len <= MAX_BUCKETS
<1> DEFINE f == [n \in 1 .. len |-> c[n]]
<1>1. f \in Injection(1 .. len, Buckets)
  BY DEF Injection, IsInjective
<1>2. MAX_BUCKETS \in Nat \ {0}
  BY TableAssumption DEF TableAssumption
<1>3. IsFiniteSet(Buckets) /\ Cardinality(Buckets) = MAX_BUCKETS
  <2>1. 0 \in Int /\ MAX_BUCKETS - 1 \in Int /\ ~(0 > MAX_BUCKETS - 1)
        /\ MAX_BUCKETS - 1 - 0 + 1 = MAX_BUCKETS
    BY <1>2
  <2>2. QED
    BY <2>1, FS_Interval DEF Buckets
<1>4. Cardinality(1 .. len) = len
  <2>1. Cardinality(1 .. len) = IF 1 > len THEN 0 ELSE len - 1 + 1
    BY FS_Interval
  <2>2. QED
    BY <2>1
<1>5. Cardinality(1 .. len) <= Cardinality(Buckets)
  BY <1>1, <1>3, FS_Injection
<1>6. QED
  BY <1>3, <1>4, <1>5

\* A chain is no longer than there are buckets.
LEMMA ChainLength ==
  ASSUME NEW t, NEW h, NEW c, IsChain(t, h, c)
  PROVE  Len(c) \in Nat /\ Len(c) <= MAX_BUCKETS
<1>1. /\ Len(c) \in Nat
      /\ \A n \in 1 .. Len(c) : c[n] \in Buckets
      /\ \A m, n \in 1 .. Len(c) : c[m] = c[n] => m = n
  BY InChainIs
<1>2. QED
  BY <1>1, FewBuckets

\* The first buckets that the head of chain 0 leads to.
Path(t, Z, c, len) ==
  /\ c \in [1 .. len -> Z]
  /\ len # 0 => t.heads[0] = c[1]
  /\ \A n \in 1 .. len : t.buckets[c[n]].prev = IF n = 1 THEN NULL ELSE c[n - 1]
  /\ \A n \in 1 .. len : n # len => t.buckets[c[n]].next = c[n + 1]

\* They never lead back: where they met first, the predecessors would differ.
LEMMA PathEnds ==
  ASSUME NEW t, NEW Z \in SUBSET Buckets, NEW len \in Nat, NEW c, Path(t, Z, c, len)
  PROVE  /\ \A m, n \in 1 .. len : c[m] = c[n] => m = n
         /\ len <= MAX_BUCKETS
<1>1. /\ c \in [1 .. len -> Z]
      /\ \A n \in 1 .. len : t.buckets[c[n]].prev = IF n = 1 THEN NULL ELSE c[n - 1]
  BY DEF Path
<1>2. NULL \notin Z
  BY DummyIsNoBucket
<1> DEFINE S == {m \in 1 .. len : \E n \in 1 .. len : m < n /\ c[m] = c[n]}
<1>3. ASSUME S # {} PROVE FALSE
  <2>1. PICK m \in S : \A k \in S : m <= k
    <3>1. S \subseteq Nat
      OBVIOUS
    <3> HIDE DEF S
    <3>2. QED
      BY <1>3, <3>1, LeastNatural
  <2>2. PICK n \in 1 .. len : m < n /\ c[m] = c[n]
    BY <2>1
  <2>3. m \in 1 .. len /\ n - 1 \in 1 .. len /\ n # 1 /\ c[n - 1] \in Z
    BY <1>1, <2>1, <2>2
  <2>4. t.buckets[c[m]].prev = c[n - 1] /\ c[n - 1] # NULL
    BY <1>1, <1>2, <2>2, <2>3
  <2>5. m # 1 /\ c[m - 1] = c[n - 1]
    BY <1>1, <2>3, <2>4
  <2>6. m - 1 \in 1 .. len /\ m - 1 < n - 1 /\ ~(m <= m - 1)
    BY <2>2, <2>3, <2>5
  <2>7. m - 1 \in S
    BY <2>3, <2>5, <2>6
  <2> HIDE DEF S
  <2>8. QED
    BY <2>1, <2>6, <2>7
<1>4. \A m, n \in 1 .. len : c[m] = c[n] => m = n
  <2>1. \A m, n \in 1 .. len : m < n => c[m] # c[n]
    BY <1>3
  <2>2. QED
    BY <2>1
<1>5. \A n \in 1 .. len : c[n] \in Buckets
  BY <1>1
<1>6. QED
  BY <1>4, <1>5, FewBuckets

\* The longest path ends in nothing, so chain 0 is a chain, although it need
\* not have every bucket with hash 0.
LEMMA LooseChain ==
  ASSUME NEW t, NEW M \in SUBSET Buckets, Loose(t, M)
  PROVE  \E c : IsChain(t, 0, c) /\ \A n \in 1 .. Len(c) : c[n] \in Hashed(t, M, 0)
<1> DEFINE Z == Hashed(t, M, 0)
           S == {k \in 0 .. MAX_BUCKETS : \E c : Path(t, Z, c, MAX_BUCKETS - k)}
<1>1. /\ t.heads[0] \in Z \cup {NULL}
      /\ t.heads[0] # NULL => t.buckets[t.heads[0]].prev = NULL
      /\ \A i \in Z : /\ t.buckets[i].next \in Z \cup {NULL}
                      /\ t.buckets[i].next # NULL => t.buckets[t.buckets[i].next].prev = i
  BY DEF Loose
<1>2. Z \in SUBSET Buckets /\ MAX_BUCKETS \in Nat /\ NULL \notin Z
  BY TableAssumption, DummyIsNoBucket DEF Hashed, TableAssumption
<1> HIDE DEF Z
<1>3. ASSUME NEW len \in Nat, NEW c, Path(t, Z, c, len) PROVE MAX_BUCKETS - len \in S
  <2>1. len <= MAX_BUCKETS
    BY <1>2, <1>3, PathEnds
  <2>2. MAX_BUCKETS - len \in 0 .. MAX_BUCKETS /\ MAX_BUCKETS - (MAX_BUCKETS - len) = len
    BY <1>2, <2>1
  <2>3. QED
    BY <1>3, <2>2
<1>4. S # {}
  <2>1. Path(t, Z, <<>>, 0)
    BY DEF Path
  <2>2. QED
    BY <1>3, <2>1
<1>5. PICK least \in S : \A k \in S : least <= k
  <2>1. S \subseteq Nat
    BY <1>2
  <2> HIDE DEF S
  <2>2. QED
    BY <1>4, <2>1, LeastNatural
<1> DEFINE len == MAX_BUCKETS - least
<1>6. PICK c : Path(t, Z, c, len)
  BY <1>5
<1>7. len \in Nat
  BY <1>2, <1>5
<1>8. ~\E d : Path(t, Z, d, len + 1)
  <2>1. SUFFICES ASSUME NEW d, Path(t, Z, d, len + 1) PROVE FALSE
    OBVIOUS
  <2>2. MAX_BUCKETS - (len + 1) \in S /\ least \in Nat
    BY <1>3, <1>7, <2>1
  <2>3. MAX_BUCKETS - (len + 1) < least
    BY <1>2, <2>2
  <2> HIDE DEF S, len
  <2>4. QED
    BY <1>2, <1>5, <1>7, <2>2, <2>3
<1> HIDE DEF len, S
<1>9. /\ c \in [1 .. len -> Z]
      /\ len # 0 => t.heads[0] = c[1]
      /\ \A n \in 1 .. len : t.buckets[c[n]].prev = IF n = 1 THEN NULL ELSE c[n - 1]
      /\ \A n \in 1 .. len : n # len => t.buckets[c[n]].next = c[n + 1]
  BY <1>6 DEF Path
<1>10. ASSUME NEW j \in Z, t.buckets[j].prev = IF len = 0 THEN NULL ELSE c[len],
              IF len = 0 THEN t.heads[0] = j ELSE t.buckets[c[len]].next = j
       PROVE  FALSE
  <2> DEFINE more == len + 1
             d == [n \in 1 .. more |-> IF n = more THEN j ELSE c[n]]
  <2>1. more \in Nat /\ more # 0 /\ len = more - 1
    BY <1>7
  <2>2. \A n \in 1 .. more : n # more => n \in 1 .. len
    BY <1>7
  <2> HIDE DEF more
  <2>3. d \in [1 .. more -> Z] /\ \A n \in 1 .. more : d[n] = IF n = more THEN j ELSE c[n]
    BY <1>9, <2>2
  <2> HIDE DEF d
  <2>4. t.heads[0] = d[1]
    BY <1>9, <1>10, <2>1, <2>3
  <2>5. \A n \in 1 .. more : t.buckets[d[n]].prev = IF n = 1 THEN NULL ELSE d[n - 1]
    <3>1. SUFFICES ASSUME NEW n \in 1 .. more
                   PROVE  t.buckets[d[n]].prev = IF n = 1 THEN NULL ELSE d[n - 1]
      OBVIOUS
    <3>2. n # 1 => n - 1 \in 1 .. more /\ n - 1 # more
      BY <2>1
    <3>3. CASE n = more
      BY <1>10, <2>1, <2>3, <3>2, <3>3
    <3>4. CASE n # more
      BY <1>9, <2>2, <2>3, <3>2, <3>4
    <3>5. QED
      BY <3>3, <3>4
  <2>6. \A n \in 1 .. more : n # more => t.buckets[d[n]].next = d[n + 1]
    <3>1. SUFFICES ASSUME NEW n \in 1 .. more, n # more PROVE t.buckets[d[n]].next = d[n + 1]
      OBVIOUS
    <3>2. n \in 1 .. len /\ n + 1 \in 1 .. more /\ (n = len <=> n + 1 = more)
      BY <2>1, <2>2, <3>1
    <3>3. d[n] = c[n] /\ d[n + 1] = IF n = len THEN j ELSE c[n + 1]
      BY <2>3, <3>1, <3>2
    <3>4. len # 0
      BY <3>2
    <3>5. QED
      BY <1>9, <1>10, <3>2, <3>3, <3>4
  <2>7. Path(t, Z, d, more)
    BY <2>3, <2>4, <2>5, <2>6 DEF Path
  <2>8. QED
    BY <1>8, <2>7 DEF more
<1>11. t.heads[0] = IF len = 0 THEN NULL ELSE c[1]
  BY <1>1, <1>9, <1>10
<1>12. \A n \in 1 .. len : t.buckets[c[n]].next = IF n = len THEN NULL ELSE c[n + 1]
  <2>1. ASSUME len # 0 PROVE t.buckets[c[len]].next = NULL
    <3>1. c[len] \in Z
      BY <1>7, <1>9, <2>1
    <3>2. QED
      BY <1>1, <1>10, <2>1, <3>1
  <2>2. QED
    BY <1>7, <1>9, <2>1
<1>13. \A m, n \in 1 .. len : c[m] = c[n] => m = n
  BY <1>2, <1>6, <1>7, PathEnds
<1>14. c \in [1 .. len -> Buckets]
  BY <1>2, <1>9
<1>15. LeadsThrough(t, 0, c, len)
  BY <1>9, <1>11, <1>12, <1>13, <1>14 DEF LeadsThrough
<1>16. IsChain(t, 0, c) /\ Len(c) = len
  BY <1>7, <1>15, ChainIs
<1>17. QED
  BY <1>9, <1>16 DEF Z

\* Every chain is one, and all but chain 0 have every bucket with their hash.
LEMMA AnyChain ==
  ASSUME NEW t, TableOK(t), NEW h \in Hashes
  PROVE  \E c : /\ IsChain(t, h, c)
                /\ \A n \in 1 .. Len(c) : c[n] \in Hashed(t, Buckets, h)
                /\ h # 0 => {c[n] : n \in 1 .. Len(c)} = Hashed(t, Buckets, h)
<1>1. CASE h = 0
  BY <1>1, LooseChain DEF TableOK
<1>2. CASE h # 0
  <2>1. PICK c : IsChain(t, h, c) /\ {c[n] : n \in 1 .. Len(c)} = Hashed(t, Buckets, h)
    BY <1>2 DEF TableOK, Linked
  <2>2. QED
    BY <2>1
<1>3. QED
  BY <1>1, <1>2

\* An address whose chain is walked to the end without a stop has no bucket,
\* if its chain is not chain 0; one that stops, stops in a bucket of its chain.
LEMMA StopsIs ==
  ASSUME NEW t, TableOK(t), NEW a \in Addresses
  PROVE  /\ Stops(t, a) \in SUBSET Nat
         /\ Stops(t, a) = {} /\ a \in Apart => Owned(t, a) = {}
         /\ \A n \in Stops(t, a) :
              LET found == Chain(t, Hash[a])[n]
              IN  /\ found \in Buckets /\ Hash[t.buckets[found].address] = Hash[a]
                  /\ t.buckets[found].address \in {a} \cup LocalAddresses
<1> DEFINE h == Hash[a]
           chain == Chain(t, h)
<1>1. h \in Hashes /\ MAX_BUCKETS \in Nat
  BY TableAssumption DEF TableAssumption
<1>2. PICK c : /\ IsChain(t, h, c)
               /\ \A n \in 1 .. Len(c) : c[n] \in Hashed(t, Buckets, h)
               /\ h # 0 => {c[n] : n \in 1 .. Len(c)} = Hashed(t, Buckets, h)
  BY <1>1, AnyChain
<1>3. /\ Len(c) \in Nat /\ Len(c) <= MAX_BUCKETS
      /\ \A n \in 1 .. Len(c) : c[n] \in Buckets
  BY <1>2, ChainLength, InChainIs
<1>4. \A n \in Nat : chain[n] = At(c, n + 1)
  BY <1>2, ChainWalk
<1>5. \A n \in Nat : chain[n] # NULL => n + 1 \in 1 .. Len(c) /\ chain[n] = c[n + 1]
  BY <1>4 DEF At
<1>6. NULL \notin Buckets
  BY DummyIsNoBucket
<1> HIDE DEF h, chain
<1>7. Stops(t, a) = {n \in 0 .. MAX_BUCKETS : chain[n] # NULL /\
                       t.buckets[chain[n]].address \in {a} \cup LocalAddresses}
  BY DEF Stops, chain, h
<1>8. ASSUME a \in Apart, NEW i \in Owned(t, a)
      PROVE  \E n \in 0 .. MAX_BUCKETS : n \in Stops(t, a)
  <2>1. i \in Hashed(t, Buckets, h) /\ h # 0
    BY <1>8 DEF Owned, Hashed, h, Apart
  <2>2. PICK k \in 1 .. Len(c) : c[k] = i
    BY <1>2, <2>1
  <2>3. k - 1 \in Nat /\ k - 1 \in 0 .. MAX_BUCKETS /\ k - 1 + 1 = k
    BY <1>1, <1>3
  <2>4. chain[k - 1] = i
    <3>1. chain[k - 1] = At(c, k)
      BY <1>4, <2>3
    <3>2. QED
      BY <2>2, <3>1 DEF At
  <2>5. chain[k - 1] # NULL /\ t.buckets[chain[k - 1]].address = a
    BY <1>6, <2>4 DEF Owned
  <2>6. QED
    BY <1>7, <2>3, <2>5
<1>9. ASSUME NEW n \in Stops(t, a)
      PROVE  /\ chain[n] \in Buckets /\ Hash[t.buckets[chain[n]].address] = h
             /\ t.buckets[chain[n]].address \in {a} \cup LocalAddresses
  <2>1. n \in Nat /\ chain[n] # NULL
    BY <1>1, <1>7
  <2>2. chain[n] \in Hashed(t, Buckets, h)
    BY <1>2, <1>5, <2>1
  <2>3. QED
    BY <1>7, <2>2 DEF Hashed
<1>10. QED
  BY <1>1, <1>7, <1>8, <1>9 DEF chain, h

\* Recycling looks at every bucket.
LEMMA RecycledIs ==
  ASSUME NEW t \in TableType
  PROVE  LET new == Recycled(t)
         IN  \/ new \in Buckets /\ MayRecycle(t.buckets[new])
             \/ new = NULL /\ \A i \in Buckets : ~MayRecycle(t.buckets[i])
<1> DEFINE N == MAX_BUCKETS
           at(n) == (t.start + n) % N
           free == {n \in Buckets : MayRecycle(t.buckets[at(n)])}
           new == Recycled(t)
<1>1. N \in Nat \ {0} /\ t.start \in 0 .. N - 1 /\ Buckets = 0 .. N - 1
  BY TableAssumption DEF TableAssumption, TableType, Buckets
<1> HIDE DEF N
<1>2. \A n \in Buckets : at(n) \in Buckets
  BY <1>1
<1>3. ASSUME NEW i \in Buckets
      PROVE  \E n \in Buckets : at(n) = i
  <2>1. CASE i >= t.start
    <3>1. i - t.start \in Buckets /\ t.start + (i - t.start) = i /\ i % N = i
      BY <1>1, <2>1
    <3>2. QED
      BY <3>1
  <2>2. CASE i < t.start
    <3> DEFINE n == i + N - t.start
    <3>1. n \in Buckets /\ t.start + n = N + i
      BY <1>1, <2>2
    <3>2. (N + i) % N = i
      BY <1>1
    <3>3. QED
      BY <3>1, <3>2
  <2>3. QED
    BY <1>1, <2>1, <2>2
<1>4. new = IF free = {} THEN NULL ELSE at(Min(free))
  BY DEF Recycled, N
<1>5. free \subseteq Nat /\ free \subseteq Buckets
  BY <1>1
<1>6. free # {} => Min(free) \in free
  <2>1. free # {} => \E n \in free : \A m \in free : n <= m
    <3> HIDE DEF free
    <3>1. QED
      BY <1>5, LeastNatural
  <2> HIDE DEF free
  <2>2. QED
    BY <2>1 DEF Min
<1>7. free # {} => at(Min(free)) \in Buckets /\ MayRecycle(t.buckets[at(Min(free))])
  BY <1>2, <1>6
<1>8. free = {} => \A i \in Buckets : ~MayRecycle(t.buckets[i])
  BY <1>3
<1> HIDE DEF free, new
<1>9. QED
  BY <1>4, <1>7, <1>8 DEF new

-----------------------------------------------------------------------------
(* Finding the bucket of an address *)

\* Bucket b of table u is that of a, where it was in table t: found there, or
\* given to a anew.
FoundIn(t, u, b, a) ==
  /\ b \in Owned(t, a) /\ SameContents(t, u)

GivenTo(t, u, b, a) ==
  /\ b \in Buckets /\ MayRecycle(t.buckets[b])
  /\ a \in Apart => Owned(t, a) = {}
  /\ u.buckets[b].address = a /\ u.buckets[b].rate = Fresh
  /\ \A j \in Buckets \cup {Dummy} :
       j # b => u.buckets[j].address = t.buckets[j].address
                /\ u.buckets[j].rate = t.buckets[j].rate

LEMMA RatesAreRates ==
  /\ MaxBurst \in Nat /\ Burst \in Nat \ {0} /\ Period \in Nat \ {0} /\ MaxToxic \in Nat \ {0}
  /\ Burst <= MaxBurst
  /\ (MaxBurst + 1) * Period \in Nat /\ Period <= (MaxBurst + 1) * Period
  /\ Fresh \in Rate /\ Forgotten \in Rate
<1>1. MaxBurst \in Nat /\ Burst \in Nat \ {0} /\ Period \in Nat \ {0} /\ MaxToxic \in Nat \ {0}
      /\ Burst <= MaxBurst
  BY BucketAssumption DEF BucketAssumption, MaxBurst
<1>2. (MaxBurst + 1) * Period \in Nat /\ Period <= (MaxBurst + 1) * Period
  BY <1>1
<1>3. QED
  BY <1>1, <1>2 DEF Fresh, Forgotten, Rate

LEMMA OccupiedIs ==
  ASSUME NEW t, TableOK(t), NEW a \in Addresses, NEW i \in Buckets,
         MayRecycle(t.buckets[i]), a \in Apart => Owned(t, a) = {}
  PROVE  TableOK(Occupied(t, i, a)) /\ GivenTo(t, Occupied(t, i, a), i, a)
<1> DEFINE t0 == Unlink(t, i)
           start == (i + 1) % MAX_BUCKETS
           t1 == Assigned(t0, i, a, Fresh, start)
           u == LinkAsHead(t1, i)
           M == Buckets \ {i}
<1>1. Occupied(t, i, a) = u
  BY DEF Occupied, Assigned
<1>2. start \in Buckets /\ Fresh \in Rate
  BY TableAssumption, RatesAreRates DEF TableAssumption, Buckets
<1>3. t \in TableType /\ Linked(t, Buckets) /\ Loose(t, Buckets) /\ Unique(t)
  BY DEF TableOK
<1>4. t0 \in TableType /\ SameContents(t, t0) /\ Linked(t0, M) /\ Loose(t0, M)
  BY <1>3, UnlinkKeeps
<1> HIDE DEF t0, start
<1>5. /\ t1 \in TableType
      /\ \A j \in Buckets \cup {Dummy} :
           /\ t1.buckets[j].address = IF j = i THEN a ELSE t0.buckets[j].address
           /\ t1.buckets[j].rate = IF j = i THEN Fresh ELSE t0.buckets[j].rate
  BY <1>2, <1>4, AssignedIs
<1>6. Linked(t1, M) /\ Loose(t1, M)
  <2>1. M \in SUBSET (Buckets \ {i})
    OBVIOUS
  <2>2. QED
    BY <1>2, <1>4, <2>1, AssignedKeeps
<1> HIDE DEF t1
<1>7. M \in SUBSET Buckets /\ i \in Buckets \ M /\ M \cup {i} = Buckets
  OBVIOUS
<1> HIDE DEF M
<1>8. u \in TableType /\ SameContents(t1, u) /\ Linked(u, Buckets) /\ Loose(u, Buckets)
  BY <1>5, <1>6, <1>7, LinkKeeps
<1> HIDE DEF u
<1>9. \A j \in Buckets \cup {Dummy} :
         /\ u.buckets[j].address = IF j = i THEN a ELSE t.buckets[j].address
         /\ u.buckets[j].rate = IF j = i THEN Fresh ELSE t.buckets[j].rate
  BY <1>4, <1>5, <1>8 DEF SameContents
<1>10. Hash[a] # 0 => Owned(t, a) = {}
  BY DEF Apart
<1>11. Unique(u)
  BY <1>3, <1>9, <1>10 DEF Unique, Owned
<1>12. TableOK(u)
  BY <1>8, <1>11 DEF TableOK
<1>13. GivenTo(t, u, i, a)
  BY <1>9 DEF GivenTo
<1>14. QED
  BY <1>1, <1>12, <1>13

LEMMA MovedIs ==
  ASSUME NEW t, TableOK(t), NEW i \in Buckets
  PROVE  LET u == LinkAsHead(Unlink(t, i), i) IN TableOK(u) /\ SameContents(t, u)
<1> DEFINE t0 == Unlink(t, i)
           u == LinkAsHead(t0, i)
           M == Buckets \ {i}
<1>1. t \in TableType /\ Linked(t, Buckets) /\ Loose(t, Buckets) /\ Unique(t)
  BY DEF TableOK
<1>2. t0 \in TableType /\ SameContents(t, t0) /\ Linked(t0, M) /\ Loose(t0, M)
  BY <1>1, UnlinkKeeps
<1> HIDE DEF t0
<1>3. M \in SUBSET Buckets /\ i \in Buckets \ M /\ M \cup {i} = Buckets
  OBVIOUS
<1> HIDE DEF M
<1>4. u \in TableType /\ SameContents(t0, u) /\ Linked(u, Buckets) /\ Loose(u, Buckets)
  BY <1>2, <1>3, LinkKeeps
<1> HIDE DEF u
<1>5. SameContents(t, u)
  BY <1>2, <1>4 DEF SameContents
<1>6. Unique(u)
  BY <1>1, <1>5 DEF Unique, SameContents
<1>7. QED
  BY <1>4, <1>5, <1>6 DEF TableOK, u, t0

\* The table stays one, and nobody but the caller and, if the bucket is
\* recycled, one other address can tell the difference.
LEMMA BucketFor ==
  ASSUME NEW t, TableOK(t), NEW a \in Addresses
  PROVE  LET u == BucketForAddress(t, a).table
             b == BucketForAddress(t, a).bucket
         IN  /\ TableOK(u)
             /\ \/ b = NULL /\ u = t /\ (a \in Apart => Owned(t, a) = {})
                   /\ \A i \in Buckets : ~MayRecycle(t.buckets[i])
                \/ b = Dummy /\ u = t /\ a \notin Apart
                \/ FoundIn(t, u, b, a)
                \/ GivenTo(t, u, b, a)
<1> DEFINE n == Min(Stops(t, a))
           found == Chain(t, Hash[a])[n]
           new == Recycled(t)
           got == BucketForAddress(t, a)
<1>1. /\ Stops(t, a) \in SUBSET Nat
      /\ Stops(t, a) = {} /\ a \in Apart => Owned(t, a) = {}
      /\ \A m \in Stops(t, a) :
           LET other == Chain(t, Hash[a])[m]
           IN  /\ other \in Buckets /\ Hash[t.buckets[other].address] = Hash[a]
               /\ t.buckets[other].address \in {a} \cup LocalAddresses
  BY StopsIs
<1>2. CASE Stops(t, a) = {}
  <2>1. got = [table |-> IF new = NULL THEN t ELSE Occupied(t, new, a), bucket |-> new]
    BY <1>2 DEF BucketForAddress
  <2>2. CASE new = NULL
    <3>1. \A i \in Buckets : ~MayRecycle(t.buckets[i])
      BY <2>2, RecycledIs, DummyIsNoBucket DEF TableOK
    <3>2. got.table = t /\ got.bucket = NULL
      BY <2>1, <2>2
    <3>3. QED
      BY <1>1, <1>2, <3>1, <3>2
  <2>3. CASE new # NULL
    <3>1. new \in Buckets /\ MayRecycle(t.buckets[new])
      BY <2>3, RecycledIs DEF TableOK
    <3>2. TableOK(Occupied(t, new, a)) /\ GivenTo(t, Occupied(t, new, a), new, a)
      BY <1>1, <1>2, <3>1, OccupiedIs
    <3>3. got.table = Occupied(t, new, a) /\ got.bucket = new
      BY <2>1, <2>3
    <3>4. QED
      BY <3>2, <3>3
  <2>4. QED
    BY <2>2, <2>3
<1>3. CASE Stops(t, a) # {}
  <2>1. n \in Stops(t, a)
    <3>1. \E k \in Stops(t, a) : \A m \in Stops(t, a) : k <= m
      BY <1>1, <1>3, LeastNatural
    <3>2. QED
      BY <3>1 DEF Min
  <2>2. /\ found \in Buckets /\ Hash[t.buckets[found].address] = Hash[a]
        /\ t.buckets[found].address \in {a} \cup LocalAddresses
    BY <1>1, <2>1
  <2>3. CASE t.buckets[found].address \in LocalAddresses
    <3>1. got = [table |-> t, bucket |-> Dummy]
      BY <1>3, <2>3 DEF BucketForAddress
    <3>2. a \notin Apart
      BY <2>2, <2>3, TableAssumption DEF Apart, TableAssumption
    <3>3. QED
      BY <3>1, <3>2
  <2>4. CASE t.buckets[found].address \notin LocalAddresses
    <3> DEFINE moved == IF n > RelinkBehind THEN LinkAsHead(Unlink(t, found), found) ELSE t
    <3>1. got = [table |-> moved, bucket |-> found]
      BY <1>3, <2>4 DEF BucketForAddress
    <3>2. found \in Owned(t, a)
      BY <2>2, <2>4 DEF Owned
    <3>3. TableOK(moved) /\ SameContents(t, moved)
      BY <2>2, MovedIs DEF SameContents
    <3> HIDE DEF moved, found
    <3>4. QED
      BY <3>1, <3>2, <3>3 DEF FoundIn
  <2>5. QED
    BY <2>3, <2>4
<1>4. QED
  BY <1>2, <1>3

-----------------------------------------------------------------------------
(* The arithmetic of a rate *)

LEMMA LeakedIs ==
  ASSUME NEW r \in Rate
  PROVE  /\ Leaked(r) \in Rate /\ Leaked(r).toxic = r.toxic /\ Leaked(r).age < Period
         /\ \A n \in Nat : Holds(r, n) => Holds(Leaked(r), n)
<1> DEFINE age == r.age
           burst == r.burst
           expired == age \div Period
           l == Leaked(r)
<1>1. /\ age \in Nat /\ burst \in Nat /\ burst <= MaxBurst /\ r.toxic \in 0 .. MaxToxic
  BY RatesAreRates DEF Rate
<1>2. MaxBurst \in Nat /\ Period \in Nat \ {0} /\ (MaxBurst + 1) * Period \in Nat
      /\ Period <= (MaxBurst + 1) * Period
  BY RatesAreRates
<1>3. /\ expired > burst => l = [r EXCEPT !.age = 0, !.burst = 0]
      /\ ~(expired > burst) => l = [r EXCEPT !.age = age % Period, !.burst = burst - expired]
  BY DEF Leaked, Rate
<1> HIDE DEF age, burst, l
<1>4. /\ expired \in Nat /\ age % Period \in 0 .. Period - 1
      /\ age = (Period * expired) + (age % Period)
  BY <1>1, <1>2, Division
<1> HIDE DEF expired
<1>5. CASE expired > burst
  <2>1. l.age = 0 /\ l.burst = 0 /\ l.toxic = r.toxic
    BY <1>3, <1>5 DEF Rate
  <2>2. l \in Rate
    <3>1. 0 \in 0 .. (MaxBurst + 1) * Period /\ 0 \in 0 .. MaxBurst
      BY <1>2
    <3>2. QED
      BY <1>3, <1>5, <3>1 DEF Rate
  <2>3. ASSUME NEW n \in Nat, Holds(r, n)
        PROVE  n = 0
    <3>1. SUFFICES ASSUME n # 0, n + age < (burst + 1) * Period PROVE FALSE
      BY <2>3 DEF Holds, age, burst
    <3>2. expired >= burst + 1
      BY <1>1, <1>4, <1>5
    <3>3. Period * expired >= Period * (burst + 1)
      BY <1>1, <1>2, <1>4, <3>2
    <3>4. (burst + 1) * Period = Period * (burst + 1) /\ Period * (burst + 1) \in Nat
          /\ Period * expired \in Nat
      BY <1>1, <1>2, <1>4
    <3>5. QED
      BY <1>1, <1>4, <3>1, <3>3, <3>4
  <2>4. QED
    BY <1>2, <2>1, <2>2, <2>3 DEF Holds, l
<1>6. CASE ~(expired > burst)
  <2>1. l.age = age % Period /\ l.burst = burst - expired /\ l.toxic = r.toxic
    BY <1>3, <1>6 DEF Rate
  <2>2. l.age \in 0 .. Period - 1 /\ l.burst \in 0 .. MaxBurst
    BY <1>1, <1>2, <1>4, <1>6, <2>1
  <2>3. l \in Rate
    <3> DEFINE x == age % Period
               y == burst - expired
    <3>1. x \in 0 .. (MaxBurst + 1) * Period /\ y \in 0 .. MaxBurst
      BY <1>2, <2>1, <2>2
    <3>2. l = [r EXCEPT !.age = x, !.burst = y]
      BY <1>3, <1>6
    <3> HIDE DEF x, y
    <3>3. QED
      BY <3>1, <3>2 DEF Rate
  <2>4. ASSUME NEW n \in Nat, n + age < (burst + 1) * Period
        PROVE  n + l.age < (l.burst + 1) * Period
    <3>1. (l.burst + 1) * Period = (burst + 1) * Period - (Period * expired)
      BY <1>1, <1>2, <1>4, <2>1
    <3>2. (burst + 1) * Period \in Int /\ Period * expired \in Int
      BY <1>1, <1>2, <1>4
    <3>3. QED
      BY <1>1, <1>4, <2>1, <2>4, <3>1, <3>2
  <2>5. \A n \in Nat : Holds(r, n) => Holds(l, n)
    BY <2>4 DEF Holds, age, burst
  <2>6. l.age < Period
    BY <1>2, <2>2
  <2>7. QED
    BY <2>1, <2>3, <2>5, <2>6 DEF l
<1>7. QED
  BY <1>5, <1>6

LEMMA ChargedIs ==
  ASSUME NEW r \in Rate
  PROVE  /\ Charged(r) \in Rate /\ Charged(r).toxic = r.toxic
         /\ Limited(r) => Charged(r) = Leaked(r)
         /\ ~Limited(r) =>
              /\ Charged(r) = [Leaked(r) EXCEPT !.burst = Leaked(r).burst + 1]
              /\ Refunded(Charged(r)) = Leaked(r)
              /\ \A n \in Nat : Holds(r, n) => /\ Holds(Charged(r), n + Period)
                                               /\ n + Period < (Burst + 1) * Period
<1> DEFINE l == Leaked(r)
           c == Charged(r)
<1>1. l \in Rate /\ l.toxic = r.toxic /\ l.age < Period /\ \A n \in Nat : Holds(r, n) => Holds(l, n)
  BY LeakedIs
<1>2. /\ Limited(r) <=> l.burst >= Burst
      /\ Limited(r) => c = l
      /\ ~Limited(r) => c = [l EXCEPT !.burst = l.burst + 1]
  BY DEF Limited, Charged
<1> HIDE DEF l, c
<1>3. MaxBurst \in Nat /\ Burst \in Nat \ {0} /\ Period \in Nat \ {0} /\ Burst <= MaxBurst
  BY RatesAreRates
<1>4. l.age \in Nat /\ l.burst \in 0 .. MaxBurst /\ l.toxic \in 0 .. MaxToxic
      /\ l.age \in 0 .. (MaxBurst + 1) * Period
  <2>1. (MaxBurst + 1) * Period \in Nat
    BY RatesAreRates
  <2>2. l.age \in 0 .. (MaxBurst + 1) * Period /\ l.burst \in 0 .. MaxBurst
        /\ l.toxic \in 0 .. MaxToxic
    BY <1>1 DEF Rate
  <2>3. QED
    BY <2>1, <2>2
<1>5. CASE Limited(r)
  BY <1>1, <1>2, <1>5 DEF l, c
<1>6. CASE ~Limited(r)
  <2> DEFINE b == l.burst + 1
  <2>1. l.burst < Burst /\ b \in 0 .. MaxBurst /\ b <= Burst /\ b > 0 /\ b - 1 = l.burst
    BY <1>2, <1>3, <1>4, <1>6
  <2>2. c = [l EXCEPT !.burst = b]
    BY <1>2, <1>6
  <2>3. c \in Rate /\ c.burst = b /\ c.age = l.age /\ c.toxic = l.toxic
    <3> HIDE DEF b
    <3>1. QED
      BY <1>1, <2>1, <2>2 DEF Rate
  <2>4. Refunded(c) = l
    <3>1. Refunded(c) = [c EXCEPT !.burst = l.burst]
      BY <2>1, <2>3 DEF Refunded
    <3> HIDE DEF b
    <3>2. QED
      BY <1>1, <2>2, <3>1 DEF Rate
  <2>5. ASSUME NEW n \in Nat, Holds(r, n)
        PROVE  Holds(c, n + Period) /\ n + Period < (Burst + 1) * Period
    <3>1. Holds(l, n)
      BY <1>1, <2>5
    <3>2. (b + 1) * Period = (l.burst + 1) * Period + Period
      BY <1>3, <1>4
    <3>3. (l.burst + 1) * Period \in Nat /\ (l.burst + 1) * Period >= Period
      BY <1>3, <1>4
    <3>4. n + Period + l.age < (b + 1) * Period
      <4>1. CASE n = 0
        BY <1>1, <1>3, <1>4, <3>2, <3>3, <4>1
      <4>2. CASE n + l.age < (l.burst + 1) * Period
        BY <1>3, <1>4, <3>2, <3>3, <4>2
      <4>3. QED
        BY <3>1, <4>1, <4>2 DEF Holds
    <3>5. (b + 1) * Period <= (Burst + 1) * Period
      BY <1>3, <1>4, <2>1
    <3>6. (b + 1) * Period \in Nat /\ (Burst + 1) * Period \in Nat
      BY <1>3, <1>4
    <3>7. n + Period < (Burst + 1) * Period
      BY <1>3, <1>4, <3>4, <3>5, <3>6
    <3>8. QED
      BY <2>3, <3>4, <3>7 DEF Holds
  <2>6. QED
    BY <1>1, <1>6, <2>2, <2>3, <2>4, <2>5 DEF c, l
<1>7. QED
  BY <1>5, <1>6

LEMMA ForgivenIs ==
  ASSUME NEW r \in Rate
  PROVE  /\ Forgiven(r) \in Rate /\ Forgiven(r).age = r.age /\ Forgiven(r).burst = r.burst
         /\ Forgiven(r).toxic = IF r.toxic > 0 THEN r.toxic - 1 ELSE r.toxic
<1>1. CASE r.toxic > 0
  <2>1. Forgiven(r) = [r EXCEPT !.toxic = r.toxic - 1]
    BY <1>1 DEF Forgiven
  <2>2. r.toxic - 1 \in 0 .. MaxToxic
    BY <1>1, RatesAreRates DEF Rate
  <2>3. QED
    BY <1>1, <2>1, <2>2 DEF Rate
<1>2. CASE ~(r.toxic > 0)
  BY <1>2 DEF Forgiven
<1>3. QED
  BY <1>1, <1>2

LEMMA PenalisedIs ==
  ASSUME NEW r \in Rate
  PROVE  /\ Penalised(r) \in Rate /\ Penalised(r).toxic <= r.toxic + 1
         /\ \A n \in Nat : n < (Burst + 1) * Period => Holds(Penalised(r), n)
<1> DEFINE toxic == IF r.toxic < MaxToxic THEN r.toxic + 1 ELSE r.toxic
           burst == Burst * toxic
           p == Penalised(r)
<1>1. Burst \in Nat \ {0} /\ Period \in Nat \ {0} /\ MaxToxic \in Nat \ {0}
      /\ r.toxic \in 0 .. MaxToxic
  BY RatesAreRates DEF Rate
<1>2. toxic \in 1 .. MaxToxic /\ toxic <= r.toxic + 1
  BY <1>1
<1>3. p = [age |-> 0, burst |-> burst, toxic |-> toxic]
  BY DEF Penalised
<1> HIDE DEF toxic
<1>4. burst \in Nat /\ burst <= Burst * MaxToxic /\ burst >= Burst
  BY <1>1, <1>2
<1>5. burst \in 0 .. MaxBurst /\ 0 \in 0 .. (MaxBurst + 1) * Period
  BY <1>4, RatesAreRates DEF MaxBurst
<1> HIDE DEF burst, p
<1>6. p \in Rate /\ p.toxic = toxic /\ p.age = 0 /\ p.burst = burst
  BY <1>1, <1>2, <1>3, <1>5 DEF Rate
<1>7. (burst + 1) * Period >= (Burst + 1) * Period
  BY <1>1, <1>4
<1>8. (burst + 1) * Period \in Nat /\ (Burst + 1) * Period \in Nat
  BY <1>1, <1>4
<1>9. \A n \in Nat : n < (Burst + 1) * Period => n + 0 < (burst + 1) * Period
  BY <1>7, <1>8
<1>10. QED
  BY <1>2, <1>6, <1>9 DEF Holds, p

LEMMA OlderIs ==
  ASSUME NEW r \in Rate
  PROVE  /\ Older(r) \in Rate /\ Older(r).toxic = r.toxic /\ Older(r).burst = r.burst
         /\ Older(r).age \in {r.age, r.age + 1}
<1>1. CASE r.age >= (r.burst + 1) * Period
  <2>1. Older(r) = r
    BY <1>1 DEF Older, Rate
  <2>2. QED
    BY <2>1
<1>2. CASE ~(r.age >= (r.burst + 1) * Period)
  <2> DEFINE age == r.age + 1
  <2>1. Older(r) = [r EXCEPT !.age = age]
    BY <1>2 DEF Older
  <2>2. age \in 0 .. (MaxBurst + 1) * Period
    <3>1. /\ Period \in Nat \ {0} /\ MaxBurst \in Nat /\ (MaxBurst + 1) * Period \in Nat
          /\ r.burst \in 0 .. MaxBurst /\ r.age \in Nat
      BY RatesAreRates DEF Rate
    <3>2. (r.burst + 1) * Period <= (MaxBurst + 1) * Period /\ (r.burst + 1) * Period \in Nat
      BY <3>1
    <3>3. QED
      BY <1>2, <3>1, <3>2
  <2> HIDE DEF age
  <2>3. Older(r) \in Rate /\ Older(r).toxic = r.toxic /\ Older(r).burst = r.burst
        /\ Older(r).age = age
    BY <2>1, <2>2 DEF Rate
  <2>4. QED
    BY <2>3 DEF age
<1>3. QED
  BY <1>1, <1>2

\* Nobody can tell a rate that was forgotten from a new bucket.
LEMMA FreshIs ==
  /\ Leaked(Fresh) = Fresh /\ Leaked(Forgotten) = Fresh
  /\ Penalised(Fresh) = Penalised(Forgotten)
  /\ Older(Forgotten) = Forgotten /\ Expired(Forgotten)
<1>1. Period \in Nat \ {0}
  BY RatesAreRates
<1>2. Fresh.age = 0 /\ Fresh.burst = 0 /\ Fresh.toxic = 0
      /\ Forgotten.age = Period /\ Forgotten.burst = 0 /\ Forgotten.toxic = 0
  BY DEF Fresh, Forgotten
<1>3. 0 \div Period = 0 /\ 0 % Period = 0 /\ Period \div Period = 1
      /\ (0 + 1) * Period = Period /\ 0 * Period = 0
  BY <1>1
<1>4. Leaked(Fresh) = Fresh
  <2> DEFINE expired == Fresh.age \div Period
             age == Fresh.age % Period
             burst == Fresh.burst - expired
  <2>1. expired = 0 /\ age = 0
    BY <1>2, <1>3
  <2>2. ~(expired > Fresh.burst)
    BY <1>2, <2>1
  <2>3. Leaked(Fresh) = [Fresh EXCEPT !.age = age, !.burst = burst]
    BY <2>2 DEF Leaked
  <2> HIDE DEF age, expired
  <2>4. burst = 0
    BY <1>2, <2>1
  <2> HIDE DEF burst
  <2>5. QED
    BY <2>1, <2>3, <2>4 DEF Fresh
<1>5. Leaked(Forgotten) = [Forgotten EXCEPT !.age = 0, !.burst = 0]
  BY <1>2, <1>3 DEF Leaked
<1>6. Leaked(Fresh) = Fresh /\ Leaked(Forgotten) = Fresh
  <2>1. Leaked(Forgotten) = Fresh
    BY <1>5 DEF Fresh, Forgotten
  <2>2. QED
    BY <1>4, <2>1
<1>7. Penalised(Fresh) = Penalised(Forgotten)
  BY <1>2 DEF Penalised
<1>8. Older(Forgotten) = Forgotten /\ Expired(Forgotten)
  <2>1. Older(Forgotten) = [Forgotten EXCEPT !.age = Forgotten.age]
    BY <1>1, <1>2, <1>3 DEF Older
  <2>2. Older(Forgotten) = Forgotten
    BY <2>1 DEF Forgotten
  <2>3. QED
    BY <1>1, <1>2, <1>3, <2>2 DEF Expired
<1>9. QED
  BY <1>6, <1>7, <1>8

-----------------------------------------------------------------------------
(* The rate of an address *)

LEMMA OwnedIs ==
  ASSUME NEW t, TableOK(t), NEW a \in Apart, NEW i \in Owned(t, a)
  PROVE  Owned(t, a) = {i} /\ RateIn(t, a) = t.buckets[i].rate /\ i \in Buckets
<1>1. i \in Buckets /\ Hash[a] # 0
  BY DEF Owned, Apart
<1>2. Owned(t, a) = {i}
  BY <1>1 DEF TableOK, Unique, Owned
<1>3. Min({i}) = i
  BY <1>1 DEF Min, Buckets
<1>4. QED
  BY <1>1, <1>2, <1>3 DEF RateIn

LEMMA RateInType ==
  ASSUME NEW t, TableOK(t), NEW a \in Apart
  PROVE  RateIn(t, a) \in Rate
<1>1. CASE Owned(t, a) = {}
  BY <1>1, RatesAreRates DEF RateIn
<1>2. CASE Owned(t, a) # {}
  <2>1. PICK i \in Owned(t, a) : TRUE
    BY <1>2
  <2>2. RateIn(t, a) = t.buckets[i].rate /\ i \in Buckets
    BY <2>1, OwnedIs
  <2>3. QED
    BY <2>2 DEF TableOK, TableType, Bucket
<1>3. QED
  BY <1>1, <1>2

\* What a call for one address does to the others: nothing, or their bucket
\* is recycled.
KeptIn(t, u, x) == Owned(u, x) = Owned(t, x) /\ RateIn(u, x) = RateIn(t, x)
GoneIn(t, u, x) == Expired(RateIn(t, x)) /\ Owned(u, x) = {}
OthersKept(t, u, a) == \A x \in Apart \ {a} : KeptIn(t, u, x) \/ GoneIn(t, u, x)

LEMMA KeptTwice ==
  ASSUME NEW t, NEW u, NEW v, NEW a, OthersKept(t, u, a), OthersKept(u, v, a)
  PROVE  OthersKept(t, v, a)
<1>1. \A x : Owned(u, x) = {} /\ KeptIn(u, v, x) => Owned(v, x) = {}
  BY DEF KeptIn
<1>2. QED
  BY <1>1 DEF OthersKept, KeptIn, GoneIn

\* The addresses and the links are the same, so the chains are.
LEMMA SameShape ==
  ASSUME NEW t, TableOK(t), NEW u \in TableType, u.heads = t.heads,
         \A i \in Buckets : /\ u.buckets[i].address = t.buckets[i].address
                            /\ u.buckets[i].next = t.buckets[i].next
                            /\ u.buckets[i].prev = t.buckets[i].prev
  PROVE  TableOK(u) /\ \A a : Owned(u, a) = Owned(t, a)
<1>1. t \in TableType /\ Linked(t, Buckets) /\ Loose(t, Buckets) /\ Unique(t)
  BY DEF TableOK
<1>2. \A h : Hashed(u, Buckets, h) = Hashed(t, Buckets, h)
  BY DEF Hashed
<1>3. ASSUME NEW h \in Hashes, NEW c, IsChain(t, h, c)
      PROVE  IsChain(u, h, c)
  <2>1. \A n \in 1 .. Len(c) : c[n] \in Buckets
    BY <1>3, InChainIs
  <2>2. QED
    BY <1>3, <2>1, SameChain
<1>4. Linked(u, Buckets)
  BY <1>1, <1>2, <1>3 DEF Linked
<1>5. Loose(u, Buckets)
  <2>1. \A j \in Hashed(t, Buckets, 0) : /\ u.buckets[j].next = t.buckets[j].next
                                         /\ u.buckets[j].prev = t.buckets[j].prev
    BY DEF Hashed
  <2>2. QED
    BY <1>1, <1>2, <2>1, SameLoose
<1>6. Unique(u)
  BY <1>1 DEF Unique
<1>7. QED
  BY <1>4, <1>5, <1>6 DEF TableOK, Owned

LEMMA SetRateIs ==
  ASSUME NEW t, TableOK(t), NEW b \in Buckets \cup {Dummy}, NEW rate \in Rate
  PROVE  LET u == [t EXCEPT !.buckets[b].rate = rate]
         IN  /\ TableOK(u)
             /\ \A i \in Buckets \cup {Dummy} :
                  /\ u.buckets[i].address = t.buckets[i].address
                  /\ u.buckets[i].rate = IF i = b THEN rate ELSE t.buckets[i].rate
<1> DEFINE u == [t EXCEPT !.buckets[b].rate = rate]
           new == [t.buckets[b] EXCEPT !.rate = rate]
           bs == [t.buckets EXCEPT ![b] = new]
<1>1. t \in TableType
  BY DEF TableOK
<1>2. t.buckets \in [Buckets \cup {Dummy} -> Bucket]
  BY <1>1 DEF TableType
<1>3. u = [t EXCEPT !.buckets = bs]
  BY <1>2
<1>4. /\ new \in Bucket /\ new.prev = t.buckets[b].prev /\ new.next = t.buckets[b].next
      /\ new.address = t.buckets[b].address /\ new.rate = rate
  BY <1>2 DEF Bucket
<1> HIDE DEF new
<1>5. bs \in [Buckets \cup {Dummy} -> Bucket]
  BY <1>2, <1>4
<1>6. \A j \in Buckets \cup {Dummy} : bs[j] = IF j = b THEN new ELSE t.buckets[j]
  BY <1>2
<1> HIDE DEF bs, u
<1>7. u \in TableType /\ u.heads = t.heads /\ u.buckets = bs
  BY <1>1, <1>3, <1>5 DEF TableType
<1>8. \A i \in Buckets \cup {Dummy} :
        /\ u.buckets[i].address = t.buckets[i].address
        /\ u.buckets[i].rate = IF i = b THEN rate ELSE t.buckets[i].rate
        /\ u.buckets[i].next = t.buckets[i].next
        /\ u.buckets[i].prev = t.buckets[i].prev
  BY <1>4, <1>6, <1>7
<1>9. TableOK(u)
  BY <1>7, <1>8, SameShape
<1>10. QED
  BY <1>8, <1>9 DEF u

\* What a call leaves that gives the address a rate.
LEMMA RateSet ==
  ASSUME NEW t, TableOK(t), NEW a \in Addresses, NEW rate \in Rate,
         BucketForAddress(t, a).bucket # NULL
  PROVE  LET got == BucketForAddress(t, a)
             u == SetRate(t, got, rate)
         IN  /\ TableOK(u) /\ OthersKept(t, u, a)
             /\ got.bucket \in Buckets \cup {Dummy} /\ RateOf(got) \in Rate
             /\ a \in Apart =>
                  /\ RateOf(got) = IF Owned(t, a) = {} THEN Fresh ELSE RateIn(t, a)
                  /\ Owned(u, a) # {} /\ RateIn(u, a) = rate
<1> DEFINE got == BucketForAddress(t, a)
           v == got.table
           b == got.bucket
           u == SetRate(t, got, rate)
<1>1. /\ TableOK(v) /\ b # NULL
      /\ \/ b = Dummy /\ v = t /\ a \notin Apart
         \/ FoundIn(t, v, b, a)
         \/ GivenTo(t, v, b, a)
  BY BucketFor
<1>2. b \in Buckets \cup {Dummy}
  BY <1>1 DEF FoundIn, GivenTo, Owned
<1>3. u = [v EXCEPT !.buckets[b].rate = rate]
  BY <1>1 DEF SetRate
<1>4. RateOf(got) = v.buckets[b].rate
  BY DEF RateOf
<1> HIDE DEF v, b, got, u
<1>5. /\ TableOK(u)
      /\ \A i \in Buckets \cup {Dummy} :
           /\ u.buckets[i].address = v.buckets[i].address
           /\ u.buckets[i].rate = IF i = b THEN rate ELSE v.buckets[i].rate
  BY <1>1, <1>2, <1>3, SetRateIs
<1>6. v.buckets[b].rate \in Rate
  BY <1>1, <1>2 DEF TableOK, TableType, Bucket
<1>7. ASSUME NEW x \in Apart \ {a}
      PROVE  KeptIn(t, u, x) \/ GoneIn(t, u, x)
  <2>1. CASE (b = Dummy /\ v = t) \/ FoundIn(t, v, b, a)
    <3>1. \A i \in Buckets : u.buckets[i].address = t.buckets[i].address
      BY <1>5, <2>1 DEF FoundIn, SameContents
    <3>2. Owned(u, x) = Owned(t, x)
      BY <3>1 DEF Owned
    <3>3. \A i \in Owned(t, x) : u.buckets[i].rate = t.buckets[i].rate
      BY <1>5, <2>1, DummyIsNoBucket DEF FoundIn, SameContents, Owned
    <3>4. RateIn(u, x) = RateIn(t, x)
      <4>1. CASE Owned(t, x) = {}
        BY <3>2, <4>1 DEF RateIn
      <4>2. CASE Owned(t, x) # {}
        <5>1. PICK i \in Owned(t, x) : TRUE
          BY <4>2
        <5>2. RateIn(t, x) = t.buckets[i].rate /\ RateIn(u, x) = u.buckets[i].rate
          BY <1>5, <3>2, <5>1, OwnedIs
        <5>3. QED
          BY <3>3, <5>1, <5>2
      <4>3. QED
        BY <4>1, <4>2
    <3>5. QED
      BY <3>2, <3>4 DEF KeptIn
  <2>2. CASE GivenTo(t, v, b, a)
    <3>1. /\ b \in Buckets /\ MayRecycle(t.buckets[b]) /\ u.buckets[b].address = a
          /\ \A i \in Buckets : i # b => u.buckets[i].address = t.buckets[i].address
                                         /\ u.buckets[i].rate = t.buckets[i].rate
      BY <1>5, <2>2 DEF GivenTo
    <3>2. Owned(u, x) = Owned(t, x) \ {b}
      BY <3>1 DEF Owned
    <3>3. CASE b \in Owned(t, x)
      <4>1. Owned(t, x) = {b} /\ RateIn(t, x) = t.buckets[b].rate
        BY <3>3, OwnedIs
      <4>2. Expired(RateIn(t, x)) /\ Owned(u, x) = {}
        BY <3>1, <3>2, <4>1 DEF MayRecycle
      <4>3. QED
        BY <4>2 DEF GoneIn
    <3>4. CASE b \notin Owned(t, x)
      <4>1. Owned(u, x) = Owned(t, x)
        BY <3>2, <3>4
      <4>2. \A i \in Owned(t, x) : u.buckets[i].rate = t.buckets[i].rate
        BY <3>1, <3>4 DEF Owned
      <4>3. RateIn(u, x) = RateIn(t, x)
        <5>1. CASE Owned(t, x) = {}
          BY <4>1, <5>1 DEF RateIn
        <5>2. CASE Owned(t, x) # {}
          <6>1. PICK i \in Owned(t, x) : TRUE
            BY <5>2
          <6>2. RateIn(t, x) = t.buckets[i].rate /\ RateIn(u, x) = u.buckets[i].rate
            BY <1>5, <4>1, <6>1, OwnedIs
          <6>3. QED
            BY <4>2, <6>1, <6>2
        <5>3. QED
          BY <5>1, <5>2
      <4>4. QED
        BY <4>1, <4>3 DEF KeptIn
    <3>5. QED
      BY <3>3, <3>4
  <2>3. QED
    BY <1>1, <2>1, <2>2
<1>8. ASSUME a \in Apart
      PROVE  /\ v.buckets[b].rate = IF Owned(t, a) = {} THEN Fresh ELSE RateIn(t, a)
             /\ Owned(u, a) # {} /\ RateIn(u, a) = rate
  <2>1. CASE FoundIn(t, v, b, a)
    <3>1. b \in Owned(t, a) /\ v.buckets[b].address = a /\ v.buckets[b].rate = t.buckets[b].rate
      BY <1>2, <2>1 DEF FoundIn, SameContents, Owned
    <3>2. RateIn(t, a) = t.buckets[b].rate /\ b \in Buckets
      BY <1>8, <3>1, OwnedIs
    <3>3. b \in Owned(u, a) /\ u.buckets[b].rate = rate
      BY <1>5, <3>1, <3>2 DEF Owned
    <3>4. RateIn(u, a) = rate
      BY <1>5, <1>8, <3>3, OwnedIs
    <3>5. QED
      BY <3>1, <3>2, <3>3, <3>4
  <2>2. CASE GivenTo(t, v, b, a)
    <3>1. b \in Buckets /\ Owned(t, a) = {} /\ v.buckets[b].address = a /\ v.buckets[b].rate = Fresh
      BY <1>8, <2>2 DEF GivenTo
    <3>2. b \in Owned(u, a) /\ u.buckets[b].rate = rate
      BY <1>5, <3>1 DEF Owned
    <3>3. RateIn(u, a) = rate
      BY <1>5, <1>8, <3>2, OwnedIs
    <3>4. QED
      BY <3>1, <3>2, <3>3
  <2>3. QED
    BY <1>1, <1>8, <2>1, <2>2
<1>9. QED
  BY <1>2, <1>4, <1>5, <1>6, <1>7, <1>8 DEF OthersKept, u, b, got

-----------------------------------------------------------------------------
(* The calls *)

RateBefore(t, a) == IF Owned(t, a) = {} THEN Fresh ELSE RateIn(t, a)

\* It makes no difference that a new bucket is younger than what is forgotten.
LEMMA BeforeIs ==
  ASSUME NEW t, TableOK(t), NEW a \in Apart
  PROVE  LET r == RateBefore(t, a)
         IN  /\ r \in Rate /\ r.toxic = RateIn(t, a).toxic
             /\ Leaked(r) = Leaked(RateIn(t, a)) /\ Penalised(r) = Penalised(RateIn(t, a))
             /\ \A n : Metered(t, a, n) => Holds(r, n)
<1>1. RateIn(t, a) \in Rate
  BY RateInType
<1>2. CASE Owned(t, a) = {}
  <2>1. RateBefore(t, a) = Fresh /\ RateIn(t, a) = Forgotten
    BY <1>2 DEF RateBefore, RateIn
  <2>2. Fresh.toxic = 0 /\ Forgotten.toxic = 0 /\ Fresh.age = 0 /\ Fresh.burst = 0
    BY DEF Fresh, Forgotten
  <2>3. ASSUME NEW n, Metered(t, a, n) PROVE Holds(Fresh, n)
    <3>1. n \in Nat /\ n < Period
      BY <1>2, <2>3 DEF Metered
    <3>2. n + 0 < (0 + 1) * Period
      BY <3>1, RatesAreRates
    <3>3. QED
      BY <2>2, <3>2 DEF Holds
  <2>4. QED
    BY <2>1, <2>2, <2>3, FreshIs, RatesAreRates
<1>3. CASE Owned(t, a) # {}
  BY <1>1, <1>3 DEF RateBefore, Metered
<1>4. QED
  BY <1>2, <1>3

\* Unless there is no room for the address, it has a bucket.
LEMMA NoBucketIs ==
  ASSUME NEW t, TableOK(t), NEW a \in Addresses, BucketForAddress(t, a).bucket = NULL
  PROVE  /\ BucketForAddress(t, a).table = t /\ (a \in Apart => Owned(t, a) = {})
         /\ \A i \in Buckets : ~MayRecycle(t.buckets[i])
<1>1. NULL \notin Buckets /\ NULL # Dummy
  BY DummyIsNoBucket, TableAssumption DEF Dummy, TableAssumption
<1>2. QED
  BY <1>1, BucketFor DEF FoundIn, GivenTo, Owned

LEMMA SVC_RateLimitAddressIs ==
  ASSUME NEW t, TableOK(t), NEW a \in Addresses
  PROVE  LET u == SVC_RateLimitAddress(t, a)
         IN  /\ TableOK(u) /\ OthersKept(t, u, a)
             /\ a \in Apart =>
                  \/ /\ u = t /\ Owned(t, a) = {} /\ IsLimited(t, a)
                     /\ \A i \in Buckets : ~MayRecycle(t.buckets[i])
                  \/ /\ Owned(u, a) # {} /\ RateIn(u, a) = Charged(RateBefore(t, a))
                     /\ IsLimited(t, a) <=> Limited(RateBefore(t, a))
<1> DEFINE got == BucketForAddress(t, a)
           rate == Charged(RateOf(got))
           u == SVC_RateLimitAddress(t, a)
<1>1. u = SetRate(t, got, rate)
  BY DEF SVC_RateLimitAddress
<1>2. IsLimited(t, a) <=> got.bucket = NULL \/ Limited(RateOf(got))
  BY DEF IsLimited, RateOf
<1>3. CASE got.bucket = NULL
  <2>1. u = t
    BY <1>1, <1>3 DEF SetRate
  <2>2. QED
    BY <1>2, <1>3, <2>1, NoBucketIs DEF OthersKept, KeptIn
<1>4. CASE got.bucket # NULL
  <2>1. RateOf(got) \in Rate
    BY <1>4, RateSet, RatesAreRates
  <2>2. rate \in Rate
    BY <2>1, ChargedIs
  <2> HIDE DEF rate, u
  <2>3. /\ TableOK(u) /\ OthersKept(t, u, a)
        /\ a \in Apart => /\ RateOf(got) = RateBefore(t, a)
                          /\ Owned(u, a) # {} /\ RateIn(u, a) = rate
    BY <1>1, <1>4, <2>2, RateSet DEF RateBefore
  <2>4. QED
    BY <1>2, <1>4, <2>3 DEF rate, u
<1>5. QED
  BY <1>3, <1>4

LEMMA RefundedIs ==
  ASSUME NEW r \in Rate
  PROVE  Refunded(r) \in Rate
<1> DEFINE b == r.burst - 1
<1>1. r.burst > 0 => b \in 0 .. MaxBurst
  BY RatesAreRates DEF Rate
<1>2. Refunded(r) = IF r.burst > 0 THEN [r EXCEPT !.burst = b] ELSE r
  BY DEF Refunded
<1> HIDE DEF b
<1>3. QED
  BY <1>1, <1>2 DEF Rate

LEMMA SVC_RateRestoreBurstAddressIs ==
  ASSUME NEW t, TableOK(t), NEW a \in Addresses
  PROVE  LET u == SVC_RateRestoreBurstAddress(t, a)
         IN  /\ TableOK(u) /\ OthersKept(t, u, a)
             /\ a \in Apart /\ Owned(t, a) # {} =>
                  Owned(u, a) # {} /\ RateIn(u, a) = Refunded(RateIn(t, a))
<1> DEFINE got == BucketForAddress(t, a)
           rate == Refunded(RateOf(got))
           u == SVC_RateRestoreBurstAddress(t, a)
<1>1. u = SetRate(t, got, rate)
  BY DEF SVC_RateRestoreBurstAddress
<1>2. CASE got.bucket = NULL
  <2>1. u = t
    BY <1>1, <1>2 DEF SetRate
  <2>2. QED
    BY <1>2, <2>1, NoBucketIs DEF OthersKept, KeptIn
<1>3. CASE got.bucket # NULL
  <2>1. RateOf(got) \in Rate
    BY <1>3, RateSet, RatesAreRates
  <2>2. rate \in Rate
    BY <2>1, RefundedIs
  <2> HIDE DEF rate, u
  <2>3. /\ TableOK(u) /\ OthersKept(t, u, a)
        /\ a \in Apart => /\ RateOf(got) = IF Owned(t, a) = {} THEN Fresh ELSE RateIn(t, a)
                          /\ Owned(u, a) # {} /\ RateIn(u, a) = rate
    BY <1>1, <1>3, <2>2, RateSet
  <2>4. QED
    BY <2>3 DEF rate, u
<1>4. QED
  BY <1>2, <1>3

LEMMA SVC_RateRestoreToxicAddressIs ==
  ASSUME NEW t, TableOK(t), NEW a \in Addresses
  PROVE  LET u == SVC_RateRestoreToxicAddress(t, a)
         IN  /\ TableOK(u) /\ OthersKept(t, u, a)
             /\ a \in Apart /\ Owned(t, a) # {} =>
                  Owned(u, a) # {} /\ RateIn(u, a) = Forgiven(RateIn(t, a))
<1> DEFINE got == BucketForAddress(t, a)
           rate == Forgiven(RateOf(got))
           u == SVC_RateRestoreToxicAddress(t, a)
<1>1. u = SetRate(t, got, rate)
  BY DEF SVC_RateRestoreToxicAddress
<1>2. CASE got.bucket = NULL
  <2>1. u = t
    BY <1>1, <1>2 DEF SetRate
  <2>2. QED
    BY <1>2, <2>1, NoBucketIs DEF OthersKept, KeptIn
<1>3. CASE got.bucket # NULL
  <2>1. RateOf(got) \in Rate
    BY <1>3, RateSet, RatesAreRates
  <2>2. rate \in Rate
    BY <2>1, ForgivenIs
  <2> HIDE DEF rate, u
  <2>3. /\ TableOK(u) /\ OthersKept(t, u, a)
        /\ a \in Apart => /\ RateOf(got) = IF Owned(t, a) = {} THEN Fresh ELSE RateIn(t, a)
                          /\ Owned(u, a) # {} /\ RateIn(u, a) = rate
    BY <1>1, <1>3, <2>2, RateSet
  <2>4. QED
    BY <2>3 DEF rate, u
<1>4. QED
  BY <1>2, <1>3

LEMMA SVC_RateDropAddressIs ==
  ASSUME NEW t, TableOK(t), NEW a \in Addresses
  PROVE  LET u == SVC_RateDropAddress(t, a)
         IN  /\ TableOK(u) /\ OthersKept(t, u, a)
             /\ a \in Apart =>
                  \/ u = t
                  \/ Owned(u, a) # {} /\ RateIn(u, a) = Penalised(RateIn(t, a))
<1> DEFINE got == BucketForAddress(t, a)
           rate == Penalised(RateOf(got))
           u == SVC_RateDropAddress(t, a)
<1>1. u = SetRate(t, got, rate)
  BY DEF SVC_RateDropAddress
<1>2. CASE got.bucket = NULL
  <2>1. u = t
    BY <1>1, <1>2 DEF SetRate
  <2>2. QED
    BY <2>1 DEF OthersKept, KeptIn
<1>3. CASE got.bucket # NULL
  <2>1. RateOf(got) \in Rate
    BY <1>3, RateSet, RatesAreRates
  <2>2. rate \in Rate
    BY <2>1, PenalisedIs
  <2> HIDE DEF rate, u
  <2>3. /\ TableOK(u) /\ OthersKept(t, u, a)
        /\ a \in Apart => /\ RateOf(got) = RateBefore(t, a)
                          /\ Owned(u, a) # {} /\ RateIn(u, a) = rate
    BY <1>1, <1>3, <2>2, RateSet DEF RateBefore
  <2>4. a \in Apart => rate = Penalised(RateIn(t, a))
    BY <2>3, BeforeIs DEF rate
  <2>5. QED
    BY <2>3, <2>4 DEF u
<1>4. QED
  BY <1>2, <1>3

-----------------------------------------------------------------------------
(* The steps *)

\* What is said of the other addresses goes on to hold.
LEMMA OthersStay ==
  ASSUME NEW t, NEW u, NEW x \in Apart, TableOK(t), KeptIn(t, u, x) \/ GoneIn(t, u, x)
  PROVE  /\ \A n : Metered(t, x, n) => Metered(u, x, n)
         /\ \A w \in 0 .. MaxPending : Penalties(t, x, w) => Penalties(u, x, w)
<1>1. CASE KeptIn(t, u, x)
  BY <1>1 DEF KeptIn, Metered, Penalties
<1>2. CASE GoneIn(t, u, x)
  <2> DEFINE r == RateIn(t, x)
  <2>1. RateIn(u, x) = Forgotten /\ Owned(u, x) = {} /\ Forgotten.toxic = 0 /\ Expired(r)
    BY <1>2 DEF GoneIn, RateIn, Forgotten
  <2>2. ASSUME NEW n, Metered(t, x, n)
        PROVE  n \in Nat /\ n < Period /\ n < (Burst + 1) * Period
    <3>1. n \in Nat /\ n < (Burst + 1) * Period
          /\ (n < Period \/ n = 0 \/ n + r.age < (r.burst + 1) * Period)
      BY <2>2 DEF Metered, Holds
    <3>2. Period \in Nat \ {0} /\ r.age \in Nat /\ r.burst \in Nat
      BY RateInType, RatesAreRates DEF Rate
    <3>3. r.age > r.burst * Period
      BY <2>1 DEF Expired
    <3> HIDE DEF r
    <3>4. (r.burst + 1) * Period = r.burst * Period + Period /\ r.burst * Period \in Nat
      BY <3>2
    <3>5. QED
      BY <3>1, <3>2, <3>3, <3>4
  <2>3. MaxPending \in Nat
    BY TableAssumption DEF TableAssumption
  <2>4. \A w \in 0 .. MaxPending : Penalties(u, x, w)
    BY <2>1, <2>3 DEF Penalties
  <2>5. \A n : Metered(t, x, n) => Metered(u, x, n)
    BY <2>1, <2>2 DEF Metered
  <2>6. QED
    BY <2>4, <2>5
<1>3. QED
  BY <1>1, <1>2

\* So a call has to keep only what is said of its address.
LEMMA CallKeeps ==
  ASSUME IInv, NEW a \in Addresses, TableOK(table'), OthersKept(table, table', a),
         pending' \in [Addresses -> 0 .. MaxPending],
         \A x \in Addresses \ {a} : pending'[x] = pending[x],
         meter' \in [Apart -> Nat], \A x \in Apart \ {a} : meter'[x] = meter[x],
         answer' \in {Nothing} \cup (Apart \X BOOLEAN),
         a \in Apart => Metered(table', a, meter'[a]) /\ Penalties(table', a, pending'[a])
  PROVE  IInv'
<1>1. ASSUME NEW x \in Apart
      PROVE  Metered(table', x, meter'[x]) /\ Penalties(table', x, pending'[x])
  <2>1. CASE x = a
    BY <2>1
  <2>2. CASE x # a
    <3>1. x \in Addresses /\ meter'[x] = meter[x] /\ pending'[x] = pending[x]
          /\ pending[x] \in 0 .. MaxPending
      BY <2>2 DEF Apart, IInv
    <3>2. TableOK(table) /\ Metered(table, x, meter[x]) /\ Penalties(table, x, pending[x])
      BY DEF IInv
    <3>3. KeptIn(table, table', x) \/ GoneIn(table, table', x)
      BY <2>2, <3>1 DEF OthersKept
    <3>4. QED
      BY <3>1, <3>2, <3>3, OthersStay
  <2>3. QED
    BY <2>1, <2>2
<1>2. QED
  BY <1>1 DEF IInv

LEMMA IsApart ==
  ASSUME IInv, NEW a \in Apart
  PROVE  /\ a \in Addresses /\ TableOK(table)
         /\ meter[a] \in Nat /\ pending[a] \in 0 .. MaxPending /\ MaxPending \in Nat
         /\ Metered(table, a, meter[a]) /\ Penalties(table, a, pending[a])
         /\ RateIn(table, a) \in Rate /\ RateIn(table, a).toxic \in Nat
         /\ LET r == RateBefore(table, a)
            IN  /\ r \in Rate /\ r.toxic = RateIn(table, a).toxic
                /\ Holds(r, meter[a]) /\ Leaked(r).toxic = r.toxic /\ Leaked(r) \in Rate
                /\ Holds(Leaked(r), meter[a])
                /\ r.toxic + pending[a] <= MaxPending
<1>1. /\ a \in Addresses /\ TableOK(table)
      /\ meter[a] \in Nat /\ pending[a] \in 0 .. MaxPending /\ MaxPending \in Nat
      /\ Metered(table, a, meter[a]) /\ Penalties(table, a, pending[a])
  BY TableAssumption DEF IInv, Apart, TableAssumption
<1>2. RateIn(table, a) \in Rate
  BY <1>1, RateInType
<1>3. RateIn(table, a).toxic \in Nat
  BY <1>2, RatesAreRates DEF Rate
<1> DEFINE r == RateBefore(table, a)
<1>4. r \in Rate /\ r.toxic = RateIn(table, a).toxic /\ Holds(r, meter[a])
  BY <1>1, BeforeIs
<1> HIDE DEF r
<1>5. Leaked(r).toxic = r.toxic /\ Leaked(r) \in Rate /\ Holds(Leaked(r), meter[a])
  BY <1>1, <1>4, LeakedIs
<1>6. r.toxic + pending[a] <= MaxPending
  BY <1>1, <1>4 DEF Penalties
<1>7. QED
  BY <1>1, <1>2, <1>3, <1>4, <1>5, <1>6 DEF r

LEMMA RequestStep ==
  ASSUME IInv, NEW a \in Addresses, Request(a)
  PROVE  IInv'
<1>1. /\ table' = SVC_RateLimitAddress(table, a) /\ pending' = pending
      /\ meter' = [x \in Apart |-> IF x = a /\ ~IsLimited(table, a) THEN meter[x] + Period
                                   ELSE meter[x]]
      /\ answer' = IF a \in Apart THEN <<a, IsLimited(table, a)>> ELSE Nothing
  BY DEF Request, Answer
<1>2. TableOK(table)
  BY DEF IInv
<1>3. /\ TableOK(table') /\ OthersKept(table, table', a)
      /\ a \in Apart =>
           \/ /\ table' = table /\ Owned(table, a) = {} /\ IsLimited(table, a)
              /\ \A i \in Buckets : ~MayRecycle(table.buckets[i])
           \/ /\ Owned(table', a) # {} /\ RateIn(table', a) = Charged(RateBefore(table, a))
              /\ IsLimited(table, a) <=> Limited(RateBefore(table, a))
  BY <1>1, <1>2, SVC_RateLimitAddressIs
<1>4. meter \in [Apart -> Nat] /\ Period \in Nat /\ pending \in [Addresses -> 0 .. MaxPending]
  BY RatesAreRates DEF IInv
<1>5. meter' \in [Apart -> Nat] /\ \A x \in Apart \ {a} : meter'[x] = meter[x]
  BY <1>1, <1>4
<1>6. IsLimited(table, a) \in BOOLEAN
  BY DEF IsLimited
<1>7. answer' \in {Nothing} \cup (Apart \X BOOLEAN)
  BY <1>1, <1>6
<1>8. ASSUME a \in Apart
      PROVE  Metered(table', a, meter'[a]) /\ Penalties(table', a, pending'[a])
  <2> DEFINE r == RateBefore(table, a)
             n == meter[a]
  <2>1. /\ n \in Nat /\ pending[a] \in 0 .. MaxPending /\ MaxPending \in Nat
        /\ Metered(table, a, n) /\ Penalties(table, a, pending[a])
        /\ r \in Rate /\ Holds(r, n) /\ Leaked(r).toxic = r.toxic /\ Holds(Leaked(r), n)
        /\ r.toxic + pending[a] <= MaxPending
    BY <1>8, IsApart
  <2>2. meter'[a] = IF IsLimited(table, a) THEN n ELSE n + Period
    BY <1>1, <1>8
  <2>3. pending'[a] = pending[a]
    BY <1>1
  <2>4. n < (Burst + 1) * Period
    BY <2>1 DEF Metered
  <2>5. CASE table' = table /\ IsLimited(table, a)
    BY <2>1, <2>2, <2>3, <2>5
  <2>6. CASE /\ Owned(table', a) # {} /\ RateIn(table', a) = Charged(r)
             /\ IsLimited(table, a) <=> Limited(r)
    <3> HIDE DEF r, n
    <3>1. Charged(r).toxic = r.toxic
      BY <2>1, ChargedIs
    <3>2. Penalties(table', a, pending'[a])
      BY <2>1, <2>3, <2>6, <3>1 DEF Penalties
    <3>3. CASE Limited(r)
      <4>1. Charged(r) = Leaked(r) /\ meter'[a] = n
        BY <2>1, <2>2, <2>6, <3>3, ChargedIs
      <4>2. QED
        BY <2>1, <2>4, <2>6, <3>2, <4>1 DEF Metered
    <3>4. CASE ~Limited(r)
      <4>1. Holds(Charged(r), n + Period) /\ n + Period < (Burst + 1) * Period
            /\ meter'[a] = n + Period
        BY <2>1, <2>2, <2>6, <3>4, ChargedIs
      <4>2. n + Period \in Nat
        BY <1>4, <2>1
      <4>3. QED
        BY <2>6, <3>2, <4>1, <4>2 DEF Metered
    <3>5. QED
      BY <3>3, <3>4
  <2>7. QED
    BY <1>3, <1>8, <2>5, <2>6
<1>9. QED
  BY <1>1, <1>3, <1>4, <1>5, <1>7, <1>8, CallKeeps

LEMMA SettleStep ==
  ASSUME IInv, NEW a \in Addresses, Settle(a)
  PROVE  IInv'
<1>1. /\ pending[a] > 0 /\ pending' = [pending EXCEPT ![a] = pending[a] - 1]
      /\ answer' = Nothing /\ table' = table /\ meter' = meter
  BY DEF Settle
<1>2. /\ pending \in [Addresses -> 0 .. MaxPending] /\ MaxPending \in Nat
      /\ TableOK(table) /\ meter \in [Apart -> Nat]
  BY TableAssumption DEF IInv, TableAssumption
<1>3. pending' \in [Addresses -> 0 .. MaxPending] /\ \A x \in Addresses \ {a} : pending'[x] = pending[x]
  BY <1>1, <1>2
<1>4. OthersKept(table, table', a)
  BY <1>1 DEF OthersKept, KeptIn
<1>5. ASSUME a \in Apart
      PROVE  Metered(table', a, meter'[a]) /\ Penalties(table', a, pending'[a])
  <2>1. /\ Metered(table, a, meter[a]) /\ RateIn(table, a).toxic \in Nat
        /\ RateIn(table, a).toxic + pending[a] <= MaxPending
    BY <1>5, IsApart DEF Penalties
  <2>2. pending'[a] = pending[a] - 1 /\ pending[a] \in Nat
    BY <1>1, <1>2
  <2>3. Penalties(table', a, pending'[a])
    BY <1>1, <1>2, <2>1, <2>2 DEF Penalties
  <2>4. QED
    BY <1>1, <2>1, <2>3
<1>6. QED
  BY <1>1, <1>2, <1>3, <1>4, <1>5, CallKeeps

LEMMA NoAnswerStep ==
  ASSUME IInv, NEW a \in Addresses, NoAnswer(a)
  PROVE  IInv'
<1>1. /\ pending[a] > 0 /\ pending' = [pending EXCEPT ![a] = pending[a] - 1]
      /\ answer' = Nothing /\ table' = SVC_RateDropAddress(table, a) /\ meter' = meter
  BY DEF NoAnswer
<1>2. /\ pending \in [Addresses -> 0 .. MaxPending] /\ MaxPending \in Nat
      /\ TableOK(table) /\ meter \in [Apart -> Nat]
  BY TableAssumption DEF IInv, TableAssumption
<1>3. pending' \in [Addresses -> 0 .. MaxPending] /\ \A x \in Addresses \ {a} : pending'[x] = pending[x]
  BY <1>1, <1>2
<1>4. /\ TableOK(table') /\ OthersKept(table, table', a)
      /\ a \in Apart =>
           \/ table' = table
           \/ Owned(table', a) # {} /\ RateIn(table', a) = Penalised(RateIn(table, a))
  BY <1>1, <1>2, SVC_RateDropAddressIs
<1>5. ASSUME a \in Apart
      PROVE  Metered(table', a, meter'[a]) /\ Penalties(table', a, pending'[a])
  <2> DEFINE r == RateIn(table, a)
             p == Penalised(r)
             n == meter[a]
  <2>1. /\ Metered(table, a, n) /\ r \in Rate /\ r.toxic \in Nat /\ n \in Nat
        /\ r.toxic + pending[a] <= MaxPending
    BY <1>5, IsApart DEF Penalties
  <2>2. pending'[a] = pending[a] - 1 /\ pending[a] \in Nat /\ meter'[a] = n
    BY <1>1, <1>2
  <2>3. CASE table' = table
    BY <1>1, <1>2, <2>1, <2>2, <2>3 DEF Penalties
  <2>4. CASE Owned(table', a) # {} /\ RateIn(table', a) = p
    <3>1. n < (Burst + 1) * Period
      BY <2>1 DEF Metered
    <3> HIDE DEF r, n
    <3>2. p \in Rate /\ p.toxic <= r.toxic + 1 /\ Holds(p, n)
      BY <2>1, <3>1, PenalisedIs
    <3>3. p.toxic \in Nat
      BY <3>2, RatesAreRates DEF Rate
    <3> HIDE DEF p
    <3>4. Penalties(table', a, pending'[a])
      BY <1>2, <2>1, <2>2, <2>4, <3>2, <3>3 DEF Penalties
    <3>5. Metered(table', a, meter'[a])
      BY <2>1, <2>2, <2>4, <3>1, <3>2 DEF Metered
    <3>6. QED
      BY <3>4, <3>5
  <2>5. QED
    BY <1>4, <1>5, <2>3, <2>4
<1>6. QED
  BY <1>1, <1>2, <1>3, <1>4, <1>5, CallKeeps

\* A connect that is answered leaves the rate of its address as it was.
LEMMA ConnectIs ==
  ASSUME NEW t, TableOK(t), NEW a \in Addresses, ~IsLimited(t, a)
  PROVE  LET u == SVC_RateRestoreBurstAddress(SVC_RateLimitAddress(t, a), a)
             v == SVC_RateRestoreToxicAddress(u, a)
             r == RateBefore(t, a)
         IN  /\ TableOK(u) /\ OthersKept(t, u, a)
             /\ TableOK(v) /\ OthersKept(t, v, a)
             /\ a \in Apart =>
                  /\ ~Limited(r) /\ Refunded(Charged(r)) = Leaked(r)
                  /\ Owned(u, a) # {} /\ RateIn(u, a) = Leaked(r)
                  /\ Owned(v, a) # {} /\ RateIn(v, a) = Forgiven(Leaked(r))
<1> DEFINE s == SVC_RateLimitAddress(t, a)
           u == SVC_RateRestoreBurstAddress(s, a)
           v == SVC_RateRestoreToxicAddress(u, a)
           r == RateBefore(t, a)
<1>1. a \in Apart => r \in Rate
  BY BeforeIs
<1>2. /\ TableOK(s) /\ OthersKept(t, s, a)
      /\ a \in Apart => Owned(s, a) # {} /\ RateIn(s, a) = Charged(r) /\ ~Limited(r)
  BY SVC_RateLimitAddressIs
<1> HIDE DEF s
<1>3. /\ TableOK(u) /\ OthersKept(s, u, a)
      /\ a \in Apart => Owned(u, a) # {} /\ RateIn(u, a) = Refunded(Charged(r))
  BY <1>2, SVC_RateRestoreBurstAddressIs
<1> HIDE DEF u
<1>4. /\ TableOK(v) /\ OthersKept(u, v, a)
      /\ a \in Apart => Owned(v, a) # {} /\ RateIn(v, a) = Forgiven(Refunded(Charged(r)))
  BY <1>3, SVC_RateRestoreToxicAddressIs
<1> HIDE DEF v, r
<1>5. a \in Apart => Refunded(Charged(r)) = Leaked(r)
  BY <1>1, <1>2, ChargedIs
<1>6. OthersKept(t, u, a)
  BY <1>2, <1>3, KeptTwice
<1>7. OthersKept(t, v, a)
  BY <1>4, <1>6, KeptTwice
<1>8. QED
  BY <1>2, <1>3, <1>4, <1>5, <1>6, <1>7 DEF s, u, v, r

LEMMA SV_DirectConnectStep ==
  ASSUME IInv, NEW a \in Addresses, SV_DirectConnect(a)
  PROVE  IInv'
<1> DEFINE u == SVC_RateRestoreBurstAddress(SVC_RateLimitAddress(table, a), a)
           v == SVC_RateRestoreToxicAddress(u, a)
           r == RateBefore(table, a)
<1>1. /\ ~IsLimited(table, a) /\ meter' = meter
      /\ answer' = IF a \in Apart THEN <<a, FALSE>> ELSE Nothing
      /\ \/ table' = u /\ pending' = pending
         \/ table' = v /\ pending' = pending
         \/ /\ table' = v /\ pending[a] < MaxPending
            /\ pending' = [pending EXCEPT ![a] = pending[a] + 1]
  BY DEF SV_DirectConnect, Answer
<1>2. /\ pending \in [Addresses -> 0 .. MaxPending] /\ MaxPending \in Nat
      /\ TableOK(table) /\ meter \in [Apart -> Nat]
  BY TableAssumption DEF IInv, TableAssumption
<1>3. /\ TableOK(u) /\ OthersKept(table, u, a)
      /\ TableOK(v) /\ OthersKept(table, v, a)
      /\ a \in Apart =>
           /\ Owned(u, a) # {} /\ RateIn(u, a) = Leaked(r)
           /\ Owned(v, a) # {} /\ RateIn(v, a) = Forgiven(Leaked(r))
  BY <1>1, <1>2, ConnectIs
<1> HIDE DEF u, v
<1>4. pending' \in [Addresses -> 0 .. MaxPending] /\ \A x \in Addresses \ {a} : pending'[x] = pending[x]
  <2>1. CASE pending' = pending
    BY <1>2, <2>1
  <2>2. CASE pending[a] < MaxPending /\ pending' = [pending EXCEPT ![a] = pending[a] + 1]
    <3>1. pending[a] + 1 \in 0 .. MaxPending
      BY <1>2, <2>2
    <3>2. QED
      BY <1>2, <2>2, <3>1
  <2>3. QED
    BY <1>1, <2>1, <2>2
<1>5. answer' \in {Nothing} \cup (Apart \X BOOLEAN)
  BY <1>1
<1>6. TableOK(table') /\ OthersKept(table, table', a)
  BY <1>1, <1>3
<1>7. ASSUME a \in Apart
      PROVE  Metered(table', a, meter'[a]) /\ Penalties(table', a, pending'[a])
  <2> DEFINE n == meter[a]
             l == Leaked(r)
  <2>1. /\ n \in Nat /\ pending[a] \in 0 .. MaxPending
        /\ Metered(table, a, n) /\ l \in Rate /\ l.toxic = r.toxic /\ Holds(l, n)
        /\ r.toxic + pending[a] <= MaxPending
    BY <1>7, IsApart
  <2>2. n < (Burst + 1) * Period /\ meter'[a] = n
    BY <1>1, <2>1 DEF Metered
  <2> HIDE DEF n, r, l
  <2>3. l.toxic \in Nat /\ l.toxic + pending[a] <= MaxPending
    BY <2>1, RatesAreRates DEF Rate
  <2>4. Forgiven(l).age = l.age /\ Forgiven(l).burst = l.burst
        /\ Forgiven(l).toxic = IF l.toxic > 0 THEN l.toxic - 1 ELSE l.toxic
    BY <2>1, ForgivenIs
  <2>5. Holds(Forgiven(l), n)
    BY <2>1, <2>4 DEF Holds
  <2>6. CASE table' = u /\ pending' = pending
    <3>1. Owned(table', a) # {} /\ RateIn(table', a) = l
      BY <1>3, <1>7, <2>6 DEF l
    <3>2. QED
      BY <2>1, <2>2, <2>3, <2>6, <3>1 DEF Metered, Penalties
  <2>7. CASE table' = v
    <3>1. Owned(table', a) # {} /\ RateIn(table', a) = Forgiven(l)
      BY <1>3, <1>7, <2>7 DEF l
    <3>2. Metered(table', a, meter'[a])
      BY <2>1, <2>2, <2>5, <3>1 DEF Metered
    <3>3. pending'[a] = pending[a] \/ (pending'[a] = pending[a] + 1 /\ pending[a] < MaxPending)
      BY <1>1, <1>2
    <3>4. Forgiven(l).toxic + pending'[a] <= MaxPending
      BY <1>2, <2>1, <2>3, <2>4, <3>3
    <3>5. QED
      BY <3>1, <3>2, <3>4 DEF Penalties
  <2>8. QED
    BY <1>1, <2>6, <2>7
<1>8. QED
  BY <1>1, <1>2, <1>4, <1>5, <1>6, <1>7, CallKeeps

\* Time passes for every address alike.
LEMMA TickIs ==
  ASSUME IInv, Tick
  PROVE  /\ TableOK(table')
         /\ \A a \in Apart : /\ Owned(table', a) = Owned(table, a)
                             /\ RateIn(table', a) = Older(RateIn(table, a))
<1> DEFINE older == [i \in Buckets \cup {Dummy} |->
                       [table.buckets[i] EXCEPT !.rate = Older(table.buckets[i].rate)]]
<1>1. TableOK(table) /\ table \in TableType
  BY DEF IInv, TableOK
<1>2. table.buckets \in [Buckets \cup {Dummy} -> Bucket]
  BY <1>1 DEF TableType
<1>3. table' = [table EXCEPT !.buckets = older]
  BY DEF Tick
<1>4. ASSUME NEW i \in Buckets \cup {Dummy}
      PROVE  /\ older[i] \in Bucket
             /\ older[i].address = table.buckets[i].address
             /\ older[i].prev = table.buckets[i].prev /\ older[i].next = table.buckets[i].next
             /\ older[i].rate = Older(table.buckets[i].rate)
  <2> DEFINE b == table.buckets[i]
             rate == Older(b.rate)
  <2>1. b \in Bucket
    BY <1>2
  <2>2. rate \in Rate
    BY <2>1, OlderIs DEF Bucket
  <2>3. older[i] = [b EXCEPT !.rate = rate]
    OBVIOUS
  <2> HIDE DEF b, rate, older
  <2>4. /\ older[i] \in Bucket /\ older[i].address = b.address /\ older[i].prev = b.prev
        /\ older[i].next = b.next /\ older[i].rate = rate
    BY <2>1, <2>2, <2>3 DEF Bucket
  <2>5. QED
    BY <2>4 DEF b, rate
<1>5. older \in [Buckets \cup {Dummy} -> Bucket]
  BY <1>4
<1> HIDE DEF older
<1>6. table' \in TableType /\ table'.heads = table.heads /\ table'.buckets = older
  BY <1>1, <1>3, <1>5 DEF TableType
<1>7. \A i \in Buckets : /\ table'.buckets[i].address = table.buckets[i].address
                         /\ table'.buckets[i].next = table.buckets[i].next
                         /\ table'.buckets[i].prev = table.buckets[i].prev
  BY <1>4, <1>6
<1>8. TableOK(table') /\ \A a : Owned(table', a) = Owned(table, a)
  BY <1>1, <1>6, <1>7, SameShape
<1>9. ASSUME NEW a \in Apart
      PROVE  RateIn(table', a) = Older(RateIn(table, a))
  <2>1. CASE Owned(table, a) = {}
    BY <1>8, <2>1, FreshIs DEF RateIn
  <2>2. CASE Owned(table, a) # {}
    <3>1. PICK i \in Owned(table, a) : TRUE
      BY <2>2
    <3>2. RateIn(table, a) = table.buckets[i].rate /\ i \in Buckets
      BY <1>1, <3>1, OwnedIs
    <3>3. RateIn(table', a) = table'.buckets[i].rate
      BY <1>8, <3>1, OwnedIs
    <3>4. QED
      BY <1>4, <1>6, <3>2, <3>3
  <2>3. QED
    BY <2>1, <2>2
<1>10. QED
  BY <1>8, <1>9

LEMMA TickStep ==
  ASSUME IInv, Tick
  PROVE  IInv'
<1>1. /\ meter' = [a \in Apart |-> IF meter[a] = 0 THEN 0 ELSE meter[a] - 1]
      /\ answer' = Nothing /\ pending' = pending
  BY DEF Tick
<1>2. /\ TableOK(table')
      /\ \A a \in Apart : /\ Owned(table', a) = Owned(table, a)
                          /\ RateIn(table', a) = Older(RateIn(table, a))
  BY TickIs
<1>3. meter \in [Apart -> Nat] /\ pending \in [Addresses -> 0 .. MaxPending]
  BY DEF IInv
<1>4. pending' \in [Addresses -> 0 .. MaxPending]
  BY <1>1, <1>3
<1>5. meter' \in [Apart -> Nat]
  BY <1>1, <1>3
<1>6. ASSUME NEW a \in Apart
      PROVE  Metered(table', a, meter'[a]) /\ Penalties(table', a, pending'[a])
  <2> DEFINE n == meter[a]
             m == meter'[a]
             r == RateIn(table, a)
             o == Older(r)
  <2>1. /\ a \in Addresses /\ n \in Nat /\ Metered(table, a, n) /\ r \in Rate
        /\ Penalties(table, a, pending[a])
    BY <1>6, IsApart
  <2>2. m = IF n = 0 THEN 0 ELSE n - 1
    BY <1>1
  <2>3. o \in Rate /\ o.toxic = r.toxic /\ o.burst = r.burst /\ o.age \in {r.age, r.age + 1}
    BY <2>1, OlderIs
  <2>4. Owned(table', a) = Owned(table, a) /\ RateIn(table', a) = o
    BY <1>2, <2>1
  <2>5. Penalties(table', a, pending'[a])
    BY <1>1, <2>1, <2>3, <2>4 DEF Penalties
  <2> HIDE DEF n, m, r, o
  <2>6. Period \in Nat \ {0} /\ Burst \in Nat /\ r.age \in Nat /\ r.burst \in Nat
    BY <2>1, RatesAreRates DEF Rate
  <2>7. m \in Nat /\ m <= n
    BY <2>1, <2>2
  <2>8. n < (Burst + 1) * Period => m < (Burst + 1) * Period
    <3>1. (Burst + 1) * Period \in Nat
      BY <2>6
    <3>2. QED
      BY <2>1, <2>7, <3>1
  <2>9. Holds(r, n) => Holds(o, m)
    <3>1. (r.burst + 1) * Period \in Nat
      BY <2>6
    <3>2. n + r.age < (r.burst + 1) * Period /\ n # 0 => m + o.age < (r.burst + 1) * Period
      BY <2>1, <2>2, <2>3, <2>6, <3>1
    <3>3. n = 0 => m = 0
      BY <2>2
    <3>4. QED
      BY <2>3, <3>2, <3>3 DEF Holds
  <2>10. n < Period => m < Period
    BY <2>1, <2>6, <2>7
  <2>11. Metered(table', a, m)
    BY <2>1, <2>4, <2>7, <2>8, <2>9, <2>10 DEF Metered, r
  <2>12. QED
    BY <2>5, <2>11 DEF m
<1>7. QED
  BY <1>1, <1>2, <1>5, <1>6, <1>4 DEF IInv

LEMMA InitHolds == Init => IInv
<1> SUFFICES ASSUME Init PROVE IInv
  OBVIOUS
<1>1. /\ table = [ buckets |-> [i \in Buckets \cup {Dummy} |->
                     [address |-> NoAddress, rate |-> Forgotten, prev |-> NULL, next |-> NULL]],
                   heads |-> [h \in Hashes |-> NULL], start |-> 0 ]
      /\ pending = [a \in Addresses |-> 0] /\ answer = Nothing /\ meter = [a \in Apart |-> 0]
  BY DEF Init
<1>2. /\ table.buckets = [i \in Buckets \cup {Dummy} |->
           [address |-> NoAddress, rate |-> Forgotten, prev |-> NULL, next |-> NULL]]
      /\ table.heads = [h \in Hashes |-> NULL] /\ table.start = 0
  BY <1>1
<1>3. MAX_BUCKETS \in Nat \ {0} /\ MaxPending \in Nat /\ NoAddress \notin Addresses
  BY TableAssumption DEF TableAssumption
<1>4. [address |-> NoAddress, rate |-> Forgotten, prev |-> NULL, next |-> NULL] \in Bucket
  BY RatesAreRates DEF Bucket, Link
<1>5. table \in TableType
  <2>1. 0 \in Buckets
    BY <1>3 DEF Buckets
  <2>2. table.buckets \in [Buckets \cup {Dummy} -> Bucket] /\ table.heads \in [Hashes -> Link]
    BY <1>2, <1>4 DEF Link
  <2>3. table = [buckets |-> table.buckets, heads |-> table.heads, start |-> 0]
    BY <1>1
  <2>4. QED
    BY <2>1, <2>2, <2>3 DEF TableType
<1>6. \A i \in Buckets : table.buckets[i].address = NoAddress
  BY <1>2
<1>7. /\ \A a \in Addresses : Owned(table, a) = {}
      /\ \A i \in Buckets : Hash[table.buckets[i].address] = 0
  BY <1>3, <1>6, TableAssumption DEF Owned, TableAssumption
<1>8. ASSUME NEW h \in Hashes \ {0}
      PROVE  \E c : IsChain(table, h, c) /\ {c[n] : n \in 1 .. Len(c)} = Hashed(table, Buckets, h)
  <2>1. <<>> \in Seq(Buckets) /\ Len(<<>>) = 0
    OBVIOUS
  <2>2. table.heads[h] = NULL
    BY <1>2
  <2>3. IsChain(table, h, <<>>)
    BY <2>1, <2>2 DEF IsChain, At
  <2>4. {<<>>[n] : n \in 1 .. Len(<<>>)} = {} /\ Hashed(table, Buckets, h) = {}
    BY <1>7, <2>1 DEF Hashed
  <2>5. QED
    BY <2>3, <2>4
<1>9. TableOK(table)
  <2>1. 0 \in Hashes
    BY TableAssumption DEF TableAssumption
  <2>2. /\ table.heads[0] = NULL
        /\ \A i \in Buckets : table.buckets[i].next = NULL /\ table.buckets[i].prev = NULL
    BY <1>2, <2>1
  <2>3. Loose(table, Buckets)
    BY <2>2 DEF Loose, Hashed
  <2>4. QED
    BY <1>5, <1>7, <1>8, <2>3 DEF TableOK, Linked, Unique
<1>10. ASSUME NEW a \in Apart
       PROVE  Metered(table, a, meter[a]) /\ Penalties(table, a, pending[a])
  <2>1. a \in Addresses /\ meter[a] = 0 /\ pending[a] = 0 /\ Owned(table, a) = {}
    BY <1>1, <1>7 DEF Apart
  <2>2. 0 < (Burst + 1) * Period /\ 0 < Period
    BY RatesAreRates
  <2>3. RateIn(table, a) = Forgotten /\ Forgotten.toxic = 0
    BY <2>1 DEF RateIn, Forgotten
  <2>4. QED
    BY <1>3, <2>1, <2>2, <2>3 DEF Metered, Penalties
<1>11. pending \in [Addresses -> 0 .. MaxPending] /\ meter \in [Apart -> Nat]
  BY <1>1, <1>3
<1>12. QED
  BY <1>1, <1>9, <1>10, <1>11 DEF IInv

\* The chains are well formed, every address keeps its bucket until it can be
\* recycled, and what was answered or is unanswered is accounted for there.
THEOREM RatesAccounted == Spec => []IInv
<1>1. ASSUME IInv, [Next]_vars PROVE IInv'
  <2>1. CASE Tick
    BY <1>1, <2>1, TickStep
  <2>2. ASSUME NEW a \in Addresses, Request(a) PROVE IInv'
    BY <1>1, <2>2, RequestStep
  <2>3. ASSUME NEW a \in Addresses, SV_DirectConnect(a) PROVE IInv'
    BY <1>1, <2>3, SV_DirectConnectStep
  <2>4. ASSUME NEW a \in Addresses, Settle(a) PROVE IInv'
    BY <1>1, <2>4, SettleStep
  <2>5. ASSUME NEW a \in Addresses, NoAnswer(a) PROVE IInv'
    BY <1>1, <2>5, NoAnswerStep
  <2>6. CASE UNCHANGED vars
    BY <1>1, <2>6 DEF vars, IInv
  <2>7. QED
    BY <1>1, <2>1, <2>2, <2>3, <2>4, <2>5, <2>6 DEF Next
<1>2. QED
  BY <1>1, InitHolds, PTL DEF Spec

LEMMA TableInvHolds ==
  ASSUME IInv
  PROVE  TableInv
<1>1. TableOK(table)
  BY DEF IInv
<1>2. TypeOK
  BY <1>1 DEF IInv, TypeOK, TableOK, TableType, Bucket, Link
<1>3. MAX_BUCKETS \in Nat /\ NULL \notin Buckets
  BY TableAssumption, DummyIsNoBucket DEF TableAssumption
<1>4. ASSUME NEW h \in Hashes
      PROVE  /\ Chain(table, h)[MAX_BUCKETS] = NULL
             /\ h # 0 => InChain(h) = Hashed(table, Buckets, h)
             /\ \A i \in InChain(h) :
                  LET b == table.buckets[i]
                  IN  /\ Hash[b.address] = h
                      /\ IF b.prev = NULL THEN table.heads[h] = i ELSE table.buckets[b.prev].next = i
  <2>1. PICK c : /\ IsChain(table, h, c)
                 /\ \A n \in 1 .. Len(c) : c[n] \in Hashed(table, Buckets, h)
                 /\ h # 0 => {c[n] : n \in 1 .. Len(c)} = Hashed(table, Buckets, h)
    BY <1>1, AnyChain
  <2>2. /\ Len(c) \in Nat /\ Len(c) <= MAX_BUCKETS
        /\ \A n \in 1 .. Len(c) : c[n] \in Buckets
        /\ table.heads[h] = IF Len(c) = 0 THEN NULL ELSE c[1]
        /\ \A n \in 1 .. Len(c) :
             /\ table.buckets[c[n]].next = IF n = Len(c) THEN NULL ELSE c[n + 1]
             /\ table.buckets[c[n]].prev = IF n = 1 THEN NULL ELSE c[n - 1]
    BY <2>1, ChainLength, InChainIs
  <2> DEFINE walk == Chain(table, h)
             len == Len(c)
  <2>3. \A n \in Nat : walk[n] = IF n < len THEN c[n + 1] ELSE NULL
    <3>1. \A n \in Nat : walk[n] = At(c, n + 1)
      BY <2>1, ChainWalk
    <3>2. \A n \in Nat : At(c, n + 1) = IF n < len THEN c[n + 1] ELSE NULL
      BY <2>2 DEF At
    <3>3. QED
      BY <3>1, <3>2
  <2> HIDE DEF walk, len
  <2>4. walk[MAX_BUCKETS] = NULL
    BY <1>3, <2>2, <2>3 DEF len
  <2>5. InChain(h) = {c[n] : n \in 1 .. len}
    <3>1. InChain(h) = {walk[n] : n \in 0 .. MAX_BUCKETS} \ {NULL}
      BY DEF InChain, walk
    <3>2. ASSUME NEW n \in 0 .. MAX_BUCKETS, walk[n] # NULL
          PROVE  \E m \in 1 .. len : walk[n] = c[m]
      <4>1. n + 1 \in 1 .. len /\ walk[n] = c[n + 1]
        BY <1>3, <2>2, <2>3, <3>2 DEF len
      <4>2. QED
        BY <4>1
    <3>3. ASSUME NEW m \in 1 .. len
          PROVE  \E n \in 0 .. MAX_BUCKETS : walk[n] = c[m] /\ walk[n] # NULL
      <4>1. m - 1 \in 0 .. MAX_BUCKETS /\ m - 1 < len /\ m - 1 + 1 = m /\ m - 1 \in Nat
        BY <1>3, <2>2 DEF len
      <4>2. walk[m - 1] = c[m] /\ c[m] \in Buckets
        BY <2>2, <2>3, <4>1 DEF len
      <4>3. QED
        BY <1>3, <4>1, <4>2
    <3>4. QED
      BY <3>1, <3>2, <3>3
  <2>6. \A n \in 1 .. len : Hash[table.buckets[c[n]].address] = h
    BY <2>1 DEF Hashed, len
  <2>7. ASSUME NEW n \in 1 .. len
        PROVE  IF table.buckets[c[n]].prev = NULL THEN table.heads[h] = c[n]
               ELSE table.buckets[table.buckets[c[n]].prev].next = c[n]
    <3>1. CASE n = 1
      BY <2>2, <3>1 DEF len
    <3>2. CASE n # 1
      <4>1. n - 1 \in 1 .. len /\ n - 1 # len /\ n - 1 + 1 = n
        BY <2>2, <3>2 DEF len
      <4>2. table.buckets[c[n]].prev = c[n - 1] /\ c[n - 1] # NULL
        BY <1>3, <2>2, <3>2, <4>1 DEF len
      <4>3. table.buckets[c[n - 1]].next = c[n]
        BY <2>2, <4>1 DEF len
      <4>4. QED
        BY <4>2, <4>3
    <3>3. QED
      BY <3>1, <3>2
  <2>8. QED
    BY <2>1, <2>4, <2>5, <2>6, <2>7 DEF walk, len
<1>5. ASSUME NEW i \in Buckets, Hash[table.buckets[i].address] # 0
      PROVE  /\ i \in InChain(Hash[table.buckets[i].address])
             /\ BucketsOf(table.buckets[i].address) = {i}
  <2> DEFINE h == Hash[table.buckets[i].address]
  <2>1. h \in Hashes
    BY <1>1, TableAssumption DEF TableOK, TableType, Bucket, TableAssumption
  <2>2. i \in Hashed(table, Buckets, h)
    BY DEF Hashed
  <2>3. BucketsOf(table.buckets[i].address) = {i}
    BY <1>1, <1>5 DEF TableOK, Unique, BucketsOf
  <2> HIDE DEF h
  <2>4. i \in InChain(h)
    BY <1>4, <1>5, <2>1, <2>2 DEF h
  <2>5. QED
    BY <2>3, <2>4 DEF h
<1>6. QED
  BY <1>2, <1>4, <1>5 DEF TableInv, ChainsWellFormed

\* TableInv: however many addresses, buckets and hashes there are and however
\* they collide, every chain ends, has only buckets with its hash and can be
\* walked backwards; all but chain 0 have all of them, and no address there has
\* two buckets.
THEOREM TableCorrect == Spec => []TableInv
BY RatesAccounted, TableInvHolds, PTL

\* WithinBurst: no address whose hash is not 0 is answered more than the burst,
\* whatever is recycled in between.
THEOREM BurstKept == Spec => []WithinBurst
<1>1. IInv => WithinBurst
  BY DEF IInv, WithinBurst, Metered
<1>2. QED
  BY <1>1, RatesAccounted, PTL

\* PenaltyCountsSlots: the penalty of an address whose hash is not 0 and its
\* unanswered clients together are no more than were ever unanswered at one
\* time.
THEOREM PenaltyCounts == Spec => []PenaltyCountsSlots
<1>1. ASSUME IInv, NEW a \in Apart, NEW i \in BucketsOf(a)
      PROVE  table.buckets[i].rate.toxic + pending[a] <= MaxPending
  <2>1. i \in Owned(table, a)
    BY DEF BucketsOf, Owned
  <2>2. TableOK(table) /\ a \in Addresses /\ Penalties(table, a, pending[a])
    BY <1>1, IsApart
  <2>3. RateIn(table, a) = table.buckets[i].rate
    BY <2>1, <2>2, OwnedIs
  <2>4. QED
    BY <2>2, <2>3 DEF Penalties
<1>2. IInv => PenaltyCountsSlots
  BY <1>1 DEF PenaltyCountsSlots
<1>3. QED
  BY <1>2, RatesAccounted, PTL

-----------------------------------------------------------------------------
(* A rate for every address *)

LEMMA SameArithmetic ==
  /\ OwnRates!Forgotten = Forgotten
  /\ \A r : /\ OwnRates!Older(r) = Older(r) /\ (OwnRates!Expired(r) <=> Expired(r))
            /\ (OwnRates!Limited(r) <=> Limited(r)) /\ OwnRates!Charged(r) = Charged(r)
            /\ OwnRates!Refunded(r) = Refunded(r) /\ OwnRates!Forgiven(r) = Forgiven(r)
            /\ OwnRates!Penalised(r) = Penalised(r)
<1>1. OwnRates!Forgotten = Forgotten
  BY DEF OwnRates!Forgotten, Forgotten
<1>2. \A r : OwnRates!Older(r) = Older(r) /\ (OwnRates!Expired(r) <=> Expired(r))
  BY DEF OwnRates!Older, Older, OwnRates!Expired, Expired
<1>3. \A r : OwnRates!Leaked(r) = Leaked(r)
  BY DEF OwnRates!Leaked, Leaked
<1>4. \A r : (OwnRates!Limited(r) <=> Limited(r)) /\ OwnRates!Charged(r) = Charged(r)
  BY <1>3 DEF OwnRates!Limited, Limited, OwnRates!Charged, Charged
<1>5. \A r : OwnRates!Refunded(r) = Refunded(r) /\ OwnRates!Forgiven(r) = Forgiven(r)
             /\ OwnRates!Penalised(r) = Penalised(r)
  BY DEF OwnRates!Refunded, Refunded, OwnRates!Forgiven, Forgiven, OwnRates!Penalised, Penalised
<1>6. QED
  BY <1>1, <1>2, <1>4, <1>5

LEMMA OwnRateIs ==
  /\ OwnRate = [a \in Apart |-> RateIn(table, a)]
  /\ OwnRate' = [a \in Apart |-> RateIn(table', a)]
<1>1. OwnRate = [a \in Apart |-> RateIn(table, a)]
  BY DEF OwnRate, RateIn, BucketsOf, Owned
<1>2. OwnRate' = [a \in Apart |-> RateIn(table', a)]
  BY DEF OwnRate, RateIn, BucketsOf, Owned
<1>3. QED
  BY <1>1, <1>2

\* Those whose buckets a call recycles are forgotten when they may be.
LEMMA Remembered ==
  ASSUME NEW a \in Addresses, OthersKept(table, table', a)
  PROVE  \E forgotten \in SUBSET OwnRates!MayForget :
           IF a \in Apart
           THEN /\ OwnRates!Kept(forgotten)[a] = RateIn(table, a)
                /\ OwnRate' = [OwnRates!Kept(forgotten) EXCEPT ![a] = RateIn(table', a)]
           ELSE OwnRate' = OwnRates!Kept(forgotten)
<1> DEFINE forgotten == {x \in Apart \ {a} : Expired(RateIn(table, x)) /\ Owned(table', x) = {}}
           kept == OwnRates!Kept(forgotten)
<1>1. /\ OwnRate = [x \in Apart |-> RateIn(table, x)]
      /\ OwnRate' = [x \in Apart |-> RateIn(table', x)]
  BY OwnRateIs
<1>2. forgotten \in SUBSET OwnRates!MayForget
  BY <1>1, SameArithmetic DEF OwnRates!MayForget
<1>3. kept = [x \in Apart |-> IF x \in forgotten THEN Forgotten ELSE RateIn(table, x)]
  BY <1>1, SameArithmetic DEF OwnRates!Kept
<1>4. ASSUME NEW x \in Apart, x # a
      PROVE  RateIn(table', x) = kept[x]
  <2>2. KeptIn(table, table', x) \/ GoneIn(table, table', x)
    BY <1>4 DEF OthersKept
  <2>3. CASE x \in forgotten
    <3>1. Owned(table', x) = {}
      BY <2>3
    <3>2. kept[x] = Forgotten
      BY <1>3, <2>3
    <3>3. QED
      BY <3>1, <3>2 DEF RateIn
  <2>4. CASE x \notin forgotten
    <3>1. KeptIn(table, table', x)
      BY <1>4, <2>2, <2>4 DEF GoneIn
    <3>2. kept[x] = RateIn(table, x)
      BY <1>3, <2>4
    <3>3. QED
      BY <3>1, <3>2 DEF KeptIn
  <2>5. QED
    BY <2>3, <2>4
<1>5. a \notin forgotten
  OBVIOUS
<1> HIDE DEF forgotten, kept
<1>6. CASE a \in Apart
  <2>1. kept[a] = RateIn(table, a)
    BY <1>3, <1>5, <1>6
  <2>2. OwnRate' = [kept EXCEPT ![a] = RateIn(table', a)]
    BY <1>1, <1>3, <1>4, <1>6
  <2>3. QED
    BY <1>2, <1>6, <2>1, <2>2 DEF kept
<1>7. CASE a \notin Apart
  <2>1. OwnRate' = kept
    BY <1>1, <1>3, <1>4, <1>7
  <2>2. QED
    BY <1>2, <1>7, <2>1 DEF kept
<1>8. QED
  BY <1>6, <1>7

LEMMA NoRoomType == NoRoom' \in BOOLEAN /\ NoRoom \in BOOLEAN
BY DEF NoRoom

LEMMA ForgetMaps ==
  ASSUME NEW forgotten \in SUBSET OwnRates!MayForget, OwnRate' = OwnRates!Kept(forgotten),
         answer' = Nothing
  PROVE  OwnRates!Next
BY NoRoomType DEF OwnRates!Next, OwnRates!Forget

LEMMA RequestMaps ==
  ASSUME IInv, NEW a \in Addresses, Request(a)
  PROVE  OwnRates!Next
<1>1. /\ table' = SVC_RateLimitAddress(table, a)
      /\ answer' = IF a \in Apart THEN <<a, IsLimited(table, a)>> ELSE Nothing
  BY DEF Request, Answer
<1>2. TableOK(table)
  BY DEF IInv
<1>3. /\ OthersKept(table, table', a)
      /\ a \in Apart =>
           \/ /\ table' = table /\ Owned(table, a) = {} /\ IsLimited(table, a)
              /\ \A i \in Buckets : ~MayRecycle(table.buckets[i])
           \/ /\ RateIn(table', a) = Charged(RateBefore(table, a))
              /\ IsLimited(table, a) <=> Limited(RateBefore(table, a))
  BY <1>1, <1>2, SVC_RateLimitAddressIs
<1>4. IsLimited(table, a) \in BOOLEAN
  BY DEF IsLimited
<1>5. PICK forgotten \in SUBSET OwnRates!MayForget :
           IF a \in Apart
           THEN /\ OwnRates!Kept(forgotten)[a] = RateIn(table, a)
                /\ OwnRate' = [OwnRates!Kept(forgotten) EXCEPT ![a] = RateIn(table', a)]
           ELSE OwnRate' = OwnRates!Kept(forgotten)
  BY <1>3, Remembered
<1>6. CASE a \notin Apart
  BY <1>1, <1>5, <1>6, ForgetMaps
<1>7. CASE a \in Apart /\ table' = table /\ Owned(table, a) = {} /\ IsLimited(table, a)
           /\ \A i \in Buckets : ~MayRecycle(table.buckets[i])
  <2>1. NoRoom
    BY <1>7 DEF NoRoom
  <2>2. OwnRate[a] = OwnRates!Forgotten
    BY <1>7, OwnRateIs, SameArithmetic DEF RateIn
  <2>3. OwnRate' = OwnRate
    BY <1>7, OwnRateIs
  <2>4. IsLimited(table, a) = TRUE
    BY <1>4, <1>7
  <2>5. answer' = <<a, TRUE>>
    BY <1>1, <1>7, <2>4
  <2>6. OwnRates!TurnAway(a)
    BY <2>1, <2>2, <2>3, <2>5 DEF OwnRates!TurnAway
  <2>7. QED
    BY <1>7, <2>6, NoRoomType DEF OwnRates!Next
<1>8. CASE /\ a \in Apart /\ RateIn(table', a) = Charged(RateBefore(table, a))
           /\ IsLimited(table, a) <=> Limited(RateBefore(table, a))
  <2> DEFINE rate == OwnRates!Kept(forgotten)[a]
  <2>1. rate = RateIn(table, a)
    BY <1>5, <1>8
  <2>2. /\ Charged(RateBefore(table, a)) = Charged(RateIn(table, a))
        /\ Limited(RateBefore(table, a)) <=> Limited(RateIn(table, a))
    BY <1>2, <1>8, BeforeIs DEF Charged, Limited
  <2>3. RateIn(table', a) = OwnRates!Charged(rate)
    BY <1>8, <2>1, <2>2, SameArithmetic
  <2>4. IsLimited(table, a) <=> OwnRates!Limited(rate)
    BY <1>8, <2>1, <2>2, SameArithmetic
  <2>5. OwnRates!Limited(rate) \in BOOLEAN
    BY DEF OwnRates!Limited
  <2>6. answer' = <<a, OwnRates!Limited(rate)>>
    BY <1>1, <1>4, <1>8, <2>4, <2>5
  <2>7. OwnRate' = [OwnRates!Kept(forgotten) EXCEPT ![a] = OwnRates!Charged(rate)]
    BY <1>5, <1>8, <2>3
  <2>8. OwnRates!Request(a)
    BY <2>6, <2>7 DEF OwnRates!Request
  <2>9. QED
    BY <1>8, <2>8, NoRoomType DEF OwnRates!Next
<1>9. QED
  BY <1>3, <1>6, <1>7, <1>8

LEMMA SV_DirectConnectMaps ==
  ASSUME IInv, NEW a \in Addresses, SV_DirectConnect(a)
  PROVE  OwnRates!Next
<1> DEFINE u == SVC_RateRestoreBurstAddress(SVC_RateLimitAddress(table, a), a)
           v == SVC_RateRestoreToxicAddress(u, a)
           r == RateBefore(table, a)
<1>1. /\ ~IsLimited(table, a)
      /\ answer' = IF a \in Apart THEN <<a, FALSE>> ELSE Nothing
      /\ table' = u \/ table' = v
  BY DEF SV_DirectConnect, Answer
<1>2. TableOK(table)
  BY DEF IInv
<1>3. /\ OthersKept(table, u, a) /\ OthersKept(table, v, a)
      /\ a \in Apart =>
           /\ ~Limited(r) /\ Refunded(Charged(r)) = Leaked(r)
           /\ RateIn(u, a) = Leaked(r) /\ RateIn(v, a) = Forgiven(Leaked(r))
  BY <1>1, <1>2, ConnectIs
<1> HIDE DEF u, v
<1>4. OthersKept(table, table', a)
  BY <1>1, <1>3
<1>5. PICK forgotten \in SUBSET OwnRates!MayForget :
           IF a \in Apart
           THEN /\ OwnRates!Kept(forgotten)[a] = RateIn(table, a)
                /\ OwnRate' = [OwnRates!Kept(forgotten) EXCEPT ![a] = RateIn(table', a)]
           ELSE OwnRate' = OwnRates!Kept(forgotten)
  BY <1>4, Remembered
<1>6. CASE a \notin Apart
  BY <1>1, <1>5, <1>6, ForgetMaps
<1>7. CASE a \in Apart
  <2> DEFINE rate == OwnRates!Kept(forgotten)[a]
             charged == OwnRates!Charged(rate)
  <2>1. rate = RateIn(table, a)
    BY <1>5, <1>7
  <2>2. /\ Charged(r) = Charged(RateIn(table, a))
        /\ Limited(r) <=> Limited(RateIn(table, a))
    BY <1>2, <1>7, BeforeIs DEF Charged, Limited
  <2>3. ~OwnRates!Limited(rate) /\ charged = Charged(r)
    BY <1>3, <1>7, <2>1, <2>2, SameArithmetic
  <2>4. OwnRates!Refunded(charged) = Leaked(r)
        /\ OwnRates!Forgiven(OwnRates!Refunded(charged)) = Forgiven(Leaked(r))
    BY <1>3, <1>7, <2>3, SameArithmetic
  <2>5. RateIn(table', a) \in
          {OwnRates!Refunded(charged), OwnRates!Forgiven(OwnRates!Refunded(charged))}
    BY <1>1, <1>3, <1>7, <2>4
  <2>6. OwnRates!Limited(rate) \in BOOLEAN
    BY DEF OwnRates!Limited
  <2>7. answer' = <<a, OwnRates!Limited(rate)>>
    BY <1>1, <1>7, <2>3, <2>6
  <2>8. OwnRate' = [OwnRates!Kept(forgotten) EXCEPT ![a] = RateIn(table', a)]
    BY <1>5, <1>7
  <2>9. OwnRates!Request(a)
    BY <2>3, <2>5, <2>7, <2>8 DEF OwnRates!Request
  <2>10. QED
    BY <1>7, <2>9, NoRoomType DEF OwnRates!Next
<1>8. QED
  BY <1>6, <1>7

LEMMA NoAnswerMaps ==
  ASSUME IInv, NEW a \in Addresses, NoAnswer(a)
  PROVE  OwnRates!Next
<1>1. answer' = Nothing /\ table' = SVC_RateDropAddress(table, a)
  BY DEF NoAnswer
<1>2. TableOK(table)
  BY DEF IInv
<1>3. /\ OthersKept(table, table', a)
      /\ a \in Apart => table' = table \/ RateIn(table', a) = Penalised(RateIn(table, a))
  BY <1>1, <1>2, SVC_RateDropAddressIs
<1>4. PICK forgotten \in SUBSET OwnRates!MayForget :
           IF a \in Apart
           THEN /\ OwnRates!Kept(forgotten)[a] = RateIn(table, a)
                /\ OwnRate' = [OwnRates!Kept(forgotten) EXCEPT ![a] = RateIn(table', a)]
           ELSE OwnRate' = OwnRates!Kept(forgotten)
  BY <1>3, Remembered
<1>5. CASE a \notin Apart
  BY <1>1, <1>4, <1>5, ForgetMaps
<1>6. CASE a \in Apart /\ table' = table
  <2>1. OwnRate' = OwnRates!Kept({})
    BY <1>6, OwnRateIs DEF OwnRates!Kept
  <2>2. QED
    BY <1>1, <2>1, ForgetMaps
<1>7. CASE a \in Apart /\ RateIn(table', a) = Penalised(RateIn(table, a))
  <2>1. OwnRate' = [OwnRates!Kept(forgotten) EXCEPT
                      ![a] = OwnRates!Penalised(OwnRates!Kept(forgotten)[a])]
    BY <1>4, <1>7, SameArithmetic
  <2>2. OwnRates!Penalise(a)
    BY <1>1, <2>1 DEF OwnRates!Penalise
  <2>3. QED
    BY <1>7, <2>2, NoRoomType DEF OwnRates!Next
<1>8. QED
  BY <1>3, <1>5, <1>6, <1>7

LEMMA TickMaps ==
  ASSUME IInv, Tick
  PROVE  OwnRates!Next
<1>1. answer' = Nothing
  BY DEF Tick
<1>2. \A a \in Apart : RateIn(table', a) = Older(RateIn(table, a))
  BY TickIs
<1>3. OwnRate' = [a \in Apart |-> OwnRates!Older(OwnRate[a])]
  BY <1>2, OwnRateIs, SameArithmetic
<1>4. QED
  BY <1>1, <1>3, NoRoomType DEF OwnRates!Next, OwnRates!Tick

LEMMA SettleMaps ==
  ASSUME NEW a \in Addresses, Settle(a)
  PROVE  OwnRates!Next
<1>1. answer' = Nothing /\ table' = table
  BY DEF Settle
<1>2. OwnRate' = OwnRates!Kept({})
  BY <1>1, OwnRateIs DEF OwnRates!Kept
<1>3. QED
  BY <1>1, <1>2, ForgetMaps

\* ImplementsOwnRates: sharing a few buckets in hash chains, the server gives
\* every address whose hash is not 0 a rate of its own.
THEOREM Refinement == Spec => ImplementsOwnRates
<1>1. Init => OwnRates!Init
  <2> SUFFICES ASSUME Init PROVE OwnRates!Init
    OBVIOUS
  <2>1. \A a \in Apart : Owned(table, a) = {}
    BY TableAssumption DEF Init, Owned, Apart, TableAssumption
  <2>2. OwnRate = [a \in Apart |-> OwnRates!Forgotten]
    BY <2>1, OwnRateIs, SameArithmetic DEF RateIn
  <2>3. answer = Nothing
    BY DEF Init
  <2>4. QED
    BY <2>2, <2>3, NoRoomType DEF OwnRates!Init
<1>2. IInv /\ [Next]_vars => [OwnRates!Next]_(OwnRates!vars)
  <2> SUFFICES ASSUME IInv, [Next]_vars PROVE [OwnRates!Next]_(OwnRates!vars)
    OBVIOUS
  <2>1. CASE UNCHANGED vars
    <3>1. OwnRate' = OwnRate /\ answer' = answer
      BY <2>1, OwnRateIs DEF vars
    <3>2. NoRoom' = NoRoom
      BY <2>1 DEF vars, NoRoom
    <3>3. QED
      BY <3>1, <3>2 DEF OwnRates!vars
  <2>2. CASE Next
    BY <2>2, TickMaps, RequestMaps, SV_DirectConnectMaps, SettleMaps, NoAnswerMaps DEF Next
  <2>3. QED
    BY <2>1, <2>2
<1>3. QED
  BY <1>1, <1>2, RatesAccounted, PTL DEF Spec, ImplementsOwnRates, OwnRates!Spec
=============================================================================
