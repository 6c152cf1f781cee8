--------------------------- MODULE SnapshotsProofs ---------------------------
(***************************************************************************)
(* First: the common snapshot storage never overwrites a frame a client    *)
(* may still delta from, for every size of its two rings.  Both rings are  *)
(* seen as windows on an endless row: FirstOf(f) is where the entities of  *)
(* frame f would lie in an endless storage.  Positions (or frames) less    *)
(* than one ring apart differ modulo the ring, so it suffices that the     *)
(* live frames and the new one span at most one ring: that is what         *)
(* freeStorageEntities counts.                                             *)
(*                                                                         *)
(* Then: a client on top of it rebuilds what was sent.  Every frame of the *)
(* client on the server tells which entities of a common snapshot went     *)
(* into its message (FrameInv); every snapshot the client keeps holds the  *)
(* entities of its message as long as they are in its own ring (KeptInv);  *)
(* and what the client acknowledges it keeps for as long as the server may *)
(* delta from it (Keeps).  So both sides apply a delta to the same base.   *)
(***************************************************************************)
EXTENDS Snapshots, SequenceTheorems, FiniteSetTheorems,
        WellFoundedInduction, TLAPS

-----------------------------------------------------------------------------
(* Natural numbers, and remainders for the slots of a ring *)

\* Every set of natural numbers has a least one; this stands for induction.
LEMMA LeastNatural ==
  ASSUME NEW S, S \subseteq Nat, S # {}
  PROVE  \E n \in S : \A m \in S : n <= m
<1>1. PICK n \in S : \A m \in S : ~(<<m, n>> \in OpToRel(<, Nat))
  BY NatLessThanWellFounded, WFMin
<1>2. \A m \in S : ~(m < n) BY <1>1 DEF OpToRel
<1> QED BY <1>2

\* Quotient and remainder.
LEMMA Division ==
  ASSUME NEW n \in Nat \ {0}, NEW i \in Nat
  PROVE  /\ (i % n) \in 0 .. n - 1
         /\ (i \div n) \in Nat
         /\ i = (n * (i \div n)) + (i % n)
OBVIOUS

\* The remainder of a number is unique.
LEMMA SameRemainder ==
  ASSUME NEW n \in Nat \ {0}, NEW p \in Int, NEW q \in Int,
         NEW r \in 0 .. n - 1, NEW s \in 0 .. n - 1, (n * p) + r = (n * q) + s
  PROVE  r = s
<1>1. p > q => n * p >= (n * q) + n OBVIOUS
<1>2. q > p => n * q >= (n * p) + n OBVIOUS
<1> QED BY <1>1, <1>2

\* Numbers less than n apart differ modulo n.
LEMMA DistinctRemainders ==
  ASSUME NEW n \in Nat \ {0}, NEW i \in Nat, NEW j \in Nat, i < j, j - i < n
  PROVE  i % n # j % n
<1>1. ASSUME NEW p \in Int, NEW q \in Int, NEW r \in Int, i = (n * p) + r, j = (n * q) + r
      PROVE  FALSE
  <2>1. q <= p => n * q <= n * p OBVIOUS
  <2>2. q >= p + 1 => n * q >= (n * p) + n OBVIOUS
  <2> QED BY <1>1, <2>1, <2>2
<1>2. /\ i = (n * (i \div n)) + (i % n) /\ i \div n \in Int /\ i % n \in Int
      /\ j = (n * (j \div n)) + (j % n) /\ j \div n \in Int /\ j % n \in Int
  OBVIOUS
<1> QED BY <1>1, <1>2

\* Wrapping before or after adding is the same.
LEMMA RemainderAdd ==
  ASSUME NEW n \in Nat \ {0}, NEW i \in Nat, NEW j \in Nat
  PROVE  ((i % n) + j) % n = (i + j) % n
<1> DEFINE a == (i % n) + j
<1>1. a \in Nat /\ i = (n * (i \div n)) + (i % n) /\ (i \div n) \in Nat BY Division
<1>2. a = (n * (a \div n)) + (a % n) /\ (a \div n) \in Nat /\ a % n \in 0 .. n - 1
  BY <1>1, Division
<1>3. i + j = (n * ((i + j) \div n)) + ((i + j) % n) /\ ((i + j) \div n) \in Nat
      /\ (i + j) % n \in 0 .. n - 1
  <2>1. i + j \in Nat OBVIOUS
  <2> QED BY <2>1, Division
<1>4. i + j = (n * (i \div n)) + a BY <1>1, Division
<1>5. n * ((i \div n) + (a \div n)) = (n * (i \div n)) + (n * (a \div n))
  BY <1>1, <1>2
<1>6. (n * ((i \div n) + (a \div n))) + (a % n) = (n * ((i + j) \div n)) + ((i + j) % n)
  BY <1>2, <1>3, <1>4, <1>5
<1>7. (i \div n) + (a \div n) \in Int /\ ((i + j) \div n) \in Int BY <1>1, <1>2, <1>3
<1> QED BY <1>2, <1>3, <1>6, <1>7, SameRemainder

-----------------------------------------------------------------------------
(* The storage: the state in the terms of StorageInv *)

USE StorageAssumption

\* Total and FirstOf are numbers, the entities of a frame a list.
LEMMA FirstOfType ==
  ASSUME StorageTypeOK, Accounted
  PROVE  /\ Total \in Nat
         /\ \A f \in 0 .. snapshotFrame : FirstOf(f) \in Nat
         /\ FirstOf(snapshotFrame) = Total
         /\ \A f \in 0 .. snapshotFrame - 1 :
              /\ built[f + 1].entities \in Worlds
              /\ built[f + 1].entities \in Seq(EntityStates)
              /\ Len(built[f + 1].entities) \in Nat
<1>1. /\ built \in Seq([entities : Worlds, first : Nat])
      /\ snapshotFrame = Len(built) /\ Len(built) \in Nat
  BY DEF StorageTypeOK, Accounted
<1>2. \A k \in 1 .. Len(built) : built[k] \in [entities : Worlds, first : Nat]
  BY <1>1, ElementOfSeq
<1>3. \A k \in 1 .. Len(built) : /\ built[k].first \in Nat
                                 /\ built[k].entities \in Worlds
  BY <1>2
<1>4. \A k \in 1 .. Len(built) : /\ built[k].entities \in Seq(EntityStates)
                                 /\ Len(built[k].entities) \in Nat
  <2>1. \A w \in Worlds : w \in Seq(EntityStates) /\ Len(w) \in Nat
    OBVIOUS
  <2> QED BY <1>3, <2>1
<1>5. Total \in Nat
  <2>1. CASE built = <<>> BY <2>1 DEF Total
  <2>2. CASE built # <<>>
    <3>1. Len(built) \in 1 .. Len(built) BY <1>1, <2>2
    <3> QED BY <1>3, <1>4, <2>2, <3>1 DEF Total
  <2> QED BY <2>1, <2>2
<1>6. ASSUME NEW f \in 0 .. snapshotFrame PROVE FirstOf(f) \in Nat
  <2>1. CASE f = Len(built) BY <1>5, <2>1 DEF FirstOf
  <2>2. CASE f # Len(built)
    <3>1. f + 1 \in 1 .. Len(built) BY <1>1, <2>2
    <3> QED BY <1>3, <2>2, <3>1 DEF FirstOf
  <2> QED BY <2>1, <2>2
<1>7. \A f \in 0 .. snapshotFrame - 1 : f + 1 \in 1 .. Len(built)
  BY <1>1
<1>8. FirstOf(snapshotFrame) = Total BY <1>1 DEF FirstOf
<1> QED BY <1>3, <1>4, <1>5, <1>6, <1>7, <1>8

\* The entities of a live frame lie between its first and that of the next.
LEMMA LiveFrame ==
  ASSUME StorageInv, NEW f \in LiveFrames
  PROVE  /\ f \in 0 .. snapshotFrame - 1 /\ f \in lastValidFrame .. snapshotFrame
         /\ f + 1 \in lastValidFrame .. snapshotFrame
         /\ snapFrames[Slot(f)].count \in Nat
         /\ snapFrames[Slot(f)].count = Len(built[f + 1].entities)
         /\ FirstOf(f + 1) = FirstOf(f) + snapFrames[Slot(f)].count
<1>1. /\ lastValidFrame \in Nat /\ snapshotFrame \in Nat
      /\ lastValidFrame <= snapshotFrame
  BY DEF StorageInv, StorageTypeOK, StorageLayout, Accounted
<1>2. f \in 0 .. snapshotFrame - 1 /\ f \in lastValidFrame .. snapshotFrame
      /\ f + 1 \in lastValidFrame .. snapshotFrame
  BY <1>1 DEF LiveFrames
<1>3. snapFrames[Slot(f)].count = Len(built[f + 1].entities)
  <2>1. snapFrames[Slot(f)] = [ frameNum |-> f,
                                start    |-> Wrap(FirstOf(f)),
                                count    |-> Len(built[f + 1].entities) ]
    BY DEF StorageInv, StorageLayout, FramesFound
  <2> QED BY <2>1
<1>4. FirstOf(f + 1) = FirstOf(f) + Len(built[f + 1].entities)
  BY <1>2 DEF StorageInv, StorageLayout, LaidEndToEnd
<1>5. Len(built[f + 1].entities) \in Nat
  BY <1>2, FirstOfType DEF StorageInv, StorageLayout
<1> QED BY <1>2, <1>3, <1>4, <1>5

\* Releasing the frames before k frees what lies before the first of k.
LEMMA ReleasedIs ==
  ASSUME StorageInv
  PROVE  \A k \in lastValidFrame .. snapshotFrame :
           Released[k] = freeStorageEntities + FirstOf(k) - FirstOf(lastValidFrame)
<1> DEFINE D == lastValidFrame .. snapshotFrame
           free(k) == freeStorageEntities + FirstOf(k) - FirstOf(lastValidFrame)
           W == [k \in D |-> free(k)]
           Step(f, k) == IF k = lastValidFrame THEN freeStorageEntities
                         ELSE f[k - 1] + snapFrames[Slot(k - 1)].count
<1>1. /\ lastValidFrame \in Nat /\ snapshotFrame \in Nat
      /\ lastValidFrame <= snapshotFrame /\ lastValidFrame \in D
      /\ freeStorageEntities \in Nat
  BY DEF StorageInv, StorageTypeOK, StorageLayout, Accounted
<1>2. \A f \in D : FirstOf(f) \in Nat
  BY <1>1, FirstOfType DEF StorageInv, StorageLayout
<1>3. ASSUME NEW k \in D, k # lastValidFrame
      PROVE  k - 1 \in D /\ free(k) = free(k - 1) + snapFrames[Slot(k - 1)].count
  <2>1. k - 1 \in LiveFrames /\ k - 1 \in D BY <1>1, <1>3 DEF LiveFrames
  <2>2. /\ FirstOf(k - 1 + 1) = FirstOf(k - 1) + snapFrames[Slot(k - 1)].count
        /\ snapFrames[Slot(k - 1)].count \in Nat
    BY <2>1, LiveFrame
  <2>3. k - 1 + 1 = k BY <1>1
  <2>4. FirstOf(k) = FirstOf(k - 1) + snapFrames[Slot(k - 1)].count
    BY <2>2, <2>3
  <2> QED BY <1>1, <1>2, <2>1, <2>2, <2>4
<1>4. \A k \in D : W[k] = Step(W, k)
  <2> SUFFICES ASSUME NEW k \in D PROVE W[k] = Step(W, k) OBVIOUS
  <2>1. CASE k = lastValidFrame
    <3>1. free(k) = freeStorageEntities BY <1>1, <1>2, <2>1
    <3> QED BY <2>1, <3>1
  <2>2. CASE k # lastValidFrame
    <3>1. W[k] = free(k) /\ W[k - 1] = free(k - 1) BY <1>3, <2>2
    <3> QED BY <1>3, <2>2, <3>1
  <2> QED BY <2>1, <2>2
<1>5. Released = [k \in D |-> Step(Released, k)]
  <2>1. Released = CHOOSE f : f = [k \in D |-> Step(f, k)] BY DEF Released
  <2>2. W = [k \in D |-> Step(W, k)] BY <1>4
  <2> HIDE DEF W
  <2> QED BY <2>1, <2>2
<1>6. SUFFICES ASSUME {k \in D : Released[k] # W[k]} # {} PROVE FALSE
  OBVIOUS
<1> DEFINE S == {k \in D : Released[k] # W[k]}
<1>7. PICK n \in S : \A m \in S : n <= m
  <2>1. S \subseteq Nat BY <1>1
  <2> HIDE DEF S
  <2> QED BY <1>6, <2>1, LeastNatural DEF S
<1> HIDE DEF W
<1>8. CASE n = lastValidFrame
  BY <1>4, <1>5, <1>7, <1>8
<1>9. CASE n # lastValidFrame
  <2>1. n - 1 \in D /\ ~(n <= n - 1) BY <1>1, <1>3, <1>7, <1>9
  <2>2. Released[n - 1] = W[n - 1] BY <1>7, <2>1
  <2> QED BY <1>4, <1>5, <1>7, <1>9, <2>2
<1> QED BY <1>8, <1>9

-----------------------------------------------------------------------------
(* Building a common snapshot *)

\* The frames still valid when there is room were valid before, the slot to
\* be reused is not among theirs, and everything from the first of them on
\* fits into the storage together with the new entities.
LEMMA RoomMade ==
  ASSUME StorageInv, NEW valid \in lastValidFrame .. snapshotFrame, NEW count \in Nat,
         MakeRoom(count, valid), Released[valid] >= count
  PROVE  /\ valid \in Nat /\ snapshotFrame - valid < NUM_SNAPSHOT_FRAMES
         /\ Released[valid] - count =
              numSnapshotEntities - (Total + count - FirstOf(valid))
         /\ Total + count - FirstOf(valid) <= numSnapshotEntities
         /\ FirstOf(valid) <= Total
<1>1. /\ lastValidFrame \in Nat /\ snapshotFrame \in Nat
      /\ lastValidFrame <= snapshotFrame
      /\ snapshotFrame - lastValidFrame <= NUM_SNAPSHOT_FRAMES
      /\ freeStorageEntities = numSnapshotEntities - (Total - FirstOf(lastValidFrame))
  BY DEF StorageInv, StorageTypeOK, StorageLayout, Accounted
<1>2. /\ FirstOf(valid) \in Nat /\ FirstOf(lastValidFrame) \in Nat /\ Total \in Nat
      /\ FirstOf(snapshotFrame) = Total
  BY <1>1, FirstOfType DEF StorageInv, StorageLayout
<1>3. snapshotFrame - valid < NUM_SNAPSHOT_FRAMES
  BY <1>1 DEF MakeRoom, OldestFrame, RingIsFull
<1>4. Released[valid] = freeStorageEntities + FirstOf(valid) - FirstOf(lastValidFrame)
  BY ReleasedIs
<1>5. FirstOf(valid) <= FirstOf(snapshotFrame)
  <2>1. valid \in 0 .. snapshotFrame /\ snapshotFrame \in 0 .. snapshotFrame
        /\ valid <= snapshotFrame
    BY <1>1
  <2> QED BY <2>1 DEF StorageInv, StorageLayout, LaidEndToEnd
<1>6. Released[valid] = numSnapshotEntities - (Total - FirstOf(valid))
  BY <1>1, <1>2, <1>4
<1> QED BY <1>1, <1>2, <1>3, <1>5, <1>6

\* Frames less than a whole ring apart have different slots.
LEMMA DistinctSlots ==
  ASSUME NEW f \in Nat, NEW g \in Nat, f < g, g - f < NUM_SNAPSHOT_FRAMES
  PROVE  Slot(f) # Slot(g)
BY DistinctRemainders DEF Slot

\* The same of the storage.
LEMMA DistinctPositions ==
  ASSUME NEW p \in Nat, NEW q \in Nat, p < q, q - p < numSnapshotEntities
  PROVE  Wrap(p) # Wrap(q)
BY DistinctRemainders DEF Wrap

\* The storage position i entities after a wrapped one.
LEMMA WrapWrap ==
  ASSUME NEW p \in Nat, NEW i \in Nat
  PROVE  Wrap(Wrap(p) + i) = Wrap(p + i)
BY RemainderAdd DEF Wrap

\* Slot and Wrap stay inside their rings.
LEMMA SlotType == \A f \in Nat : Slot(f) \in Slots
BY DEF Slot, Slots

\* See SlotType.
LEMMA WrapType == \A p \in Nat : Wrap(p) \in Positions
BY DEF Wrap, Positions

\* A common snapshot overwrites only what was released.
LEMMA BuildPreserves ==
  ASSUME StorageInv, NEW world \in Worlds, SV_BuildCommonSnapshot(world)
  PROVE  StorageInv'
<1> DEFINE count == Len(world)
           start == currentStoragePosition
           slot  == Slot(snapshotFrame)
           index == [i \in 1 .. count |-> Wrap(start + i - 1)]
           new   == [entities |-> world, first |-> Total]
<1>1. PICK valid \in lastValidFrame .. snapshotFrame :
        /\ MakeRoom(count, valid) /\ Released[valid] >= count
        /\ lastValidFrame' = valid
        /\ freeStorageEntities' = Released[valid] - count
        /\ snapFrames' = [i \in Slots |->
             IF i = slot
             THEN [frameNum |-> snapshotFrame, start |-> start, count |-> count]
             ELSE IF i \in {Slot(k) : k \in lastValidFrame .. valid - 1}
             THEN [snapFrames[i] EXCEPT !.count = 0]
             ELSE snapFrames[i]]
        /\ currentStoragePosition' = Wrap(start + count)
        /\ snapshotFrame' = snapshotFrame + 1
        /\ currFrame' = slot
        /\ snapshotEntities' = [p \in Positions |->
             IF \E i \in DOMAIN index : index[i] = p
             THEN world[CHOOSE i \in DOMAIN index : index[i] = p]
             ELSE snapshotEntities[p]]
        /\ built' = Append(built, new)
        /\ UNCHANGED currentSnapshotFrame
  BY DEF SV_BuildCommonSnapshot
<1>2. count \in Nat /\ world \in Seq(EntityStates) /\ count <= numSnapshotEntities
  OBVIOUS
<1>3. /\ lastValidFrame \in Nat /\ snapshotFrame \in Nat
      /\ lastValidFrame <= snapshotFrame
      /\ snapshotFrame - lastValidFrame <= NUM_SNAPSHOT_FRAMES
      /\ snapshotFrame = Len(built)
      /\ built \in Seq([entities : Worlds, first : Nat])
      /\ start = Wrap(Total)
      /\ StorageTypeOK /\ Accounted
  BY DEF StorageInv, StorageTypeOK, StorageLayout, Accounted, LaidEndToEnd
<1>4. /\ Total \in Nat /\ FirstOf(snapshotFrame) = Total
      /\ \A f \in 0 .. snapshotFrame : FirstOf(f) \in Nat
      /\ \A f \in 0 .. snapshotFrame - 1 :
           /\ built[f + 1].entities \in Worlds
           /\ built[f + 1].entities \in Seq(EntityStates)
           /\ Len(built[f + 1].entities) \in Nat
  BY <1>3, FirstOfType
<1>5. /\ valid \in Nat /\ snapshotFrame - valid < NUM_SNAPSHOT_FRAMES
      /\ freeStorageEntities' = numSnapshotEntities - (Total + count - FirstOf(valid))
      /\ Total + count - FirstOf(valid) <= numSnapshotEntities
      /\ FirstOf(valid) <= Total
  <2> HIDE DEF count
  <2> QED BY <1>1, <1>2, RoomMade
<1>6. /\ built' \in Seq([entities : Worlds, first : Nat])
      /\ Len(built') = snapshotFrame + 1
      /\ \A f \in 0 .. snapshotFrame - 1 : built'[f + 1] = built[f + 1]
      /\ built'[snapshotFrame + 1] = new
  <2>1. new \in [entities : Worlds, first : Nat] BY <1>4
  <2>2. built' = Append(built, new) /\ Len(built) = snapshotFrame BY <1>1, <1>3
  <2> HIDE DEF new
  <2>3. /\ Append(built, new) \in Seq([entities : Worlds, first : Nat])
        /\ Len(Append(built, new)) = snapshotFrame + 1
        /\ \A k \in 1 .. snapshotFrame : Append(built, new)[k] = built[k]
        /\ Append(built, new)[snapshotFrame + 1] = new
    BY <1>3, <2>1, <2>2, AppendProperties
  <2>4. \A f \in 0 .. snapshotFrame - 1 : f + 1 \in 1 .. snapshotFrame
    BY <1>3
  <2> QED BY <2>2, <2>3, <2>4
<1>7. Total' = Total + count
  <2>1. built' # <<>> BY <1>3, <1>6, EmptySeq
  <2> QED BY <1>6, <2>1 DEF Total
<1>8. /\ \A f \in 0 .. snapshotFrame : FirstOf(f)' = FirstOf(f)
      /\ \A f : f = snapshotFrame + 1 => FirstOf(f)' = Total + count
  <2>1. ASSUME NEW f, f = snapshotFrame + 1 PROVE FirstOf(f)' = Total + count
    BY <1>6, <1>7, <2>1 DEF FirstOf
  <2>2. ASSUME NEW f \in 0 .. snapshotFrame PROVE FirstOf(f)' = FirstOf(f)
    <3>1. FirstOf(f)' = built'[f + 1].first
      BY <1>3, <1>6, <2>2 DEF FirstOf
    <3>2. CASE f = snapshotFrame
      BY <1>3, <1>6, <3>1, <3>2 DEF FirstOf
    <3>3. CASE f # snapshotFrame
      <4>1. f \in 0 .. snapshotFrame - 1 BY <1>3, <3>3
      <4> QED BY <1>3, <1>6, <3>1, <3>3, <4>1 DEF FirstOf
    <3> QED BY <3>2, <3>3
  <2> QED BY <2>1, <2>2
<1>9. \A i \in 1 .. count : index[i] = Wrap(Total + i - 1)
  BY <1>3, <1>4, WrapWrap
<1> HIDE DEF count, start, slot, index, new
<1>10. LiveFrames' = valid .. snapshotFrame
  BY <1>1, <1>3 DEF LiveFrames
<1>11. \A f \in valid .. snapshotFrame - 1 :
         f \in LiveFrames /\ f \in 0 .. snapshotFrame - 1 /\ f \in Nat
  BY <1>1, <1>3 DEF LiveFrames
<1>12. LaidEndToEnd'
  <2>1. currentStoragePosition' = Wrap(Total)'
    <3>1. Wrap(Total)' = Wrap(Total + count) BY <1>7 DEF Wrap
    <3>2. Wrap(start + count) = Wrap(Total + count) BY <1>2, <1>3, <1>4, WrapWrap
    <3> QED BY <1>1, <3>1, <3>2
  <2>2. ASSUME NEW f \in 0 .. snapshotFrame
        PROVE  FirstOf(f + 1)' = FirstOf(f)' + Len(built'[f + 1].entities)
    <3>1. CASE f = snapshotFrame
      <4>1. built'[f + 1].entities = world BY <1>6, <3>1 DEF new
      <4> QED BY <1>3, <1>4, <1>8, <3>1, <4>1 DEF count
    <3>2. CASE f # snapshotFrame
      <4>1. f \in 0 .. snapshotFrame - 1 /\ f + 1 \in 0 .. snapshotFrame
        BY <1>3, <3>2
      <4>2. FirstOf(f + 1) = FirstOf(f) + Len(built[f + 1].entities)
        BY <4>1 DEF StorageInv, StorageLayout, LaidEndToEnd
      <4> QED BY <1>6, <1>8, <4>1, <4>2
    <3> QED BY <3>1, <3>2
  <2>3. ASSUME NEW f \in 0 .. snapshotFrame + 1, NEW g \in 0 .. snapshotFrame + 1,
               f <= g
        PROVE  FirstOf(f)' <= FirstOf(g)'
    <3>1. \A h \in 0 .. snapshotFrame : FirstOf(h) <= Total
      <4>1. \A h \in 0 .. snapshotFrame :
              snapshotFrame \in 0 .. snapshotFrame /\ h <= snapshotFrame
        BY <1>3
      <4>2. \A h, k \in 0 .. snapshotFrame : h <= k => FirstOf(h) <= FirstOf(k)
        BY DEF StorageInv, StorageLayout, LaidEndToEnd
      <4> QED BY <1>4, <4>1, <4>2
    <3>2. CASE g = snapshotFrame + 1 /\ f = snapshotFrame + 1
      BY <1>2, <1>4, <1>8, <3>2
    <3>3. CASE g = snapshotFrame + 1 /\ f # snapshotFrame + 1
      <4>1. f \in 0 .. snapshotFrame BY <1>3, <3>3
      <4>2. FirstOf(f) <= Total /\ FirstOf(f) \in Nat BY <1>4, <3>1, <4>1
      <4>3. FirstOf(f)' = FirstOf(f) /\ FirstOf(g)' = Total + count
        BY <1>8, <3>3, <4>1
      <4> QED BY <1>2, <1>4, <4>2, <4>3
    <3>4. CASE g # snapshotFrame + 1
      <4>1. f \in 0 .. snapshotFrame /\ g \in 0 .. snapshotFrame
        <5>1. f \in Int /\ g \in Int /\ f <= g /\ g <= snapshotFrame + 1 /\ 0 <= f
          BY <1>3, <2>3
        <5>2. g <= snapshotFrame BY <1>3, <3>4, <5>1
        <5> QED BY <1>3, <5>1, <5>2
      <4>2. FirstOf(f) <= FirstOf(g)
        BY <2>3, <4>1 DEF StorageInv, StorageLayout, LaidEndToEnd
      <4> QED BY <1>8, <4>1, <4>2
    <3> QED BY <3>2, <3>3, <3>4
  <2>4. snapshotFrame' = snapshotFrame + 1 /\ snapshotFrame' - 1 = snapshotFrame
    BY <1>1, <1>3
  <2>5. \A f \in 0 .. snapshotFrame' - 1 :
          FirstOf(f + 1)' = FirstOf(f)' + Len(built'[f + 1].entities)
    BY <2>2, <2>4
  <2>6. \A f, g \in 0 .. snapshotFrame' : f <= g => FirstOf(f)' <= FirstOf(g)'
    BY <2>3, <2>4
  <2> QED BY <2>1, <2>5, <2>6, Zenon DEF LaidEndToEnd
<1>13. Accounted'
  <2>1. FirstOf(lastValidFrame)' = FirstOf(valid)
    <3>1. valid \in 0 .. snapshotFrame BY <1>1, <1>3, <1>5
    <3>2. FirstOf(valid)' = FirstOf(valid) BY <1>8, <3>1
    <3> QED BY <1>1, <3>2 DEF FirstOf
  <2>2. freeStorageEntities'
          = numSnapshotEntities - (Total' - FirstOf(lastValidFrame)')
    <3>1. freeStorageEntities'
            = numSnapshotEntities - (Total + count - FirstOf(valid))
      BY <1>5, Zenon
    <3>2. Total' \in Nat /\ Total + count - FirstOf(valid) = Total' - FirstOf(valid)
      <4>1. valid \in 0 .. snapshotFrame BY <1>1, <1>3, <1>5
      <4>2. FirstOf(valid) \in Nat BY <1>4, <4>1
      <4> QED BY <1>2, <1>4, <1>7, <4>2
    <3> QED BY <2>1, <3>1, <3>2, Zenon
  <2>3. snapshotFrame' - valid <= NUM_SNAPSHOT_FRAMES /\ valid <= snapshotFrame'
    BY <1>1, <1>3, <1>5
  <2> QED BY <1>1, <1>6, <2>2, <2>3 DEF Accounted
<1>14. FramesFound'
  <2> SUFFICES ASSUME NEW f \in valid .. snapshotFrame
               PROVE  snapFrames'[Slot(f)] =
                        [ frameNum |-> f,
                          start    |-> Wrap(FirstOf(f)'),
                          count    |-> Len(built'[f + 1].entities) ]
    BY <1>10 DEF FramesFound, Slot, Wrap
  <2>1. Slot(f) \in Slots BY <1>5, SlotType
  <2>2. CASE f = snapshotFrame
    <3>1. snapFrames'[Slot(f)] =
            [frameNum |-> snapshotFrame, start |-> start, count |-> count]
      BY <1>1, <2>1, <2>2 DEF slot
    <3>2. built'[f + 1].entities = world BY <1>6, <2>2 DEF new
    <3>3. FirstOf(f)' = Total BY <1>3, <1>4, <1>8, <2>2
    <3> QED BY <1>3, <2>2, <3>1, <3>2, <3>3 DEF count
  <2>3. CASE f # snapshotFrame
    <3>1. f \in valid .. snapshotFrame - 1 /\ f < snapshotFrame BY <1>3, <1>5, <2>3
    <3>2. f \in LiveFrames /\ f \in 0 .. snapshotFrame - 1 /\ f \in Nat
      BY <1>11, <3>1
    <3>3. Slot(f) # slot
      <4>1. snapshotFrame - f < NUM_SNAPSHOT_FRAMES BY <1>3, <1>5, <3>1
      <4> QED BY <1>3, <3>1, <3>2, <4>1, DistinctSlots DEF slot
    <3>4. Slot(f) \notin {Slot(k) : k \in lastValidFrame .. valid - 1}
      <4>1. ASSUME NEW k \in lastValidFrame .. valid - 1 PROVE Slot(k) # Slot(f)
        <5>1. k \in Nat /\ k < f /\ f - k < NUM_SNAPSHOT_FRAMES
          BY <1>3, <1>5, <3>1, <4>1
        <5> QED BY <3>2, <5>1, DistinctSlots
      <4> QED BY <4>1
    <3>5. snapFrames'[Slot(f)] = snapFrames[Slot(f)]
      BY <1>1, <2>1, <3>3, <3>4
    <3>6. snapFrames[Slot(f)] = [ frameNum |-> f,
                                  start    |-> Wrap(FirstOf(f)),
                                  count    |-> Len(built[f + 1].entities) ]
      BY <3>2 DEF StorageInv, StorageLayout, FramesFound
    <3>7. FirstOf(f)' = FirstOf(f) /\ built'[f + 1] = built[f + 1]
      BY <1>3, <1>6, <1>8, <3>2
    <3> QED BY <3>5, <3>6, <3>7
  <2> QED BY <2>2, <2>3
<1>15. EntitiesKept'
  <2> SUFFICES ASSUME NEW f \in valid .. snapshotFrame,
                      NEW i \in 1 .. Len(built'[f + 1].entities)
               PROVE  snapshotEntities'[Wrap(FirstOf(f)' + i - 1)]
                        = built'[f + 1].entities[i]
    BY <1>10 DEF EntitiesKept, Wrap
  <2>1. CASE f = snapshotFrame
    <3>1. built'[f + 1].entities = world BY <1>6, <2>1 DEF new
    <3>2. FirstOf(f)' = Total BY <1>3, <1>4, <1>8, <2>1
    <3>3. i \in 1 .. count /\ i \in DOMAIN index BY <3>1 DEF count, index
    <3>4. \A j \in DOMAIN index : index[j] = index[i] => j = i
      <4> SUFFICES ASSUME NEW j \in DOMAIN index, j # i PROVE index[j] # index[i]
        OBVIOUS
      <4>1. j \in 1 .. count BY DEF index
      <4>2. Total + i - 1 \in Nat /\ Total + j - 1 \in Nat
        BY <1>2, <1>4, <3>3, <4>1
      <4>3. index[i] = Wrap(Total + i - 1) /\ index[j] = Wrap(Total + j - 1)
        BY <1>9, <3>3, <4>1
      <4>4. CASE i < j
        <5>1. /\ Total + i - 1 < Total + j - 1
              /\ (Total + j - 1) - (Total + i - 1) < numSnapshotEntities
          BY <1>2, <1>4, <3>3, <4>1, <4>4
        <5> QED BY <4>2, <4>3, <5>1, DistinctPositions
      <4>5. CASE j < i
        <5>1. /\ Total + j - 1 < Total + i - 1
              /\ (Total + i - 1) - (Total + j - 1) < numSnapshotEntities
          BY <1>2, <1>4, <3>3, <4>1, <4>5
        <5> QED BY <4>2, <4>3, <5>1, DistinctPositions
      <4> QED BY <1>2, <3>3, <4>1, <4>4, <4>5
    <3>5. index[i] = Wrap(FirstOf(f)' + i - 1) BY <1>9, <3>2, <3>3
    <3>6. index[i] \in Positions
      <4>1. Total + i - 1 \in Nat BY <1>2, <1>4, <3>3
      <4> QED BY <1>9, <3>3, <4>1, WrapType
    <3>7. (CHOOSE j \in DOMAIN index : index[j] = index[i]) = i
      BY <3>3, <3>4
    <3>8. snapshotEntities'[index[i]] = world[i]
      BY <1>1, <3>3, <3>6, <3>7
    <3> QED BY <3>1, <3>5, <3>8
  <2>2. CASE f # snapshotFrame
    <3>1. f \in valid .. snapshotFrame - 1 BY <1>3, <1>5, <2>2
    <3>2. /\ f \in LiveFrames /\ f \in 0 .. snapshotFrame - 1 /\ f \in Nat
          /\ f \in 0 .. snapshotFrame /\ valid \in 0 .. snapshotFrame
          /\ f + 1 \in 0 .. snapshotFrame /\ valid <= f
      BY <1>3, <1>5, <1>11, <3>1
    <3>3. FirstOf(f)' = FirstOf(f) /\ built'[f + 1] = built[f + 1]
      BY <1>6, <1>8, <3>2
    <3>4. /\ FirstOf(valid) <= FirstOf(f) /\ FirstOf(f + 1) <= Total
          /\ FirstOf(f + 1) = FirstOf(f) + Len(built[f + 1].entities)
      <4>1. f + 1 <= snapshotFrame /\ snapshotFrame \in 0 .. snapshotFrame
        BY <1>3, <3>2
      <4> QED BY <1>4, <3>2, <4>1 DEF StorageInv, StorageLayout, LaidEndToEnd
    <3> DEFINE p == FirstOf(f) + i - 1
    <3>5. /\ p \in Nat /\ p < Total /\ FirstOf(valid) <= p
      <4>1. /\ FirstOf(f) \in Nat /\ FirstOf(valid) \in Nat
            /\ Len(built[f + 1].entities) \in Nat
        BY <1>4, <3>2
      <4>2. i \in 1 .. Len(built[f + 1].entities) BY <3>3
      <4>3. i \in Nat /\ 1 <= i /\ i <= Len(built[f + 1].entities) BY <4>1, <4>2
      <4>4. p \in Nat /\ FirstOf(f) <= p BY <4>1, <4>3
      <4>5. p < FirstOf(f) + Len(built[f + 1].entities) BY <4>1, <4>3
      <4> HIDE DEF p
      <4>6. FirstOf(valid) <= p BY <3>4, <4>1, <4>4
      <4>7. FirstOf(f + 1) \in Nat BY <1>4, <3>2
      <4> QED BY <1>4, <3>4, <4>4, <4>5, <4>6, <4>7
    <3>6. \A j \in DOMAIN index : index[j] # Wrap(p)
      <4> SUFFICES ASSUME NEW j \in DOMAIN index PROVE index[j] # Wrap(p)
        OBVIOUS
      <4>1. j \in 1 .. count BY DEF index
      <4>2. FirstOf(valid) \in Nat BY <1>4, <3>2
      <4> HIDE DEF p
      <4> DEFINE q == Total + j - 1
      <4>3. j \in Nat /\ 1 <= j /\ j <= count /\ count \in Nat /\ Total \in Nat
        BY <1>2, <1>4, <4>1
      <4>4. q \in Nat /\ Total <= q /\ q < Total + count BY <4>3
      <4>5. index[j] = Wrap(q) BY <1>9, <4>1
      <4> HIDE DEF q
      <4>6. p < q BY <3>5, <4>3, <4>4
      <4>7. q - p < numSnapshotEntities
        BY <1>5, <3>5, <4>2, <4>3, <4>4
      <4>8. Wrap(p) # Wrap(q) BY <3>5, <4>4, <4>6, <4>7, DistinctPositions
      <4> QED BY <4>5, <4>8
    <3>7. snapshotEntities'[Wrap(p)] = snapshotEntities[Wrap(p)]
      <4> HIDE DEF p
      <4>1. Wrap(p) \in Positions BY <3>5, WrapType
      <4> QED BY <1>1, <3>6, <4>1
    <3>8. snapshotEntities[Wrap(p)] = built[f + 1].entities[i]
      BY <3>2, <3>3 DEF StorageInv, StorageLayout, EntitiesKept
    <3> QED BY <3>3, <3>7, <3>8
  <2> QED BY <2>1, <2>2
<1>16. StorageTypeOK'
  <2>1. snapshotEntities' \in [Positions -> EntityStates \cup {NoEntity}]
    <3> SUFFICES ASSUME NEW p \in Positions
                 PROVE  snapshotEntities'[p] \in EntityStates \cup {NoEntity}
      BY <1>1
    <3>1. CASE \E i \in DOMAIN index : index[i] = p
      <4>1. PICK i \in DOMAIN index : i = CHOOSE j \in DOMAIN index : index[j] = p
        BY <3>1
      <4>2. snapshotEntities'[p] = world[i] BY <1>1, <3>1, <4>1
      <4>3. i \in 1 .. Len(world) BY DEF index, count
      <4>4. world[i] \in EntityStates BY <1>2, <4>3, ElementOfSeq
      <4> QED BY <4>2, <4>4
    <3>2. CASE ~ \E i \in DOMAIN index : index[i] = p
      BY <1>1, <1>3, <3>2 DEF StorageTypeOK
    <3> QED BY <3>1, <3>2
  <2>2. start \in Positions BY <1>3, <1>4, WrapType
  <2>3. snapFrames' \in [Slots -> [frameNum : Nat, start : Positions, count : Nat]]
    <3> SUFFICES ASSUME NEW i \in Slots
                 PROVE  snapFrames'[i] \in [frameNum : Nat, start : Positions, count : Nat]
      BY <1>1
    <3>1. snapFrames[i] \in [frameNum : Nat, start : Positions, count : Nat]
      BY <1>3 DEF StorageTypeOK
    <3>2. [snapFrames[i] EXCEPT !.count = 0]
            \in [frameNum : Nat, start : Positions, count : Nat]
      BY <3>1
    <3>3. [frameNum |-> snapshotFrame, start |-> start, count |-> count]
            \in [frameNum : Nat, start : Positions, count : Nat]
      BY <1>2, <1>3, <2>2
    <3> QED BY <1>1, <3>1, <3>2, <3>3
  <2>4. freeStorageEntities' \in 0 .. numSnapshotEntities
    <3>1. FirstOf(valid) \in Nat
      <4>1. valid \in 0 .. snapshotFrame BY <1>1, <1>3, <1>5
      <4> QED BY <1>4, <4>1
    <3> QED BY <1>2, <1>4, <1>5, <3>1
  <2>5. currentStoragePosition' \in Positions
    <3>1. Wrap(start + count) = Wrap(Total + count) BY <1>2, <1>3, <1>4, WrapWrap
    <3>2. Total + count \in Nat BY <1>2, <1>4
    <3> QED BY <1>1, <3>1, <3>2, WrapType
  <2>6. {snapshotFrame', lastValidFrame', currentSnapshotFrame'} \subseteq Nat
    <3>1. currentSnapshotFrame \in Nat BY <1>3 DEF StorageTypeOK
    <3> QED BY <1>1, <1>3, <1>5, <3>1
  <2>7. currFrame' \in Slots \cup {NoFrame}
    BY <1>1, <1>3, SlotType DEF slot
  <2> QED BY <1>6, <2>1, <2>3, <2>4, <2>5, <2>6, <2>7 DEF StorageTypeOK, Positions, Slots
<1>17. LastShared'
  <2>1. /\ currFrame' = Slot(snapshotFrame) /\ snapshotFrame' = snapshotFrame + 1
        /\ lastValidFrame' = valid
    <3>1. currFrame' = slot BY <1>1
    <3> QED BY <1>1, <3>1 DEF slot
  <2>2. snapshotFrame' - 1 = snapshotFrame /\ snapshotFrame' > lastValidFrame'
    BY <1>1, <1>3, <2>1
  <2>3. Slot(snapshotFrame' - 1) = Slot(snapshotFrame) BY <2>2
  <2>4. currFrame' = Slot(snapshotFrame' - 1) BY <2>1, <2>3
  <2>5. Slot(snapshotFrame - 1)' = Slot(snapshotFrame' - 1) BY DEF Slot
  <2> QED BY <2>2, <2>4, <2>5 DEF LastShared
<1> QED BY <1>12, <1>13, <1>14, <1>15, <1>16, <1>17 DEF StorageInv, StorageLayout

-----------------------------------------------------------------------------
(* The theorems *)

\* The empty storage.
LEMMA InitEstablishes ==
  ASSUME StorageInit
  PROVE  StorageInv
<1>1. /\ built = <<>> /\ Len(built) = 0 /\ Total = 0
      /\ snapshotFrame = 0 /\ lastValidFrame = 0 /\ FirstOf(0) = 0
  BY DEF StorageInit, Total, FirstOf
<1>2. LiveFrames = {} BY <1>1 DEF LiveFrames
<1>3. 0 \in Positions /\ Wrap(0) = 0 BY DEF Positions, Wrap
<1>4. StorageTypeOK
  <2>1. built \in Seq([entities : Worlds, first : Nat]) BY <1>1
  <2> QED BY <1>3, <2>1 DEF StorageInit, StorageTypeOK
<1>5. LaidEndToEnd BY <1>1, <1>3 DEF StorageInit, LaidEndToEnd
<1>6. Accounted BY <1>1 DEF StorageInit, Accounted
<1>7. LastShared BY DEF StorageInit, LastShared
<1> QED BY <1>2, <1>4, <1>5, <1>6, <1>7
        DEF StorageInv, StorageLayout, FramesFound, EntitiesKept

\* A new map starts from the empty storage again.
LEMMA RestartPreserves ==
  ASSUME SV_InitSnapshotStorage
  PROVE  StorageInv'
<1>1. /\ built' = <<>> /\ Len(built') = 0 /\ Total' = 0
      /\ snapshotFrame' = 0 /\ lastValidFrame' = 0 /\ FirstOf(0)' = 0
  BY DEF SV_InitSnapshotStorage, Total, FirstOf
<1>2. LiveFrames' = {} BY <1>1 DEF LiveFrames
<1>3. 0 \in Positions /\ Wrap(0) = 0 BY DEF Positions, Wrap
<1>4. StorageTypeOK'
  <2>1. built' \in Seq([entities : Worlds, first : Nat]) BY <1>1
  <2> QED BY <1>3, <2>1
          DEF SV_InitSnapshotStorage, StorageTypeOK, Positions, Slots
<1>5. LaidEndToEnd'
  <2>1. Wrap(Total)' = 0 BY <1>1, <1>3 DEF Wrap
  <2> QED BY <1>1, <2>1 DEF SV_InitSnapshotStorage, LaidEndToEnd
<1>6. Accounted'
  <2>1. FirstOf(lastValidFrame)' = 0 BY <1>1 DEF FirstOf
  <2> QED BY <1>1, <2>1 DEF SV_InitSnapshotStorage, Accounted
<1>7. LastShared' BY DEF SV_InitSnapshotStorage, LastShared
<1> QED BY <1>2, <1>4, <1>5, <1>6, <1>7
        DEF StorageInv, StorageLayout, FramesFound, EntitiesKept

\* The invariant does not depend on the frame clients are given.
LEMMA IssuePreserves ==
  ASSUME StorageInv, SV_IssueNewSnapshot
  PROVE  StorageInv'
<1>1. /\ snapshotEntities' = snapshotEntities /\ snapFrames' = snapFrames
      /\ freeStorageEntities' = freeStorageEntities
      /\ currentStoragePosition' = currentStoragePosition
      /\ snapshotFrame' = snapshotFrame /\ lastValidFrame' = lastValidFrame
      /\ built' = built /\ currFrame' = NoFrame
      /\ currentSnapshotFrame' = snapshotFrame
  BY DEF SV_IssueNewSnapshot
<1>2. StorageTypeOK' BY <1>1 DEF StorageInv, StorageTypeOK, Positions, Slots
<1>3. StorageLayout'
  BY <1>1 DEF StorageInv, StorageLayout, LaidEndToEnd, Accounted, FramesFound,
              LastShared, EntitiesKept, LiveFrames, FirstOf, Total, Slot, Wrap
<1> QED BY <1>2, <1>3 DEF StorageInv

\* Steps that leave the storage alone.
LEMMA StutterPreserves ==
  ASSUME StorageInv, UNCHANGED storageVars
  PROVE  StorageInv'
<1>1. StorageTypeOK' BY DEF storageVars, StorageInv, StorageTypeOK, Positions, Slots
<1>2. StorageLayout'
  BY DEF storageVars, StorageInv, StorageLayout, LaidEndToEnd, Accounted, FramesFound,
         LastShared, EntitiesKept, LiveFrames, FirstOf, Total, Slot, Wrap
<1> QED BY <1>1, <1>2 DEF StorageInv

\* The induction step.
LEMMA NextPreserves ==
  ASSUME StorageInv, [StorageNext]_storageVars
  PROVE  StorageInv'
<1>1. CASE SV_InitSnapshotStorage BY <1>1, RestartPreserves
<1>2. CASE SV_IssueNewSnapshot BY <1>2, IssuePreserves
<1>3. CASE \E world \in Worlds : SV_BuildCommonSnapshot(world)
  BY <1>3, BuildPreserves
<1>4. CASE UNCHANGED storageVars BY <1>4, StutterPreserves
<1> QED BY <1>1, <1>2, <1>3, <1>4 DEF StorageNext

\* The storage of svs, for every size of the two rings and every sequence of
\* worlds: frames lie in it end to end, what they do not take is free, and every
\* live frame is found in its slot with its entities. StorageInv is inductive.
THEOREM StorageInvariant == StorageSpec => []StorageInv
<1>1. StorageInit => StorageInv BY InitEstablishes
<1>2. StorageInv /\ [StorageNext]_storageVars => StorageInv' BY NextPreserves
<1> QED BY <1>1, <1>2, PTL DEF StorageSpec

\* SV_WriteSnapshotToClient may delta from every frame from lastValidFrame
\* on: what SV_BuildCommonSnapshot copied for it has not been overwritten.
THEOREM FramesIntact == StorageSpec => []LiveFramesIntact
<1>1. ASSUME StorageInv PROVE LiveFramesIntact
  <2> SUFFICES ASSUME NEW f \in LiveFrames
               PROVE  LET sf == snapFrames[Slot(f)]
                      IN  /\ sf.frameNum = f
                          /\ sf.count = Len(built[f + 1].entities)
                          /\ \A i \in 1 .. sf.count :
                               snapshotEntities[Wrap(sf.start + i - 1)]
                                 = built[f + 1].entities[i]
    BY DEF LiveFramesIntact
  <2>1. snapFrames[Slot(f)] = [ frameNum |-> f,
                                start    |-> Wrap(FirstOf(f)),
                                count    |-> Len(built[f + 1].entities) ]
    BY <1>1 DEF StorageInv, StorageLayout, FramesFound
  <2>2. FirstOf(f) \in Nat
    <3>1. f \in 0 .. snapshotFrame - 1 BY <1>1, LiveFrame
    <3>2. snapshotFrame \in Nat BY <1>1 DEF StorageInv, StorageTypeOK
    <3>3. f \in 0 .. snapshotFrame BY <3>1, <3>2
    <3> QED BY <1>1, <3>3, FirstOfType DEF StorageInv, StorageLayout
  <2>3. ASSUME NEW i \in 1 .. Len(built[f + 1].entities)
        PROVE  snapshotEntities[Wrap(Wrap(FirstOf(f)) + i - 1)]
                 = built[f + 1].entities[i]
    <3>1. Len(built[f + 1].entities) \in Nat BY <1>1, LiveFrame
    <3>2. i - 1 \in Nat BY <3>1
    <3>3. Wrap(Wrap(FirstOf(f)) + (i - 1)) = Wrap(FirstOf(f) + (i - 1))
      BY <2>2, <3>2, WrapWrap
    <3>4. /\ Wrap(FirstOf(f)) + i - 1 = Wrap(FirstOf(f)) + (i - 1)
          /\ FirstOf(f) + i - 1 = FirstOf(f) + (i - 1)
      <4>1. Wrap(FirstOf(f)) \in Int BY <2>2, WrapType DEF Positions
      <4> QED BY <2>2, <3>2, <4>1
    <3>5. snapshotEntities[Wrap(FirstOf(f) + i - 1)] = built[f + 1].entities[i]
      BY <1>1 DEF StorageInv, StorageLayout, EntitiesKept
    <3> QED BY <3>3, <3>4, <3>5
  <2> QED BY <2>1, <2>3
<1> QED BY <1>1, StorageInvariant, PTL

\* The Com_Error of SV_BuildCommonSnapshot is never reached: the release loop
\* ends with room for every list of entities the world may hold.
THEOREM RoomForEveryWorld == StorageSpec => []AlwaysRoom
<1>1. ASSUME StorageInv PROVE AlwaysRoom
  <2> SUFFICES ASSUME NEW world \in Worlds
               PROVE  \E valid \in lastValidFrame .. snapshotFrame :
                        /\ MakeRoom(Len(world), valid)
                        /\ Released[valid] >= Len(world)
    BY DEF AlwaysRoom
  <2> DEFINE count == Len(world)
  <2>1. count \in Nat /\ count <= numSnapshotEntities OBVIOUS
  <2>2. /\ lastValidFrame \in Nat /\ snapshotFrame \in Nat
        /\ lastValidFrame <= snapshotFrame
        /\ snapshotFrame - lastValidFrame <= NUM_SNAPSHOT_FRAMES
        /\ freeStorageEntities
             = numSnapshotEntities - (Total - FirstOf(lastValidFrame))
    BY <1>1 DEF StorageInv, StorageTypeOK, StorageLayout, Accounted
  <2>3. /\ \A k \in lastValidFrame .. snapshotFrame : FirstOf(k) \in Nat
        /\ Total \in Nat /\ FirstOf(snapshotFrame) = Total
    BY <1>1, <2>2, FirstOfType DEF StorageInv, StorageLayout
  <2>4. Released[snapshotFrame] = numSnapshotEntities
    <3>1. Released[snapshotFrame] = freeStorageEntities
             + FirstOf(snapshotFrame) - FirstOf(lastValidFrame)
      BY <1>1, <2>2, ReleasedIs
    <3>2. FirstOf(lastValidFrame) \in Nat BY <2>2, <2>3
    <3> QED BY <2>2, <2>3, <3>1, <3>2
  <2> DEFINE S == {k \in OldestFrame .. snapshotFrame :
                     k = snapshotFrame \/ Released[k] >= count}
  <2>5. OldestFrame \in lastValidFrame .. snapshotFrame
    BY <2>2 DEF OldestFrame, RingIsFull
  <2>6. S \subseteq Nat /\ S # {}
    <3>1. OldestFrame \in Nat /\ OldestFrame <= snapshotFrame BY <2>2, <2>5
    <3>2. snapshotFrame \in S BY <2>2, <3>1
    <3> QED BY <3>1, <3>2
  <2>7. PICK valid \in S : \A k \in S : valid <= k
    <3> HIDE DEF S
    <3> QED BY <2>6, LeastNatural
  <2>8. valid \in lastValidFrame .. snapshotFrame /\ valid \in OldestFrame .. snapshotFrame
    BY <2>2, <2>5, <2>7
  <2>9. \A k \in OldestFrame .. valid - 1 : Released[k] < count
    <3> SUFFICES ASSUME NEW k \in OldestFrame .. valid - 1
                 PROVE  Released[k] < count
      OBVIOUS
    <3>1. k \in OldestFrame .. snapshotFrame /\ ~(valid <= k)
          /\ k \in lastValidFrame .. snapshotFrame
      BY <2>2, <2>5, <2>8
    <3>2. ~(Released[k] >= count) BY <2>7, <3>1
    <3>3. Released[k] \in Int
      <4>1. Released[k] = freeStorageEntities + FirstOf(k) - FirstOf(lastValidFrame)
        BY <1>1, <3>1, ReleasedIs
      <4>2. FirstOf(k) \in Nat /\ FirstOf(lastValidFrame) \in Nat
        BY <2>2, <2>3, <3>1
      <4> QED BY <2>2, <2>3, <4>1, <4>2
    <3> QED BY <2>1, <3>2, <3>3
  <2>10. Released[valid] >= count
    BY <2>1, <2>4, <2>7
  <2> HIDE DEF count
  <2>11. MakeRoom(count, valid) BY <2>7, <2>8, <2>9, <2>10 DEF MakeRoom
  <2> QED BY <2>8, <2>10, <2>11 DEF count
<1> QED BY <1>1, StorageInvariant, PTL

-----------------------------------------------------------------------------
(* The snapshots of a client: the inductive invariant *)

HIDE StorageAssumption

gamestateNum == sv.gamestateMessageNum
Received == cl.serverMessageSequence

\* The entities of a snapshot.
Fits(entities) ==
  /\ entities \subseteq EntityStates /\ UniqueNumbers(entities)
  /\ IsFiniteSet(entities) /\ Cardinality(entities) <= MAX_SNAPSHOT_ENTITIES

\* PacketEntities, with the baselines of any map.
Delta(baselines, old, new) ==
  LET likeBaseline(e) == e.number \notin Numbers(old) /\ e \in baselines
  IN  [ changed   |-> {e \in new \ old : ~likeBaseline(e)},
        baselines |-> Numbers({e \in new : likeBaseline(e)}),
        removed   |-> Numbers(old) \ Numbers(new) ]

ServerIds == 1 .. MaxMaps + 1
FrameType == [frameNum : Nat, ents : SUBSET Positions]
ServerType ==
  [ serverId : ServerIds, state : {CS_CONNECTED, CS_PRIMED, CS_ACTIVE},
    gamestateAcked : BOOLEAN, gamestateMessageNum : Nat \cup {-1},
    deltaActive : BOOLEAN, deltaStart : Nat, messageAcknowledge : Nat,
    outgoingSequence : Nat \ {0},
    frames : [0 .. PACKET_BACKUP - 1 -> FrameType] ]
PacketType ==
  [ serverId : ServerIds \cup {0}, messageAcknowledge : Nat,
    move : {"none", "clc_move", "clc_moveNoDelta"} ]
MessageType ==
  [ sequence : Nat, type : {"svc_snapshot", "svc_gamestate"},
    serverId : ServerIds, lastframe : Nat,
    entities : [ changed : SUBSET EntityStates, baselines : SUBSET Nat,
                 removed : SUBSET Nat ] ]
ClientType ==
  [ serverId : ServerIds \cup {0}, serverMessageSequence : Nat,
    snap : SnapshotType, snapshots : [0 .. PACKET_BACKUP - 1 -> SnapshotType],
    parseEntities : [ParsePositions -> EntityStates \cup {NoEntity}],
    parseEntitiesNum : Nat ]
SentType ==
  [serverId : ServerIds, entities : SUBSET (EntityStates \cup {NoEntity})]

Types ==
  /\ sv \in ServerType
  /\ toClient \in Seq(MessageType) /\ Len(toClient) <= 1
  /\ toServer \in Seq(PacketType)
  /\ cl \in ClientType
  /\ sent \in Seq(SentType) /\ Len(sent) = sv.outgoingSequence - 1

\* Messages are gamestates, the last of which the server remembers, or
\* snapshots; those since the last gamestate are of the map the server is in.
SentInv ==
  /\ \A n \in 1 .. Len(sent) :
       \/ sent[n].entities = {NoEntity} /\ n <= gamestateNum
       \/ Fits(sent[n].entities)
  /\ gamestateNum \in {-1} \cup 1 .. Len(sent)
  /\ gamestateNum > 0 => sent[gamestateNum].entities = {NoEntity}
  /\ sv.state # CS_CONNECTED =>
       /\ gamestateNum > 0
       /\ \A n \in gamestateNum .. Len(sent) : sent[n].serverId = sv.serverId

\* What the client tells it has received comes in order, and from then on.
AcksInOrder ==
  /\ Received <= Len(sent)
  /\ sv.messageAcknowledge <= Received
  /\ \A i \in 1 .. Len(toServer) :
       /\ sv.messageAcknowledge <= toServer[i].messageAcknowledge
       /\ toServer[i].messageAcknowledge <= Received
  /\ \A i, j \in 1 .. Len(toServer) :
       i <= j => toServer[i].messageAcknowledge <= toServer[j].messageAcknowledge

\* A client in the world has the gamestate, one that takes deltas has received
\* a snapshot since.
InWorldInv ==
  /\ sv.deltaStart <= sv.outgoingSequence
  /\ sv.state = CS_ACTIVE => sv.gamestateAcked
  /\ sv.gamestateAcked =>
       /\ sv.state # CS_CONNECTED
       /\ sv.messageAcknowledge >= gamestateNum
       /\ cl.serverId = sv.serverId
  /\ sv.state = CS_ACTIVE /\ sv.deltaActive => sv.messageAcknowledge > gamestateNum
  /\ \A i \in 1 .. Len(toServer) :
       /\ toServer[i].messageAcknowledge >= gamestateNum
            => toServer[i].serverId = cl.serverId
       /\ toServer[i].move = "clc_move"
            => toServer[i].messageAcknowledge # gamestateNum

\* The frame of message n tells which entities were sent ...
FrameInv(n) ==
  LET frame    == sv.frames[Masked(n)]
      entities == built[frame.frameNum + 1].entities
  IN  /\ frame.frameNum < snapshotFrame
      /\ \E I \in SUBSET (1 .. Len(entities)) :
           /\ frame.ents = {Wrap(FirstOf(frame.frameNum) + i - 1) : i \in I}
           /\ sent[n].entities = {entities[i] : i \in I}

\* ... of those since the gamestate, until the ring comes round.
FramesInv ==
  sv.state # CS_CONNECTED =>
    \A n \in gamestateNum + 1 .. Len(sent) :
      sv.outgoingSequence - n <= PACKET_BACKUP => FrameInv(n)

\* A snapshot the client keeps in slot i.
KeptInv(i) ==
  LET s == cl.snapshots[i]
  IN  /\ s.messageNum \in 1 .. cl.snap.messageNum
      /\ Masked(s.messageNum) = i
      /\ s.messageNum > cl.snap.messageNum - PACKET_BACKUP
      /\ s.parseEntitiesNum + s.numEntities <= cl.parseEntitiesNum
      /\ cl.parseEntitiesNum - s.parseEntitiesNum
           <= MAX_SNAPSHOT_ENTITIES * (Received - s.messageNum + 1)
      /\ /\ cl.parseEntitiesNum - s.parseEntitiesNum
              < PACKET_BACKUP * MAX_SNAPSHOT_ENTITIES
         /\ sent[s.messageNum].serverId = cl.serverId
         => Parsed(s) = sent[s.messageNum].entities

SnapInv ==
  /\ cl.snap.messageNum <= Received
  /\ cl.snap.valid => /\ cl.snap.messageNum > 0
                      /\ sent[cl.snap.messageNum].entities # {NoEntity}
  /\ \A i \in 0 .. PACKET_BACKUP - 1 : cl.snapshots[i].valid => KeptInv(i)

\* A snapshot received since the gamestate is kept until the ring comes round.
Keeps(n) ==
  /\ n > gamestateNum /\ sv.outgoingSequence - n < PACKET_BACKUP
  /\ sv.state # CS_CONNECTED
  => cl.snapshots[Masked(n)].valid /\ cl.snapshots[Masked(n)].messageNum = n

KeepsInv ==
  /\ Keeps(Received) /\ Keeps(sv.messageAcknowledge)
  /\ \A i \in 1 .. Len(toServer) : Keeps(toServer[i].messageAcknowledge)

\* The message on its way is the last one sent; it is whole, or its base is
\* kept.
MessageInv ==
  \A m \in {toClient[i] : i \in 1 .. Len(toClient)} :
    LET last == sent[Len(sent)]
        base == m.sequence - m.lastframe
        s    == cl.snapshots[Masked(base)]
    IN  /\ m.sequence = Len(sent) /\ Received < Len(sent)
        /\ m.serverId = last.serverId
        /\ m.type = "svc_gamestate" <=> m.sequence = gamestateNum
        /\ m.type = "svc_snapshot" /\ m.lastframe = 0 =>
             m.entities = Delta(Baselines[m.serverId], {}, last.entities)
        /\ m.type = "svc_snapshot" /\ m.lastframe # 0 =>
             /\ m.lastframe < PACKET_BACKUP - 3 /\ base \in 1 .. Received
             /\ s.valid /\ s.messageNum = base
             /\ cl.serverId = m.serverId /\ sent[base].serverId = m.serverId
             /\ Fits(sent[base].entities)
             /\ m.entities = Delta(Baselines[m.serverId], sent[base].entities,
                                   last.entities)

\* The parts about the connection alone, and all of them.
ConnectionInv ==
  /\ Types /\ SentInv /\ AcksInOrder /\ InWorldInv
  /\ SnapInv /\ KeepsInv /\ MessageInv

SnapIInv == StorageInv /\ FramesInv /\ ConnectionInv

-----------------------------------------------------------------------------
(* Sets of entities *)

\* ParsePacketEntities, with the baselines of any map.
Rebuilt(baselines, old, m) ==
  {e \in old : e.number \notin Numbers(m.changed) \cup m.baselines \cup m.removed}
    \cup m.changed
    \cup {e \in baselines : e.number \in m.baselines}

\* CL_ParsePacketEntities undoes what SV_EmitPacketEntities did.
LEMMA DeltaRebuilt ==
  ASSUME NEW baselines, UniqueNumbers(baselines),
         NEW old, UniqueNumbers(old), NEW new, UniqueNumbers(new)
  PROVE  Rebuilt(baselines, old, Delta(baselines, old, new)) = new
<1> DEFINE likeBaseline(e) == e.number \notin Numbers(old) /\ e \in baselines
           m == Delta(baselines, old, new)
<1>1. /\ m.changed = {e \in new \ old : ~likeBaseline(e)}
      /\ m.baselines = Numbers({e \in new : likeBaseline(e)})
      /\ m.removed = Numbers(old) \ Numbers(new)
  BY DEF Delta
<1> HIDE DEF m
<1>2. ASSUME NEW e \in Rebuilt(baselines, old, m) PROVE e \in new
  <2>1. CASE e \in m.changed BY <1>1, <2>1
  <2>2. CASE e \in baselines /\ e.number \in m.baselines
    <3>1. PICK f \in new : likeBaseline(f) /\ f.number = e.number
      BY <1>1, <2>2 DEF Numbers
    <3> QED BY <2>2, <3>1 DEF UniqueNumbers
  <2>3. CASE e \in old /\ e.number \notin Numbers(m.changed) \cup m.baselines \cup m.removed
    <3>1. e.number \in Numbers(new) BY <1>1, <2>3 DEF Numbers
    <3>2. PICK f \in new : f.number = e.number BY <3>1 DEF Numbers
    <3>3. f \notin m.changed /\ ~likeBaseline(f) BY <2>3, <3>2 DEF Numbers
    <3>4. f \in old BY <1>1, <3>3
    <3> QED BY <2>3, <3>2, <3>4 DEF UniqueNumbers
  <2> QED BY <2>1, <2>2, <2>3 DEF Rebuilt
<1>3. ASSUME NEW e \in new PROVE e \in Rebuilt(baselines, old, m)
  <2>1. CASE likeBaseline(e)
    <3>1. e.number \in m.baselines BY <1>1, <2>1 DEF Numbers
    <3> QED BY <2>1, <3>1 DEF Rebuilt
  <2>2. CASE ~likeBaseline(e) /\ e \notin old
    BY <1>1, <2>2 DEF Rebuilt
  <2>3. CASE e \in old
    <3>1. e.number \notin m.removed BY <1>1 DEF Numbers
    <3>2. e.number \notin m.baselines BY <1>1, <2>3 DEF Numbers
    <3>3. e.number \notin Numbers(m.changed)
      BY <1>1, <2>3 DEF Numbers, UniqueNumbers
    <3> QED BY <2>3, <3>1, <3>2, <3>3 DEF Rebuilt
  <2> QED BY <2>1, <2>2, <2>3
<1> QED BY <1>2, <1>3 DEF m

\* A set with a number for each of its entities, all of them numbers of a set
\* that fits, fits.
LEMMA FitsNumbers ==
  ASSUME NEW S, S \subseteq EntityStates, UniqueNumbers(S),
         NEW T, Fits(T), Numbers(S) \subseteq Numbers(T)
  PROVE  Fits(S)
<1> DEFINE f == [e \in S |-> CHOOSE t \in T : t.number = e.number]
<1>1. ASSUME NEW e \in S PROVE f[e] \in T /\ f[e].number = e.number
  <2>1. e.number \in Numbers(T) BY DEF Numbers
  <2>2. \E t \in T : t.number = e.number BY <2>1 DEF Numbers
  <2> QED BY <2>2
<1> HIDE DEF f
<1>2. f \in Injection(S, T)
  <2>1. f \in [S -> T] BY <1>1 DEF f
  <2>2. \A a, b \in S : f[a] = f[b] => a = b BY <1>1 DEF UniqueNumbers
  <2> QED BY <2>1, <2>2 DEF Injection, IsInjective
<1>3. IsFiniteSet(S) /\ Cardinality(S) <= Cardinality(T)
  BY <1>2, FS_Injection DEF Fits
<1>4. Cardinality(S) \in Nat /\ Cardinality(T) \in Nat
  BY <1>3, FS_CardinalityType DEF Fits
<1>5. MAX_SNAPSHOT_ENTITIES \in Nat BY SnapshotsAssumption
<1> QED BY <1>3, <1>4, <1>5 DEF Fits

\* Whatever the baselines of the client are, a whole snapshot fits.
LEMMA WholeFits ==
  ASSUME NEW baselines \in SUBSET EntityStates, NEW others \in SUBSET EntityStates,
         UniqueNumbers(others), NEW new, Fits(new)
  PROVE  Fits(Rebuilt(others, {}, Delta(baselines, {}, new)))
<1> DEFINE m == Delta(baselines, {}, new)
           S == Rebuilt(others, {}, m)
<1>1. /\ m.changed = {e \in new : ~(e \in baselines)}
      /\ m.baselines = Numbers({e \in new : e \in baselines})
  BY DEF Delta, Numbers
<1> HIDE DEF m
<1>2. S = m.changed \cup {e \in others : e.number \in m.baselines} BY DEF Rebuilt
<1> HIDE DEF S
<1>3. S \subseteq EntityStates BY <1>1, <1>2 DEF Fits
<1>4. \A e \in m.changed : e.number \notin m.baselines
  BY <1>1 DEF Numbers, Fits, UniqueNumbers
<1>5. UniqueNumbers(S)
  BY <1>1, <1>2, <1>4 DEF Fits, UniqueNumbers
<1>6. Numbers(S) \subseteq Numbers(new) BY <1>1, <1>2 DEF Numbers
<1>7. Fits(S) BY <1>3, <1>5, <1>6, FitsNumbers
<1> QED BY <1>7 DEF S, m

\* The places of the entities of a snapshot are 0, 1, and so on.
LEMMA Places ==
  ASSUME NEW S, Fits(S)
  PROVE  /\ Cardinality(S) \in 0 .. MAX_SNAPSHOT_ENTITIES
         /\ \A e \in S : Place(e, S) \in 0 .. Cardinality(S) - 1
         /\ \A e, f \in S : Place(e, S) = Place(f, S) => e = f
         /\ \A i \in 0 .. Cardinality(S) - 1 : \E e \in S : Place(e, S) = i
<1> DEFINE before(e) == {f \in S : f.number < e.number}
           n == Cardinality(S)
           p == [e \in S |-> Place(e, S)]
<1>1. IsFiniteSet(S) /\ S \subseteq EntityStates /\ UniqueNumbers(S) BY DEF Fits
<1>2. n \in Nat /\ n <= MAX_SNAPSHOT_ENTITIES BY <1>1, FS_CardinalityType DEF Fits
<1>3. \A e \in S : e.number \in Nat BY <1>1, SnapshotsAssumption
<1>4. \A e \in S : p[e] = Cardinality(before(e)) BY DEF Place
<1>5. ASSUME NEW e \in S PROVE IsFiniteSet(before(e)) /\ p[e] \in 0 .. n - 1
  <2>1. before(e) \subseteq S /\ e \notin before(e) BY <1>3
  <2>2. IsFiniteSet(before(e)) BY <1>1, <2>1, FS_Subset
  <2>3. Cardinality(before(e)) \in Nat BY <2>2, FS_CardinalityType
  <2> HIDE DEF before
  <2>4. Cardinality(before(e)) < Cardinality(S)
    <3>1. before(e) # S BY <2>1
    <3>2. Cardinality(before(e)) <= Cardinality(S) /\ Cardinality(before(e)) # Cardinality(S)
      BY <1>1, <2>1, <3>1, FS_Subset
    <3> QED BY <1>2, <2>3, <3>2
  <2> HIDE DEF p
  <2> QED BY <1>2, <1>4, <2>2, <2>4, <2>3
<1>6. ASSUME NEW e \in S, NEW f \in S, e.number < f.number PROVE p[e] < p[f]
  <2>1. before(e) \subseteq before(f) /\ e \in before(f) /\ e \notin before(e)
    BY <1>3, <1>6
  <2>2. IsFiniteSet(before(f)) BY <1>5
  <2>3. Cardinality(before(e)) < Cardinality(before(f))
    <3> HIDE DEF before
    <3>1. before(e) # before(f) BY <2>1
    <3>2. /\ Cardinality(before(e)) <= Cardinality(before(f))
          /\ Cardinality(before(e)) # Cardinality(before(f))
      BY <2>1, <2>2, <3>1, FS_Subset
    <3>3. Cardinality(before(e)) \in Nat /\ Cardinality(before(f)) \in Nat
      <4>1. IsFiniteSet(before(e)) BY <1>5
      <4> QED BY <2>2, <4>1, FS_CardinalityType
    <3> QED BY <3>2, <3>3
  <2> HIDE DEF n, p, before
  <2> QED BY <1>4, <2>3
<1>7. ASSUME NEW e \in S, NEW f \in S, p[e] = p[f] PROVE e = f
  <2>1. p[e] \in Int /\ p[f] \in Int
    <3>1. p[e] \in 0 .. n - 1 /\ p[f] \in 0 .. n - 1 BY <1>5
    <3>2. n \in Int BY <1>2
    <3> HIDE DEF p, n
    <3> QED BY <3>1, <3>2
  <2>2. ~(e.number < f.number) /\ ~(f.number < e.number)
    <3> HIDE DEF p
    <3> QED BY <1>6, <1>7, <2>1
  <2> QED BY <1>1, <1>3, <2>2 DEF UniqueNumbers
<1> DEFINE range == {p[e] : e \in S}
<1>8. range = 0 .. n - 1
  <2>1. p \in Bijection(S, range)
    <3>1. p \in [S -> range] OBVIOUS
    <3> HIDE DEF n, before
    <3>2. \A a, b \in S : p[a] = p[b] => a = b BY <1>7
    <3>3. \A r \in range : \E e \in S : p[e] = r OBVIOUS
    <3> HIDE DEF p, range
    <3> QED BY <3>1, <3>2, <3>3 DEF Bijection, Injection, Surjection, IsInjective
  <2> HIDE DEF p
  <2>2. Cardinality(range) = n
    <3> HIDE DEF range
    <3>1. Cardinality(S) = Cardinality(range)
      BY <1>1, <2>1, FS_Bijection DEF ExistsBijection
    <3> QED BY <3>1
  <2>3. range \subseteq 0 .. n - 1 BY <1>5
  <2>4. IsFiniteSet(0 .. n - 1) /\ Cardinality(0 .. n - 1) = n
    <3> HIDE DEF n
    <3> QED BY <1>2, FS_Interval
  <2> HIDE DEF n, range
  <2> QED BY <2>2, <2>3, <2>4, FS_Subset
<1>9. \A i \in 0 .. n - 1 : \E e \in S : p[e] = i BY <1>8
<1>10. \A e \in S : p[e] = Place(e, S) OBVIOUS
<1> HIDE DEF p, before, n, range
<1>11. n \in 0 .. MAX_SNAPSHOT_ENTITIES BY <1>2, SnapshotsAssumption
<1>12. \A e \in S : Place(e, S) \in 0 .. n - 1 BY <1>5, <1>10
<1>13. \A e, f \in S : Place(e, S) = Place(f, S) => e = f BY <1>7, <1>10
<1>14. \A i \in 0 .. n - 1 : \E e \in S : Place(e, S) = i BY <1>9, <1>10
<1> QED BY <1>11, <1>12, <1>13, <1>14 DEF n

-----------------------------------------------------------------------------
(* Rings, and what is left alone *)

USE DEF gamestateNum, Received

\* Slots of the two rings of the connection.
LEMMA MaskedType == \A n \in Nat : Masked(n) \in 0 .. PACKET_BACKUP - 1
BY SnapshotsAssumption DEF Masked

\* Messages less than a ring apart have slots of their own.
LEMMA MaskedDistinct ==
  ASSUME NEW i \in Nat, NEW j \in Nat, i < j, j - i < PACKET_BACKUP
  PROVE  Masked(i) # Masked(j)
BY SnapshotsAssumption, DistinctRemainders DEF Masked

\* Entities less than a ring apart have places of their own.
LEMMA ParseDistinct ==
  ASSUME NEW i \in Nat, NEW j \in Nat, i < j,
         j - i < PACKET_BACKUP * MAX_SNAPSHOT_ENTITIES
  PROVE  ParsePosition(i) # ParsePosition(j)
<1> DEFINE n == PACKET_BACKUP * MAX_SNAPSHOT_ENTITIES
<1>1. n \in Nat /\ n # 0 BY SnapshotsAssumption
<1> HIDE DEF n
<1>2. i % n # j % n BY <1>1, DistinctRemainders DEF n
<1> QED BY <1>2 DEF ParsePosition, n

\* What there is to know of a history with one more entry.
LEMMA SentAppended ==
  ASSUME NEW S, NEW s \in Seq(S), NEW e \in S
  PROVE  /\ Append(s, e) \in Seq(S) /\ Len(Append(s, e)) = Len(s) + 1
         /\ Len(s) \in Nat
         /\ \A n \in 1 .. Len(s) : Append(s, e)[n] = s[n]
         /\ Append(s, e)[Len(s) + 1] = e
BY AppendProperties

\* They do not depend on the storage.
LEMMA ConnectionStays ==
  ASSUME ConnectionInv, UNCHANGED connection
  PROVE  ConnectionInv'
<1>1. sv' = sv /\ toClient' = toClient /\ toServer' = toServer /\ cl' = cl /\ sent' = sent
  BY DEF connection
<1>2. Types' /\ SentInv' /\ AcksInOrder' /\ InWorldInv'
  BY <1>1 DEF ConnectionInv, Types, SentInv, AcksInOrder, InWorldInv, ServerType,
              FrameType, Positions
<1>3. SnapInv' BY <1>1 DEF ConnectionInv, SnapInv, KeptInv, Parsed
<1>4. KeepsInv' BY <1>1 DEF ConnectionInv, KeepsInv, Keeps
<1>5. MessageInv' BY <1>1 DEF ConnectionInv, MessageInv
<1> QED BY <1>2, <1>3, <1>4, <1>5 DEF ConnectionInv

\* What a common snapshot adds to the storage, and what it leaves.
LEMMA BuildAdds ==
  ASSUME StorageInv, NEW world \in Worlds, SV_BuildCommonSnapshot(world)
  PROVE  /\ StorageInv'
         /\ snapshotFrame \in Nat /\ snapshotFrame' = snapshotFrame + 1
         /\ lastValidFrame' \in 0 .. snapshotFrame
         /\ \A f \in 0 .. snapshotFrame - 1 :
              built'[f + 1] = built[f + 1] /\ FirstOf(f)' = FirstOf(f)
         /\ built'[snapshotFrame + 1].entities = world
         /\ \A f : f = snapshotFrame =>
              /\ FirstOf(f)' \in Nat
              /\ snapFrames'[currFrame'].start = Wrap(FirstOf(f)')
         /\ snapFrames'[currFrame'].frameNum = snapshotFrame
         /\ snapFrames'[currFrame'].count = Len(world)
<1>1. StorageInv' BY BuildPreserves
<1>2. PICK valid \in lastValidFrame .. snapshotFrame :
        /\ lastValidFrame' = valid
        /\ snapshotFrame' = snapshotFrame + 1
        /\ currFrame' = Slot(snapshotFrame)
        /\ built' = Append(built, [entities |-> world, first |-> Total])
        /\ snapFrames'[Slot(snapshotFrame)] =
             [ frameNum |-> snapshotFrame, start |-> currentStoragePosition,
               count |-> Len(world) ]
  <2>1. Slot(snapshotFrame) \in Slots
    BY SlotType DEF StorageInv, StorageTypeOK
  <2> QED BY <2>1 DEF SV_BuildCommonSnapshot
<1>3. /\ lastValidFrame \in Nat /\ snapshotFrame \in Nat /\ snapshotFrame = Len(built)
      /\ built \in Seq([entities : Worlds, first : Nat])
      /\ StorageTypeOK /\ Accounted /\ currentStoragePosition = Wrap(Total)
  BY DEF StorageInv, StorageTypeOK, StorageLayout, Accounted, LaidEndToEnd
<1>4. Total \in Nat BY <1>3, FirstOfType
<1>5. /\ Len(built') = snapshotFrame + 1
      /\ \A n \in 1 .. snapshotFrame : built'[n] = built[n]
      /\ built'[snapshotFrame + 1] = [entities |-> world, first |-> Total]
  <2> DEFINE e == [entities |-> world, first |-> Total]
  <2>1. e \in [entities : Worlds, first : Nat] BY <1>4
  <2> HIDE DEF e
  <2>2. /\ Len(Append(built, e)) = Len(built) + 1
        /\ \A n \in 1 .. Len(built) : Append(built, e)[n] = built[n]
        /\ Append(built, e)[Len(built) + 1] = e
    BY <1>3, <2>1, SentAppended
  <2> QED BY <1>2, <1>3, <2>2 DEF e
<1>6. ASSUME NEW f \in 0 .. snapshotFrame - 1
      PROVE  built'[f + 1] = built[f + 1] /\ FirstOf(f)' = FirstOf(f)
  <2>1. f + 1 \in 1 .. snapshotFrame /\ f # Len(built') /\ f # Len(built)
    BY <1>3, <1>5
  <2> QED BY <1>5, <2>1 DEF FirstOf
<1>7. ASSUME NEW f, f = snapshotFrame PROVE FirstOf(f)' = Total
  <2>1. f # Len(built') BY <1>3, <1>5, <1>7
  <2> QED BY <1>5, <1>7, <2>1 DEF FirstOf
<1>8. built'[snapshotFrame + 1].entities = world BY <1>5
<1>9. lastValidFrame' \in 0 .. snapshotFrame BY <1>2, <1>3
<1> QED BY <1>1, <1>2, <1>3, <1>4, <1>6, <1>7, <1>8, <1>9

\* SV_BuildCommonSnapshot copies one of the worlds.
LEMMA NextWorld ==
  ASSUME StorageInv, BuildNextWorld
  PROVE  \E world \in Worlds : SV_BuildCommonSnapshot(world)
<1> DEFINE n == Len(WorldCycle)
           i == 1 + (snapshotFrame % n)
<1>1. snapshotFrame \in Nat BY DEF StorageInv, StorageTypeOK
<1>2. WorldCycle \in Seq(Worlds) /\ WorldCycle # <<>> BY SnapshotsAssumption
<1>3. n \in Nat \ {0} BY <1>2, EmptySeq
<1>4. i \in 1 .. n
  <2> HIDE DEF n
  <2> QED BY <1>1, <1>3
<1>5. WorldCycle[i] \in Worlds
  <2> HIDE DEF i
  <2> QED BY <1>2, <1>4, ElementOfSeq
<1> QED BY <1>5 DEF BuildNextWorld

\* The common snapshot clients are given is frame f, a copy of `world` laid out
\* from position `first` on, and the storage keeps what it held of the frames before.
Common(world, f, first) ==
  /\ StorageInv' /\ snapshotFrame \in Nat /\ snapshotFrame <= snapshotFrame'
  /\ snapshotFrame' = f + 1 /\ lastValidFrame' \in 0 .. f
  /\ \A g \in 0 .. snapshotFrame - 1 :
       built'[g + 1] = built[g + 1] /\ FirstOf(g)' = FirstOf(g)
  /\ built'[f + 1].entities = world /\ first \in Nat /\ first = FirstOf(f)'
  /\ snapFrames'[currFrame'].frameNum = f
  /\ snapFrames'[currFrame'].start = Wrap(first)
  /\ snapFrames'[currFrame'].count = Len(world)

\* Whether it is new or shared.
LEMMA CommonIs ==
  ASSUME StorageInv, CommonSnapshot
  PROVE  \E world \in Worlds, f \in Nat, first \in Nat : Common(world, f, first)
<1>1. CASE currFrame = NoFrame
  <2>1. PICK world \in Worlds : SV_BuildCommonSnapshot(world)
    BY <1>1, NextWorld DEF CommonSnapshot
  <2>2. snapshotFrame \in Nat BY DEF StorageInv, StorageTypeOK
  <2>3. ASSUME NEW f, f = snapshotFrame, NEW first, first = FirstOf(f)'
        PROVE  first \in Nat /\ Common(world, f, first)
    <3>1. FirstOf(f)' \in Nat /\ snapFrames'[currFrame'].start = Wrap(FirstOf(f)')
      BY <2>1, <2>3, BuildAdds
    <3>2. snapshotFrame <= snapshotFrame' BY <2>1, <2>2, BuildAdds
    <3> QED BY <2>1, <2>3, <3>1, <3>2, BuildAdds DEF Common
  <2>4. \E f \in Nat : f = snapshotFrame BY <2>2
  <2>5. PICK f \in Nat : f = snapshotFrame BY <2>4
  <2>6. PICK first : first = FirstOf(f)' OBVIOUS
  <2>7. first \in Nat /\ Common(world, f, first) BY <2>3, <2>5, <2>6
  <2> QED BY <2>7
<1>2. CASE currFrame # NoFrame
  <2>1. UNCHANGED storageVars BY <1>2 DEF CommonSnapshot
  <2>2. /\ snapshotFrame' = snapshotFrame /\ lastValidFrame' = lastValidFrame
        /\ built' = built /\ snapFrames' = snapFrames /\ currFrame' = currFrame
    BY <2>1 DEF storageVars
  <2>3. /\ snapshotFrame \in Nat /\ lastValidFrame \in Nat
        /\ built \in Seq([entities : Worlds, first : Nat]) /\ Len(built) = snapshotFrame
        /\ snapshotFrame > lastValidFrame /\ currFrame = Slot(snapshotFrame - 1)
        /\ FramesFound
    BY <1>2 DEF StorageInv, StorageTypeOK, StorageLayout, Accounted, LastShared
  <2>4. PICK f \in Nat : f = snapshotFrame - 1 /\ f + 1 = snapshotFrame
    BY <2>3
  <2>5. f \in LiveFrames /\ f \in 0 .. snapshotFrame - 1 /\ lastValidFrame \in 0 .. f
        /\ f + 1 \in 1 .. Len(built)
    BY <2>3, <2>4 DEF LiveFrames
  <2>6. built[f + 1] \in [entities : Worlds, first : Nat] BY <2>3, <2>5, ElementOfSeq
  <2>7. snapFrames[Slot(f)] = [ frameNum |-> f, start |-> Wrap(FirstOf(f)),
                                count |-> Len(built[f + 1].entities) ]
    BY <2>3, <2>5 DEF FramesFound
  <2>8. \A g : FirstOf(g)' = FirstOf(g) BY <2>2 DEF FirstOf, Total
  <2>9. FirstOf(f) \in Nat
    <3>1. f # Len(built) BY <2>3, <2>4
    <3> QED BY <2>6, <3>1 DEF FirstOf
  <2>10. snapFrames'[currFrame'] = snapFrames[Slot(f)]
    <3>1. currFrame = Slot(f) BY <2>3, <2>4
    <3> QED BY <2>2, <3>1
  <2>11. StorageInv' BY <2>1, StutterPreserves
  <2> DEFINE world == built[f + 1].entities
  <2>12. world \in Worlds BY <2>6
  <2>13. ASSUME NEW first, first = FirstOf(f)'
         PROVE  first \in Nat /\ Common(world, f, first)
    <3>1. first = FirstOf(f) BY <2>8, <2>13
    <3> HIDE DEF world
    <3>2. built'[f + 1].entities = world BY <2>2 DEF world
    <3>3. Len(built[f + 1].entities) = Len(world) BY DEF world
    <3> QED BY <3>1, <3>2, <3>3, <2>13,  <2>2, <2>3, <2>4, <2>5, <2>7, <2>8, <2>9, <2>10, <2>11 DEF Common
  <2>14. PICK first : first = FirstOf(f)' OBVIOUS
  <2>15. first \in Nat /\ Common(world, f, first) BY <2>13, <2>14
  <2> QED BY <2>12, <2>15
<1> QED BY <1>1, <1>2

\* A frame built before is not concerned by the new one.
LEMMA FrameStays ==
  ASSUME StorageInv, NEW world \in Worlds, NEW h, NEW k, Common(world, h, k),
         Types, NEW n \in Nat, FrameInv(n),
         sv'.frames[Masked(n)] = sv.frames[Masked(n)], sent'[n] = sent[n]
  PROVE  FrameInv(n)'
<1> DEFINE frame    == sv.frames[Masked(n)]
           entities == built[frame.frameNum + 1].entities
<1>1. /\ frame.frameNum < snapshotFrame
      /\ \E I \in SUBSET (1 .. Len(entities)) :
           /\ frame.ents = {Wrap(FirstOf(frame.frameNum) + i - 1) : i \in I}
           /\ sent[n].entities = {entities[i] : i \in I}
  BY DEF FrameInv
<1>2. frame.frameNum \in Nat
  <2>1. sv.frames \in [0 .. PACKET_BACKUP - 1 -> FrameType] BY DEF Types, ServerType
  <2>2. frame \in FrameType BY <2>1, MaskedType
  <2> QED BY <2>2 DEF FrameType
<1>3. /\ snapshotFrame \in Nat /\ snapshotFrame' \in Nat
      /\ snapshotFrame <= snapshotFrame'
  BY DEF Common
<1>4. frame.frameNum \in 0 .. snapshotFrame - 1 BY <1>1, <1>2, <1>3
<1>5. \A f \in 0 .. snapshotFrame - 1 :
        built'[f + 1] = built[f + 1] /\ FirstOf(f)' = FirstOf(f)
  BY DEF Common
<1>6. frame' = frame OBVIOUS
<1>7. entities' = entities
  <2> HIDE DEF frame
  <2> QED BY <1>4, <1>5, <1>6
<1>8. ASSUME NEW f, f = frame.frameNum PROVE FirstOf(f)' = FirstOf(f)
  <2> HIDE DEF frame
  <2> QED BY <1>4, <1>5, <1>8
<1>9. FirstOf(frame.frameNum)' = FirstOf(frame.frameNum)
  <2>1. \A f : f = frame.frameNum => FirstOf(f)' = FirstOf(f) BY <1>8
  <2> HIDE DEF frame
  <2> QED BY <1>6, <2>1
<1>10. frame.frameNum < snapshotFrame' BY <1>1, <1>2, <1>3
<1>11. /\ frame'.frameNum < snapshotFrame'
       /\ \E I \in SUBSET (1 .. Len(entities')) :
            /\ frame'.ents = {Wrap(FirstOf(frame.frameNum)' + i - 1) : i \in I}
            /\ sent'[n].entities = {entities'[i] : i \in I}
  <2> HIDE DEF frame, entities
  <2>1. PICK I \in SUBSET (1 .. Len(entities)) :
          /\ frame.ents = {Wrap(FirstOf(frame.frameNum) + i - 1) : i \in I}
          /\ sent[n].entities = {entities[i] : i \in I}
    BY <1>1
  <2>2. {Wrap(FirstOf(frame.frameNum)' + i - 1) : i \in I}
          = {Wrap(FirstOf(frame.frameNum) + i - 1) : i \in I}
    BY <1>9
  <2>3. I \in SUBSET (1 .. Len(entities')) BY <1>7
  <2>4. frame'.ents = {Wrap(FirstOf(frame.frameNum)' + i - 1) : i \in I}
    BY <1>6, <2>1, <2>2
  <2>5. sent'[n].entities = {entities'[i] : i \in I} BY <1>7, <2>1
  <2> QED BY <1>6, <1>10, <2>3, <2>4, <2>5
<1> QED BY <1>11 DEF FrameInv

\* What a frame that is still valid points to is what it held.
LEMMA StoredIs ==
  ASSUME StorageInv', NEW f, f \in LiveFrames', NEW I \in SUBSET (1 .. Len(built'[f + 1].entities))
  PROVE  /\ \A i \in I : snapshotEntities'[Wrap(FirstOf(f)' + i - 1)] = built'[f + 1].entities[i]
         /\ {snapshotEntities'[p] : p \in {Wrap(FirstOf(f)' + i - 1) : i \in I}}
              = {built'[f + 1].entities[i] : i \in I}
<1>1. \A i \in I : snapshotEntities'[Wrap(FirstOf(f)' + i - 1)] = built'[f + 1].entities[i]
  <2>1. EntitiesKept' BY DEF StorageInv, StorageLayout
  <2> QED BY <2>1 DEF EntitiesKept
<1> QED BY <1>1

\* The entities of a world, or some of them, fit.
LEMMA WorldFits ==
  ASSUME NEW world \in Worlds, NEW I \in SUBSET (1 .. Len(world))
  PROVE  Fits({world[i] : i \in I})
<1> DEFINE n == Len(world)
           S == {world[i] : i \in I}
           T == {world[i] : i \in 1 .. n}
           s == [i \in 1 .. n |-> world[i]]
<1>1. world \in Seq(EntityStates) BY StorageAssumption
<1>2. n \in Nat /\ DOMAIN world = 1 .. n /\ n <= MAX_SNAPSHOT_ENTITIES
  <2>1. n \in Nat /\ DOMAIN world = 1 .. n BY <1>1
  <2>2. n <= MAX_SNAPSHOT_ENTITIES BY SnapshotsAssumption
  <2> QED BY <2>1, <2>2
<1>3. UniqueNumbers(T) BY <1>2, SnapshotsAssumption
<1>4. S \subseteq T OBVIOUS
<1>5. T \subseteq EntityStates BY <1>1, <1>2, ElementOfSeq
<1>6. IsFiniteSet(1 .. n) /\ Cardinality(1 .. n) = n
  <2> HIDE DEF n
  <2> QED BY <1>2, FS_Interval
<1>7. s \in Surjection(1 .. n, T) BY DEF Surjection
<1>8. IsFiniteSet(T) /\ Cardinality(T) <= n
  <2> HIDE DEF s, T, n
  <2> QED BY <1>6, <1>7, FS_Surjection
<1>9. IsFiniteSet(S) /\ Cardinality(S) <= Cardinality(T)
  <2> HIDE DEF S, T
  <2> QED BY <1>4, <1>8, FS_Subset
<1>10. Cardinality(S) \in Nat /\ Cardinality(T) \in Nat BY <1>8, <1>9, FS_CardinalityType
<1>11. Cardinality(S) <= MAX_SNAPSHOT_ENTITIES
  <2> HIDE DEF S, T, n
  <2> QED BY <1>2, <1>8, <1>9, <1>10, SnapshotsAssumption
<1>12. S \subseteq EntityStates /\ UniqueNumbers(S)
  BY <1>3, <1>4, <1>5 DEF UniqueNumbers
<1> QED BY <1>9, <1>11, <1>12 DEF Fits

\* A client sees of the common snapshot the entities in I.
SeenIn(world, first, seen, I) ==
  /\ \A i \in I : /\ Wrap(first + i - 1) \in VisibleEnts(seen)
                 /\ snapshotEntities'[Wrap(first + i - 1)] = world[i]
  /\ \A p \in VisibleEnts(seen) :
       p \in Positions /\ \E i \in I : p = Wrap(first + i - 1)

\* The frame of a new snapshot points to what a client sees of the common
\* snapshot.
LEMMA SnapshotBuilt ==
  ASSUME NEW world \in Worlds, NEW f \in Nat, NEW first,
         Common(world, f, first), NEW seen
  PROVE  \E I \in SUBSET (1 .. Len(world)) : SeenIn(world, first, seen, I)
<1> DEFINE n == Len(world)
           I == {i \in 1 .. n : world[i].number \in seen}
           at(i) == Wrap(first + i - 1)
<1>1. /\ StorageInv' /\ snapshotFrame' = f + 1
      /\ lastValidFrame' \in 0 .. f
      /\ built'[f + 1].entities = world /\ first \in Nat /\ first = FirstOf(f)'
      /\ snapFrames'[currFrame'].count = n /\ snapFrames'[currFrame'].start = Wrap(first)
  BY DEF Common
<1>2. n \in Nat BY StorageAssumption
<1>3. f \in LiveFrames' BY <1>1 DEF LiveFrames
<1>4. /\ \A i \in 1 .. n : snapshotEntities'[at(i)] = world[i]
  <2>1. \A i \in 1 .. n : snapshotEntities'[Wrap(FirstOf(f)' + i - 1)] = built'[f + 1].entities[i]
    BY <1>1, <1>3, StoredIs
  <2> QED BY <1>1, <2>1
<1>5. \A i \in 1 .. n : at(i) \in Positions
  <2> SUFFICES ASSUME NEW i \in 1 .. n PROVE at(i) \in Positions OBVIOUS
  <2>1. first + i - 1 \in Nat
    <3> QED BY <1>1, <1>2
  <2> QED BY <2>1, WrapType
<1>6. ASSUME NEW i \in 0 .. n - 1 PROVE Wrap(Wrap(first) + i) = at(i + 1)
  <2> HIDE DEF n
  <2>1. i \in Nat BY <1>2
  <2>2. Wrap(Wrap(first) + i) = Wrap(first + i) BY <1>1, <2>1, WrapWrap
  <2>3. first + (i + 1) - 1 = first + i BY <1>1, <2>1
  <2> QED BY <2>2, <2>3
<1> DEFINE taken == {Wrap(Wrap(first) + i) : i \in 0 .. n - 1}
<1>7. taken = {at(i) : i \in 1 .. n}
  <2> HIDE DEF n, at
  <2>1. \A i \in 0 .. n - 1 : i + 1 \in 1 .. n BY <1>2
  <2>2. \A i \in 1 .. n : i - 1 \in 0 .. n - 1 /\ (i - 1) + 1 = i BY <1>2
  <2>3. ASSUME NEW p \in taken PROVE p \in {at(i) : i \in 1 .. n}
    BY <1>6, <2>1
  <2>4. ASSUME NEW i \in 1 .. n PROVE at(i) \in taken
    <3>1. Wrap(Wrap(first) + (i - 1)) = at((i - 1) + 1) BY <1>6, <2>2
    <3> QED BY <2>2, <3>1
  <2> QED BY <2>3, <2>4
<1>8. VisibleEnts(seen) = {p \in taken : snapshotEntities'[p].number \in seen}
  <2> HIDE DEF n
  <2> QED BY <1>1 DEF VisibleEnts
<1> HIDE DEF at, taken
<1>9. VisibleEnts(seen) = {at(i) : i \in I}
  BY <1>4, <1>7, <1>8
<1>10. VisibleEnts(seen) \subseteq Positions BY <1>5, <1>9
<1>11. I \in SUBSET (1 .. n) OBVIOUS
<1>12. \A i \in I : snapshotEntities'[at(i)] = world[i] BY <1>4
<1> HIDE DEF I
<1>13. SeenIn(world, first, seen, I)
  BY <1>9, <1>10, <1>12 DEF at, SeenIn
<1> QED BY <1>11, <1>13

\* The common snapshots of other clients leave the frames of this one.
LEMMA FramesStay ==
  ASSUME StorageInv, Types, FramesInv, CommonSnapshot, UNCHANGED connection, SentInv
  PROVE  FramesInv'
<1>1. PICK world \in Worlds, f \in Nat, first \in Nat : Common(world, f, first) BY CommonIs
<1>2. sv' = sv /\ sent' = sent BY DEF connection
<1>3. SUFFICES ASSUME sv.state # CS_CONNECTED, NEW n \in gamestateNum + 1 .. Len(sent),
                      sv.outgoingSequence - n <= PACKET_BACKUP
               PROVE  FrameInv(n)'
  BY <1>2 DEF FramesInv
<1>4. FrameInv(n) BY <1>3 DEF FramesInv
<1>5. n \in Nat
  <2>1. gamestateNum \in Nat /\ Len(sent) \in Nat BY <1>3 DEF SentInv, Types, ServerType
  <2> QED BY <2>1
<1> QED BY <1>1, <1>2, <1>4, <1>5, FrameStays

\* What the client keeps does not depend on later messages.
LEMMA SnapStays ==
  ASSUME Types, AcksInOrder, SnapInv, cl' = cl,
         \A n \in 1 .. Len(sent) : sent'[n] = sent[n]
  PROVE  SnapInv'
<1>1. cl \in ClientType /\ Len(sent) \in Nat BY DEF Types
<1>2. /\ cl.snap \in SnapshotType /\ Received \in Nat
      /\ \A i \in 0 .. PACKET_BACKUP - 1 : cl.snapshots[i] \in SnapshotType
  BY <1>1 DEF ClientType
<1>3. cl.snap.messageNum \in Nat BY <1>2 DEF SnapshotType
<1>4. \A n \in 1 .. cl.snap.messageNum : sent'[n] = sent[n]
  BY <1>1, <1>2, <1>3 DEF SnapInv, AcksInOrder
<1>5. ASSUME NEW i \in 0 .. PACKET_BACKUP - 1, cl.snapshots[i].valid PROVE KeptInv(i)'
  <2>1. KeptInv(i) BY <1>5 DEF SnapInv
  <2>2. cl.snapshots[i].messageNum \in 1 .. cl.snap.messageNum BY <2>1 DEF KeptInv
  <2>3. sent'[cl.snapshots[i].messageNum] = sent[cl.snapshots[i].messageNum]
    BY <1>4, <2>2
  <2> QED BY <2>1, <2>3 DEF KeptInv, Parsed
<1>6. cl.snap.valid => sent'[cl.snap.messageNum] = sent[cl.snap.messageNum]
  BY <1>3, <1>4 DEF SnapInv
<1> QED BY <1>5, <1>6 DEF SnapInv

\* A message that can be the base of the next snapshot: it is one, both sides
\* still have it, and the storage still holds its entities.
LEMMA BaseKept ==
  ASSUME SnapIInv, NEW world \in Worlds, NEW h, NEW k, Common(world, h, k), MayDelta,
         NEW ack, ack = sv.messageAcknowledge
  PROVE  /\ ack > gamestateNum /\ ack \in 1 .. Received
         /\ sv.outgoingSequence - ack \in 1 .. PACKET_BACKUP - 4
         /\ cl.snapshots[Masked(ack)].valid
         /\ cl.snapshots[Masked(ack)].messageNum = ack
         /\ cl.serverId = sv.serverId /\ sent[ack].serverId = sv.serverId
         /\ Fits(sent[ack].entities)
         /\ {snapshotEntities'[p] : p \in sv.frames[Masked(ack)].ents}
              = sent[ack].entities
<1>1. /\ StorageInv /\ Types /\ SentInv /\ AcksInOrder /\ InWorldInv /\ FramesInv /\ KeepsInv
  BY DEF SnapIInv, ConnectionInv
<1>2. /\ ack \in Nat /\ sv.outgoingSequence \in Nat /\ Len(sent) = sv.outgoingSequence - 1
      /\ Received \in Nat /\ gamestateNum \in Int
  BY <1>1 DEF Types, ServerType, ClientType
<1>3. sv.state = CS_ACTIVE /\ sv.deltaActive /\ sv.state # CS_CONNECTED /\ sv.gamestateAcked
      /\ sv.outgoingSequence - ack < PACKET_BACKUP - 3
      /\ sv.frames[Masked(ack)].frameNum >= lastValidFrame'
  BY <1>1 DEF MayDelta, InWorldInv, CS_ACTIVE, CS_CONNECTED
<1>4. ack > gamestateNum /\ gamestateNum > 0 /\ ack <= Received /\ Received <= Len(sent)
      /\ cl.serverId = sv.serverId
  BY <1>1, <1>3 DEF InWorldInv, SentInv, AcksInOrder
<1>5. ack \in 1 .. Received /\ ack \in 1 .. Len(sent) /\ ack \in gamestateNum + 1 .. Len(sent)
      /\ ack \in gamestateNum .. Len(sent)
  BY <1>2, <1>4
<1>6. PACKET_BACKUP \in Nat BY SnapshotsAssumption
<1>7. sv.outgoingSequence - ack \in 1 .. PACKET_BACKUP - 4
      /\ sv.outgoingSequence - ack < PACKET_BACKUP
      /\ sv.outgoingSequence - ack <= PACKET_BACKUP
  BY <1>2, <1>3, <1>4, <1>6
<1>8. sent[ack].serverId = sv.serverId /\ Fits(sent[ack].entities)
  <2>1. ~(ack <= gamestateNum) BY <1>2, <1>4
  <2> QED BY <1>1, <1>3, <1>5, <2>1 DEF SentInv
<1>9. cl.snapshots[Masked(ack)].valid /\ cl.snapshots[Masked(ack)].messageNum = ack
  BY <1>1, <1>3, <1>4, <1>7 DEF KeepsInv, Keeps
<1>10. FrameInv(ack) BY <1>1, <1>3, <1>5, <1>7 DEF FramesInv
<1> DEFINE frame == sv.frames[Masked(ack)]
           f     == frame.frameNum
<1>11. f \in Nat
  <2>1. sv.frames \in [0 .. PACKET_BACKUP - 1 -> FrameType] BY <1>1 DEF Types, ServerType
  <2>2. frame \in FrameType BY <1>2, <2>1, MaskedType
  <2> QED BY <2>2 DEF FrameType
<1>12. /\ StorageInv' /\ snapshotFrame \in Nat /\ snapshotFrame' \in Nat
       /\ snapshotFrame <= snapshotFrame' /\ lastValidFrame' \in Nat
       /\ \A g \in 0 .. snapshotFrame - 1 :
            built'[g + 1] = built[g + 1] /\ FirstOf(g)' = FirstOf(g)
  BY DEF Common
<1>13. f < snapshotFrame BY <1>10 DEF FrameInv
<1>14. f \in 0 .. snapshotFrame - 1 /\ f \in LiveFrames'
  BY <1>3, <1>11, <1>12, <1>13 DEF LiveFrames
<1>15. PICK I \in SUBSET (1 .. Len(built[f + 1].entities)) :
         /\ frame.ents = {Wrap(FirstOf(f) + i - 1) : i \in I}
         /\ sent[ack].entities = {built[f + 1].entities[i] : i \in I}
  BY <1>10 DEF FrameInv
<1>16. ASSUME NEW g, g = f
       PROVE {snapshotEntities'[p] : p \in {Wrap(FirstOf(g)' + i - 1) : i \in I}}
               = {built'[g + 1].entities[i] : i \in I}
  <2>1. built'[g + 1] = built[g + 1] BY <1>12, <1>14, <1>16
  <2>2. I \in SUBSET (1 .. Len(built'[g + 1].entities)) BY <1>15, <1>16, <2>1
  <2>3. g \in LiveFrames' BY <1>14, <1>16
  <2> HIDE DEF f
  <2> QED BY <1>12, <2>2, <2>3, StoredIs
<1>17. {snapshotEntities'[p] : p \in frame.ents} = sent[ack].entities
  <2>1. ASSUME NEW g, g = f
        PROVE  /\ frame.ents = {Wrap(FirstOf(g)' + i - 1) : i \in I}
               /\ sent[ack].entities = {built'[g + 1].entities[i] : i \in I}
    <3>1. built'[g + 1] = built[g + 1] /\ FirstOf(g)' = FirstOf(g)
      BY <1>12, <1>14, <2>1
    <3> HIDE DEF frame, f
    <3> QED BY <1>15, <2>1, <3>1
  <2> HIDE DEF frame, f
  <2> QED BY <1>16, <2>1
<1> QED BY <1>4, <1>5, <1>7, <1>8, <1>9, <1>17

\* What a delta may hold.
LEMMA DeltaType ==
  ASSUME NEW baselines, NEW old \in SUBSET EntityStates, NEW new \in SUBSET EntityStates
  PROVE  Delta(baselines, old, new) \in [ changed : SUBSET EntityStates,
            baselines : SUBSET Nat, removed : SUBSET Nat ]
<1>1. \A e \in EntityStates : e.number \in Nat BY SnapshotsAssumption
<1> QED BY <1>1 DEF Delta, Numbers

\* A snapshot is sent: it is whole, or the client can read it.
LEMMA SendSnapshotPreserves ==
  ASSUME SnapIInv, NEW seen \in Views, SV_SendClientSnapshot(seen)
  PROVE  SnapIInv'
<1> DEFINE ack == sv.messageAcknowledge
           last == sv.outgoingSequence
           stored(ents) == {snapshotEntities'[p] : p \in ents}
           ents == VisibleEnts(seen)
           old == IF MayDelta THEN stored(sv.frames[Masked(ack)].ents) ELSE {}
           m == [ sequence  |-> last,
                  type      |-> "svc_snapshot",
                  serverId  |-> sv.serverId,
                  lastframe |-> IF MayDelta THEN last - ack ELSE 0,
                  entities  |-> PacketEntities(old, stored(ents)) ]
           entry == [serverId |-> sv.serverId, entities |-> stored(ents)]
           frame == [frameNum |-> FrameNumber, ents |-> ents]
<1>1. /\ StorageInv /\ Types /\ SentInv /\ AcksInOrder /\ InWorldInv /\ FramesInv
      /\ SnapInv /\ KeepsInv /\ MessageInv
  BY DEF SnapIInv, ConnectionInv
<1>2. PICK world \in Worlds, f \in Nat, first \in Nat : Common(world, f, first)
  BY <1>1, CommonIs DEF SV_SendClientSnapshot
<1>3. /\ sv.state \in {CS_PRIMED, CS_ACTIVE}
      /\ toClient' = <<m>>
      /\ sv' = [sv EXCEPT !.frames[Masked(last)] = frame,
                          !.deltaStart = IF MayDelta THEN ack ELSE @,
                          !.outgoingSequence = @ + 1]
      /\ sent' = Append(sent, entry)
      /\ toServer' = toServer /\ cl' = cl
  BY DEF SV_SendClientSnapshot, Transmit
<1>4. /\ sv \in ServerType /\ last \in Nat \ {0} /\ ack \in Nat
      /\ sent \in Seq(SentType) /\ Len(sent) = last - 1
      /\ sv.frames \in [0 .. PACKET_BACKUP - 1 -> FrameType]
      /\ sv.serverId \in ServerIds /\ sv.deltaStart \in Nat
      /\ cl \in ClientType /\ Received \in Nat /\ gamestateNum \in Nat
      /\ sv.state # CS_CONNECTED
  <2>1. sv.state # CS_CONNECTED BY <1>3 DEF CS_PRIMED, CS_ACTIVE, CS_CONNECTED
  <2>2. gamestateNum \in Int /\ gamestateNum > 0
    BY <1>1, <2>1 DEF SentInv, Types, ServerType
  <2> QED BY <1>1, <2>1, <2>2 DEF Types, ServerType, ClientType
<1>5. /\ gamestateNum < last /\ Received < last /\ Received \in 0 .. Len(sent)
      /\ gamestateNum \in 1 .. Len(sent)
  BY <1>1, <1>4 DEF SentInv, AcksInOrder
<1>6. first = FirstOf(f)' BY <1>2 DEF Common
<1>7. PICK I \in SUBSET (1 .. Len(world)) :
        /\ ents = {Wrap(first + i - 1) : i \in I}
        /\ stored(ents) = {world[i] : i \in I}
        /\ ents \subseteq Positions
  <2>0. PICK I \in SUBSET (1 .. Len(world)) : SeenIn(world, first, seen, I)
    BY <1>2, SnapshotBuilt
  <2>1. /\ \A i \in I : /\ Wrap(first + i - 1) \in ents
                       /\ snapshotEntities'[Wrap(first + i - 1)] = world[i]
        /\ \A p \in ents : p \in Positions /\ \E i \in I : p = Wrap(first + i - 1)
    BY <2>0 DEF SeenIn
  <2>2. ents = {Wrap(first + i - 1) : i \in I} /\ ents \subseteq Positions BY <2>1
  <2>3. stored(ents) = {world[i] : i \in I}
    <3>1. \A p \in ents : \E i \in I : snapshotEntities'[p] = world[i] BY <2>1
    <3>2. \A i \in I : \E p \in ents : snapshotEntities'[p] = world[i] BY <2>1
    <3> DEFINE S == {snapshotEntities'[p] : p \in ents}
               T == {world[i] : i \in I}
    <3> HIDE DEF ents
    <3>3. S \subseteq T BY <3>1
    <3>4. T \subseteq S BY <3>2
    <3> HIDE DEF S, T
    <3>5. S = T BY <3>3, <3>4
    <3> QED BY <3>5 DEF S, T
  <2> QED BY <2>2, <2>3
<1>8. Fits(stored(ents)) BY <1>7, WorldFits
<1>9. /\ StorageInv' /\ f \in Nat /\ snapshotFrame' = f + 1
      /\ built'[f + 1].entities = world
      /\ FrameNumber = f
  BY <1>2 DEF Common, FrameNumber
<1>10. MayDelta =>
         /\ ack > gamestateNum /\ ack \in 1 .. Received
         /\ last - ack \in 1 .. PACKET_BACKUP - 4
         /\ cl.snapshots[Masked(ack)].valid
         /\ cl.snapshots[Masked(ack)].messageNum = ack
         /\ cl.serverId = sv.serverId /\ sent[ack].serverId = sv.serverId
         /\ Fits(sent[ack].entities) /\ old = sent[ack].entities
  BY <1>2, BaseKept
<1>11. /\ ~MayDelta => old = {}
       /\ old \subseteq EntityStates
  BY <1>10 DEF Fits
<1>12. m.entities = Delta(Baselines[sv.serverId], old, stored(ents))
  BY DEF PacketEntities, Delta
<1>13. m \in MessageType
  <2>1. m.entities \in [ changed : SUBSET EntityStates, baselines : SUBSET Nat,
                         removed : SUBSET Nat ]
    <3> HIDE DEF m, old, stored
    <3>1. stored(ents) \subseteq EntityStates BY <1>8 DEF Fits
    <3> QED BY <1>11, <1>12, <3>1, DeltaType
  <2>2. m.lastframe \in Nat BY <1>10, SnapshotsAssumption
  <2> HIDE DEF old, stored
  <2> QED BY <1>4, <2>1, <2>2 DEF MessageType
<1>14. frame \in FrameType BY <1>7, <1>9 DEF FrameType
<1>15. entry \in SentType BY <1>4, <1>8 DEF SentType, Fits
<1>16. Masked(last) \in 0 .. PACKET_BACKUP - 1 BY <1>4, MaskedType
<1> HIDE DEF m, frame, entry, old, stored, ents
<1>17. /\ sent' \in Seq(SentType) /\ Len(sent') = last
       /\ \A n \in 1 .. Len(sent) : sent'[n] = sent[n]
       /\ sent'[last] = entry
  <2>1. last = Len(sent) + 1 BY <1>4
  <2> QED BY <1>3, <1>4, <1>15, <2>1, SentAppended
<1>18. /\ sv'.outgoingSequence = last + 1
       /\ sv'.frames = [sv.frames EXCEPT ![Masked(last)] = frame]
       /\ sv'.deltaStart = (IF MayDelta THEN ack ELSE sv.deltaStart)
       /\ sv'.serverId = sv.serverId /\ sv'.state = sv.state
       /\ sv'.gamestateAcked = sv.gamestateAcked
       /\ sv'.gamestateMessageNum = gamestateNum
       /\ sv'.deltaActive = sv.deltaActive /\ sv'.messageAcknowledge = ack
       /\ sv' \in ServerType
  <2>1. (IF MayDelta THEN ack ELSE sv.deltaStart) \in Nat BY <1>4
  <2> DEFINE d == IF MayDelta THEN ack ELSE sv.deltaStart
  <2> HIDE DEF d
  <2>2. [sv.frames EXCEPT ![Masked(last)] = frame] \in [0 .. PACKET_BACKUP - 1 -> FrameType]
    BY <1>4, <1>14, <1>16
  <2>3. sv' = [sv EXCEPT !.frames = [sv.frames EXCEPT ![Masked(last)] = frame],
                         !.deltaStart = d, !.outgoingSequence = last + 1]
    BY <1>3, <1>4 DEF ServerType, d
  <2>4. d \in Nat /\ last + 1 \in Nat \ {0} BY <1>4, <2>1 DEF d
  <2> HIDE DEF last, ack
  <2>5. /\ sv'.outgoingSequence = last + 1
        /\ sv'.frames = [sv.frames EXCEPT ![Masked(last)] = frame]
        /\ sv'.deltaStart = d
        /\ sv'.serverId = sv.serverId /\ sv'.state = sv.state
        /\ sv'.gamestateAcked = sv.gamestateAcked
        /\ sv'.gamestateMessageNum = gamestateNum
        /\ sv'.deltaActive = sv.deltaActive /\ sv'.messageAcknowledge = sv.messageAcknowledge
    BY <1>4, <2>3 DEF ServerType
  <2>6. sv' \in ServerType BY <1>4, <2>2, <2>3, <2>4 DEF ServerType
  <2> QED BY <2>5, <2>6 DEF d, ack
<1>19. Types'
  <2>1. toClient' \in Seq(MessageType) /\ Len(toClient') = 1 BY <1>3, <1>13
  <2> QED BY <1>1, <1>3, <1>4, <1>17, <1>18, <2>1
          DEF Types, ServerType, FrameType, Positions
<1>20. SentInv'
  <2>1. Fits(entry.entities) /\ entry.serverId = sv.serverId BY <1>8 DEF entry
  <2>2. ASSUME NEW n \in 1 .. last
        PROVE  \/ sent'[n].entities = {NoEntity} /\ n <= gamestateNum
               \/ Fits(sent'[n].entities)
    <3>1. CASE n = last BY <1>17, <2>1, <3>1
    <3>2. CASE n # last
      <4>1. n \in 1 .. Len(sent) BY <1>4, <3>2
      <4> QED BY <1>1, <1>17, <4>1 DEF SentInv
    <3> QED BY <3>1, <3>2
  <2>3. ASSUME NEW n \in gamestateNum .. last PROVE sent'[n].serverId = sv.serverId
    <3>1. CASE n = last BY <1>17, <2>1, <3>1
    <3>2. CASE n # last
      <4>1. n \in 1 .. Len(sent) /\ n \in gamestateNum .. Len(sent) BY <1>4, <1>5, <3>2
      <4> QED BY <1>1, <1>4, <1>17, <4>1 DEF SentInv
    <3> QED BY <3>1, <3>2
  <2>4. sent'[gamestateNum].entities = {NoEntity}
    BY <1>1, <1>4, <1>5, <1>17 DEF SentInv
  <2>5. gamestateNum \in 1 .. last BY <1>4, <1>5
  <2> QED BY <1>4, <1>5, <1>17, <1>18, <2>2, <2>3, <2>4, <2>5 DEF SentInv
<1>21. AcksInOrder'
  <2>1. Received <= Len(sent') BY <1>4, <1>5, <1>17
  <2> QED BY <1>1, <1>3, <1>18, <2>1 DEF AcksInOrder
<1>22. InWorldInv'
  <2>1. sv'.deltaStart <= sv'.outgoingSequence
    BY <1>1, <1>4, <1>5, <1>10, <1>18 DEF InWorldInv
  <2> QED BY <1>1, <1>3, <1>18, <2>1 DEF InWorldInv
<1>23. FramesInv'
  <2> SUFFICES ASSUME NEW n \in gamestateNum + 1 .. last, last + 1 - n <= PACKET_BACKUP
               PROVE  FrameInv(n)'
    BY <1>17, <1>18 DEF FramesInv
  <2>1. CASE n = last
    <3>1. sv'.frames[Masked(n)] = frame /\ sent'[n] = entry
      BY <1>4, <1>16, <1>17, <1>18, <2>1
    <3>2. frame.frameNum = f /\ frame.ents = {Wrap(first + i - 1) : i \in I}
          /\ entry.entities = {world[i] : i \in I}
      BY <1>7, <1>9 DEF frame, entry
    <3>3. sv'.frames[Masked(n)].frameNum = f BY <3>1, <3>2
    <3>4. FirstOf(sv.frames[Masked(n)].frameNum)' = first
      BY <1>6, <3>3 DEF FirstOf
    <3>5. f < snapshotFrame' BY <1>9
    <3>6. /\ sv'.frames[Masked(n)].ents =
               {Wrap(FirstOf(sv.frames[Masked(n)].frameNum)' + i - 1) : i \in I}
          /\ sent'[n].entities =
               {built'[sv'.frames[Masked(n)].frameNum + 1].entities[i] : i \in I}
          /\ I \in SUBSET (1 .. Len(built'[sv'.frames[Masked(n)].frameNum + 1].entities))
      BY <1>7, <1>9, <3>1, <3>2, <3>3, <3>4
    <3> QED BY <3>3, <3>5, <3>6 DEF FrameInv
  <2>2. CASE n # last
    <3>1. n \in gamestateNum + 1 .. Len(sent) /\ n \in 1 .. Len(sent) /\ n \in Nat
          /\ last - n <= PACKET_BACKUP /\ n < last /\ last - n < PACKET_BACKUP
      <4>1. PACKET_BACKUP \in Nat BY SnapshotsAssumption
      <4> HIDE DEF last
      <4>2. n \in Int /\ gamestateNum < n /\ n <= last /\ last + 1 - n <= PACKET_BACKUP
        BY <1>4
      <4> QED BY <1>4, <2>2, <4>1, <4>2
    <3>2. FrameInv(n) BY <1>1, <1>4, <3>1 DEF FramesInv
    <3>3. Masked(n) # Masked(last) BY <1>4, <3>1, MaskedDistinct
    <3>4. sv'.frames[Masked(n)] = sv.frames[Masked(n)]
      BY <1>4, <1>18, <3>1, <3>3, MaskedType
    <3> QED BY <1>1, <1>2, <1>17, <3>1, <3>2, <3>4, FrameStays
  <2> QED BY <2>1, <2>2
<1>24. SnapInv' BY <1>1, <1>3, <1>17, SnapStays
<1>25. KeepsInv'
  <2>1. ASSUME NEW n \in Nat, Keeps(n), NEW k, k = n PROVE Keeps(k)'
    <3>1. last + 1 - n < PACKET_BACKUP => last - n < PACKET_BACKUP
      BY <1>4, SnapshotsAssumption
    <3>2. cl' = cl /\ sv'.outgoingSequence = last + 1
          /\ sv'.gamestateMessageNum = sv.gamestateMessageNum /\ sv'.state = sv.state
      BY <1>3, <1>18
    <3>3. k \in Nat /\ last + 1 \in Int BY <1>4, <2>1
    <3> QED BY <1>4, <2>1, <3>1, <3>2, <3>3 DEF Keeps
  <2>2. \A i \in 1 .. Len(toServer) : toServer[i].messageAcknowledge \in Nat
    <3>1. \A i \in 1 .. Len(toServer) : toServer[i] \in PacketType
      BY <1>1, ElementOfSeq DEF Types
    <3> QED BY <3>1 DEF PacketType
  <2>3. Keeps(Received)' BY <1>1, <1>3, <1>4, <2>1 DEF KeepsInv
  <2>4. Keeps(sv.messageAcknowledge)' BY <1>1, <1>4, <1>18, <2>1 DEF KeepsInv
  <2>5. ASSUME NEW i \in 1 .. Len(toServer)
        PROVE Keeps(toServer[i].messageAcknowledge)'
    BY <1>1, <1>3, <2>1, <2>2 DEF KeepsInv
  <2> QED BY <1>3, <2>3, <2>4, <2>5 DEF KeepsInv
<1>26. MessageInv'
  <2>1. {toClient'[i] : i \in 1 .. Len(toClient')} = {m} BY <1>3
  <2>2. /\ m.sequence = last /\ m.type = "svc_snapshot" /\ m.serverId = sv.serverId
        /\ m.lastframe = (IF MayDelta THEN last - ack ELSE 0)
        /\ entry.serverId = sv.serverId /\ entry.entities = stored(ents)
    BY DEF m, entry
  <2>3. m.lastframe = 0 => old = {} BY <1>4, <1>10, <1>11, <2>2
  <2>4. m.lastframe # 0 =>
          LET base == m.sequence - m.lastframe
              s    == cl.snapshots[Masked(base)]
          IN  /\ m.lastframe < PACKET_BACKUP - 3 /\ base \in 1 .. Received
              /\ s.valid /\ s.messageNum = base
              /\ cl.serverId = m.serverId /\ sent'[base].serverId = m.serverId
              /\ Fits(sent'[base].entities)
              /\ old = sent'[base].entities
    <3> SUFFICES ASSUME m.lastframe # 0
                 PROVE LET base == m.sequence - m.lastframe
                           s    == cl.snapshots[Masked(base)]
                       IN  /\ m.lastframe < PACKET_BACKUP - 3 /\ base \in 1 .. Received
                           /\ s.valid /\ s.messageNum = base
                           /\ cl.serverId = m.serverId /\ sent'[base].serverId = m.serverId
                           /\ Fits(sent'[base].entities)
                           /\ old = sent'[base].entities
      OBVIOUS
    <3>1. MayDelta /\ m.lastframe = last - ack BY <2>2
    <3>2. m.sequence - m.lastframe = ack BY <1>4, <2>2, <3>1
    <3>3. ack \in 1 .. Len(sent) BY <1>4, <1>5, <1>10, <3>1
    <3>4. sent'[ack] = sent[ack] BY <1>17, <3>3
    <3>5. m.lastframe < PACKET_BACKUP - 3 BY <1>10, <3>1, SnapshotsAssumption
    <3> QED BY <1>10, <2>2, <3>1, <3>2, <3>4, <3>5
  <2>5. m.sequence # gamestateNum BY <1>4, <1>5, <2>2
  <2>6. Len(sent') = last /\ sent'[Len(sent')] = entry /\ Received < last BY <1>5, <1>17
  <2>7. m.type = "svc_snapshot" /\ m.lastframe = 0 =>
          m.entities = Delta(Baselines[m.serverId], {}, entry.entities)
    BY <1>12, <2>2, <2>3
  <2>8. m.lastframe # 0 =>
          m.entities = Delta(Baselines[m.serverId], sent'[m.sequence - m.lastframe].entities,
                             entry.entities)
    BY <1>12, <2>2, <2>4
  <2>9. cl' = cl /\ sv'.gamestateMessageNum = gamestateNum BY <1>3, <1>18
  <2> QED BY <2>1, <2>2, <2>4, <2>5, <2>6, <2>7, <2>8, <2>9 DEF MessageInv
<1> QED BY <1>9, <1>19, <1>20, <1>21, <1>22, <1>23, <1>24, <1>25, <1>26
        DEF SnapIInv, ConnectionInv

\* The frame of a message while the storage is left alone.
LEMMA FrameUntouched ==
  ASSUME UNCHANGED storageVars, NEW n, FrameInv(n),
         sv'.frames[Masked(n)] = sv.frames[Masked(n)], sent'[n] = sent[n]
  PROVE  FrameInv(n)'
<1> DEFINE frame    == sv.frames[Masked(n)]
           entities == built[frame.frameNum + 1].entities
<1>1. built' = built /\ snapshotFrame' = snapshotFrame BY DEF storageVars
<1>2. frame' = frame /\ entities' = entities BY <1>1
<1>3. FirstOf(frame.frameNum)' = FirstOf(frame.frameNum)
  BY <1>1, <1>2 DEF FirstOf, Total
<1>4. /\ frame.frameNum < snapshotFrame
      /\ \E I \in SUBSET (1 .. Len(entities)) :
           /\ frame.ents = {Wrap(FirstOf(frame.frameNum) + i - 1) : i \in I}
           /\ sent[n].entities = {entities[i] : i \in I}
  BY DEF FrameInv
<1>5. /\ frame'.frameNum < snapshotFrame'
      /\ \E I \in SUBSET (1 .. Len(entities')) :
           /\ frame'.ents = {Wrap(FirstOf(frame.frameNum)' + i - 1) : i \in I}
           /\ sent'[n].entities = {entities'[i] : i \in I}
  <2> HIDE DEF frame, entities
  <2> QED BY <1>1, <1>2, <1>3, <1>4
<1> QED BY <1>5 DEF FrameInv

\* The packets behind the one that is read.
LEMMA PacketsLeft ==
  ASSUME Types, NEW k \in DOMAIN toServer,
         toServer' = SubSeq(toServer, k + 1, Len(toServer))
  PROVE  /\ k \in 1 .. Len(toServer) /\ toServer[k] \in PacketType
         /\ toServer' \in Seq(PacketType) /\ Len(toServer') \in Nat
         /\ \A i \in 1 .. Len(toServer') :
              /\ k + i \in 1 .. Len(toServer) /\ k <= k + i
              /\ toServer'[i] = toServer[k + i]
         /\ \A i, j \in 1 .. Len(toServer') : i <= j => k + i <= k + j
<1>1. /\ toServer \in Seq(PacketType) /\ Len(toServer) \in Nat
      /\ k \in 1 .. Len(toServer)
  BY DEF Types
<1>2. toServer[k] \in PacketType BY <1>1, ElementOfSeq
<1>3. /\ toServer' \in Seq(PacketType)
      /\ Len(toServer') = Len(toServer) - k
      /\ \A i \in 1 .. Len(toServer) - k : toServer'[i] = toServer[k + i]
  <2>1. k + 1 \in 1 .. Len(toServer) + 1 /\ Len(toServer) \in k .. Len(toServer)
    BY <1>1
  <2>2. /\ SubSeq(toServer, k + 1, Len(toServer)) \in Seq(PacketType)
        /\ Len(SubSeq(toServer, k + 1, Len(toServer))) =
             IF k + 1 <= Len(toServer) THEN Len(toServer) - (k + 1) + 1 ELSE 0
        /\ \A i \in 1 .. Len(toServer) - (k + 1) + 1 :
             SubSeq(toServer, k + 1, Len(toServer))[i] = toServer[k + 1 + i - 1]
    <3>1. \A i \in k + 1 .. Len(toServer) : toServer[i] \in PacketType
      BY <1>1, ElementOfSeq
    <3> QED BY <1>1, <2>1, <3>1, SubSeqProperties
  <2>3. Len(toServer) - (k + 1) + 1 = Len(toServer) - k BY <1>1
  <2>4. \A i \in 1 .. Len(toServer) - k : k + 1 + i - 1 = k + i BY <1>1
  <2> QED BY <1>1, <2>2, <2>3, <2>4
<1>4. Len(toServer') \in Nat BY <1>1, <1>3
<1>5. \A i \in 1 .. Len(toServer') : k + i \in 1 .. Len(toServer) /\ k <= k + i
  BY <1>1, <1>3
<1>6. \A i, j \in 1 .. Len(toServer') : i <= j => k + i <= k + j BY <1>1, <1>4
<1> QED BY <1>1, <1>2, <1>3, <1>4, <1>5, <1>6

\* A packet that makes the server send nothing: it tells what was received, and
\* may let the client enter the world.
LEMMA ReadPreserves ==
  ASSUME SnapIInv, NEW k \in DOMAIN toServer,
         toServer' = SubSeq(toServer, k + 1, Len(toServer)),
         UNCHANGED <<storageVars, toClient, cl, sent>>,
         sv' \in ServerType,
         sv'.serverId = sv.serverId, sv'.gamestateMessageNum = sv.gamestateMessageNum,
         sv'.outgoingSequence = sv.outgoingSequence, sv'.frames = sv.frames,
         sv'.deltaStart = sv.deltaStart,
         sv'.messageAcknowledge = toServer[k].messageAcknowledge,
         sv'.state = CS_CONNECTED <=> sv.state = CS_CONNECTED,
         sv'.state = CS_ACTIVE => sv'.gamestateAcked,
         sv'.gamestateAcked =>
           /\ sv'.state # CS_CONNECTED
           /\ sv'.messageAcknowledge >= gamestateNum
           /\ cl.serverId = sv.serverId,
         sv'.state = CS_ACTIVE /\ sv'.deltaActive => sv'.messageAcknowledge > gamestateNum
  PROVE  SnapIInv'
<1>1. /\ StorageInv /\ Types /\ SentInv /\ AcksInOrder /\ InWorldInv /\ FramesInv
      /\ SnapInv /\ KeepsInv /\ MessageInv
  BY DEF SnapIInv, ConnectionInv
<1>2. /\ k \in 1 .. Len(toServer) /\ toServer[k] \in PacketType
      /\ toServer' \in Seq(PacketType) /\ Len(toServer') \in Nat
      /\ \A i \in 1 .. Len(toServer') :
           /\ k + i \in 1 .. Len(toServer) /\ k <= k + i
           /\ toServer'[i] = toServer[k + i]
      /\ \A i, j \in 1 .. Len(toServer') : i <= j => k + i <= k + j
  BY <1>1, PacketsLeft
<1>3. toClient' = toClient /\ cl' = cl /\ sent' = sent /\ UNCHANGED storageVars
  OBVIOUS
<1>4. StorageInv' BY <1>1, <1>3, StutterPreserves
<1>5. Types' BY <1>1, <1>2, <1>3 DEF Types, ServerType, FrameType, Positions
<1>6. SentInv' BY <1>1, <1>3 DEF SentInv
<1>7. AcksInOrder'
  <2>1. /\ Received <= Len(sent)
        /\ \A i \in 1 .. Len(toServer) : toServer[i].messageAcknowledge <= Received
        /\ \A i, j \in 1 .. Len(toServer) :
             i <= j => toServer[i].messageAcknowledge <= toServer[j].messageAcknowledge
    BY <1>1 DEF AcksInOrder
  <2>2. ASSUME NEW i \in 1 .. Len(toServer')
        PROVE  /\ toServer[k].messageAcknowledge <= toServer'[i].messageAcknowledge
               /\ toServer'[i].messageAcknowledge <= Received
    BY <1>2, <2>1
  <2>3. ASSUME NEW i \in 1 .. Len(toServer'), NEW j \in 1 .. Len(toServer'), i <= j
        PROVE  toServer'[i].messageAcknowledge <= toServer'[j].messageAcknowledge
    <3>1. k + i <= k + j BY <1>2, <2>3
    <3> QED BY <1>2, <2>1, <3>1
  <2> QED BY <1>2, <1>3, <2>1, <2>2, <2>3 DEF AcksInOrder
<1>8. InWorldInv'
  <2>1. ASSUME NEW i \in 1 .. Len(toServer')
        PROVE  /\ toServer'[i].messageAcknowledge >= gamestateNum
                    => toServer'[i].serverId = cl.serverId
               /\ toServer'[i].move = "clc_move"
                    => toServer'[i].messageAcknowledge # gamestateNum
    BY <1>1, <1>2 DEF InWorldInv
  <2>2. sv.deltaStart <= sv.outgoingSequence BY <1>1 DEF InWorldInv
  <2> QED BY <1>3, <2>1, <2>2 DEF InWorldInv
<1>9. FramesInv'
  <2> SUFFICES ASSUME sv.state # CS_CONNECTED, NEW n \in gamestateNum + 1 .. Len(sent),
                      sv.outgoingSequence - n <= PACKET_BACKUP
               PROVE  FrameInv(n)'
    BY <1>3 DEF FramesInv
  <2>1. FrameInv(n) BY <1>1 DEF FramesInv
  <2> QED BY <1>3, <2>1, FrameUntouched
<1>10. SnapInv' BY <1>1, <1>3, SnapStays
<1>11. KeepsInv'
  <2>1. ASSUME NEW n, Keeps(n), NEW j, j = n PROVE Keeps(j)'
    BY <1>3, <2>1 DEF Keeps
  <2>2. \A i \in 1 .. Len(toServer) : Keeps(toServer[i].messageAcknowledge)
    BY <1>1 DEF KeepsInv
  <2>3. Keeps(sv.messageAcknowledge)' BY <1>2, <2>1, <2>2
  <2>4. ASSUME NEW i \in 1 .. Len(toServer') PROVE Keeps(toServer[i].messageAcknowledge)'
    BY <1>2, <2>1, <2>2
  <2>5. Keeps(Received)' BY <1>1, <1>3, <2>1 DEF KeepsInv
  <2> QED BY <2>3, <2>4, <2>5 DEF KeepsInv
<1>12. MessageInv' BY <1>1, <1>3 DEF MessageInv
<1> QED BY <1>4, <1>5, <1>6, <1>7, <1>8, <1>9, <1>10, <1>11, <1>12
        DEF SnapIInv, ConnectionInv

\* A packet that makes the server send the gamestate: whatever was received
\* before counts no more.
LEMMA GamestatePreserves ==
  ASSUME SnapIInv, NEW k \in DOMAIN toServer,
         toServer' = SubSeq(toServer, k + 1, Len(toServer)),
         UNCHANGED <<storageVars, cl>>,
         sv' \in ServerType, sv'.serverId = sv.serverId,
         sv'.messageAcknowledge = toServer[k].messageAcknowledge,
         sv'.state = CS_PRIMED, sv'.gamestateAcked = FALSE,
         sv'.gamestateMessageNum = sv.outgoingSequence,
         sv'.deltaStart = sv.outgoingSequence,
         sv'.outgoingSequence = sv.outgoingSequence + 1,
         toClient' = <<[ sequence |-> sv.outgoingSequence, type |-> "svc_gamestate",
                         serverId |-> sv.serverId, lastframe |-> 0,
                         entities |-> PacketEntities({}, {}) ]>>,
         sent' = Append(sent, [serverId |-> sv.serverId, entities |-> {NoEntity}])
  PROVE  SnapIInv'
<1> DEFINE last == sv.outgoingSequence
           m == [ sequence |-> last, type |-> "svc_gamestate",
                  serverId |-> sv.serverId, lastframe |-> 0,
                  entities |-> PacketEntities({}, {}) ]
           entry == [serverId |-> sv.serverId, entities |-> {NoEntity}]
<1>1. /\ StorageInv /\ Types /\ SentInv /\ AcksInOrder /\ InWorldInv /\ FramesInv
      /\ SnapInv /\ KeepsInv /\ MessageInv
  BY DEF SnapIInv, ConnectionInv
<1>2. /\ k \in 1 .. Len(toServer) /\ toServer[k] \in PacketType
      /\ toServer' \in Seq(PacketType) /\ Len(toServer') \in Nat
      /\ \A i \in 1 .. Len(toServer') :
           /\ k + i \in 1 .. Len(toServer) /\ k <= k + i
           /\ toServer'[i] = toServer[k + i]
      /\ \A i, j \in 1 .. Len(toServer') : i <= j => k + i <= k + j
  BY <1>1, PacketsLeft
<1>3. /\ last \in Nat \ {0} /\ sent \in Seq(SentType) /\ Len(sent) = last - 1
      /\ sv.serverId \in ServerIds /\ cl \in ClientType /\ Received \in Nat
      /\ Received < last /\ gamestateNum \in Int /\ gamestateNum < last
  <2>1. /\ last \in Nat \ {0} /\ sent \in Seq(SentType) /\ Len(sent) = last - 1
        /\ sv.serverId \in ServerIds /\ cl \in ClientType /\ Received \in Nat
        /\ gamestateNum \in Int
    <3>1. /\ sv \in ServerType /\ cl \in ClientType
          /\ sent \in Seq(SentType) /\ Len(sent) = last - 1
      BY <1>1 DEF Types
    <3>2. last \in Nat \ {0} /\ sv.serverId \in ServerIds /\ gamestateNum \in Int
      BY <3>1 DEF ServerType
    <3>3. Received \in Nat BY <3>1 DEF ClientType
    <3> QED BY <3>1, <3>2, <3>3
  <2>2. gamestateNum < last BY <1>1, <2>1 DEF SentInv
  <2>3. Received < last BY <1>1, <2>1 DEF AcksInOrder
  <2> QED BY <2>1, <2>2, <2>3
<1>4. StorageInv' BY <1>1, StutterPreserves
<1>5. m \in MessageType
  <2>1. PacketEntities({}, {}) \in [ changed : SUBSET EntityStates,
            baselines : SUBSET Nat, removed : SUBSET Nat ]
    BY DEF PacketEntities, Numbers
  <2> QED BY <1>3, <2>1 DEF MessageType
<1>6. entry \in SentType BY <1>3 DEF SentType
<1>7. toClient' = <<m>> /\ sent' = Append(sent, entry) OBVIOUS
<1>8. m.sequence = last /\ m.type = "svc_gamestate" /\ m.serverId = sv.serverId
      /\ m.lastframe = 0 /\ entry.serverId = sv.serverId /\ entry.entities = {NoEntity}
  OBVIOUS
<1>9. /\ sv'.messageAcknowledge = toServer[k].messageAcknowledge
      /\ sv'.serverId = sv.serverId /\ sv'.state = CS_PRIMED /\ sv'.gamestateAcked = FALSE
      /\ sv'.gamestateMessageNum = last /\ sv'.deltaStart = last
      /\ sv'.outgoingSequence = last + 1 /\ cl' = cl /\ sv.outgoingSequence = last
  OBVIOUS
<1> HIDE DEF m, entry, last
<1>10. /\ sent' \in Seq(SentType) /\ Len(sent') = last
       /\ \A n \in 1 .. Len(sent) : sent'[n] = sent[n]
       /\ sent'[last] = entry
  <2>1. last = Len(sent) + 1 /\ sent \in Seq(SentType) BY <1>3
  <2>2. /\ Append(sent, entry) \in Seq(SentType) /\ Len(Append(sent, entry)) = Len(sent) + 1
        /\ \A n \in 1 .. Len(sent) : Append(sent, entry)[n] = sent[n]
        /\ Append(sent, entry)[Len(sent) + 1] = entry
    BY <1>6, <2>1, SentAppended
  <2> QED BY <1>7, <2>1, <2>2
<1>11. Types'
  <2>1. toClient' \in Seq(MessageType) /\ Len(toClient') = 1 BY <1>5, <1>7
  <2>2. cl' = cl OBVIOUS
  <2>3. Len(sent') = sv'.outgoingSequence - 1 BY <1>3, <1>10, <1>9
  <2>4. sv' \in ServerType /\ cl' \in ClientType /\ toServer' \in Seq(PacketType)
    BY <1>2, <1>3, <2>2
  <2>5. sent' \in Seq(SentType) /\ Len(toClient') <= 1 BY <1>10, <2>1
  <2> QED BY <2>1, <2>3, <2>4, <2>5 DEF Types, ServerType, FrameType, Positions
<1>12. \A i \in 1 .. Len(toServer') :
         /\ toServer'[i].messageAcknowledge \in Nat
         /\ toServer[k].messageAcknowledge <= toServer'[i].messageAcknowledge
         /\ toServer'[i].messageAcknowledge <= Received
  <2>1. \A i \in 1 .. Len(toServer) : toServer[i] \in PacketType
    BY <1>1, ElementOfSeq DEF Types
  <2>2. \A i \in 1 .. Len(toServer) : toServer[i].messageAcknowledge \in Nat
    BY <2>1 DEF PacketType
  <2> QED BY <1>1, <1>2, <2>2 DEF AcksInOrder
<1>13. toServer[k].messageAcknowledge \in 0 .. Received
  BY <1>1, <1>2, <1>3 DEF AcksInOrder, PacketType
<1>14. SentInv'
  <2>1. ASSUME NEW n \in 1 .. last
        PROVE  \/ sent'[n].entities = {NoEntity} /\ n <= last
               \/ Fits(sent'[n].entities)
    <3>1. CASE n = last BY <1>3, <1>8, <1>10, <3>1
    <3>2. CASE n # last
      <4>1. n \in 1 .. Len(sent) /\ n <= last BY <1>3, <3>2
      <4> QED BY <1>1, <1>10, <4>1 DEF SentInv
    <3> QED BY <3>1, <3>2
  <2>2. \A n \in last .. last : sent'[n].serverId = sv.serverId
    BY <1>3, <1>8, <1>10
  <2>3. last \in {-1} \cup 1 .. last /\ sent'[last].entities = {NoEntity} /\ last > 0
    BY <1>3, <1>8, <1>10
  <2> QED BY <1>10, <1>9, <2>1, <2>2, <2>3 DEF SentInv
<1>15. AcksInOrder'
  <2>1. ASSUME NEW i \in 1 .. Len(toServer'), NEW j \in 1 .. Len(toServer'), i <= j
        PROVE  toServer'[i].messageAcknowledge <= toServer'[j].messageAcknowledge
    BY <1>1, <1>2, <2>1 DEF AcksInOrder
  <2>2. Received <= Len(sent') BY <1>3, <1>10
  <2>3. toServer[k].messageAcknowledge <= Received BY <1>3, <1>13
  <2> QED BY <1>12, <1>9, <2>1, <2>2, <2>3 DEF AcksInOrder
<1>16. InWorldInv'
  <2>1. ASSUME NEW i \in 1 .. Len(toServer')
        PROVE  /\ ~(toServer'[i].messageAcknowledge >= last)
               /\ toServer'[i].messageAcknowledge # last
    <3>1. toServer'[i].messageAcknowledge \in Nat /\ toServer'[i].messageAcknowledge <= Received
      BY <1>12
    <3>2. Received \in Nat /\ Received < last /\ last \in Nat BY <1>3
    <3>3. ASSUME NEW a \in Nat, NEW b \in Nat, NEW c \in Nat, a <= b, b < c
          PROVE  ~(a >= c) /\ a # c
      BY <3>3
    <3> QED BY <3>1, <3>2, <3>3
  <2>2. sv'.state # CS_ACTIVE BY <1>9 DEF CS_PRIMED, CS_ACTIVE
  <2>3. last <= last + 1 BY <1>3
  <2> QED BY <1>9, <2>1, <2>2, <2>3 DEF InWorldInv
<1>17. FramesInv'
  <2>1. last + 1 .. last = {} BY <1>3
  <2> QED BY <1>10, <1>9, <2>1 DEF FramesInv
<1>18. SnapInv' BY <1>1, <1>10, SnapStays
<1>19. KeepsInv'
  <2>1. ASSUME NEW n \in Nat, n <= Received PROVE Keeps(n)'
    <3>1. ~(n > last) BY <1>3, <2>1
    <3> QED BY <1>9, <3>1 DEF Keeps
  <2>2. Keeps(Received)'
    <3>1. Received \in Nat /\ Received <= Received BY <1>3
    <3> QED BY <1>9, <2>1, <3>1 DEF Keeps
  <2>3. Keeps(sv.messageAcknowledge)'
    <3>1. toServer[k].messageAcknowledge \in Nat
          /\ toServer[k].messageAcknowledge <= Received
      BY <1>3, <1>13
    <3> QED BY <1>9, <2>1, <3>1 DEF Keeps
  <2>4. ASSUME NEW i \in 1 .. Len(toServer') PROVE Keeps(toServer[i].messageAcknowledge)'
    BY <1>12, <2>1
  <2> QED BY <2>2, <2>3, <2>4 DEF KeepsInv
<1>20. MessageInv'
  <2>1. {toClient'[i] : i \in 1 .. Len(toClient')} = {m} BY <1>7
  <2>2. sent'[Len(sent')] = entry /\ Len(sent') = last BY <1>10
  <2> QED BY <1>3, <1>8, <1>9, <2>1, <2>2 DEF MessageInv
<1> QED BY <1>4, <1>11, <1>14, <1>15, <1>16, <1>17, <1>18, <1>19, <1>20
        DEF SnapIInv, ConnectionInv

\* The server reads a packet.
LEMMA ExecutePreserves ==
  ASSUME SnapIInv, NEW k \in DOMAIN toServer, SV_ExecuteClientMessage(k)
  PROVE  SnapIInv'
<1> DEFINE m == toServer[k]
           s == Acknowledge(sv, m)
           acked == \/ sv.gamestateAcked
                    \/ /\ sv.state # CS_CONNECTED
                       /\ m.serverId = sv.serverId
                       /\ m.messageAcknowledge >= sv.gamestateMessageNum
<1>1. /\ Types /\ SentInv /\ AcksInOrder /\ InWorldInv
      /\ sv \in ServerType /\ toServer \in Seq(PacketType) /\ gamestateNum \in Int
  BY DEF SnapIInv, ConnectionInv, Types, ServerType
<1>2. /\ toServer' = SubSeq(toServer, k + 1, Len(toServer))
      /\ \/ s.gamestateAcked /\ sv' = SV_UserMove(s, m) /\ UNCHANGED <<toClient, sent>>
         \/ ~s.gamestateAcked /\ SV_SendClientGameState(s)
         \/ ~s.gamestateAcked /\ sv' = s /\ UNCHANGED <<toClient, sent>>
      /\ UNCHANGED <<storageVars, cl>>
  BY DEF SV_ExecuteClientMessage
<1>3. k \in 1 .. Len(toServer) /\ m \in PacketType
  BY <1>1, <1>2, PacketsLeft
<1>4. m.messageAcknowledge \in Nat /\ m.move \in {"none", "clc_move", "clc_moveNoDelta"}
  BY <1>3 DEF PacketType
<1>5. /\ s = [sv EXCEPT !.messageAcknowledge = m.messageAcknowledge,
                        !.gamestateAcked = acked]
      /\ acked \in BOOLEAN
  BY <1>1 DEF Acknowledge, ServerType
<1>6. /\ s \in ServerType /\ s.gamestateAcked = acked
      /\ s.messageAcknowledge = m.messageAcknowledge
      /\ s.serverId = sv.serverId /\ s.gamestateMessageNum = sv.gamestateMessageNum
      /\ s.outgoingSequence = sv.outgoingSequence /\ s.frames = sv.frames
      /\ s.deltaStart = sv.deltaStart /\ s.state = sv.state
      /\ s.deltaActive = sv.deltaActive
  <2> HIDE DEF s, acked, m
  <2> QED BY <1>1, <1>4, <1>5 DEF ServerType
<1>7. /\ sv.messageAcknowledge <= m.messageAcknowledge
      /\ sv.messageAcknowledge \in Nat
      /\ m.messageAcknowledge >= gamestateNum => m.serverId = cl.serverId
      /\ m.move = "clc_move" => m.messageAcknowledge # gamestateNum
  BY <1>1, <1>3 DEF AcksInOrder, InWorldInv, ServerType
<1>8. acked => /\ sv.state # CS_CONNECTED
               /\ m.messageAcknowledge >= gamestateNum
               /\ cl.serverId = sv.serverId
  BY <1>1, <1>4, <1>7 DEF InWorldInv
<1>9. sv.state = CS_ACTIVE => sv.gamestateAcked BY <1>1 DEF InWorldInv
<1>10. sv.state = CS_ACTIVE /\ sv.deltaActive => m.messageAcknowledge > gamestateNum
  BY <1>1, <1>4, <1>7 DEF InWorldInv
<1> HIDE DEF s
<1>11. CASE ~s.gamestateAcked /\ sv' = s /\ UNCHANGED <<toClient, sent>>
  BY <1>2, <1>6, <1>8, <1>9, <1>10, <1>11, ReadPreserves
<1>12. CASE ~s.gamestateAcked /\ SV_SendClientGameState(s)
  <2>1. /\ toClient' = <<[ sequence |-> sv.outgoingSequence, type |-> "svc_gamestate",
                           serverId |-> sv.serverId, lastframe |-> 0,
                           entities |-> PacketEntities({}, {}) ]>>
        /\ sv' = [s EXCEPT !.state = CS_PRIMED,
                           !.gamestateAcked = FALSE,
                           !.gamestateMessageNum = s.outgoingSequence,
                           !.deltaStart = s.outgoingSequence,
                           !.outgoingSequence = @ + 1]
        /\ sent' = Append(sent, [serverId |-> sv.serverId, entities |-> {NoEntity}])
    BY <1>6, <1>12 DEF SV_SendClientGameState, Transmit
  <2>2. /\ sv' \in ServerType /\ sv'.serverId = sv.serverId
        /\ sv'.messageAcknowledge = m.messageAcknowledge
        /\ sv'.state = CS_PRIMED /\ sv'.gamestateAcked = FALSE
        /\ sv'.gamestateMessageNum = sv.outgoingSequence
        /\ sv'.deltaStart = sv.outgoingSequence
        /\ sv'.outgoingSequence = sv.outgoingSequence + 1
    <3>1. s.outgoingSequence + 1 \in Nat \ {0} /\ s.outgoingSequence \in Nat
          /\ CS_PRIMED \in {CS_CONNECTED, CS_PRIMED, CS_ACTIVE}
      BY <1>6 DEF ServerType
    <3> HIDE DEF m, acked
    <3>2. sv' \in ServerType BY <1>6, <2>1, <3>1 DEF ServerType
    <3> QED BY <1>6, <2>1, <3>2 DEF ServerType
  <2> QED BY <1>2, <2>1, <2>2, GamestatePreserves
<1>13. CASE s.gamestateAcked /\ sv' = SV_UserMove(s, m) /\ UNCHANGED <<toClient, sent>>
  <2>1. CASE m.move = "none"
    <3>1. sv' = s
      <4> HIDE DEF m
      <4> QED BY <1>13, <2>1 DEF SV_UserMove
    <3> QED BY <1>2, <1>6, <1>8, <1>9, <1>10, <1>13, <3>1, ReadPreserves
  <2>2. CASE m.move # "none" /\ s.state = CS_PRIMED
    <3>1. sv' = [s EXCEPT !.state = CS_ACTIVE, !.deltaActive = FALSE]
      BY <1>13, <2>2 DEF SV_UserMove
    <3>2. /\ sv' \in ServerType /\ sv'.state = CS_ACTIVE /\ ~sv'.deltaActive
          /\ sv'.serverId = sv.serverId /\ sv'.gamestateMessageNum = sv.gamestateMessageNum
          /\ sv'.outgoingSequence = sv.outgoingSequence /\ sv'.frames = sv.frames
          /\ sv'.deltaStart = sv.deltaStart
          /\ sv'.messageAcknowledge = m.messageAcknowledge
          /\ sv'.gamestateAcked
      BY <1>6, <1>13, <3>1 DEF ServerType
    <3>3. CS_ACTIVE # CS_CONNECTED /\ sv.state # CS_CONNECTED
      BY <1>6, <1>8, <1>13 DEF CS_ACTIVE, CS_CONNECTED
    <3> QED BY <1>2, <1>6, <1>8, <1>13, <3>2, <3>3, ReadPreserves
  <2>3. CASE m.move # "none" /\ s.state # CS_PRIMED
    <3> DEFINE d == m.move = "clc_move"
    <3>1. sv' = [s EXCEPT !.deltaActive = d]
      BY <1>13, <2>3 DEF SV_UserMove
    <3>2. d \in BOOLEAN /\ (d => m.move = "clc_move") OBVIOUS
    <3> HIDE DEF d
    <3>3. /\ sv' \in ServerType /\ sv'.state = sv.state /\ sv'.deltaActive = d
          /\ sv'.serverId = sv.serverId /\ sv'.gamestateMessageNum = sv.gamestateMessageNum
          /\ sv'.outgoingSequence = sv.outgoingSequence /\ sv'.frames = sv.frames
          /\ sv'.deltaStart = sv.deltaStart
          /\ sv'.messageAcknowledge = m.messageAcknowledge
          /\ sv'.gamestateAcked
      BY <1>6, <1>13, <3>1, <3>2 DEF ServerType
    <3>4. d => m.messageAcknowledge > gamestateNum
      <4>1. m.messageAcknowledge >= gamestateNum BY <1>6, <1>8, <1>13
      <4>2. gamestateNum \in Int /\ m.messageAcknowledge \in Nat BY <1>1, <1>4
      <4>3. d => m.messageAcknowledge # gamestateNum BY <1>7, <3>2
      <4> HIDE DEF m
      <4> QED BY <4>1, <4>2, <4>3
    <3> QED BY <1>2, <1>6, <1>8, <1>13, <3>3, <3>4, ReadPreserves
  <2> QED BY <2>1, <2>2, <2>3
<1> QED BY <1>2, <1>11, <1>12, <1>13

\* Nothing of the connection: the storage may change under it.
LEMMA FramePreserves ==
  ASSUME SnapIInv, SV_Frame
  PROVE  SnapIInv'
<1>1. /\ StorageInv /\ FramesInv /\ ConnectionInv /\ SV_IssueNewSnapshot
      /\ UNCHANGED <<sv, toClient, toServer, cl, sent>>
  BY DEF SnapIInv, SV_Frame
<1>2. StorageInv' BY <1>1, IssuePreserves
<1>3. ConnectionInv' BY <1>1, ConnectionStays DEF connection
<1>4. FramesInv'
  <2>1. built' = built /\ snapshotFrame' = snapshotFrame /\ sv' = sv /\ sent' = sent
    BY <1>1 DEF SV_IssueNewSnapshot
  <2> QED BY <1>1, <2>1 DEF FramesInv, FrameInv, FirstOf, Total, Wrap
<1> QED BY <1>2, <1>3, <1>4 DEF SnapIInv

\* See FramePreserves.
LEMMA OtherPreserves ==
  ASSUME SnapIInv, OtherClient
  PROVE  SnapIInv'
<1>1. /\ StorageInv /\ FramesInv /\ ConnectionInv /\ Types /\ SentInv
      /\ CommonSnapshot /\ UNCHANGED connection
  BY DEF SnapIInv, ConnectionInv, OtherClient
<1>2. StorageInv'
  <2>1. PICK world \in Worlds, f \in Nat, first \in Nat : Common(world, f, first) BY <1>1, CommonIs
  <2> QED BY <2>1 DEF Common
<1> QED BY <1>1, <1>2, ConnectionStays, FramesStay DEF SnapIInv

\* See FramePreserves.
LEMMA SnapStutter ==
  ASSUME SnapIInv, UNCHANGED vars
  PROVE  SnapIInv'
<1>1. /\ StorageInv /\ FramesInv /\ ConnectionInv
      /\ UNCHANGED connection /\ UNCHANGED storageVars /\ sv' = sv /\ sent' = sent
  BY DEF SnapIInv, vars, connection
<1>2. StorageInv' BY <1>1, StutterPreserves
<1>3. ConnectionInv' BY <1>1, ConnectionStays
<1>4. FramesInv'
  BY <1>1 DEF FramesInv, FrameInv, FirstOf, Total, Wrap, storageVars
<1> QED BY <1>2, <1>3, <1>4 DEF SnapIInv

\* A new map: the client is not in the world of it until it has its gamestate.
LEMMA SpawnPreserves ==
  ASSUME SnapIInv, SV_SpawnServer
  PROVE  SnapIInv'
<1>1. /\ Types /\ SentInv /\ AcksInOrder /\ InWorldInv /\ SnapInv /\ KeepsInv /\ MessageInv
      /\ sv \in ServerType
  BY DEF SnapIInv, ConnectionInv, Types
<1>2. /\ sv.serverId <= MaxMaps
      /\ sv' = [sv EXCEPT !.serverId = @ + 1, !.state = CS_CONNECTED,
                          !.gamestateAcked = FALSE]
      /\ toClient' = toClient /\ toServer' = toServer /\ cl' = cl /\ sent' = sent
  BY DEF SV_SpawnServer
<1>3. StorageInv' BY RestartPreserves DEF SV_SpawnServer
<1>4. /\ sv'.state = CS_CONNECTED /\ ~sv'.gamestateAcked
      /\ sv'.gamestateMessageNum = gamestateNum
      /\ sv'.outgoingSequence = sv.outgoingSequence /\ sv'.deltaStart = sv.deltaStart
      /\ sv'.messageAcknowledge = sv.messageAcknowledge
      /\ sv'.serverId = sv.serverId + 1
  BY <1>1, <1>2 DEF ServerType
<1>5. sv' \in ServerType
  <2>1. sv.serverId + 1 \in ServerIds
    BY <1>1, <1>2, SnapshotsAssumption DEF ServerType, ServerIds
  <2>2. CS_CONNECTED \in {CS_CONNECTED, CS_PRIMED, CS_ACTIVE} OBVIOUS
  <2> QED BY <1>1, <1>2, <2>1, <2>2 DEF ServerType
<1>6. Types' BY <1>1, <1>2, <1>4, <1>5 DEF Types, ServerType, FrameType, Positions
<1>7. SentInv' BY <1>1, <1>2, <1>4 DEF SentInv
<1>8. AcksInOrder' BY <1>1, <1>2, <1>4 DEF AcksInOrder
<1>9. InWorldInv'
  <2>1. sv'.state # CS_ACTIVE BY <1>4 DEF CS_CONNECTED, CS_ACTIVE
  <2> QED BY <1>1, <1>2, <1>4, <2>1 DEF InWorldInv
<1>10. FramesInv' BY <1>4 DEF FramesInv
<1>11. SnapInv' BY <1>1, <1>2, SnapStays
<1>12. KeepsInv' BY <1>2, <1>4 DEF KeepsInv, Keeps
<1>13. MessageInv' BY <1>1, <1>2, <1>4 DEF MessageInv
<1> QED BY <1>3, <1>6, <1>7, <1>8, <1>9, <1>10, <1>11, <1>12, <1>13
        DEF SnapIInv, ConnectionInv

\* A restart of the map: only where deltas start changes.
LEMMA MapRestartPreserves ==
  ASSUME SnapIInv, SV_MapRestart_f
  PROVE  SnapIInv'
<1>1. /\ Types /\ SentInv /\ AcksInOrder /\ InWorldInv /\ SnapInv /\ KeepsInv /\ MessageInv
      /\ FramesInv /\ StorageInv /\ sv \in ServerType
  BY DEF SnapIInv, ConnectionInv, Types
<1>2. /\ sv' = [sv EXCEPT !.deltaStart = sv.outgoingSequence,
                          !.deltaActive = @ /\ sv.state # CS_ACTIVE]
      /\ UNCHANGED storageVars
      /\ toClient' = toClient /\ toServer' = toServer /\ cl' = cl /\ sent' = sent
  BY DEF SV_MapRestart_f
<1>3. StorageInv' BY <1>1, <1>2, StutterPreserves
<1>4. /\ sv'.state = sv.state /\ sv'.gamestateAcked = sv.gamestateAcked
      /\ sv'.gamestateMessageNum = gamestateNum /\ sv'.frames = sv.frames
      /\ sv'.outgoingSequence = sv.outgoingSequence
      /\ sv'.deltaStart = sv.outgoingSequence /\ sv'.serverId = sv.serverId
      /\ sv'.messageAcknowledge = sv.messageAcknowledge
      /\ sv'.deltaActive => sv.state # CS_ACTIVE
  BY <1>1, <1>2 DEF ServerType
<1>5. sv' \in ServerType BY <1>1, <1>2 DEF ServerType
<1>6. Types' BY <1>1, <1>2, <1>4, <1>5 DEF Types, ServerType, FrameType, Positions
<1>7. SentInv' BY <1>1, <1>2, <1>4 DEF SentInv
<1>8. AcksInOrder' BY <1>1, <1>2, <1>4 DEF AcksInOrder
<1>9. InWorldInv'
  <2>1. sv.outgoingSequence <= sv.outgoingSequence BY <1>1 DEF ServerType
  <2> QED BY <1>1, <1>2, <1>4, <2>1 DEF InWorldInv
<1>10. FramesInv'
  <2> SUFFICES ASSUME sv.state # CS_CONNECTED, NEW n \in gamestateNum + 1 .. Len(sent),
                      sv.outgoingSequence - n <= PACKET_BACKUP
               PROVE  FrameInv(n)'
    BY <1>2, <1>4 DEF FramesInv
  <2>1. FrameInv(n) BY <1>1 DEF FramesInv
  <2> QED BY <1>2, <1>4, <2>1, FrameUntouched
<1>11. SnapInv' BY <1>1, <1>2, SnapStays
<1>12. KeepsInv' BY <1>1, <1>2, <1>4 DEF KeepsInv, Keeps
<1>13. MessageInv' BY <1>1, <1>2, <1>4 DEF MessageInv
<1> QED BY <1>3, <1>6, <1>7, <1>8, <1>9, <1>10, <1>11, <1>12, <1>13
        DEF SnapIInv, ConnectionInv

\* The client tells what it received last, and never that a gamestate can be the
\* base of a delta.
LEMMA WritePreserves ==
  ASSUME SnapIInv, NEW move \in {"none", "clc_move", "clc_moveNoDelta"},
         CL_WritePacket(move)
  PROVE  SnapIInv'
<1> DEFINE p == [ serverId           |-> cl.serverId,
                  messageAcknowledge |-> Received,
                  move               |-> move ]
           last == Len(toServer) + 1
<1>1. /\ Types /\ SentInv /\ AcksInOrder /\ InWorldInv /\ SnapInv /\ KeepsInv /\ MessageInv
      /\ FramesInv /\ StorageInv /\ sv \in ServerType /\ cl \in ClientType
      /\ toServer \in Seq(PacketType)
  BY DEF SnapIInv, ConnectionInv, Types
<1>2. /\ toServer' = Append(toServer, p)
      /\ UNCHANGED storageVars
      /\ sv' = sv /\ toClient' = toClient /\ cl' = cl /\ sent' = sent
      /\ move = "clc_move" => DeltaAllowed
  BY DEF CL_WritePacket
<1>3. p \in PacketType BY <1>1 DEF PacketType, ClientType
<1>4. p.serverId = cl.serverId /\ p.messageAcknowledge = Received /\ p.move = move
  OBVIOUS
<1> HIDE DEF p
<1>5. /\ toServer' \in Seq(PacketType) /\ Len(toServer') = last /\ Len(toServer) \in Nat
      /\ \A i \in 1 .. Len(toServer) : toServer'[i] = toServer[i]
      /\ toServer'[last] = p
  BY <1>1, <1>2, <1>3, SentAppended
<1>6. \A i \in 1 .. last : i = last \/ i \in 1 .. Len(toServer) BY <1>5
<1> HIDE DEF last
<1>7. StorageInv' BY <1>1, <1>2, StutterPreserves
<1>8. Types' BY <1>1, <1>2, <1>5 DEF Types, ServerType, FrameType, Positions
<1>9. SentInv' BY <1>1, <1>2 DEF SentInv
<1>10. Received \in Nat /\ sv.messageAcknowledge \in Nat BY <1>1 DEF ClientType, ServerType
<1>11. AcksInOrder'
  <2>1. /\ Received <= Len(sent) /\ sv.messageAcknowledge <= Received
        /\ \A i \in 1 .. Len(toServer) :
             /\ sv.messageAcknowledge <= toServer[i].messageAcknowledge
             /\ toServer[i].messageAcknowledge <= Received
        /\ \A i, j \in 1 .. Len(toServer) :
             i <= j => toServer[i].messageAcknowledge <= toServer[j].messageAcknowledge
    BY <1>1 DEF AcksInOrder
  <2>2. Received <= Received BY <1>10
  <2>3. ASSUME NEW i \in 1 .. last
        PROVE  /\ sv.messageAcknowledge <= toServer'[i].messageAcknowledge
               /\ toServer'[i].messageAcknowledge <= Received
    BY <1>4, <1>5, <1>6, <2>1, <2>2
  <2>4. ASSUME NEW i \in 1 .. last, NEW j \in 1 .. last, i <= j
        PROVE  toServer'[i].messageAcknowledge <= toServer'[j].messageAcknowledge
    <3>1. CASE j = last BY <1>4, <1>5, <2>3, <3>1
    <3>2. CASE j # last
      <4>1. j \in 1 .. Len(toServer) /\ i \in 1 .. Len(toServer)
        BY <1>5, <2>4, <3>2 DEF last
      <4> QED BY <1>5, <2>1, <2>4, <4>1
    <3> QED BY <3>1, <3>2
  <2> QED BY <1>2, <1>5, <2>1, <2>3, <2>4 DEF AcksInOrder
<1>12. InWorldInv'
  <2>1. move = "clc_move" => Received # gamestateNum
    <3>1. SUFFICES ASSUME DeltaAllowed PROVE Received # gamestateNum BY <1>2
    <3>2. cl.snap.valid /\ Received = cl.snap.messageNum BY <3>1 DEF DeltaAllowed
    <3>3. Received > 0 /\ sent[Received].entities # {NoEntity}
      BY <1>1, <3>2 DEF SnapInv
    <3> QED BY <1>1, <3>3 DEF SentInv
  <2>2. \A i \in 1 .. Len(toServer) :
          /\ toServer[i].messageAcknowledge >= gamestateNum
               => toServer[i].serverId = cl.serverId
          /\ toServer[i].move = "clc_move"
               => toServer[i].messageAcknowledge # gamestateNum
    BY <1>1 DEF InWorldInv
  <2>3. ASSUME NEW i \in 1 .. last
        PROVE  /\ toServer'[i].messageAcknowledge >= gamestateNum
                    => toServer'[i].serverId = cl.serverId
               /\ toServer'[i].move = "clc_move"
                    => toServer'[i].messageAcknowledge # gamestateNum
    BY <1>4, <1>5, <1>6, <2>1, <2>2
  <2> QED BY <1>1, <1>2, <1>5, <2>3 DEF InWorldInv
<1>13. FramesInv'
  <2> SUFFICES ASSUME sv.state # CS_CONNECTED, NEW n \in gamestateNum + 1 .. Len(sent),
                      sv.outgoingSequence - n <= PACKET_BACKUP
               PROVE  FrameInv(n)'
    BY <1>2 DEF FramesInv
  <2>1. FrameInv(n) BY <1>1 DEF FramesInv
  <2> QED BY <1>2, <2>1, FrameUntouched
<1>14. SnapInv' BY <1>1, <1>2, SnapStays
<1>15. KeepsInv'
  <2>1. \A n : Keeps(n) => \A j : j = n => Keeps(j)'
    <3> SUFFICES ASSUME NEW n, Keeps(n), NEW j, j = n PROVE Keeps(j)' OBVIOUS
    <3> QED BY <1>2 DEF Keeps
  <2>2. ASSUME NEW i \in 1 .. Len(toServer')
        PROVE Keeps(toServer[i].messageAcknowledge)'
    <3>1. Keeps(Received) /\ \A j \in 1 .. Len(toServer) : Keeps(toServer[j].messageAcknowledge)
      BY <1>1 DEF KeepsInv
    <3>2. CASE i = last BY <1>4, <1>5, <2>1, <3>1, <3>2
    <3>3. CASE i # last
      <4>1. i \in 1 .. Len(toServer) BY <1>5, <1>6, <3>3
      <4> QED BY <1>5, <2>1, <3>1, <4>1
    <3> QED BY <3>2, <3>3
  <2> QED BY <1>1, <1>2, <2>1, <2>2 DEF KeepsInv
<1>16. MessageInv' BY <1>1, <1>2 DEF MessageInv
<1> QED BY <1>7, <1>8, <1>9, <1>11, <1>12, <1>13, <1>14, <1>15, <1>16
        DEF SnapIInv, ConnectionInv

\* The message on its way is newer than all the client knows of.
LEMMA MessageRead ==
  ASSUME SnapIInv, CL_ParseServerMessage, NEW m, m = toClient[1]
  PROVE  /\ m \in MessageType /\ m.sequence = Len(sent) /\ Received < Len(sent)
         /\ Len(sent) \in Nat /\ Received \in Nat
         /\ m.serverId = sent[Len(sent)].serverId
         /\ m.type = "svc_gamestate" <=> m.sequence = gamestateNum
         /\ m.type = "svc_snapshot" /\ m.lastframe = 0 =>
              m.entities = Delta(Baselines[m.serverId], {}, sent[Len(sent)].entities)
         /\ m.type = "svc_snapshot" /\ m.lastframe # 0 =>
              LET base == m.sequence - m.lastframe
                  s    == cl.snapshots[Masked(base)]
              IN  /\ m.lastframe < PACKET_BACKUP - 3 /\ base \in 1 .. Received
                  /\ s.valid /\ s.messageNum = base
                  /\ cl.serverId = m.serverId /\ sent[base].serverId = m.serverId
                  /\ Fits(sent[base].entities)
                  /\ m.entities = Delta(Baselines[m.serverId], sent[base].entities,
                                        sent[Len(sent)].entities)
<1>1. toClient \in Seq(MessageType) /\ Len(toClient) <= 1 /\ toClient # <<>>
      /\ Len(sent) \in Nat /\ cl \in ClientType /\ MessageInv
  BY DEF SnapIInv, ConnectionInv, Types, CL_ParseServerMessage
<1>2. 1 \in 1 .. Len(toClient) BY <1>1, EmptySeq
<1>3. m \in MessageType BY <1>1, <1>2, ElementOfSeq
<1>4. m \in {toClient[i] : i \in 1 .. Len(toClient)} BY <1>2
<1>5. Received \in Nat BY <1>1 DEF ClientType
<1> QED BY <1>1, <1>3, <1>4, <1>5 DEF MessageInv

\* A gamestate clears all the client has.
LEMMA ClearPreserves ==
  ASSUME SnapIInv, CL_ParseServerMessage, toClient[1].type = "svc_gamestate"
  PROVE  SnapIInv'
<1>1. /\ Types /\ SentInv /\ AcksInOrder /\ InWorldInv /\ SnapInv /\ KeepsInv /\ MessageInv
      /\ FramesInv /\ StorageInv /\ sv \in ServerType /\ cl \in ClientType
      /\ toServer \in Seq(PacketType) /\ Len(sent) \in Nat
  BY DEF SnapIInv, ConnectionInv, Types
<1>2. SUFFICES ASSUME NEW m, m = toClient[1] PROVE SnapIInv' OBVIOUS
<1>3. /\ m \in MessageType /\ m.sequence = Len(sent) /\ Received < Len(sent)
      /\ Received \in Nat /\ m.sequence = gamestateNum
  BY <1>2, MessageRead
<1>4. /\ cl' = ClearState(m.serverId, m.sequence) /\ toClient' = <<>>
      /\ UNCHANGED storageVars /\ sv' = sv /\ toServer' = toServer /\ sent' = sent
  BY <1>2 DEF CL_ParseServerMessage
<1>5. /\ cl'.serverId = m.serverId /\ cl'.serverMessageSequence = Len(sent)
      /\ cl'.snap = NoSnapshot
      /\ \A i \in 0 .. PACKET_BACKUP - 1 : cl'.snapshots[i] = NoSnapshot
  BY <1>3, <1>4 DEF ClearState
<1>6. StorageInv' BY <1>1, <1>4, StutterPreserves
<1>7. Types'
  <2>1. NoSnapshot \in SnapshotType
    <3>1. 0 \in 0 .. MAX_SNAPSHOT_ENTITIES BY SnapshotsAssumption
    <3> QED BY <3>1 DEF NoSnapshot, SnapshotType
  <2>2. m.serverId \in ServerIds /\ m.sequence \in Nat BY <1>3 DEF MessageType
  <2>3. cl' \in ClientType
    <3> HIDE DEF NoSnapshot
    <3> QED BY <1>4, <2>1, <2>2 DEF ClearState, ClientType
  <2>4. toClient' \in Seq(MessageType) /\ Len(toClient') <= 1 BY <1>4
  <2>5. /\ sv' \in ServerType /\ toServer' \in Seq(PacketType)
        /\ sent' \in Seq(SentType) /\ Len(sent') = sv'.outgoingSequence - 1
    BY <1>1, <1>4 DEF Types
  <2> QED BY <2>3, <2>4, <2>5 DEF Types, ServerType, FrameType, Positions, ClientType,
                                  SnapshotType
<1>8. SentInv' BY <1>1, <1>4 DEF SentInv
<1>9. /\ sv.messageAcknowledge \in Nat /\ sv.messageAcknowledge <= Received
      /\ \A i \in 1 .. Len(toServer) : /\ toServer[i].messageAcknowledge \in Nat
                                       /\ toServer[i].messageAcknowledge <= Received
  <2>1. \A i \in 1 .. Len(toServer) : toServer[i] \in PacketType
    BY <1>1, ElementOfSeq
  <2> QED BY <1>1, <2>1 DEF AcksInOrder, PacketType, ServerType
<1>10. \A n \in Nat : n <= Received => n <= Len(sent) /\ ~(n >= Len(sent)) /\ n # Len(sent)
  BY <1>1, <1>3
<1>11. AcksInOrder'
  <2>1. Len(sent) <= Len(sent) BY <1>1
  <2> QED BY <1>1, <1>4, <1>5, <1>9, <1>10, <2>1 DEF AcksInOrder
<1>12. InWorldInv'
  <2>1. ~sv.gamestateAcked BY <1>1, <1>3, <1>9, <1>10 DEF InWorldInv
  <2>2. sv.state # CS_ACTIVE BY <1>1, <2>1 DEF InWorldInv
  <2> QED BY <1>1, <1>3, <1>4, <1>9, <1>10, <2>1, <2>2 DEF InWorldInv
<1>13. FramesInv'
  <2> SUFFICES ASSUME sv.state # CS_CONNECTED, NEW n \in gamestateNum + 1 .. Len(sent),
                      sv.outgoingSequence - n <= PACKET_BACKUP
               PROVE  FrameInv(n)'
    BY <1>4 DEF FramesInv
  <2>1. FrameInv(n) BY <1>1 DEF FramesInv
  <2> QED BY <1>4, <2>1, FrameUntouched
<1>14. SnapInv' BY <1>1, <1>5 DEF SnapInv, NoSnapshot
<1>15. KeepsInv'
  <2>1. \A n : n = Len(sent) \/ (n \in Nat /\ n <= Received) => ~(n > gamestateNum)
    BY <1>3, <1>10, <1>1
  <2>2. \A n : n = Len(sent) \/ (n \in Nat /\ n <= Received) => \A j : j = n => Keeps(j)'
    BY <1>4, <2>1 DEF Keeps
  <2>3. Keeps(Received)'
    <3>1. ~(Len(sent) > gamestateNum) BY <1>1, <1>3
    <3> QED BY <1>4, <1>5, <3>1 DEF Keeps
  <2>4. Keeps(sv.messageAcknowledge)' BY <1>4, <1>9, <2>2
  <2>5. ASSUME NEW i \in 1 .. Len(toServer) PROVE Keeps(toServer[i].messageAcknowledge)'
    BY <1>4, <1>9, <2>2
  <2> QED BY <1>4, <2>3, <2>4, <2>5 DEF KeepsInv
<1>16. MessageInv' BY <1>4 DEF MessageInv
<1> QED BY <1>6, <1>7, <1>8, <1>11, <1>12, <1>13, <1>14, <1>15, <1>16
        DEF SnapIInv, ConnectionInv

-----------------------------------------------------------------------------
(* A snapshot is read *)

\* The baselines of every map fit it.
LEMMA BaselinesType ==
  ASSUME NEW serverId \in ServerIds \cup {0}
  PROVE  Baselines[serverId] \in SUBSET EntityStates /\ UniqueNumbers(Baselines[serverId])
<1>1. serverId \in 0 .. MaxMaps + 1
  <2>1. MaxMaps \in Nat BY SnapshotsAssumption
  <2> QED BY <2>1 DEF ServerIds
<1> QED BY <1>1, SnapshotsAssumption

\* So many messages do not fill the ring of parsed entities.
LEMMA Products ==
  ASSUME NEW a \in Nat, NEW b \in Int, NEW c \in Int, b <= c
  PROVE  /\ a * b \in Int /\ a * c \in Int /\ a * b <= a * c
         /\ a * (b + 1) = (a * b) + a
OBVIOUS

\* What the client makes of a snapshot fits, and is what was sent if the client
\* is on the map of the message; a delta always has its base.
LEMMA SnapshotRead ==
  ASSUME SnapIInv, CL_ParseServerMessage,
         NEW m, m = toClient[1], m.type # "svc_gamestate",
         NEW base, base = m.sequence - m.lastframe,
         NEW old, old = IF m.lastframe = 0 \/ base <= 0 THEN {}
                        ELSE Parsed(cl.snapshots[Masked(base)]),
         NEW S, S = ParsePacketEntities(old, m.entities)
  PROVE  /\ m.lastframe = 0 \/ base <= 0 \/ UsableBase(base)
         /\ gamestateNum < Len(sent) /\ Fits(sent[Len(sent)].entities) /\ Fits(S)
         /\ cl.serverId = sent[Len(sent)].serverId => S = sent[Len(sent)].entities
<1> DEFINE last == Len(sent)
           E == sent[last].entities
           B == Baselines[cl.serverId]
<1>1. /\ SentInv /\ SnapInv /\ AcksInOrder /\ cl \in ClientType /\ gamestateNum \in Int
  BY DEF SnapIInv, ConnectionInv, Types, ServerType
<1>2. /\ m \in MessageType /\ m.sequence = last /\ Received < last
      /\ last \in Nat /\ Received \in Nat
      /\ m.serverId = sent[last].serverId
      /\ m.sequence # gamestateNum
  BY MessageRead
<1>3. m.type = "svc_snapshot" /\ m.lastframe \in Nat /\ m.serverId \in ServerIds
  BY <1>2 DEF MessageType
<1>4. last \in 1 .. last BY <1>2
<1>5. gamestateNum < last BY <1>1, <1>2 DEF SentInv
<1>6. Fits(E)
  <2>1. ~(last <= gamestateNum) BY <1>1, <1>2, <1>5
  <2> QED BY <1>1, <1>4, <2>1 DEF SentInv
<1>7. B \in SUBSET EntityStates /\ UniqueNumbers(B)
  <2>1. cl.serverId \in ServerIds \cup {0} BY <1>1 DEF ClientType
  <2> QED BY <2>1, BaselinesType
<1>8. UniqueNumbers(E) BY <1>6 DEF Fits
<1> HIDE DEF B, E, last
<1>9. S = Rebuilt(B, old, m.entities) BY DEF ParsePacketEntities, Rebuilt, B
<1>10. CASE m.lastframe = 0
  <2>1. old = {} BY <1>10
  <2>2. m.entities = Delta(Baselines[m.serverId], {}, E)
    BY <1>3, <1>10, MessageRead DEF E, last
  <2>3. Baselines[m.serverId] \in SUBSET EntityStates BY <1>3, BaselinesType
  <2>4. Fits(S) BY <1>6, <1>7, <1>9, <2>1, <2>2, <2>3, WholeFits
  <2>5. ASSUME cl.serverId = m.serverId PROVE S = E
    <3>1. UniqueNumbers(old) BY <2>1 DEF UniqueNumbers
    <3> QED BY <1>7, <1>8, <1>9, <2>1, <2>2, <2>5, <3>1, DeltaRebuilt DEF B
  <2> QED BY <1>2, <1>5, <1>6, <1>10, <2>4, <2>5 DEF E, last
<1>11. CASE m.lastframe # 0
  <2> DEFINE s == cl.snapshots[Masked(base)]
  <2>1. /\ m.lastframe < PACKET_BACKUP - 3 /\ base \in 1 .. Received
        /\ s.valid /\ s.messageNum = base
        /\ cl.serverId = m.serverId /\ sent[base].serverId = m.serverId
        /\ Fits(sent[base].entities)
        /\ m.entities = Delta(Baselines[m.serverId], sent[base].entities, E)
    BY <1>3, <1>11, MessageRead DEF E, last
  <2>2. Masked(base) \in 0 .. PACKET_BACKUP - 1 BY <1>2, <2>1, MaskedType
  <2>3. /\ cl.parseEntitiesNum - s.parseEntitiesNum
             <= MAX_SNAPSHOT_ENTITIES * (Received - base + 1)
        /\ cl.parseEntitiesNum - s.parseEntitiesNum
              < PACKET_BACKUP * MAX_SNAPSHOT_ENTITIES
            => Parsed(s) = sent[base].entities
    BY <1>1, <2>1, <2>2 DEF SnapInv, KeptInv
  <2>4. s \in SnapshotType BY <1>1, <2>2 DEF ClientType
  <2>5. cl.parseEntitiesNum \in Nat /\ s.parseEntitiesNum \in Nat
    BY <1>1, <2>4 DEF ClientType, SnapshotType
  <2>6. PACKET_BACKUP \in Nat /\ MAX_SNAPSHOT_ENTITIES \in Nat \ {0}
    BY SnapshotsAssumption
  <2> HIDE DEF s
  <2>7. Received - base + 1 <= PACKET_BACKUP - 1
    BY <1>2, <1>3, <2>1, <2>6
  <2>8. /\ cl.parseEntitiesNum - s.parseEntitiesNum
             <= (PACKET_BACKUP - 1) * MAX_SNAPSHOT_ENTITIES
        /\ cl.parseEntitiesNum - s.parseEntitiesNum
             < PACKET_BACKUP * MAX_SNAPSHOT_ENTITIES
    <3> DEFINE b == Received - base + 1
               c == PACKET_BACKUP - 1
               d == cl.parseEntitiesNum - s.parseEntitiesNum
    <3>1. b \in Int /\ c \in Int /\ d \in Int /\ b <= c BY <1>2, <2>1, <2>5, <2>6, <2>7
    <3>2. d <= MAX_SNAPSHOT_ENTITIES * b BY <2>3
    <3>3. PACKET_BACKUP = c + 1 BY <2>6
    <3> HIDE DEF b, c, d
    <3>4. /\ MAX_SNAPSHOT_ENTITIES * b \in Int /\ MAX_SNAPSHOT_ENTITIES * c \in Int
          /\ MAX_SNAPSHOT_ENTITIES * b <= MAX_SNAPSHOT_ENTITIES * c
      BY <2>6, <3>1, Products
    <3>5. MAX_SNAPSHOT_ENTITIES * (c + 1) = (MAX_SNAPSHOT_ENTITIES * c) + MAX_SNAPSHOT_ENTITIES
      BY <2>6, <3>1, Products
    <3>6. c * MAX_SNAPSHOT_ENTITIES = MAX_SNAPSHOT_ENTITIES * c
          /\ (c + 1) * MAX_SNAPSHOT_ENTITIES = MAX_SNAPSHOT_ENTITIES * (c + 1)
      BY <2>6, <3>1
    <3>7. d <= MAX_SNAPSHOT_ENTITIES * c BY <3>1, <3>2, <3>4
    <3>8. d < MAX_SNAPSHOT_ENTITIES * (c + 1) BY <2>6, <3>1, <3>4, <3>5, <3>7
    <3>9. d <= c * MAX_SNAPSHOT_ENTITIES /\ d < PACKET_BACKUP * MAX_SNAPSHOT_ENTITIES
      BY <3>3, <3>6, <3>7, <3>8
    <3> QED BY <3>9 DEF c, d
  <2>9. Parsed(s) = sent[base].entities BY <2>3, <2>8
  <2>10. UsableBase(base) BY <2>1, <2>8 DEF UsableBase, s
  <2>11. old = sent[base].entities
    <3>1. ~(base <= 0) BY <1>2, <2>1
    <3> QED BY <1>11, <2>9, <3>1 DEF s
  <2>12. S = E
    <3>1. UniqueNumbers(old) BY <2>1, <2>11 DEF Fits
    <3>2. m.entities = Delta(B, old, E) BY <2>1, <2>11 DEF B
    <3> QED BY <1>7, <1>8, <1>9, <3>1, <3>2, DeltaRebuilt
  <2> QED BY <1>5, <1>6, <2>10, <2>12 DEF E, last
<1> QED BY <1>10, <1>11

\* The ring of parsed entities when those of a snapshot are added to it.
Written(ring, first, S) ==
  LET at(p) == {e \in S : ParsePosition(first + Place(e, S)) = p}
  IN  [p \in ParsePositions |->
         IF at(p) = {} THEN ring[p] ELSE CHOOSE e \in at(p) : TRUE]

\* Positions in it.
LEMMA ParsePositionType == \A n \in Nat : ParsePosition(n) \in ParsePositions
<1> DEFINE size == PACKET_BACKUP * MAX_SNAPSHOT_ENTITIES
<1>1. size \in Nat \ {0} BY SnapshotsAssumption
<1> HIDE DEF size
<1>2. \A n \in Nat : n % size \in 0 .. size - 1 BY <1>1
<1> QED BY <1>2 DEF ParsePosition, ParsePositions, size

\* The entities are there, and less than a ring behind them nothing changes.
LEMMA WrittenIs ==
  ASSUME NEW ring \in [ParsePositions -> EntityStates \cup {NoEntity}],
         NEW first \in Nat, NEW S, Fits(S)
  PROVE  /\ Written(ring, first, S) \in [ParsePositions -> EntityStates \cup {NoEntity}]
         /\ \A e \in S : Written(ring, first, S)[ParsePosition(first + Place(e, S))] = e
         /\ \A k \in Nat :
              /\ k < first
              /\ (first + Cardinality(S)) - k <= PACKET_BACKUP * MAX_SNAPSHOT_ENTITIES
              => Written(ring, first, S)[ParsePosition(k)] = ring[ParsePosition(k)]
<1> DEFINE at(p) == {e \in S : ParsePosition(first + Place(e, S)) = p}
           n == Cardinality(S)
           size == PACKET_BACKUP * MAX_SNAPSHOT_ENTITIES
           W == Written(ring, first, S)
<1>1. S \subseteq EntityStates BY DEF Fits
<1>2. n \in Nat /\ n <= MAX_SNAPSHOT_ENTITIES BY Places, SnapshotsAssumption
<1>3. \A e \in S : Place(e, S) \in 0 .. n - 1 BY Places
<1>4. \A e, f \in S : Place(e, S) = Place(f, S) => e = f BY Places
<1>5. size \in Nat /\ MAX_SNAPSHOT_ENTITIES <= size
  <2>1. PACKET_BACKUP \in Nat \ {0} /\ MAX_SNAPSHOT_ENTITIES \in Nat
    BY SnapshotsAssumption
  <2> QED BY <2>1
<1>6. W = [p \in ParsePositions |->
             IF at(p) = {} THEN ring[p] ELSE CHOOSE e \in at(p) : TRUE]
  BY DEF Written
<1> HIDE DEF n, size, W
<1>7. ASSUME NEW e \in S, NEW f \in S, Place(e, S) < Place(f, S)
      PROVE  ParsePosition(first + Place(e, S)) # ParsePosition(first + Place(f, S))
  <2> DEFINE i == first + Place(e, S)
             j == first + Place(f, S)
  <2>1. Place(e, S) \in 0 .. n - 1 /\ Place(f, S) \in 0 .. n - 1 BY <1>3
  <2>2. i \in Nat /\ j \in Nat /\ i < j /\ j - i < size
    <3>1. ASSUME NEW a \in 0 .. n - 1, NEW b \in 0 .. n - 1, a < b
          PROVE  first + a \in Nat /\ first + b \in Nat /\ first + a < first + b
                 /\ (first + b) - (first + a) < size
      BY <1>2, <1>5, <3>1, SnapshotsAssumption
    <3> QED BY <1>7, <2>1, <3>1
  <2> HIDE DEF i, j
  <2>3. ParsePosition(i) # ParsePosition(j) BY <2>2, ParseDistinct DEF size
  <2> QED BY <2>3 DEF i, j
<1>8. ASSUME NEW e \in S PROVE at(ParsePosition(first + Place(e, S))) = {e}
  <2> SUFFICES ASSUME NEW f \in S,
                      ParsePosition(first + Place(f, S)) = ParsePosition(first + Place(e, S))
               PROVE  f = e
    OBVIOUS
  <2>1. Place(e, S) \in 0 .. n - 1 /\ Place(f, S) \in 0 .. n - 1 BY <1>3
  <2>2. ~(Place(e, S) < Place(f, S)) /\ ~(Place(f, S) < Place(e, S)) BY <1>7
  <2>3. Place(e, S) = Place(f, S) BY <1>2, <2>1, <2>2
  <2> QED BY <1>4, <2>3
<1>9. ASSUME NEW e \in S PROVE W[ParsePosition(first + Place(e, S))] = e
  <2>1. first + Place(e, S) \in Nat BY <1>2, <1>3
  <2>2. ParsePosition(first + Place(e, S)) \in ParsePositions BY <2>1, ParsePositionType
  <2>3. (CHOOSE f \in {e} : TRUE) = e OBVIOUS
  <2> HIDE DEF at
  <2> QED BY <1>6, <1>8, <2>2, <2>3
<1>10. ASSUME NEW k \in Nat, k < first, (first + n) - k <= size
       PROVE  W[ParsePosition(k)] = ring[ParsePosition(k)]
  <2>1. ASSUME NEW e \in S PROVE ParsePosition(k) # ParsePosition(first + Place(e, S))
    <3> DEFINE j == first + Place(e, S)
    <3>1. Place(e, S) \in 0 .. n - 1 BY <1>3
    <3>2. j \in Nat /\ k < j /\ j - k < size BY <1>2, <1>5, <1>10, <3>1
    <3> HIDE DEF j
    <3>3. ParsePosition(k) # ParsePosition(j) BY <3>2, ParseDistinct DEF size
    <3> QED BY <3>3 DEF j
  <2>2. at(ParsePosition(k)) = {} BY <2>1
  <2>3. ParsePosition(k) \in ParsePositions BY ParsePositionType
  <2> HIDE DEF at
  <2> QED BY <1>6, <2>2, <2>3
<1>11. W \in [ParsePositions -> EntityStates \cup {NoEntity}]
  <2>1. \A p \in ParsePositions : at(p) # {} => (CHOOSE e \in at(p) : TRUE) \in S OBVIOUS
  <2> HIDE DEF at
  <2> QED BY <1>1, <1>6, <2>1
<1> QED BY <1>9, <1>10, <1>11 DEF W, n, size

\* A message and the ring before it use every slot.
LEMMA RingCovered ==
  ASSUME NEW last \in Nat, NEW i \in 0 .. PACKET_BACKUP - 1
  PROVE  /\ last >= PACKET_BACKUP - 1 =>
              \E k \in last - (PACKET_BACKUP - 1) .. last : Masked(k) = i
         /\ \A n \in Nat : Masked(n + PACKET_BACKUP) = Masked(n)
<1> DEFINE size == PACKET_BACKUP
<1>1. size \in Nat \ {0} BY SnapshotsAssumption
<1> HIDE DEF size
<1>2. ASSUME NEW n \in Nat PROVE (n + size) % size = n % size
  <2> DEFINE q == n \div size
             p == (n + size) \div size
  <2>1. q \in Nat /\ n = (size * q) + (n % size) /\ n % size \in 0 .. size - 1
    BY <1>1, Division
  <2>2. /\ p \in Nat /\ n + size = (size * p) + ((n + size) % size)
        /\ (n + size) % size \in 0 .. size - 1
    <3>1. n + size \in Nat BY <1>1
    <3> QED BY <1>1, <3>1, Division
  <2> HIDE DEF p, q
  <2>3. size * (q + 1) = (size * q) + size BY <1>1, <2>1
  <2>4. size * q \in Int /\ size * p \in Int BY <1>1, <2>1, <2>2
  <2> DEFINE r == n % size
             t == (n + size) % size
             o == q + 1
  <2>5. o \in Int /\ p \in Int /\ r \in 0 .. size - 1 /\ t \in 0 .. size - 1
    BY <2>1, <2>2
  <2>6. (size * o) + r = (size * p) + t
    BY <1>1, <2>1, <2>2, <2>3, <2>4
  <2> HIDE DEF o, r, t
  <2>7. t = r BY <1>1, <2>5, <2>6, SameRemainder
  <2> QED BY <2>7 DEF r, t
<1>3. ASSUME last >= size - 1, NEW j \in 0 .. size - 1
      PROVE  \E k \in last - (size - 1) .. last : k % size = j
  <2> DEFINE d == last - j
             q == d \div size
             k == last - (d % size)
  <2>1. d \in Nat BY <1>1, <1>3
  <2>2. q \in Nat /\ d = (size * q) + (d % size) /\ d % size \in 0 .. size - 1
    BY <1>1, <2>1, Division
  <2>3. size * q \in Nat BY <1>1, <2>2
  <2> HIDE DEF q
  <2>4. k \in last - (size - 1) .. last /\ k \in Nat /\ k = (size * q) + j
    BY <1>1, <1>3, <2>1, <2>2, <2>3
  <2>5. /\ k \div size \in Nat /\ k = (size * (k \div size)) + (k % size)
        /\ k % size \in 0 .. size - 1
    BY <1>1, <2>4, Division
  <2> HIDE DEF k
  <2>6. k % size = j
    <3> DEFINE r == k % size
               o == k \div size
    <3>1. o \in Int /\ q \in Int /\ r \in 0 .. size - 1 BY <2>2, <2>5
    <3>2. (size * q) + j = (size * o) + r BY <2>4, <2>5
    <3> HIDE DEF o, r
    <3>3. r = j BY <1>1, <3>1, <3>2, SameRemainder
    <3> QED BY <3>3 DEF r
  <2> QED BY <2>4, <2>6
<1> QED BY <1>2, <1>3 DEF Masked, size

\* The snapshot that points to these entities.
NewSnapshot(S) ==
  [ valid |-> TRUE, messageNum |-> Len(sent),
    parseEntitiesNum |-> cl.parseEntitiesNum, numEntities |-> Cardinality(S) ]

\* What CL_ParseSnapshot changes.
LEMMA SnapshotParsed ==
  ASSUME SnapIInv, CL_ParseServerMessage, toClient[1].type # "svc_gamestate"
  PROVE  \E S :
           /\ Fits(S) /\ Fits(sent[Len(sent)].entities) /\ gamestateNum < Len(sent)
           /\ cl.serverId = sent[Len(sent)].serverId => S = sent[Len(sent)].entities
           /\ cl' \in ClientType /\ cl'.serverId = cl.serverId
           /\ cl'.serverMessageSequence = Len(sent)
           /\ cl'.parseEntitiesNum = cl.parseEntitiesNum + Cardinality(S)
           /\ cl'.parseEntities = Written(cl.parseEntities, cl.parseEntitiesNum, S)
           /\ cl'.snap = NewSnapshot(S)
           /\ \A i \in 0 .. PACKET_BACKUP - 1 :
                cl'.snapshots[i] =
                  IF i = Masked(Len(sent)) THEN NewSnapshot(S)
                  ELSE IF i \in Skipped(Len(sent))
                  THEN [cl.snapshots[i] EXCEPT !.valid = FALSE]
                  ELSE cl.snapshots[i]
<1>1. SUFFICES
        ASSUME NEW m, m = toClient[1],
               NEW base, base = m.sequence - m.lastframe,
               NEW old, old = IF m.lastframe = 0 \/ base <= 0 THEN {}
                              ELSE Parsed(cl.snapshots[Masked(base)]),
               NEW S, S = ParsePacketEntities(old, m.entities)
        PROVE
           /\ Fits(S) /\ Fits(sent[Len(sent)].entities) /\ gamestateNum < Len(sent)
           /\ cl.serverId = sent[Len(sent)].serverId => S = sent[Len(sent)].entities
           /\ cl' \in ClientType /\ cl'.serverId = cl.serverId
           /\ cl'.serverMessageSequence = Len(sent)
           /\ cl'.parseEntitiesNum = cl.parseEntitiesNum + Cardinality(S)
           /\ cl'.parseEntities = Written(cl.parseEntities, cl.parseEntitiesNum, S)
           /\ cl'.snap = NewSnapshot(S)
           /\ \A i \in 0 .. PACKET_BACKUP - 1 :
                cl'.snapshots[i] =
                  IF i = Masked(Len(sent)) THEN NewSnapshot(S)
                  ELSE IF i \in Skipped(Len(sent))
                  THEN [cl.snapshots[i] EXCEPT !.valid = FALSE]
                  ELSE cl.snapshots[i]
  OBVIOUS
<1>2. /\ m.lastframe = 0 \/ base <= 0 \/ UsableBase(base)
      /\ gamestateNum < Len(sent) /\ Fits(sent[Len(sent)].entities) /\ Fits(S)
      /\ cl.serverId = sent[Len(sent)].serverId => S = sent[Len(sent)].entities
  BY <1>1, SnapshotRead
<1>3. cl' = CL_ParseSnapshot(m) /\ m.sequence = Len(sent) /\ Len(sent) \in Nat
  BY <1>1, MessageRead DEF CL_ParseServerMessage
<1> DEFINE C == cl.parseEntitiesNum
           ring == Written(cl.parseEntities, C, S)
           slots == [i \in 0 .. PACKET_BACKUP - 1 |->
                       IF i = Masked(Len(sent)) THEN NewSnapshot(S)
                       ELSE IF i \in Skipped(Len(sent))
                       THEN [cl.snapshots[i] EXCEPT !.valid = FALSE]
                       ELSE cl.snapshots[i]]
<1>4. /\ cl \in ClientType /\ C \in Nat
      /\ cl.parseEntities \in [ParsePositions -> EntityStates \cup {NoEntity}]
      /\ cl.snapshots \in [0 .. PACKET_BACKUP - 1 -> SnapshotType]
  <2>1. cl \in ClientType BY DEF SnapIInv, ConnectionInv, Types
  <2> QED BY <2>1 DEF ClientType
<1>5. cl' = [cl EXCEPT !.serverMessageSequence = Len(sent),
                       !.parseEntitiesNum = C + Cardinality(S),
                       !.parseEntities = ring,
                       !.snap = NewSnapshot(S),
                       !.snapshots = slots]
  <2> DEFINE valid == (m.lastframe = 0 \/ base <= 0) \/ UsableBase(base)
             at(p) == {e \in S : ParsePosition(C + Place(e, S)) = p}
             new == [ valid            |-> TRUE,
                      messageNum       |-> m.sequence,
                      parseEntitiesNum |-> C,
                      numEntities      |-> Cardinality(S) ]
             read == [cl EXCEPT
                        !.serverMessageSequence = m.sequence,
                        !.parseEntitiesNum = @ + Cardinality(S),
                        !.parseEntities = [p \in ParsePositions |->
                           IF at(p) = {} THEN @[p] ELSE CHOOSE e \in at(p) : TRUE]]
  <2>1. CL_ParseSnapshot(m) =
          IF ~valid THEN read
          ELSE [read EXCEPT
                 !.snap = new,
                 !.snapshots = [i \in DOMAIN @ |->
                    IF i = Masked(m.sequence) THEN new
                    ELSE IF i \in Skipped(m.sequence)
                    THEN [@[i] EXCEPT !.valid = FALSE]
                    ELSE @[i]]]
    BY <1>1 DEF CL_ParseSnapshot
  <2>2. valid BY <1>2
  <2>3. new = NewSnapshot(S) BY <1>3 DEF NewSnapshot
  <2>4. ring = [p \in ParsePositions |->
                  IF at(p) = {} THEN cl.parseEntities[p] ELSE CHOOSE e \in at(p) : TRUE]
    BY DEF Written
  <2>5. read = [cl EXCEPT !.serverMessageSequence = Len(sent),
                          !.parseEntitiesNum = C + Cardinality(S),
                          !.parseEntities = ring]
    <3> HIDE DEF at, ring
    <3> QED BY <1>3, <1>4, <2>4 DEF ClientType
  <2>6. read.snapshots = cl.snapshots /\ DOMAIN cl.snapshots = 0 .. PACKET_BACKUP - 1
    <3> HIDE DEF ring, read
    <3> QED BY <1>4, <2>5 DEF ClientType
  <2> HIDE DEF valid, at, new, read, ring
  <2>7. slots = [i \in DOMAIN read.snapshots |->
                    IF i = Masked(m.sequence) THEN new
                    ELSE IF i \in Skipped(m.sequence)
                    THEN [read.snapshots[i] EXCEPT !.valid = FALSE]
                    ELSE read.snapshots[i]]
    BY <1>3, <2>3, <2>6
  <2> HIDE DEF slots
  <2>8. cl' = [read EXCEPT !.snap = new, !.snapshots = slots]
    BY <1>3, <2>1, <2>2, <2>7
  <2> QED BY <1>4, <2>3, <2>5, <2>8 DEF ClientType
<1>6. Cardinality(S) \in 0 .. MAX_SNAPSHOT_ENTITIES BY <1>2, Places
<1>7. NewSnapshot(S) \in SnapshotType BY <1>3, <1>4, <1>6 DEF NewSnapshot, SnapshotType
<1>8. ring \in [ParsePositions -> EntityStates \cup {NoEntity}]
  BY <1>2, <1>4, WrittenIs
<1>9. slots \in [0 .. PACKET_BACKUP - 1 -> SnapshotType]
  <2>1. \A i \in 0 .. PACKET_BACKUP - 1 :
          [cl.snapshots[i] EXCEPT !.valid = FALSE] \in SnapshotType
    BY <1>4 DEF SnapshotType
  <2> QED BY <1>4, <1>7, <2>1
<1>10. C + Cardinality(S) \in Nat BY <1>4, <1>6, SnapshotsAssumption
<1>11. \A i \in 0 .. PACKET_BACKUP - 1 :
         slots[i] = IF i = Masked(Len(sent)) THEN NewSnapshot(S)
                    ELSE IF i \in Skipped(Len(sent))
                    THEN [cl.snapshots[i] EXCEPT !.valid = FALSE]
                    ELSE cl.snapshots[i]
  OBVIOUS
<1> HIDE DEF ring, slots
<1>12. cl' \in ClientType
  BY <1>3, <1>4, <1>5, <1>7, <1>8, <1>9, <1>10 DEF ClientType
<1>13. /\ cl'.serverId = cl.serverId /\ cl'.serverMessageSequence = Len(sent)
       /\ cl'.parseEntitiesNum = C + Cardinality(S)
       /\ cl'.parseEntities = ring /\ cl'.snap = NewSnapshot(S) /\ cl'.snapshots = slots
  BY <1>4, <1>5 DEF ClientType
<1> QED BY <1>2, <1>11, <1>12, <1>13 DEF ring

\* The slots of messages that did not arrive are given up, and those of messages
\* a ring ago; the others stay.
LEMMA SkippedSlots ==
  ASSUME NEW N \in Nat, N = cl.snap.messageNum, NEW last \in Nat, N < last,
         NEW n \in 1 .. N
  PROVE  /\ n > N - PACKET_BACKUP /\ Masked(n) # Masked(last)
              /\ Masked(n) \notin Skipped(last)
            => n > last - PACKET_BACKUP
         /\ last - n < PACKET_BACKUP =>
              Masked(n) # Masked(last) /\ Masked(n) \notin Skipped(last)
<1> DEFINE first == IF last - (N + 1) >= PACKET_BACKUP
                    THEN last - (PACKET_BACKUP - 1) ELSE N + 1
<1>1. PACKET_BACKUP \in Nat \ {0} BY SnapshotsAssumption
<1>2. Skipped(last) = {Masked(k) : k \in first .. last - 1} BY DEF Skipped
<1>3. first \in Nat /\ N < first BY <1>1
<1>4. /\ last - (N + 1) >= PACKET_BACKUP => first = last - (PACKET_BACKUP - 1)
      /\ ~(last - (N + 1) >= PACKET_BACKUP) => first = N + 1
  OBVIOUS
<1> HIDE DEF first
<1>5. ASSUME n > N - PACKET_BACKUP, Masked(n) # Masked(last), Masked(n) \notin Skipped(last)
      PROVE  n > last - PACKET_BACKUP
  <2>1. \A k \in first .. last : Masked(k) # Masked(n)
    <3> SUFFICES ASSUME NEW k \in first .. last PROVE Masked(k) # Masked(n) OBVIOUS
    <3>1. k = last \/ k \in first .. last - 1 BY <1>3
    <3> QED BY <1>2, <1>5, <3>1
  <2>2. CASE last - (N + 1) >= PACKET_BACKUP
    <3>1. last >= PACKET_BACKUP - 1 BY <1>1, <2>2
    <3>2. Masked(n) \in 0 .. PACKET_BACKUP - 1 BY MaskedType
    <3>3. \E k \in last - (PACKET_BACKUP - 1) .. last : Masked(k) = Masked(n)
      BY <3>1, <3>2, RingCovered
    <3> QED BY <1>4, <2>1, <2>2, <3>3
  <2>3. CASE ~(last - (N + 1) >= PACKET_BACKUP)
    <3>1. SUFFICES ASSUME n <= last - PACKET_BACKUP PROVE FALSE BY <1>1
    <3>2. n + PACKET_BACKUP \in N + 1 .. last BY <1>1, <1>5, <3>1
    <3>3. Masked(n + PACKET_BACKUP) = Masked(n)
      <4>1. 0 \in 0 .. PACKET_BACKUP - 1 BY <1>1
      <4> QED BY <4>1, RingCovered
    <3> QED BY <1>4, <2>1, <2>3, <3>2, <3>3
  <2> QED BY <2>2, <2>3
<1>6. ASSUME last - n < PACKET_BACKUP, NEW k \in first .. last PROVE Masked(n) # Masked(k)
  <2>1. k \in Nat /\ n < k /\ k - n < PACKET_BACKUP BY <1>1, <1>3, <1>6
  <2> QED BY <2>1, MaskedDistinct
<1>7. ASSUME last - n < PACKET_BACKUP PROVE Masked(n) # Masked(last)
  BY <1>7, MaskedDistinct
<1>8. \A k \in first .. last - 1 : k \in first .. last BY <1>3
<1> QED BY <1>2, <1>5, <1>6, <1>7, <1>8

\* A snapshot kept before is as it was.
LEMMA KeptStays ==
  ASSUME SnapIInv, NEW S, Fits(S), Received < Len(sent),
         cl' \in ClientType, cl'.serverId = cl.serverId, sent' = sent,
         cl'.serverMessageSequence = Len(sent),
         cl'.parseEntitiesNum = cl.parseEntitiesNum + Cardinality(S),
         cl'.parseEntities = Written(cl.parseEntities, cl.parseEntitiesNum, S),
         cl'.snap.messageNum = Len(sent),
         NEW i \in 0 .. PACKET_BACKUP - 1, cl.snapshots[i].valid,
         cl'.snapshots[i] = cl.snapshots[i],
         i # Masked(Len(sent)), i \notin Skipped(Len(sent))
  PROVE  KeptInv(i)'
<1> DEFINE s == cl.snapshots[i]
           n == s.messageNum
           last == Len(sent)
           C == cl.parseEntitiesNum
           size == PACKET_BACKUP * MAX_SNAPSHOT_ENTITIES
<1>1. /\ cl \in ClientType /\ s \in SnapshotType /\ KeptInv(i)
      /\ last \in Nat /\ Received \in Nat /\ C \in Nat
      /\ cl.snap.messageNum \in Nat /\ cl.snap.messageNum <= Received
      /\ cl.parseEntities \in [ParsePositions -> EntityStates \cup {NoEntity}]
  <2>1. cl \in ClientType /\ last \in Nat /\ SnapInv
    BY DEF SnapIInv, ConnectionInv, Types
  <2>2. s \in SnapshotType BY <2>1 DEF ClientType
  <2>3. KeptInv(i) /\ cl.snap.messageNum <= Received BY <2>1 DEF SnapInv
  <2> QED BY <2>1, <2>2, <2>3 DEF ClientType, SnapshotType
<1>2. /\ n \in 1 .. cl.snap.messageNum /\ Masked(n) = i
      /\ n > cl.snap.messageNum - PACKET_BACKUP
      /\ s.parseEntitiesNum + s.numEntities <= C
      /\ C - s.parseEntitiesNum <= MAX_SNAPSHOT_ENTITIES * (Received - n + 1)
      /\ C - s.parseEntitiesNum < size /\ sent[n].serverId = cl.serverId
           => Parsed(s) = sent[n].entities
  BY <1>1 DEF KeptInv
<1>3. /\ s.parseEntitiesNum \in Nat /\ s.numEntities \in Nat /\ n \in Nat
      /\ Cardinality(S) \in Nat /\ Cardinality(S) <= MAX_SNAPSHOT_ENTITIES
      /\ MAX_SNAPSHOT_ENTITIES \in Nat /\ PACKET_BACKUP \in Nat /\ size \in Nat
  <2>1. Cardinality(S) \in 0 .. MAX_SNAPSHOT_ENTITIES BY Places
  <2>2. MAX_SNAPSHOT_ENTITIES \in Nat /\ PACKET_BACKUP \in Nat BY SnapshotsAssumption
  <2> HIDE DEF s
  <2> QED BY <1>1, <2>1, <2>2 DEF SnapshotType
<1>4. cl.snap.messageNum < last /\ Received < last BY <1>1
<1>5. n > last - PACKET_BACKUP
  BY <1>1, <1>2, <1>4, SkippedSlots
<1> HIDE DEF s, n, last, C, size
<1>6. n \in 1 .. last BY <1>1, <1>2, <1>4
<1>7. s.parseEntitiesNum + s.numEntities <= C + Cardinality(S) BY <1>1, <1>2, <1>3
<1>8. (C + Cardinality(S)) - s.parseEntitiesNum
        <= MAX_SNAPSHOT_ENTITIES * (last - n + 1)
  <2> DEFINE b == Received - n + 1
             c == last - n
             d == C - s.parseEntitiesNum
  <2>1. b \in Int /\ c \in Int /\ d \in Int /\ b <= c
    <3>1. /\ Received \in Nat /\ last \in Nat /\ n \in Nat /\ Received < last
          /\ C \in Nat /\ s.parseEntitiesNum \in Nat
      BY <1>1, <1>3, <1>4
    <3> QED BY <3>1
  <2>2. d <= MAX_SNAPSHOT_ENTITIES * b BY <1>2
  <2>3. (C + Cardinality(S)) - s.parseEntitiesNum = d + Cardinality(S)
    <3>1. C \in Int /\ Cardinality(S) \in Int /\ s.parseEntitiesNum \in Int BY <1>1, <1>3
    <3> QED BY <3>1
  <2> HIDE DEF b, c, d
  <2>4. /\ MAX_SNAPSHOT_ENTITIES * b \in Int /\ MAX_SNAPSHOT_ENTITIES * c \in Int
        /\ MAX_SNAPSHOT_ENTITIES * b <= MAX_SNAPSHOT_ENTITIES * c
    BY <1>3, <2>1, Products
  <2>5. MAX_SNAPSHOT_ENTITIES * (c + 1) = (MAX_SNAPSHOT_ENTITIES * c) + MAX_SNAPSHOT_ENTITIES
    BY <1>3, <2>1, Products
  <2>6. d + Cardinality(S) <= MAX_SNAPSHOT_ENTITIES * (c + 1)
    <3>1. ASSUME NEW x \in Int, NEW y \in Int, NEW z \in Int, NEW u \in Int, NEW v \in Int,
                 x <= y, y <= z, u <= v
          PROVE  x + u <= z + v
      BY <3>1
    <3> DEFINE x == MAX_SNAPSHOT_ENTITIES * b
               y == MAX_SNAPSHOT_ENTITIES * c
               z == MAX_SNAPSHOT_ENTITIES * (c + 1)
    <3>2. /\ x \in Int /\ y \in Int /\ x <= y /\ d \in Int /\ d <= x
          /\ z = y + MAX_SNAPSHOT_ENTITIES
      BY <2>1, <2>2, <2>4, <2>5
    <3> HIDE DEF x, y, z
    <3>3. d + Cardinality(S) <= y + MAX_SNAPSHOT_ENTITIES BY <1>3, <3>1, <3>2
    <3> QED BY <3>2, <3>3 DEF z
  <2> QED BY <2>3, <2>6 DEF c
<1>9. ASSUME (C + Cardinality(S)) - s.parseEntitiesNum < size,
             sent[n].serverId = cl.serverId
      PROVE  Parsed(s)' = sent[n].entities
  <2>1. C - s.parseEntitiesNum < size BY <1>1, <1>3, <1>9
  <2>2. Parsed(s) = sent[n].entities BY <1>2, <1>9, <2>1
  <2>3. ASSUME NEW j \in 0 .. s.numEntities - 1
        PROVE  cl'.parseEntities[ParsePosition(s.parseEntitiesNum + j)]
                 = cl.parseEntities[ParsePosition(s.parseEntitiesNum + j)]
    <3> DEFINE k == s.parseEntitiesNum + j
    <3>1. k \in Nat /\ k < C /\ (C + Cardinality(S)) - k <= size
      <4> DEFINE a == s.parseEntitiesNum
                 w == s.numEntities
                 card == Cardinality(S)
      <4>1. /\ a \in Nat /\ w \in Nat /\ card \in Nat /\ C \in Nat /\ size \in Nat
            /\ a + w <= C /\ (C + card) - a < size /\ j \in 0 .. w - 1 /\ k = a + j
        BY <1>1, <1>2, <1>3, <1>9
      <4> HIDE DEF a, w, card, k
      <4>2. k \in Nat /\ k < C /\ (C + card) - k <= size BY <4>1
      <4> QED BY <4>2 DEF card
    <3> HIDE DEF k
    <3>2. Written(cl.parseEntities, C, S)[ParsePosition(k)]
            = cl.parseEntities[ParsePosition(k)]
      BY <1>1, <3>1, WrittenIs DEF size
    <3> QED BY <3>2 DEF k, C
  <2>4. s' = s BY DEF s
  <2>5. Parsed(s)' = Parsed(s) BY <2>3, <2>4 DEF Parsed
  <2> QED BY <2>2, <2>5
<1> DEFINE next == C + Cardinality(S)
           kept == MAX_SNAPSHOT_ENTITIES * (last - n + 1)
<1>10. /\ s.parseEntitiesNum + s.numEntities <= next
       /\ next - s.parseEntitiesNum <= kept
       /\ next - s.parseEntitiesNum < size /\ sent[n].serverId = cl.serverId
            => Parsed(s)' = sent[n].entities
  <2>1. s.parseEntitiesNum + s.numEntities <= next BY <1>7
  <2>2. next - s.parseEntitiesNum <= kept BY <1>8
  <2>3. next - s.parseEntitiesNum < size /\ sent[n].serverId = cl.serverId
          => Parsed(s)' = sent[n].entities
    BY <1>9
  <2> QED BY <2>1, <2>2, <2>3
<1>11. cl'.parseEntitiesNum = next BY DEF C
<1> HIDE DEF next
<1>12. /\ cl'.snapshots[i] = s /\ cl'.snap.messageNum = last
       /\ cl'.parseEntitiesNum = next /\ cl'.serverMessageSequence = last
       /\ cl'.snapshots[i].messageNum = n
  BY <1>11 DEF s, last, n
<1>13. Parsed(cl.snapshots[i])' = Parsed(s)'
  <2>1. s' = cl'.snapshots[i] BY DEF s
  <2> QED BY <2>1 DEF Parsed
<1>14. /\ cl'.parseEntitiesNum - cl'.snapshots[i].parseEntitiesNum
             < PACKET_BACKUP * MAX_SNAPSHOT_ENTITIES
       /\ sent'[cl'.snapshots[i].messageNum].serverId = cl'.serverId
       => Parsed(cl.snapshots[i])' = sent'[cl'.snapshots[i].messageNum].entities
  BY <1>12, <1>13, <1>10 DEF size
<1>15. /\ cl'.snapshots[i].messageNum \in 1 .. cl'.snap.messageNum
       /\ Masked(cl'.snapshots[i].messageNum) = i
  BY <1>2, <1>6, <1>12
<1>16. cl'.snapshots[i].messageNum > cl'.snap.messageNum - PACKET_BACKUP
  BY <1>5, <1>12
<1>17. cl'.snapshots[i].parseEntitiesNum + cl'.snapshots[i].numEntities
         <= cl'.parseEntitiesNum
  BY <1>12, <1>10
<1>18. cl'.parseEntitiesNum - cl'.snapshots[i].parseEntitiesNum
         <= MAX_SNAPSHOT_ENTITIES
              * (cl'.serverMessageSequence - cl'.snapshots[i].messageNum + 1)
  BY <1>12, <1>10 DEF kept
<1> QED BY <1>14, <1>15, <1>16, <1>17, <1>18 DEF KeptInv

\* The snapshot just read is what was sent.
LEMMA NewIsKept ==
  ASSUME Types, NEW S, Fits(S), Received < Len(sent),
         cl.serverId = sent[Len(sent)].serverId => S = sent[Len(sent)].entities,
         cl' \in ClientType, cl'.serverId = cl.serverId, sent' = sent,
         cl'.serverMessageSequence = Len(sent),
         cl'.parseEntitiesNum = cl.parseEntitiesNum + Cardinality(S),
         cl'.parseEntities = Written(cl.parseEntities, cl.parseEntitiesNum, S),
         cl'.snap.messageNum = Len(sent),
         NEW i \in 0 .. PACKET_BACKUP - 1, i = Masked(Len(sent)),
         cl'.snapshots[i] = NewSnapshot(S)
  PROVE  KeptInv(i)'
<1> DEFINE last == Len(sent)
           C == cl.parseEntitiesNum
           card == Cardinality(S)
           next == C + card
<1>1. /\ cl \in ClientType /\ last \in Nat /\ Received \in Nat /\ C \in Nat
      /\ cl.parseEntities \in [ParsePositions -> EntityStates \cup {NoEntity}]
  BY DEF Types, ClientType
<1>2. card \in Nat /\ card <= MAX_SNAPSHOT_ENTITIES
      /\ MAX_SNAPSHOT_ENTITIES \in Nat /\ PACKET_BACKUP \in Nat \ {0}
  BY Places, SnapshotsAssumption
<1>3. /\ cl'.snapshots[i].messageNum = last
      /\ cl'.snapshots[i].parseEntitiesNum = C
      /\ cl'.snapshots[i].numEntities = card
  BY DEF NewSnapshot
<1>4. Parsed(cl.snapshots[i])' = S
  <2> DEFINE at(j) == cl'.parseEntities[ParsePosition(C + j)]
  <2>1. Parsed(cl.snapshots[i])' = {at(j) : j \in 0 .. card - 1}
    BY <1>3 DEF Parsed
  <2>2. \A e \in S : at(Place(e, S)) = e BY <1>1, WrittenIs
  <2>3. \A e \in S : Place(e, S) \in 0 .. card - 1 BY Places
  <2>4. \A j \in 0 .. card - 1 : \E e \in S : Place(e, S) = j BY Places
  <2> HIDE DEF at, card
  <2> QED BY <2>1, <2>2, <2>3, <2>4
<1>5. cl'.parseEntitiesNum = next OBVIOUS
<1>6. /\ last \in 1 .. last /\ last > last - PACKET_BACKUP /\ C + card <= next
      /\ next - C <= MAX_SNAPSHOT_ENTITIES /\ last - last + 1 = 1
  <2>1. last > 0 BY <1>1
  <2> HIDE DEF card, last, C
  <2> QED BY <1>1, <1>2, <2>1
<1>7. MAX_SNAPSHOT_ENTITIES * (last - last + 1) = MAX_SNAPSHOT_ENTITIES
  BY <1>1, <1>2
<1> HIDE DEF next
<1>8. /\ cl'.snapshots[i].messageNum \in 1 .. cl'.snap.messageNum
      /\ Masked(cl'.snapshots[i].messageNum) = i
      /\ cl'.snapshots[i].messageNum > cl'.snap.messageNum - PACKET_BACKUP
  BY <1>3, <1>6
<1>9. cl'.snapshots[i].parseEntitiesNum + cl'.snapshots[i].numEntities
        <= cl'.parseEntitiesNum
  BY <1>3, <1>5, <1>6
<1>10. cl'.parseEntitiesNum - cl'.snapshots[i].parseEntitiesNum
         <= MAX_SNAPSHOT_ENTITIES
              * (cl'.serverMessageSequence - cl'.snapshots[i].messageNum + 1)
  BY <1>3, <1>5, <1>6, <1>7
<1>11. sent'[cl'.snapshots[i].messageNum].serverId = cl'.serverId
         => Parsed(cl.snapshots[i])' = sent'[cl'.snapshots[i].messageNum].entities
  BY <1>3, <1>4
<1> QED BY <1>8, <1>9, <1>10, <1>11 DEF KeptInv

\* A snapshot adds to what the client has, and takes the place of what is older
\* than the ring.
LEMMA ParsePreserves ==
  ASSUME SnapIInv, CL_ParseServerMessage, toClient[1].type # "svc_gamestate"
  PROVE  SnapIInv'
<1> DEFINE last == Len(sent)
           N == cl.snap.messageNum
<1>1. /\ Types /\ SentInv /\ AcksInOrder /\ InWorldInv /\ SnapInv /\ KeepsInv /\ MessageInv
      /\ FramesInv /\ StorageInv /\ sv \in ServerType /\ cl \in ClientType
      /\ toServer \in Seq(PacketType) /\ last \in Nat /\ sent \in Seq(SentType)
      /\ last = sv.outgoingSequence - 1
  BY DEF SnapIInv, ConnectionInv, Types
<1>2. Received < last /\ Received \in Nat BY MessageRead
<1>3. /\ toClient' = <<>> /\ UNCHANGED storageVars
      /\ sv' = sv /\ toServer' = toServer /\ sent' = sent
  BY DEF CL_ParseServerMessage
<1>4. PICK S :
        /\ Fits(S) /\ Fits(sent[last].entities) /\ gamestateNum < last
        /\ cl.serverId = sent[last].serverId => S = sent[last].entities
        /\ cl' \in ClientType /\ cl'.serverId = cl.serverId
        /\ cl'.serverMessageSequence = last
        /\ cl'.parseEntitiesNum = cl.parseEntitiesNum + Cardinality(S)
        /\ cl'.parseEntities = Written(cl.parseEntities, cl.parseEntitiesNum, S)
        /\ cl'.snap = NewSnapshot(S)
        /\ \A i \in 0 .. PACKET_BACKUP - 1 :
             cl'.snapshots[i] =
               IF i = Masked(last) THEN NewSnapshot(S)
               ELSE IF i \in Skipped(last)
               THEN [cl.snapshots[i] EXCEPT !.valid = FALSE]
               ELSE cl.snapshots[i]
  BY SnapshotParsed
<1>5. cl'.snap.messageNum = last /\ NewSnapshot(S).valid /\ NewSnapshot(S).messageNum = last
  BY <1>4 DEF NewSnapshot
<1>6. /\ N \in Nat /\ N <= Received /\ N < last
      /\ \A i \in 0 .. PACKET_BACKUP - 1 : cl.snapshots[i] \in SnapshotType
  <2>1. N \in Nat /\ \A i \in 0 .. PACKET_BACKUP - 1 : cl.snapshots[i] \in SnapshotType
    BY <1>1 DEF ClientType, SnapshotType
  <2>2. N <= Received BY <1>1 DEF SnapInv
  <2> QED BY <1>1, <1>2, <2>1, <2>2
<1> HIDE DEF last, N
<1>7. StorageInv' BY <1>1, <1>3, StutterPreserves
<1>8. Types'
  <2>1. toClient' \in Seq(MessageType) /\ Len(toClient') <= 1 BY <1>3
  <2>2. /\ sv' \in ServerType /\ toServer' \in Seq(PacketType)
        /\ sent' \in Seq(SentType) /\ Len(sent') = sv'.outgoingSequence - 1
    BY <1>1, <1>3 DEF last
  <2> QED BY <1>4, <2>1, <2>2 DEF Types, ServerType, FrameType, Positions, ClientType,
                                  SnapshotType
<1>9. SentInv' BY <1>1, <1>3 DEF SentInv
<1>10. /\ sv.messageAcknowledge \in Nat /\ sv.messageAcknowledge <= Received
       /\ \A i \in 1 .. Len(toServer) : /\ toServer[i].messageAcknowledge \in Nat
                                        /\ toServer[i].messageAcknowledge <= Received
  <2>1. \A i \in 1 .. Len(toServer) : toServer[i] \in PacketType
    BY <1>1, ElementOfSeq
  <2> QED BY <1>1, <2>1 DEF AcksInOrder, PacketType, ServerType
<1>11. AcksInOrder'
  <2>1. \A n \in Nat : n <= Received => n <= last BY <1>1, <1>2
  <2>2. last <= last BY <1>1
  <2> QED BY <1>1, <1>3, <1>4, <1>10, <2>1, <2>2 DEF AcksInOrder, last
<1>12. InWorldInv' BY <1>1, <1>3, <1>4 DEF InWorldInv
<1>13. FramesInv'
  <2> SUFFICES ASSUME sv.state # CS_CONNECTED, NEW n \in gamestateNum + 1 .. Len(sent),
                      sv.outgoingSequence - n <= PACKET_BACKUP
               PROVE  FrameInv(n)'
    BY <1>3 DEF FramesInv
  <2>1. FrameInv(n) BY <1>1 DEF FramesInv
  <2> QED BY <1>3, <2>1, FrameUntouched
<1>14. SnapInv'
  <2>1. last <= last /\ last > 0 BY <1>1, <1>2
  <2>2. sent[last].entities # {NoEntity}
    <3>1. NoEntity \notin EntityStates BY SnapshotsAssumption
    <3> QED BY <1>4, <3>1 DEF Fits
  <2>3. ASSUME NEW i \in 0 .. PACKET_BACKUP - 1, cl'.snapshots[i].valid PROVE KeptInv(i)'
    <3>1. CASE i = Masked(last)
      BY <1>1, <1>2, <1>3, <1>4, <1>5, <3>1, NewIsKept DEF last
    <3>2. CASE i # Masked(last)
      <4>1. i \notin Skipped(last) BY <1>4, <1>6, <2>3, <3>2 DEF SnapshotType
      <4>2. cl'.snapshots[i] = cl.snapshots[i] /\ cl.snapshots[i].valid
        BY <1>4, <2>3, <3>2, <4>1
      <4> QED BY <1>2, <1>3, <1>4, <1>5, <3>2, <4>1, <4>2, KeptStays DEF last
    <3> QED BY <3>1, <3>2
  <2> QED BY <1>3, <1>4, <1>5, <2>1, <2>2, <2>3 DEF SnapInv
<1>15. KeepsInv'
  <2>1. ASSUME NEW n \in Nat, n <= Received, Keeps(n), NEW j, j = n PROVE Keeps(j)'
    <3>1. SUFFICES ASSUME n > gamestateNum, sv.outgoingSequence - n < PACKET_BACKUP,
                          sv.state # CS_CONNECTED
                   PROVE  cl'.snapshots[Masked(n)].valid
                            /\ cl'.snapshots[Masked(n)].messageNum = n
      BY <1>3, <2>1 DEF Keeps
    <3>2. cl.snapshots[Masked(n)].valid /\ cl.snapshots[Masked(n)].messageNum = n
      BY <2>1, <3>1 DEF Keeps
    <3>3. Masked(n) \in 0 .. PACKET_BACKUP - 1 BY <2>1, MaskedType
    <3>4. n \in 1 .. N BY <1>1, <3>2, <3>3 DEF SnapInv, KeptInv, N
    <3>5. last - n < PACKET_BACKUP
      <4>1. sv.outgoingSequence \in Nat /\ last = sv.outgoingSequence - 1
        BY <1>1 DEF ServerType
      <4>2. PACKET_BACKUP \in Nat BY SnapshotsAssumption
      <4> QED BY <2>1, <3>1, <4>1, <4>2
    <3>6. Masked(n) # Masked(last) /\ Masked(n) \notin Skipped(last)
      BY <1>1, <1>6, <3>4, <3>5, SkippedSlots DEF N
    <3> QED BY <1>4, <3>2, <3>3, <3>6
  <2>2. Keeps(Received)'
    <3>1. cl'.snapshots[Masked(last)] = NewSnapshot(S)
      BY <1>1, <1>4, MaskedType
    <3> QED BY <1>4, <1>5, <3>1 DEF Keeps
  <2>3. Keeps(sv.messageAcknowledge)' BY <1>1, <1>3, <1>10, <2>1 DEF KeepsInv
  <2>4. ASSUME NEW i \in 1 .. Len(toServer) PROVE Keeps(toServer[i].messageAcknowledge)'
    BY <1>1, <1>3, <1>10, <2>1 DEF KeepsInv
  <2> QED BY <1>3, <2>2, <2>3, <2>4 DEF KeepsInv
<1>16. MessageInv' BY <1>3 DEF MessageInv
<1> QED BY <1>7, <1>8, <1>9, <1>11, <1>12, <1>13, <1>14, <1>15, <1>16
        DEF SnapIInv, ConnectionInv

-----------------------------------------------------------------------------
(* The theorems *)

\* A server with its first map and a client that knows nothing.
LEMMA InitHolds ==
  ASSUME Init
  PROVE  SnapIInv
<1>1. /\ StorageInit /\ toClient = <<>> /\ toServer = <<>> /\ sent = <<>>
      /\ cl = ClearState(0, 0)
      /\ sv = [ serverId            |-> 1,
                state               |-> CS_CONNECTED,
                gamestateAcked      |-> FALSE,
                gamestateMessageNum |-> -1,
                deltaActive         |-> FALSE,
                deltaStart          |-> 0,
                messageAcknowledge  |-> 0,
                outgoingSequence    |-> 1,
                frames |-> [i \in 0 .. PACKET_BACKUP - 1 |->
                              [frameNum |-> 0, ents |-> {}]] ]
  BY DEF Init
<1>2. /\ sv.state = CS_CONNECTED /\ sv.gamestateAcked = FALSE
      /\ sv.gamestateMessageNum = -1 /\ sv.deltaStart = 0
      /\ sv.messageAcknowledge = 0 /\ sv.outgoingSequence = 1
  BY <1>1
<1>3. /\ cl.serverMessageSequence = 0 /\ cl.snap = NoSnapshot
      /\ \A i \in 0 .. PACKET_BACKUP - 1 : cl.snapshots[i] = NoSnapshot
  BY <1>1 DEF ClearState
<1>4. StorageInv BY <1>1, InitEstablishes
<1>5. Types
  <2>1. NoSnapshot \in SnapshotType
    <3>1. 0 \in 0 .. MAX_SNAPSHOT_ENTITIES BY SnapshotsAssumption
    <3> QED BY <3>1 DEF NoSnapshot, SnapshotType
  <2>2. cl \in ClientType
    <3> HIDE DEF NoSnapshot
    <3> QED BY <1>1, <2>1 DEF ClearState, ClientType
  <2>3. sv \in ServerType
    <3>1. 1 \in ServerIds BY SnapshotsAssumption DEF ServerIds
    <3>2. [frameNum |-> 0, ents |-> {}] \in FrameType BY DEF FrameType
    <3> DEFINE fs == [i \in 0 .. PACKET_BACKUP - 1 |-> [frameNum |-> 0, ents |-> {}]]
    <3>3. fs \in [0 .. PACKET_BACKUP - 1 -> FrameType] BY <3>2
    <3> HIDE DEF fs
    <3>4. sv = [ serverId |-> 1, state |-> CS_CONNECTED, gamestateAcked |-> FALSE,
                 gamestateMessageNum |-> -1, deltaActive |-> FALSE, deltaStart |-> 0,
                 messageAcknowledge |-> 0, outgoingSequence |-> 1, frames |-> fs ]
      BY <1>1 DEF fs
    <3> QED BY <3>1, <3>3, <3>4 DEF ServerType
  <2>4. toClient \in Seq(MessageType) /\ Len(toClient) <= 1 BY <1>1
  <2>5. toServer \in Seq(PacketType) BY <1>1
  <2>6. sent \in Seq(SentType) /\ Len(sent) = sv.outgoingSequence - 1 BY <1>1, <1>2
  <2> QED BY <2>2, <2>3, <2>4, <2>5, <2>6 DEF Types
<1>6. SentInv BY <1>1, <1>2 DEF SentInv
<1>7. AcksInOrder BY <1>1, <1>2, <1>3 DEF AcksInOrder
<1>8. InWorldInv BY <1>1, <1>2 DEF InWorldInv, CS_CONNECTED, CS_ACTIVE
<1>9. FramesInv BY <1>2 DEF FramesInv
<1>10. SnapInv BY <1>3 DEF SnapInv, NoSnapshot
<1>11. KeepsInv BY <1>2 DEF KeepsInv, Keeps
<1>12. MessageInv BY <1>1 DEF MessageInv
<1> QED BY <1>4, <1>5, <1>6, <1>7, <1>8, <1>9, <1>10, <1>11, <1>12
        DEF SnapIInv, ConnectionInv

\* The induction step.
LEMMA SnapNext ==
  ASSUME SnapIInv, [Next]_vars
  PROVE  SnapIInv'
<1>1. ASSUME NEW seen \in Views, SV_SendClientSnapshot(seen) PROVE SnapIInv'
  BY <1>1, SendSnapshotPreserves
<1>2. ASSUME NEW k \in DOMAIN toServer, SV_ExecuteClientMessage(k) PROVE SnapIInv'
  BY <1>2, ExecutePreserves
<1>3. ASSUME NEW move \in IF cl.serverId = 0 THEN {"none"} ELSE Moves,
             CL_WritePacket(move)
      PROVE  SnapIInv'
  <2>1. move \in {"none", "clc_move", "clc_moveNoDelta"} BY SnapshotsAssumption
  <2> QED BY <1>3, <2>1, WritePreserves
<1>4. CASE CL_ParseServerMessage BY <1>4, ClearPreserves, ParsePreserves
<1> QED BY <1>1, <1>2, <1>3, <1>4, FramePreserves, OtherPreserves, SpawnPreserves,
           MapRestartPreserves, SnapStutter DEF Next

\* The server, its client and what is on the way between them, for every size of
\* the rings, every sequence of worlds, and every loss.
THEOREM SnapshotsInductive == Spec => []SnapIInv
<1>1. Init => SnapIInv BY InitHolds
<1>2. SnapIInv /\ [Next]_vars => SnapIInv' BY SnapNext
<1> QED BY <1>1, <1>2, PTL DEF Spec

\* What CL_GetSnapshot gives the cgame is what the server put into the message,
\* and the types of Snapshots.
THEOREM SnapshotsCorrect == Spec => []SnapshotsInv
<1>1. SnapIInv => SnapshotsInv
  <2> SUFFICES ASSUME SnapIInv PROVE TypeOK /\ SnapshotsAgree BY DEF SnapshotsInv
  <2>1. /\ StorageInv /\ Types /\ AcksInOrder /\ InWorldInv /\ SnapInv
        /\ sv \in ServerType /\ cl \in ClientType /\ Len(sent) = sv.outgoingSequence - 1
        /\ Len(sent) \in Nat
    BY DEF SnapIInv, ConnectionInv, Types
  <2>2. TypeOK
    <3>1. StorageTypeOK BY <2>1 DEF StorageInv
    <3>2. sv.state \in {CS_CONNECTED, CS_PRIMED, CS_ACTIVE} BY <2>1 DEF ServerType
    <3>3. sv.deltaStart \in 0 .. sv.outgoingSequence
      BY <2>1 DEF InWorldInv, ServerType
    <3>4. sv.messageAcknowledge \in 0 .. sv.outgoingSequence - 1
      <4>1. sv.messageAcknowledge \in Nat /\ Received \in Nat
        BY <2>1 DEF ServerType, ClientType
      <4>2. sv.messageAcknowledge <= Received /\ Received <= Len(sent)
        BY <2>1 DEF AcksInOrder
      <4> QED BY <2>1, <4>1, <4>2
    <3>5. \A i \in DOMAIN sv.frames : sv.frames[i].ents \subseteq Positions
      <4>1. sv.frames \in [0 .. PACKET_BACKUP - 1 -> FrameType] BY <2>1 DEF ServerType
      <4> QED BY <4>1 DEF FrameType
    <3> QED BY <2>1, <3>1, <3>2, <3>3, <3>4, <3>5 DEF TypeOK, ClientType
  <2>3. ASSUME NEW n \in 1 .. cl.snap.messageNum,
               GetsSnapshot(n), sent[n].serverId = cl.serverId
        PROVE  Parsed(cl.snapshots[Masked(n)]) = sent[n].entities
    <3> DEFINE k == cl.snapshots[Masked(n)].messageNum
               N == cl.snap.messageNum
    <3>1. N \in Nat /\ n \in Nat
      BY <2>1 DEF ClientType, SnapshotType
    <3>2. Masked(n) \in 0 .. PACKET_BACKUP - 1 BY <3>1, MaskedType
    <3>3. KeptInv(Masked(n)) BY <2>1, <2>3, <3>2 DEF SnapInv, GetsSnapshot
    <3>4. k \in 1 .. N /\ Masked(k) = Masked(n) /\ k > N - PACKET_BACKUP
      BY <3>3 DEF KeptInv
    <3>5. N - n < PACKET_BACKUP BY <2>3 DEF GetsSnapshot
    <3>6. PACKET_BACKUP \in Nat BY SnapshotsAssumption
    <3>7. k = n
      <4> HIDE DEF k, N
      <4>1. k \in Nat /\ (k < n => n - k < PACKET_BACKUP) /\ (n < k => k - n < PACKET_BACKUP)
        BY <2>3, <3>1, <3>4, <3>5, <3>6 DEF N
      <4> QED BY <3>1, <3>4, <4>1, MaskedDistinct
    <3> QED BY <2>3, <3>3, <3>7 DEF KeptInv, GetsSnapshot
  <2> QED BY <2>2, <2>3 DEF SnapshotsAgree
<1> QED BY <1>1, SnapshotsInductive, PTL

\* cl_parse.c "Delta from invalid frame (not supposed to happen!)" does not
\* happen: every snapshot that arrives is the last one the client has.
THEOREM SnapshotsUsable == Spec => EverySnapshotUsable
<1> DEFINE Usable ==
      cl'.serverMessageSequence # cl.serverMessageSequence /\ cl'.serverId = cl.serverId
        /\ sent'[cl'.serverMessageSequence].entities # {NoEntity}
      => cl'.snap.messageNum = cl'.serverMessageSequence
<1>1. SnapIInv /\ [Next]_vars => [Usable]_vars
  <2> SUFFICES ASSUME SnapIInv, Next PROVE Usable
    BY DEF vars
  <2>1. CASE CL_ParseServerMessage /\ toClient[1].type = "svc_gamestate"
    <3>1. toClient[1].sequence = gamestateNum /\ gamestateNum = Len(sent) /\ gamestateNum > 0
      <4>1. ASSUME NEW m, m = toClient[1]
            PROVE  m.sequence = gamestateNum /\ m.sequence = Len(sent)
                   /\ Received < Len(sent) /\ Received \in Nat /\ Len(sent) \in Nat
        BY <2>1, <4>1, MessageRead
      <4>2. Received < Len(sent) /\ Received \in Nat /\ Len(sent) \in Nat BY <4>1
      <4> QED BY <4>1, <4>2
    <3>2. sent[gamestateNum].entities = {NoEntity}
      BY <3>1 DEF SnapIInv, ConnectionInv, SentInv
    <3>3. cl'.serverMessageSequence = toClient[1].sequence /\ sent' = sent
      BY <2>1 DEF CL_ParseServerMessage, ClearState
    <3> QED BY <3>1, <3>2, <3>3
  <2>2. CASE CL_ParseServerMessage /\ toClient[1].type # "svc_gamestate"
    <3>1. cl'.serverMessageSequence = Len(sent) /\ cl'.snap.messageNum = Len(sent)
      <4>1. PICK S : cl'.serverMessageSequence = Len(sent) /\ cl'.snap = NewSnapshot(S)
        BY <2>2, SnapshotParsed
      <4> QED BY <4>1 DEF NewSnapshot
    <3> QED BY <3>1
  <2>3. CASE ~CL_ParseServerMessage
    <3>1. cl' = cl
      BY <2>3 DEF Next, SV_Frame, OtherClient, connection, SV_SendClientSnapshot,
                  SV_ExecuteClientMessage, SV_SpawnServer, SV_MapRestart_f, CL_WritePacket
    <3> QED BY <3>1
  <2> QED BY <2>1, <2>2, <2>3
<1> QED BY <1>1, SnapshotsInductive, PTL DEF Spec, EverySnapshotUsable

\* The storage under the snapshots of clients goes through the steps of
\* SnapshotStorage.
LEMMA StorageImplemented == Spec => StorageSpec
<1>1. Init => StorageInit BY DEF Init
<1>2. SnapIInv /\ [Next]_vars => [StorageNext]_storageVars
  <2> SUFFICES ASSUME SnapIInv, [Next]_vars PROVE [StorageNext]_storageVars OBVIOUS
  <2>1. CASE SV_Frame BY <2>1 DEF SV_Frame, StorageNext
  <2>2. ASSUME CommonSnapshot PROVE [StorageNext]_storageVars
    <3>1. CASE currFrame = NoFrame
      <4>1. PICK world \in Worlds : SV_BuildCommonSnapshot(world)
        BY <2>2, <3>1, NextWorld DEF SnapIInv, CommonSnapshot
      <4>2. snapshotFrame < MaxFrames BY <2>2, <3>1 DEF CommonSnapshot, BuildNextWorld
      <4> QED BY <3>1, <4>1, <4>2 DEF StorageNext
    <3>2. CASE currFrame # NoFrame BY <2>2, <3>2 DEF CommonSnapshot
    <3> QED BY <3>1, <3>2
  <2>3. CASE OtherClient BY <2>2, <2>3 DEF OtherClient
  <2>4. ASSUME NEW seen \in Views, SV_SendClientSnapshot(seen)
        PROVE  [StorageNext]_storageVars
    BY <2>2, <2>4 DEF SV_SendClientSnapshot
  <2>5. ASSUME NEW k \in DOMAIN toServer, SV_ExecuteClientMessage(k) PROVE UNCHANGED storageVars
    BY <2>5 DEF SV_ExecuteClientMessage
  <2>6. CASE SV_SpawnServer BY <2>6 DEF SV_SpawnServer, StorageNext
  <2>7. CASE SV_MapRestart_f BY <2>7 DEF SV_MapRestart_f
  <2>8. CASE CL_ParseServerMessage BY <2>8 DEF CL_ParseServerMessage
  <2>9. ASSUME NEW move, CL_WritePacket(move) PROVE UNCHANGED storageVars
    BY <2>9 DEF CL_WritePacket
  <2>10. CASE UNCHANGED vars BY <2>10 DEF vars
  <2> QED BY <2>1, <2>3, <2>4, <2>5, <2>6, <2>7, <2>8, <2>9, <2>10 DEF Next
<1> QED BY <1>1, <1>2, SnapshotsInductive, PTL DEF Spec, StorageSpec

\* No frame a client may still delta from is overwritten, and there is always
\* room for the next, however the clients come to need it.
THEOREM ClientFramesIntact == Spec => [](LiveFramesIntact /\ AlwaysRoom)
BY StorageImplemented, FramesIntact, RoomForEveryWorld, PTL

\* What is sent to a client and remembered as positions in the storage can be
\* found there until the frame is released, whoever writes the storage between:
\* the test of frameNum against lastValidFrame is enough.
THEOREM ClientFramesHold == Spec => []FramesStillHold
<1>1. SnapIInv => FramesStillHold
  <2> SUFFICES ASSUME SnapIInv, sv.state # CS_CONNECTED,
                      NEW n \in gamestateNum + 1 .. Len(sent),
                      Len(sent) - n < PACKET_BACKUP,
                      sv.frames[Masked(n)].frameNum >= lastValidFrame
               PROVE  {snapshotEntities[p] : p \in sv.frames[Masked(n)].ents} = sent[n].entities
    BY DEF FramesStillHold
  <2>1. StorageInv /\ Types /\ FramesInv /\ SentInv BY DEF SnapIInv, ConnectionInv
  <2>2. gamestateNum \in Nat /\ Len(sent) \in Nat /\ sv.outgoingSequence = Len(sent) + 1
    BY <2>1 DEF SentInv, Types, ServerType
  <2>3. n \in Nat /\ sv.outgoingSequence - n <= PACKET_BACKUP
    BY <2>2, SnapshotsAssumption
  <2>4. FrameInv(n) BY <2>1, <2>3 DEF FramesInv
  <2> DEFINE frame == sv.frames[Masked(n)]
             f == frame.frameNum
             entities == built[f + 1].entities
  <2>5. PICK I \in SUBSET (1 .. Len(entities)) :
          /\ frame.ents = {Wrap(FirstOf(f) + i - 1) : i \in I}
          /\ sent[n].entities = {entities[i] : i \in I}
    BY <2>4 DEF FrameInv
  <2>6. f \in LiveFrames
    <3>1. frame \in FrameType BY <2>1, <2>3, MaskedType DEF Types, ServerType
    <3>2. f \in Nat /\ f < snapshotFrame BY <2>4, <3>1 DEF FrameInv, FrameType
    <3>3. lastValidFrame \in Nat /\ snapshotFrame \in Nat
      BY <2>1 DEF StorageInv, StorageTypeOK
    <3> HIDE DEF f
    <3> QED BY <3>2, <3>3 DEF LiveFrames, f
  <2>7. \A i \in I : snapshotEntities[Wrap(FirstOf(f) + i - 1)] = entities[i]
    <3>1. EntitiesKept BY <2>1 DEF StorageInv, StorageLayout
    <3> HIDE DEF f, frame
    <3> QED BY <2>6, <3>1 DEF EntitiesKept
  <2> HIDE DEF frame, f, entities
  <2> QED BY <2>5, <2>7 DEF frame
<1> QED BY <1>1, SnapshotsInductive, PTL
=============================================================================
