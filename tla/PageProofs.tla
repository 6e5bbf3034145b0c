----------------------------- MODULE PageProofs -----------------------------
(***************************************************************************)
(* Proofs about the slotted page, for every size of page and slot.         *)
(***************************************************************************)
EXTENDS Page, TLAPS

End(s) == slot[s].offset + slot[s].length

\* The records lie in the used part of the data area, no two of them on the
\* same byte (a record of no bytes lies between two others), and the last slot
\* is in use.
Inside == \A s \in Slots : InUse(s) => End(s) <= freePtr

Apart ==
  \A s, t \in Slots : InUse(s) /\ InUse(t) /\ s # t =>
    End(s) <= slot[t].offset \/ End(t) <= slot[s].offset

LastInUse == slotCnt # 0 => InUse(slotCnt - 1)

\* The inductive invariant.
IInv ==
  TypeOK /\ RecordsKept /\ SpaceAccounted /\ Inside /\ Apart /\ LastInUse

-----------------------------------------------------------------------------
\* Page::init gives a page with the invariant, whatever its bytes are.
LEMMA InitIsSound == Init => IInv
BY SizesAssumption
DEF Init, EmptyPage, IInv, TypeOK, RecordsKept, SpaceAccounted, Inside, Apart,
    LastInUse, Slots, InUse, Free

\* A call that is refused changes nothing.
LEMMA RefusedKeepsIInv ==
  ASSUME IInv, UNCHANGED <<page, held>>,
         status' \in {"OK", "NOSPACE", "INVALIDSLOTNO"}
  PROVE  IInv'
BY DEF page, IInv, TypeOK, RecordsKept, SpaceAccounted, Inside, Apart,
       LastInUse, Slots, InUse, GetRecord, End

\* The size of the slot array.
LEMMA SlotArray ==
  ASSUME NEW n \in Nat
  PROVE  SlotSize * n \in Nat
BY SizesAssumption

\* Byte x of a record of l bytes that starts at o.
LEMMA ByteInside ==
  ASSUME NEW o \in Nat, NEW l \in Nat, NEW e \in Nat, o + l <= e,
         NEW x \in 0..(l - 1)
  PROVE  o + x \in Nat /\ o + x < e
OBVIOUS

\* An inserted record gets bytes nobody has, behind all others.
LEMMA InsertKeepsIInv ==
  ASSUME IInv, NEW len \in 0..DataSize, NEW rec \in RecordsOf(len),
         NEW s \in 0..slotCnt, InsertRecord(len, rec, s)
  PROVE  IInv'
<1> USE DEF Free, Slots, InUse
<1>0. /\ TypeOK /\ RecordsKept /\ SpaceAccounted /\ Inside /\ Apart /\ LastInUse
      /\ DataSize \in Nat /\ SlotSize \in Nat \ {0}
  BY SizesAssumption DEF IInv
<1>10. /\ slotCnt \in Nat /\ freePtr \in Nat /\ freePtr <= DataSize
       /\ freeSpace \in 0..DataSize /\ len \in Nat
  BY <1>0 DEF TypeOK
<1>11. /\ slotCnt' \in Nat /\ slotCnt <= slotCnt'
       /\ s \in 0..(slotCnt' - 1)
       /\ slotCnt' # slotCnt => s = slotCnt /\ slotCnt' = slotCnt + 1
       /\ s # slotCnt => ~InUse(s)
  BY SMTT(30), <1>10 DEF InsertRecord, SlotFor
<1> DEFINE A == SlotSize * slotCnt
           B == SlotSize * slotCnt'
<1>12. /\ A \in Nat /\ B \in Nat
       /\ B = IF s = slotCnt THEN A + SlotSize ELSE A
  <2>1. A \in Nat /\ B \in Nat
    BY <1>10, <1>11, SlotArray
  <2>2. SlotSize * (slotCnt + 1) = A + SlotSize
    BY <1>0, <1>10
  <2>3. slotCnt' = IF s = slotCnt THEN slotCnt + 1 ELSE slotCnt
    BY DEF InsertRecord
  <2> QED
    BY <2>1, <2>2, <2>3
<1>13. freeSpace = DataSize - freePtr - A
  BY <1>0 DEF SpaceAccounted
<1>14. /\ freeSpace' = freeSpace - SpaceTaken(s, len)
       /\ len + SlotSize <= freeSpace /\ freePtr' = freePtr + len
  BY <1>0, <1>10 DEF InsertRecord, NoRoom
<1> HIDE DEF A, B
<1>1. /\ slotCnt \in Nat /\ freePtr \in Nat /\ freePtr + len <= DataSize
      /\ slotCnt' \in Nat /\ slotCnt <= slotCnt'
      /\ s \in 0..(slotCnt' - 1)
      /\ slotCnt' # slotCnt => s = slotCnt /\ slotCnt' = slotCnt + 1
      /\ s # slotCnt => ~InUse(s)
  BY <1>0, <1>10, <1>11, <1>12, <1>13, <1>14
<1>15. freeSpace' = DataSize - freePtr' - B
  BY <1>0, <1>10, <1>12, <1>13, <1>14 DEF SpaceTaken
<1>2. freeSpace' = DataSize - freePtr' - SlotSize * slotCnt'
  BY <1>15 DEF B
<1>3. TypeOK'
  <2>1. data' \in [Addresses -> Byte]
    BY <1>0, <1>1 DEF TypeOK, InsertRecord, RecordsOf, Addresses
  <2>2. slot' \in [Slots' -> [offset : Nat, length : Nat \cup {Free}]]
    BY <1>0, <1>1 DEF TypeOK, InsertRecord
  <2>3. freePtr' \in 0..DataSize
    BY <1>0, <1>1, <1>10, <1>14
  <2>4. freeSpace' \in 0..DataSize
    BY <1>0, <1>10, <1>14 DEF SpaceTaken
  <2> QED
    BY <2>1, <2>2, <2>3, <2>4, <1>1 DEF TypeOK, InsertRecord
<1>4. /\ slot'[s] = [offset |-> freePtr, length |-> len]
      /\ \A t \in Slots : t # s => slot'[t] = slot[t]
      /\ \A t \in Slots' : t # s => t \in Slots
  BY <1>1 DEF InsertRecord
<1>5. RecordsKept'
  <2>1. DOMAIN held' = {t \in Slots' : InUse(t)'}
    BY <1>0, <1>1, <1>4 DEF RecordsKept, InsertRecord
  <2>2. GetRecord(s)' = held'[s]
    <3>1. GetRecord(s)' = [x \in 0..(len - 1) |-> data'[freePtr + x]]
      BY <1>4 DEF GetRecord
    <3>2. held'[s] = rec
      BY DEF InsertRecord
    <3>3. ASSUME NEW x \in 0..(len - 1)
          PROVE  data'[freePtr + x] = rec[x]
      <4> DEFINE y == freePtr + x
      <4>1. /\ y \in Addresses /\ freePtr <= y /\ y < freePtr + len
            /\ y - freePtr = x
        BY <1>0, <1>1, <1>10 DEF Addresses
      <4> HIDE DEF y
      <4>2. data'[y] = rec[y - freePtr]
        BY <4>1 DEF InsertRecord
      <4> QED
        BY <4>1, <4>2 DEF y
    <3>4. rec = [x \in 0..(len - 1) |-> rec[x]]
      BY DEF RecordsOf
    <3> QED
      BY <3>1, <3>2, <3>3, <3>4
  <2>3. ASSUME NEW t \in DOMAIN held', t # s
        PROVE  GetRecord(t)' = held'[t]
    <3>1. t \in DOMAIN held /\ t \in Slots /\ InUse(t)
          /\ slot'[t] = slot[t] /\ held'[t] = held[t]
      BY <1>0, <2>3, <1>4 DEF RecordsKept, InsertRecord
    <3>2. slot[t].offset \in Nat /\ slot[t].length \in Nat /\ End(t) <= freePtr
      BY <1>0, <3>1 DEF TypeOK, Inside
    <3>3. \A x \in 0..(slot[t].length - 1) :
            data'[slot[t].offset + x] = data[slot[t].offset + x]
      <4> TAKE x \in 0..(slot[t].length - 1)
      <4> DEFINE y == slot[t].offset + x
      <4>1. y \in Nat /\ y < freePtr
        <5>1. slot[t].offset + slot[t].length <= freePtr /\ freePtr \in Nat
          BY <1>1, <3>2 DEF End
        <5> QED
          BY <3>2, <5>1, ByteInside
      <4> HIDE DEF y
      <4>2. freePtr \in Nat /\ freePtr <= DataSize
        BY <1>10
      <4>3. y \in Addresses /\ ~(freePtr <= y)
        BY <1>0, <4>1, <4>2 DEF Addresses
      <4> QED
        BY <4>3 DEF InsertRecord, y
    <3>4. GetRecord(t)' = GetRecord(t)
      BY <3>1, <3>3 DEF GetRecord
    <3> QED
      BY <1>0, <3>1, <3>4 DEF RecordsKept
  <2> QED
    BY <1>0, <2>1, <2>2, <2>3 DEF RecordsKept
<1>6. SpaceAccounted'
  <2>1. ASSUME NEW x \in 0..(freePtr' - 1)
        PROVE  \E t \in Slots' : /\ InUse(t)' /\ slot'[t].offset <= x
                                 /\ x < slot'[t].offset + slot'[t].length
    <3>1. CASE x >= freePtr
      <4> WITNESS s \in Slots'
      <4> QED
        BY <3>1, <1>1, <1>4 DEF InsertRecord
    <3>2. CASE x < freePtr
      <4>1. PICK t \in Slots : /\ InUse(t) /\ slot[t].offset <= x
                               /\ x < slot[t].offset + slot[t].length
        BY <1>0, <3>2, <1>1 DEF SpaceAccounted
      <4>2. t # s
        BY <4>1, <1>1
      <4>3. t \in Slots' /\ slot'[t] = slot[t]
        <5>1. slotCnt \in Nat /\ slotCnt' \in Nat /\ slotCnt <= slotCnt'
          BY <1>1
        <5>2. t \in Slots'
          BY <4>1, <5>1
        <5> QED
          BY <4>1, <4>2, <5>2, <1>4
      <4> WITNESS t \in Slots'
      <4> QED
        BY <4>1, <4>3
    <3>3. x >= freePtr \/ x < freePtr
      BY <1>1
    <3> QED
      BY <3>1, <3>2, <3>3, Zenon
  <2> QED
    BY <1>0, <1>2, <2>1 DEF SpaceAccounted
<1>7. Inside'
  BY SMTT(30), <1>0, <1>1, <1>4 DEF TypeOK, Inside, InsertRecord, End
<1>8. Apart'
  <2>1. \A t \in Slots : InUse(t) => End(t) <= freePtr
    BY <1>0 DEF Inside
  <2>2. ASSUME NEW t \in Slots', NEW u \in Slots', InUse(t)', InUse(u)', t # u
        PROVE  End(t)' <= slot'[u].offset \/ End(u)' <= slot'[t].offset
    <3>1. CASE t # s /\ u # s
      BY <1>0, <3>1, <2>2, <1>4 DEF Apart, End
    <3>2. CASE t = s
      BY <3>2, <2>1, <2>2, <1>4 DEF End
    <3>3. CASE u = s
      BY <3>3, <2>1, <2>2, <1>4 DEF End
    <3> QED
      BY <3>1, <3>2, <3>3
  <2> QED
    BY <2>2 DEF Apart
<1>9. LastInUse'
  <2>1. CASE slotCnt' = slotCnt
    <3>1. SUFFICES ASSUME slotCnt' # 0
                   PROVE  InUse(slotCnt - 1)'
      BY <1>0, <2>1 DEF LastInUse
    <3>2. InUse(slotCnt - 1) /\ slotCnt - 1 \in Slots
      BY <1>0, <2>1, <3>1, <1>1 DEF LastInUse
    <3>3. slot'[slotCnt - 1] = slot[slotCnt - 1] \/ s = slotCnt - 1
      BY <3>2, <1>4
    <3> QED
      BY <2>1, <3>2, <3>3, <1>1, <1>4
  <2>2. CASE slotCnt' # slotCnt
    BY <1>0, <2>2, <1>1, <1>4 DEF LastInUse
  <2> QED
    BY <2>1, <2>2
<1> QED
  BY <1>3, <1>5, <1>6, <1>7, <1>8, <1>9 DEF IInv

-----------------------------------------------------------------------------
\* The slots that go when s is deleted are s and free ones, and the last of
\* those that stay is in use.
LEMMA SlotsThatStay ==
  ASSUME IInv, NEW s \in Slots, NEW n \in 0..slotCnt, SlotsLeft(s, n), Valid(s)
  PROVE  /\ s < n => n = slotCnt /\ s # slotCnt - 1
         /\ \A t \in Slots : t >= n => t = s \/ ~InUse(t)
         /\ n # 0 => InUse(n - 1) /\ n - 1 # s
<1> USE DEF Slots, InUse, Free
<1>1. slotCnt \in Nat /\ InUse(s)
  BY DEF IInv, TypeOK, Valid
<1>2. CASE s # slotCnt - 1
  <2>1. n = slotCnt
    BY <1>2 DEF SlotsLeft
  <2>2. n # 0 => InUse(n - 1)
    BY <2>1 DEF IInv, LastInUse
  <2> QED
    BY <1>1, <1>2, <2>1, <2>2
<1>3. CASE s = slotCnt - 1
  BY <1>1, <1>3 DEF SlotsLeft
<1> QED
  BY <1>2, <1>3

\* The records that stay when s is deleted, and where they are then.
LEMMA RecordsThatStay ==
  ASSUME IInv, NEW s \in Slots, NEW n \in 0..slotCnt, DeleteRecord(s, n),
         NEW t
  PROVE  /\ InUse(t)' <=> InUse(t) /\ t # s
         /\ InUse(t)' =>
              /\ slot'[t].length = slot[t].length
              /\ IF End(s) <= slot[t].offset
                   THEN slot'[t].offset = slot[t].offset - slot[s].length
                   ELSE slot'[t].offset = slot[t].offset
              /\ End(s) <= slot[t].offset \/ End(t) <= slot[s].offset
<1> USE DEF Slots, Free
<1>1. /\ slotCnt \in Nat /\ slotCnt' = n
      /\ slot[s].offset \in Nat /\ slot[s].length \in Nat \ {0}
      /\ InUse(s)
  BY SMTT(30) DEF IInv, TypeOK, DeleteRecord, Valid, InUse
<1>2. /\ s < n => n = slotCnt
      /\ \A u \in Slots : u >= n => u = s \/ ~InUse(u)
  BY SlotsThatStay DEF DeleteRecord
<1>3. InUse(t)' <=> InUse(t) /\ t # s
  <2>1. CASE t \in 0..(n - 1) /\ t # s
    <3>1. slot'[t] = MovedSlot(s, t) /\ t \in Slots
      BY <2>1, <1>1 DEF DeleteRecord
    <3>2. slot[t] \in [offset : Nat, length : Nat \cup {Free}]
      BY <3>1 DEF IInv, TypeOK
    <3>3. MovedSlot(s, t).length = slot[t].length
      BY <3>2 DEF MovedSlot
    <3> QED
      BY <2>1, <3>1, <3>3, <1>1 DEF InUse
  <2>2. CASE t = s
    BY <2>2, <1>1 DEF DeleteRecord, InUse
  <2>3. CASE t \notin 0..(n - 1) /\ t # s
    BY <2>3, <1>1, <1>2 DEF InUse
  <2> QED
    BY <2>1, <2>2, <2>3
<1>4. ASSUME InUse(t)'
      PROVE  /\ slot'[t].length = slot[t].length
             /\ IF End(s) <= slot[t].offset
                  THEN slot'[t].offset = slot[t].offset - slot[s].length
                  ELSE slot'[t].offset = slot[t].offset
             /\ End(s) <= slot[t].offset \/ End(t) <= slot[s].offset
  <2>1. t \in Slots /\ InUse(t) /\ t # s /\ t \in 0..(n - 1)
    BY <1>1, <1>3, <1>4 DEF InUse
  <2>2. slot'[t] = MovedSlot(s, t)
    BY <2>1 DEF DeleteRecord
  <2>3. /\ slot[t] \in [offset : Nat, length : Nat \cup {Free}]
        /\ slot[t].length \in Nat
    BY <2>1 DEF IInv, TypeOK, InUse
  <2>4. End(s) <= slot[t].offset \/ End(t) <= slot[s].offset
    BY <2>1, <1>1 DEF IInv, Apart
  <2>5. Moved(s, t) <=> End(s) <= slot[t].offset
    BY <2>3, <2>4, <1>1 DEF Moved, End
  <2> QED
    BY <2>2, <2>3, <2>4, <2>5 DEF MovedSlot
<1> QED
  BY <1>3, <1>4

-----------------------------------------------------------------------------
\* A deletion closes the gap, and every other record moves with its slot.
LEMMA DeleteKeepsIInv ==
  ASSUME IInv, NEW s \in Slots, NEW n \in 0..slotCnt, DeleteRecord(s, n)
  PROVE  IInv'
<1> DEFINE len == slot[s].length
           off == slot[s].offset
<1> USE SizesAssumption DEF Free
<1>1. /\ slotCnt \in Nat /\ freePtr \in Nat /\ freeSpace \in Nat
      /\ slotCnt' = n /\ n \in Nat /\ freePtr' = freePtr - len
      /\ off \in Nat /\ len \in Nat \ {0} /\ off + len <= freePtr
      /\ freePtr <= DataSize
  BY DEF IInv, TypeOK, DeleteRecord, Valid, Inside, Slots, InUse, End
<1>2. \A t \in Slots : slot[t] \in [offset : Nat, length : Nat \cup {Free}]
  BY DEF IInv, TypeOK
<1>3. freeSpace' = DataSize - freePtr' - SlotSize * slotCnt'
  <2>1. SlotSize * (slotCnt - n) = SlotSize * slotCnt - SlotSize * n
    BY <1>1
  <2> DEFINE A == SlotSize * slotCnt
             B == SlotSize * n
  <2>2. freeSpace = DataSize - freePtr - A
    BY DEF IInv, SpaceAccounted
  <2>3. freeSpace' = freeSpace + len + (A - B)
    BY <2>1 DEF DeleteRecord
  <2>4. A \in Nat /\ B \in Nat
    BY <1>1
  <2> HIDE DEF A, B
  <2>5. freeSpace' = DataSize - (freePtr - len) - B
    BY <2>2, <2>3, <2>4, <1>1
  <2> QED
    BY <2>5, <1>1 DEF B
<1>4. TypeOK'
  <2>1. data' \in [Addresses -> Byte]
    BY SMTT(30), <1>1 DEF IInv, TypeOK, DeleteRecord, Compacted, Addresses
  <2>2. \A t \in 0..(n - 1) :
          slot'[t] \in [offset : Nat, length : Nat \cup {Free}]
    <3> TAKE t \in 0..(n - 1)
    <3>1. t \in Slots
      BY <1>1 DEF Slots
    <3>2. CASE t = s
      BY <3>2 DEF DeleteRecord
    <3>3. CASE t # s
      <4>1. slot'[t] = MovedSlot(s, t)
        BY <3>3 DEF DeleteRecord
      <4>2. CASE ~Moved(s, t)
        BY <3>1, <4>1, <4>2, <1>2 DEF MovedSlot
      <4>3. CASE Moved(s, t)
        <5>1. slot[t].length \in Nat /\ slot[t].offset \in Nat
              /\ slot[t].offset > off
          BY <3>1, <4>3, <1>2 DEF Moved
        <5>2. InUse(t) /\ InUse(s)
          BY <3>1, <5>1, <1>1 DEF InUse
        <5>3. slot[t].offset >= len
          BY <3>1, <3>3, <5>1, <5>2, <1>1 DEF IInv, Apart, End
        <5> QED
          BY <3>1, <4>1, <4>3, <5>1, <5>3, <1>1, <1>2 DEF MovedSlot
      <4> QED
        BY <4>2, <4>3
    <3> QED
      BY <3>2, <3>3
  <2>3. slot' \in [Slots' -> [offset : Nat, length : Nat \cup {Free}]]
    BY <2>2, <1>1 DEF DeleteRecord, Slots
  <2>4. freePtr' \in 0..DataSize
    BY <1>1
  <2>5. freeSpace' \in 0..DataSize
    <3>1. SlotSize * (slotCnt - n) >= 0 /\ SlotSize * n >= 0
      BY <1>1
    <3>2. freeSpace' >= 0
      BY <3>1, <1>1 DEF DeleteRecord
    <3>3. freeSpace' <= DataSize
      BY <3>1, <1>1, <1>3
    <3> QED
      BY <3>2, <3>3, <3>1, <1>1 DEF DeleteRecord
  <2> QED
    BY <2>1, <2>3, <2>4, <2>5, <1>1 DEF TypeOK, DeleteRecord
<1>5. RecordsKept'
  <2>1. DOMAIN held' = {t \in Slots' : InUse(t)'}
    BY RecordsThatStay DEF IInv, RecordsKept, DeleteRecord, InUse
  <2>2. ASSUME NEW t \in DOMAIN held'
        PROVE  GetRecord(t)' = held'[t]
    <3>1. t \in Slots /\ InUse(t) /\ InUse(t)' /\ held'[t] = held[t]
          /\ held[t] = GetRecord(t)
      BY <2>1, RecordsThatStay DEF IInv, RecordsKept, DeleteRecord, InUse
    <3>2. slot[t].length \in Nat /\ slot[t].offset \in Nat /\ End(t) <= freePtr
      BY <3>1, <1>2 DEF IInv, Inside, InUse
    <3>3. slot'[t].length = slot[t].length
      BY <3>1, RecordsThatStay
    <3>4. \A x \in 0..(slot[t].length - 1) :
            data'[slot'[t].offset + x] = data[slot[t].offset + x]
      <4>1. CASE End(s) <= slot[t].offset
        <5>1. slot'[t].offset = slot[t].offset - len
          BY <3>1, <4>1, RecordsThatStay
        <5>2. ASSUME NEW x \in 0..(slot[t].length - 1)
              PROVE  data'[slot'[t].offset + x] = data[slot[t].offset + x]
          <6> DEFINE a == slot'[t].offset + x
          <6>1. /\ a \in Addresses /\ off <= a /\ a < freePtr - len
                /\ a + len = slot[t].offset + x
            BY <4>1, <5>1, <3>2, <1>1 DEF End, Addresses
          <6> QED
            BY <6>1 DEF DeleteRecord, Compacted
        <5> QED
          BY <5>2
      <4>2. CASE ~(End(s) <= slot[t].offset)
        <5>1. slot'[t].offset = slot[t].offset /\ End(t) <= off
          BY <3>1, <4>2, RecordsThatStay
        <5>2. ASSUME NEW x \in 0..(slot[t].length - 1)
              PROVE  data'[slot'[t].offset + x] = data[slot[t].offset + x]
          <6> DEFINE a == slot'[t].offset + x
          <6>1. a \in Addresses /\ a < off /\ a = slot[t].offset + x
            BY <5>1, <3>2, <1>1 DEF End, Addresses
          <6>2. ~(off <= a)
            BY <6>1, <1>1 DEF Addresses
          <6> QED
            BY <6>1, <6>2 DEF DeleteRecord, Compacted
        <5> QED
          BY <5>2
      <4> QED
        BY <4>1, <4>2
    <3> QED
      BY <3>1, <3>3, <3>4 DEF GetRecord
  <2> QED
    BY <2>1, <2>2 DEF RecordsKept
<1>6. SpaceAccounted'
  <2>1. ASSUME NEW x \in 0..(freePtr' - 1)
        PROVE  \E t \in Slots' : /\ InUse(t)' /\ slot'[t].offset <= x
                                 /\ x < slot'[t].offset + slot'[t].length
    <3> DEFINE y == IF x < off THEN x ELSE x + len
    <3>1. y \in 0..(freePtr - 1)
      BY <1>1
    <3>2. PICK t \in Slots : /\ InUse(t) /\ slot[t].offset <= y
                             /\ y < slot[t].offset + slot[t].length
      BY <3>1 DEF IInv, SpaceAccounted
    <3>3. slot[t].length \in Nat /\ slot[t].offset \in Nat
      BY <3>2, <1>2 DEF InUse
    <3>4. t # s
      BY <3>2, <1>1
    <3>5. InUse(t)' /\ t \in Slots'
      BY <3>2, <3>4, RecordsThatStay DEF InUse
    <3>6. slot'[t].offset <= x /\ x < slot'[t].offset + slot'[t].length
      <4>1. CASE End(s) <= slot[t].offset
        <5>1. /\ slot'[t].length = slot[t].length
              /\ slot'[t].offset = slot[t].offset - len
          BY <3>5, <4>1, RecordsThatStay
        <5> QED
          BY <4>1, <5>1, <3>2, <3>3, <1>1 DEF End
      <4>2. CASE ~(End(s) <= slot[t].offset)
        <5>1. /\ slot'[t].length = slot[t].length
              /\ slot'[t].offset = slot[t].offset /\ End(t) <= off
          BY <3>5, <4>2, RecordsThatStay
        <5> QED
          BY <5>1, <3>2, <3>3, <1>1 DEF End
      <4> QED
        BY <4>1, <4>2
    <3> QED
      BY <3>5, <3>6
  <2> QED
    BY <1>3, <2>1 DEF SpaceAccounted
<1>7. Inside'
  <2>1. ASSUME NEW t, InUse(t)'
        PROVE  End(t)' <= freePtr'
    <3>1. InUse(t) /\ t \in Slots /\ End(t) <= freePtr
      BY <2>1, RecordsThatStay DEF IInv, Inside, InUse
    <3>2. slot[t].length \in Nat /\ slot[t].offset \in Nat
      BY <3>1, <1>2 DEF InUse
    <3> QED
      BY <2>1, <3>1, <3>2, <1>1, RecordsThatStay DEF End
  <2> QED
    BY <2>1 DEF Inside
<1>8. Apart'
  <2>1. ASSUME NEW t, NEW u, InUse(t)', InUse(u)', t # u
        PROVE  End(t)' <= slot'[u].offset \/ End(u)' <= slot'[t].offset
    <3>1. /\ InUse(t) /\ t \in Slots /\ InUse(u) /\ u \in Slots
          /\ slot[t].length \in Nat /\ slot[t].offset \in Nat
          /\ slot[u].length \in Nat /\ slot[u].offset \in Nat
      BY <2>1, <1>2, RecordsThatStay DEF InUse
    <3>2. End(t) <= slot[u].offset \/ End(u) <= slot[t].offset
      BY <2>1, <3>1 DEF IInv, Apart
    <3>3. /\ slot'[t].length = slot[t].length
          /\ IF End(s) <= slot[t].offset
               THEN slot'[t].offset = slot[t].offset - len
               ELSE slot'[t].offset = slot[t].offset
          /\ End(s) <= slot[t].offset \/ End(t) <= off
      BY <2>1, RecordsThatStay
    <3>4. /\ slot'[u].length = slot[u].length
          /\ IF End(s) <= slot[u].offset
               THEN slot'[u].offset = slot[u].offset - len
               ELSE slot'[u].offset = slot[u].offset
          /\ End(s) <= slot[u].offset \/ End(u) <= off
      BY <2>1, RecordsThatStay
    <3> QED
      BY <3>1, <3>2, <3>3, <3>4, <1>1 DEF End
  <2> QED
    BY <2>1 DEF Apart
<1>9. LastInUse'
  <2>1. n # 0 => InUse(n - 1) /\ n - 1 # s
    BY SlotsThatStay DEF DeleteRecord
  <2> QED
    BY <2>1, <1>1, RecordsThatStay DEF LastInUse
<1> QED
  BY <1>4, <1>5, <1>6, <1>7, <1>8, <1>9 DEF IInv

-----------------------------------------------------------------------------
\* Every state of a page satisfies the invariant.
THEOREM Invariance == Spec => []IInv
<1>1. Init => IInv
  BY InitIsSound
<1>2. IInv /\ [Next]_vars => IInv'
  <2> SUFFICES ASSUME IInv, [Next]_vars
               PROVE  IInv'
    OBVIOUS
  <2>1. CASE UNCHANGED vars
    BY <2>1, RefusedKeepsIInv DEF vars, page, IInv, TypeOK
  <2>2. ASSUME NEW len \in 0..DataSize, InsertNoSpace(len)
        PROVE  IInv'
    BY <2>2, RefusedKeepsIInv DEF InsertNoSpace
  <2>3. ASSUME NEW s, DeleteInvalid(s)
        PROVE  IInv'
    BY <2>3, RefusedKeepsIInv DEF DeleteInvalid
  <2>4. ASSUME NEW s, NEW n \in 0..slotCnt, DeleteRecord(s, n)
        PROVE  IInv'
    BY <2>4, DeleteKeepsIInv DEF DeleteRecord, Valid
  <2> QED
    BY <2>1, <2>2, <2>3, <2>4, InsertKeepsIInv DEF Next
<1> QED
  BY <1>1, <1>2, PTL DEF Spec

\* Every state is of its type.
THEOREM TypesAlways == Spec => []TypeOK
<1>1. IInv => TypeOK
  BY DEF IInv
<1> QED
  BY <1>1, Invariance, PTL

\* A record is found unchanged under its RID until it is deleted.
THEOREM RecordsAlways == Spec => []RecordsKept
<1>1. IInv => RecordsKept
  BY DEF IInv
<1> QED
  BY <1>1, Invariance, PTL

\* freeSpace is what lies between the records and the slots, and no byte
\* before freePtr is without a record.
THEOREM SpaceAlways == Spec => []SpaceAccounted
<1>1. IInv => SpaceAccounted
  BY DEF IInv
<1> QED
  BY <1>1, Invariance, PTL

\* A page whose records are all deleted has all its space.
THEOREM EmptyAlwaysWhole == Spec => []EmptyIsWhole
<1>1. IInv => EmptyIsWhole
  <2> SUFFICES ASSUME IInv, IsNext(-1, EndOfPage)
               PROVE  freeSpace = DataSize
    BY DEF EmptyIsWhole
  <2>1. slotCnt \in Nat /\ freePtr \in Nat
    BY DEF IInv, TypeOK
  <2>2. \A s \in Slots : ~InUse(s)
    BY <2>1 DEF IsNext, Slots
  <2>3. slotCnt = 0
    BY <2>1, <2>2 DEF IInv, LastInUse, InUse
  <2>4. freePtr = 0
    BY <2>1, <2>2 DEF IInv, SpaceAccounted
  <2> QED
    BY <2>3, <2>4, SizesAssumption DEF IInv, SpaceAccounted
<1> QED
  BY <1>1, Invariance, PTL

\* A deletion moves no scan: what was next is next, or what came after it.
THEOREM ScansSurviveDelete == Spec => DeleteKeepsScan
<1>1. ASSUME IInv, [Next]_vars
      PROVE  [\A s \in Slots, n \in 0..slotCnt : DeleteRecord(s, n) =>
                \A t \in -1..slotCnt, u \in -1..slotCnt :
                  IsNext(t, u) =>
                    IF u # s THEN IsNext(t, u)'
                    ELSE \A w \in -1..slotCnt :
                           IsNext(s, w) => IsNext(t, w)']_vars
  <2> SUFFICES ASSUME NEW s \in Slots, NEW n \in 0..slotCnt,
                      DeleteRecord(s, n),
                      NEW t \in -1..slotCnt, NEW u \in -1..slotCnt,
                      IsNext(t, u)
               PROVE  IF u # s THEN IsNext(t, u)'
                      ELSE \A w \in -1..slotCnt : IsNext(s, w) => IsNext(t, w)'
    OBVIOUS
  <2>1. slotCnt \in Nat
    BY <1>1 DEF IInv, TypeOK
  <2>2. \A x : InUse(x)' <=> InUse(x) /\ x # s
    BY <1>1, RecordsThatStay
  <2>3. \A x : InUse(x) => x \in Slots
    BY DEF InUse
  <2>4. CASE u # s
    BY <2>1, <2>2, <2>3, <2>4 DEF IsNext, Slots
  <2>5. ASSUME u = s, NEW w \in -1..slotCnt, IsNext(s, w)
        PROVE  IsNext(t, w)'
    BY <2>1, <2>2, <2>3, <2>5 DEF IsNext, Slots, EndOfPage
  <2> QED
    BY <2>4, <2>5
<1> QED
  BY <1>1, Invariance, PTL DEF Spec, DeleteKeepsScan
=============================================================================
