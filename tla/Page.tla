-------------------------------- MODULE Page --------------------------------
(***************************************************************************)
(* A slotted page (class Page, page.C): records packed from the start of   *)
(* the data area, a slot array growing towards them from its end.  Slots   *)
(* are numbered 0, 1, 2, ... here, as in a RID (the code uses the          *)
(* negatives), and slotCnt is the number of slots (the code's is negative  *)
(* as well).  Deleting a record closes the gap it leaves in the data area  *)
(* and moves the offsets of the records behind; slots are given back only  *)
(* from the end of the array.                                              *)
(*                                                                         *)
(* The slots lie in the same memory as the end of data[]; they are a       *)
(* variable of their own here, and SpaceAccounted says that this is sound. *)
(* The links nextPage and curPage are left to the modules of heap files.   *)
(***************************************************************************)
EXTENDS Integers

CONSTANTS
  DataSize,  \* the bytes of data[] (PAGESIZE - DPFIXED)
  SlotSize,  \* sizeof(slot_t)
  Byte       \* what a byte can hold

ASSUME SizesAssumption == DataSize \in Nat /\ SlotSize \in Nat \ {0}

Addresses == 0..(DataSize - 1)
Free == -1   \* the length in a slot that is not in use

\* The records a page can be asked to hold: len bytes.
RecordsOf(len) == [0..(len - 1) -> Byte]
Records == UNION {RecordsOf(len) : len \in 0..DataSize}

VARIABLES
  data,       \* the data area, which init does not clear
  slot,       \* slot[s].offset, slot[s].length, for s in 0..slotCnt - 1
  slotCnt, freePtr, freeSpace,
  status,     \* what the last call returned
  held        \* history: held[s] is the record the client holds under s

vars == <<data, slot, slotCnt, freePtr, freeSpace, status, held>>
page == <<data, slot, slotCnt, freePtr, freeSpace>>

Slots == 0..(slotCnt - 1)
InUse(s) == s \in Slots /\ slot[s].length # Free

\* Page::init
EmptyPage ==
  /\ slot = [s \in {} |-> 0]
  /\ slotCnt = 0
  /\ freePtr = 0
  /\ freeSpace = DataSize

Init ==
  /\ EmptyPage
  /\ data \in [Addresses -> Byte]
  /\ status = "OK"
  /\ held = [s \in {} |-> 0]

-----------------------------------------------------------------------------
\* The slot a new record gets: the first that is free, or a new one.
SlotFor(s) ==
  /\ s \in 0..slotCnt
  /\ s # slotCnt => slot[s].length = Free
  /\ \A t \in 0..(s - 1) : slot[t].length # Free

\* Broken: a slot is paid for even if there was one.
SpaceAlwaysTaken(s, len) == len + SlotSize

\* What a record of len bytes in slot s takes from freeSpace.
SpaceTaken(s, len) == IF s = slotCnt THEN len + SlotSize ELSE len

\* An upper bound: the slot may not be needed.
NoRoom(len) == len + SlotSize > freeSpace

InsertNoSpace(len) ==
  /\ NoRoom(len)
  /\ status' = "NOSPACE"
  /\ UNCHANGED <<page, held>>

\* rec, of len bytes, goes into slot s, and s into its RID.
InsertRecord(len, rec, s) ==
  /\ ~NoRoom(len)
  /\ SlotFor(s)
  /\ freeSpace' = freeSpace - SpaceTaken(s, len)
  /\ slotCnt' = IF s = slotCnt THEN slotCnt + 1 ELSE slotCnt
  /\ slot' = [t \in 0..(slotCnt' - 1) |->
                IF t = s THEN [offset |-> freePtr, length |-> len] ELSE slot[t]]
  /\ data' = [x \in Addresses |->
                IF freePtr <= x /\ x < freePtr + len THEN rec[x - freePtr]
                                                     ELSE data[x]]
  /\ freePtr' = freePtr + len
  /\ held' = [t \in DOMAIN held \cup {s} |-> IF t = s THEN rec ELSE held[t]]
  /\ status' = "OK"

-----------------------------------------------------------------------------
\* A record of no bytes can be inserted, but is not valid here.
Valid(s) == s \in Slots /\ slot[s].length > 0

\* data after the bytes behind the record of s have moved down over it.
Compacted(s) ==
  LET end == freePtr - slot[s].length IN
  [x \in Addresses |->
     IF slot[s].offset <= x /\ x < end THEN data[x + slot[s].length]
                                       ELSE data[x]]

\* Broken: the loop over the slots ends at s.
MovedUpTo(s, t) == t < s /\ slot[t].offset > slot[s].offset

\* The record of slot t lay behind that of s.
Moved(s, t) == slot[t].length >= 0 /\ slot[t].offset > slot[s].offset

MovedSlot(s, t) ==
  IF Moved(s, t) THEN [slot[t] EXCEPT !.offset = @ - slot[s].length]
                 ELSE slot[t]

\* Broken: only the slot of the record is given back; and some slot is given
\* back for every record.
LastSlotOnly(s, n) == n = IF s = slotCnt - 1 THEN s ELSE slotCnt

AlwaysOneLess(s, n) == n = slotCnt - 1

\* n slots are left once s is free: those at the end go with it.
SlotsLeft(s, n) ==
  IF s # slotCnt - 1 THEN n = slotCnt
  ELSE /\ n \in 0..s
       /\ n # 0 => slot[n - 1].length # Free
       /\ \A t \in n..(s - 1) : slot[t].length = Free

DeleteInvalid(s) ==
  /\ ~Valid(s)
  /\ status' = "INVALIDSLOTNO"
  /\ UNCHANGED <<page, held>>

DeleteRecord(s, n) ==
  /\ Valid(s)
  /\ SlotsLeft(s, n)
  /\ data' = Compacted(s)
  /\ slotCnt' = n
  /\ slot' = [t \in 0..(n - 1) |->
                IF t = s THEN [offset |-> 0, length |-> Free]
                         ELSE MovedSlot(s, t)]
  /\ freePtr' = freePtr - slot[s].length
  /\ freeSpace' = freeSpace + slot[s].length + SlotSize * (slotCnt - n)
  /\ held' = [t \in DOMAIN held \ {s} |-> held[t]]
  /\ status' = "OK"

\* A client asks for a record of any length, and to delete any slot.
Next ==
  \/ \E len \in 0..DataSize :
       \/ InsertNoSpace(len)
       \/ \E rec \in RecordsOf(len), s \in 0..slotCnt : InsertRecord(len, rec, s)
  \/ \E s \in 0..slotCnt : \/ DeleteInvalid(s)
                           \/ \E n \in 0..slotCnt : DeleteRecord(s, n)

Spec == Init /\ [][Next]_vars

-----------------------------------------------------------------------------
\* getRecord of a valid slot.
GetRecord(s) ==
  [x \in 0..(slot[s].length - 1) |-> data[slot[s].offset + x]]

\* nextRecord from slot s answers t, or ENDOFPAGE; from -1, firstRecord.
EndOfPage == -1

IsNext(s, t) ==
  IF t = EndOfPage
    THEN \A u \in Slots : u > s => ~InUse(u)
    ELSE /\ t > s /\ InUse(t)
         /\ \A u \in (s + 1)..(t - 1) : ~InUse(u)

-----------------------------------------------------------------------------
TypeOK ==
  /\ data \in [Addresses -> Byte]
  /\ slotCnt \in Nat
  /\ slot \in [Slots -> [offset : Nat, length : Nat \cup {Free}]]
  /\ freePtr \in 0..DataSize
  /\ freeSpace \in 0..DataSize
  /\ status \in {"OK", "NOSPACE", "INVALIDSLOTNO"}

\* Every record that was inserted and not deleted is found unchanged under its
\* RID, whatever was inserted, deleted and moved since; and no other is found.
RecordsKept ==
  /\ DOMAIN held = {s \in Slots : InUse(s)}
  /\ \A s \in DOMAIN held : GetRecord(s) = held[s]

\* freeSpace is what is left between the records and the slots: the slot array
\* (whose first slot lies behind the data area) never grows into a record, and
\* the space of what was deleted is not lost.
SpaceAccounted ==
  /\ freeSpace = DataSize - freePtr - SlotSize * slotCnt
  /\ \A x \in 0..(freePtr - 1) : \E s \in Slots :
       InUse(s) /\ slot[s].offset <= x /\ x < slot[s].offset + slot[s].length

\* A page whose records are all deleted is as good as new: its free slots are
\* gone and the largest record fits again.
EmptyIsWhole == IsNext(-1, EndOfPage) => freeSpace = DataSize

\* A scan may delete the record it is at, and another scan may stand anywhere on
\* the page, behind the slots that disappear too: the next record of each is
\* the one it would have been, or the one after it if that was deleted.
DeleteKeepsScan ==
  [][\A s \in Slots, n \in 0..slotCnt : DeleteRecord(s, n) =>
       \A t \in -1..slotCnt, u \in -1..slotCnt :
         IsNext(t, u) => IF u # s THEN IsNext(t, u)'
                         ELSE \A w \in -1..slotCnt :
                                IsNext(s, w) => IsNext(t, w)']_vars
=============================================================================
