------------------------------ MODULE HeapFile ------------------------------
(***************************************************************************)
(* A heap file and the objects that are open on it (classes HeapFile,      *)
(* HeapFileScan, InsertFileScan, heapfile.C of P6).  The file is a header  *)
(* page and a chain of data pages; every object keeps the header and at    *)
(* most one data page pinned.                                              *)
(*                                                                         *)
(* Pages are what the module Page specifies, without the bytes: which slot *)
(* holds which record, and the free space.  The buffer pool is what        *)
(* PageStore promises: a page has one content, a page that is pinned can   *)
(* be read, and any other call may fail.                                   *)
(*                                                                         *)
(* What the code leaves to its callers, all of which are in this program,  *)
(* are guards: one InsertFileScan to a file at a time; startScan right     *)
(* after the constructor, here with the same filter for all scans; a mark  *)
(* is set on a page; a scan deletes or changes the record that scanNext    *)
(* has just given it; only a plain HeapFile reads by RID; and a scan or    *)
(* reader one of whose calls has failed is closed.                         *)
(***************************************************************************)
EXTENDS Integers, FiniteSets

CONSTANTS
  Clients,   \* who can have an object open
  Uses,      \* Uses[c]: the kinds of object c opens,
  Markers,   \* and who marks and resets its scans (bounds)
  Records,   \* [len, hit]: the length, and whether the filter lets it pass
  DataSize,  \* PAGESIZE - DPFIXED
  SlotSize,
  MaxPage    \* the pages the file can have, header included

ASSUME UsesAssumption ==
  /\ Uses \in [Clients -> SUBSET {"scan", "insert", "reader"}]
  /\ Markers \subseteq Clients

ASSUME RecordsAssumption ==
  Records \subseteq [len : Nat \ {0}, hit : BOOLEAN]

ASSUME SizesAssumption ==
  /\ DataSize \in Nat
  /\ SlotSize \in Nat \ {0}
  /\ MaxPage \in Nat /\ MaxPage > 1

Pages == 1..MaxPage
Header == 1
DataPages == Pages \ {Header}

Nil == [nil |-> TRUE]                 \* no page, no object, no mark, no scan
ASSUME ClientsAssumption == IsFiniteSet(Clients) /\ Nil \notin Clients

Free == [len |-> -1, hit |-> FALSE]   \* what a slot not in use holds
NoSlot == -1                          \* that of NULLRID
Null == 0                             \* curPage == NULL
Stale == -1                           \* curPage leads to no page it has pinned

VARIABLES
  file,       \* file[p]: the data page p, Nil if it is not in the file
  hdr,        \* the header page
  obj,        \* obj[c]: the object c has open
  pins,       \* pins[p]: the pins of page p
  running,    \* the scan inside scanNext, and whether it is new on its page
  undefined,  \* the program has followed a pointer that leads astray
  changed,    \* history: the pages changed since they were last unpinned dirty
  due,        \* history: what scan c has yet to find of the records that ...
  dueMark,    \* ... were in the file when it began; and at its mark
  stray,      \* history: a failed read has left some curPage stale
  refused     \* history: the deletion of a record has been refused

vars == <<file, hdr, obj, pins, running, undefined, changed, due, dueMark,
          stray, refused>>
content == <<file, hdr>>
history == <<due, dueMark, stray, refused>>

NewPage == [slot |-> [s \in {} |-> Free], cnt |-> 0, free |-> DataSize,
            next |-> -1]

Idle == [by |-> Nil, fresh |-> FALSE]

\* What createHeapFile leaves behind.
Init ==
  /\ file = [p \in DataPages |-> IF p = 2 THEN NewPage ELSE Nil]
  /\ hdr = [firstPage |-> 2, lastPage |-> 2, pageCnt |-> 1, recCnt |-> 0]
  /\ obj = [c \in Clients |-> Nil]
  /\ pins = [p \in Pages |-> 0]
  /\ running = Idle
  /\ undefined = FALSE
  /\ changed = {}
  /\ due = [c \in Clients |-> {}]
  /\ dueMark = [c \in Clients |-> {}]
  /\ stray = FALSE
  /\ refused = FALSE

-----------------------------------------------------------------------------
\* The records in use, by RID, and those that matchRec lets pass.
Used == {p \in DataPages : file[p] # Nil}
LiveOn(p) == {s \in DOMAIN file[p].slot : file[p].slot[s] # Free}
Rids == UNION {{<<p, s>> : s \in LiveOn(p)} : p \in Used}
Wanted == {r \in Rids : file[r[1]].slot[r[2]].hit}

\* What Page::insertRecord makes of page g with a record in slot s, and
\* Page::deleteRecord of slot s when n slots are left.
Fits(g, r) == r.len + SlotSize <= g.free

\* Broken: the slot found is not tested for a record.
SlotBefore(g, s) == s \in 0..g.cnt /\ \A t \in 0..(s - 1) : g.slot[t] # Free

SlotFor(g, s) ==
  /\ s \in 0..g.cnt
  /\ s # g.cnt => g.slot[s] = Free
  /\ \A t \in 0..(s - 1) : g.slot[t] # Free

Inserted(g, r, s) ==
  LET n == IF s = g.cnt THEN s + 1 ELSE g.cnt IN
  [slot |-> [t \in 0..(n - 1) |-> IF t = s THEN r ELSE g.slot[t]],
   cnt  |-> n,
   free |-> g.free - r.len - SlotSize * (n - g.cnt),
   next |-> g.next]

SlotsLeft(g, s, n) ==
  IF s # g.cnt - 1 THEN n = g.cnt
  ELSE /\ n \in 0..s
       /\ n # 0 => g.slot[n - 1] # Free
       /\ \A t \in n..(s - 1) : g.slot[t] = Free

Deleted(g, s, n) ==
  [slot |-> [t \in 0..(n - 1) |-> IF t = s THEN Free ELSE g.slot[t]],
   cnt  |-> n,
   free |-> g.free + g.slot[s].len + SlotSize * (g.cnt - n),
   next |-> g.next]

-----------------------------------------------------------------------------
\* BufMgr::readPage may fail when nobody has the page pinned; unPinPage does.
NotPinned(p) == p \in Pages => pins[p] = 0

UnPinned(p) == IF NotPinned(p) THEN pins ELSE [pins EXCEPT ![p] = @ - 1]

Saved(p, dirty) == IF dirty THEN changed \ {p} ELSE changed

\* c can make a call of an object of this kind that follows its pointer.
Has(c, kind) ==
  /\ running = Idle
  /\ obj[c] # Nil
  /\ obj[c].kind = kind
  /\ obj[c].curPage # Stale
  /\ obj[c].told # "failed"

Object(kind, p, no) ==
  [kind |-> kind, curPage |-> p, curPageNo |-> no, curRec |-> NoSlot,
   curDirty |-> FALSE, hdrDirty |-> FALSE, mark |-> Nil, told |-> "nothing"]

CanOpen(c, kind) == running = Idle /\ obj[c] = Nil /\ kind \in Uses[c]

(***************************************************************************)
(* The constructors: they read the header page, and the page p.  If p      *)
(* cannot be read curPage stays what it was, in memory that is not         *)
(* initialized, and the caller is told OK.                                 *)
(***************************************************************************)
Open(c, kind, p) ==
  /\ CanOpen(c, kind)
  /\ \/ /\ obj' = [obj EXCEPT ![c] = Object(kind, p, p)]
        /\ pins' = [pins EXCEPT ![Header] = @ + 1, ![p] = @ + 1]
        /\ UNCHANGED stray
     \/ /\ NotPinned(p)
        /\ obj' = [obj EXCEPT ![c] = Object(kind, Stale, p)]
        /\ pins' = [pins EXCEPT ![Header] = @ + 1]
        /\ stray' = TRUE
  /\ due' = [due EXCEPT ![c] = IF kind = "scan" THEN Wanted ELSE {}]
  /\ UNCHANGED <<content, running, changed, dueMark, refused>>

OpenScan(c) == Open(c, "scan", hdr.firstPage)
OpenReader(c) == Open(c, "reader", hdr.firstPage)

\* An InsertFileScan leaves the first page for the last.
OpenInsert(c) ==
  /\ \A d \in Clients : obj[d] # Nil => obj[d].kind # "insert"
  /\ Open(c, "insert", hdr.lastPage)

\* An InsertFileScan always says that its page is dirty.
SaysDirty(o) == o.kind = "insert" \/ o.curDirty

\* Broken: the destructor leaves the page pinned.
LeftPinned(o) == Null

\* The page an object unpins when it is done, if it has any.
Left(o) == IF o.curPage = Null THEN Null ELSE o.curPageNo

\* The destructors.
Close(c) ==
  LET o == obj[c] IN
  /\ running = Idle
  /\ obj[c] # Nil
  /\ pins' = [UnPinned(Left(o)) EXCEPT ![Header] = @ - 1]
  /\ changed' = Saved(Left(o), SaysDirty(o))
                  \ (IF o.hdrDirty THEN {Header} ELSE {})
  /\ obj' = [obj EXCEPT ![c] = Nil]
  /\ due' = [due EXCEPT ![c] = {}]
  /\ dueMark' = [dueMark EXCEPT ![c] = {}]
  /\ UNCHANGED <<content, running, stray, refused>>

-----------------------------------------------------------------------------
\* Where resetScan puts the scan.
MarkedRec(o) == o.mark.rec

EndScan(c) ==
  LET o == obj[c] IN
  /\ Has(c, "scan")
  /\ o.curPage # Null    \* otherwise it does nothing
  /\ pins' = UnPinned(o.curPageNo)
  /\ changed' = Saved(o.curPageNo, o.curDirty)
  /\ obj' = [obj EXCEPT ![c].curPage = Null, ![c].curPageNo = 0,
               ![c].curDirty = FALSE,
               ![c].told = IF NotPinned(o.curPageNo) THEN "failed"
                                                     ELSE "nothing"]
  /\ UNCHANGED <<content, running, history>>

MarkScan(c) ==
  /\ c \in Markers
  /\ Has(c, "scan")
  /\ obj[c].curPage # Null
  /\ obj' = [obj EXCEPT ![c].mark = [pageNo |-> obj[c].curPageNo,
                                     rec |-> obj[c].curRec]]
  /\ dueMark' = [dueMark EXCEPT ![c] = due[c]]
  /\ UNCHANGED <<content, pins, running, changed, due, stray, refused>>

\* resetScan to a mark on this page: the record is all that changes.
ResetHere(c) ==
  /\ Has(c, "scan")
  /\ obj[c].mark # Nil /\ obj[c].mark.pageNo = obj[c].curPageNo
  /\ obj' = [obj EXCEPT ![c].curRec = MarkedRec(obj[c]), ![c].told = "nothing"]
  /\ due' = [due EXCEPT ![c] = dueMark[c]]
  /\ UNCHANGED <<content, pins, running, changed, dueMark, stray, refused>>

\* ... to a mark on another: this page, if there is one, is unpinned and the
\* other read.
MustReset(c) ==
  /\ Has(c, "scan")
  /\ obj[c].mark # Nil /\ obj[c].mark.pageNo # obj[c].curPageNo

ResetUnPinFails(c) ==
  /\ MustReset(c)
  /\ obj[c].curPage # Null /\ NotPinned(obj[c].curPageNo)
  /\ obj' = [obj EXCEPT ![c].told = "failed"]
  /\ UNCHANGED <<content, pins, running, changed, history>>

ResetAway(c) ==
  LET o == obj[c]
      p == o.mark.pageNo IN
  /\ MustReset(c)
  /\ o.curPage # Null => ~NotPinned(o.curPageNo)
  /\ changed' = Saved(Left(o), o.curDirty)
  /\ due' = [due EXCEPT ![c] = dueMark[c]]
  /\ \/ /\ pins' = [UnPinned(Left(o)) EXCEPT ![p] = @ + 1]
        /\ obj' = [obj EXCEPT ![c].curPage = p, ![c].curPageNo = p,
                     ![c].curRec = MarkedRec(o), ![c].curDirty = FALSE,
                     ![c].told = "nothing"]
        /\ UNCHANGED stray
     \/ /\ NotPinned(p)
        /\ pins' = UnPinned(Left(o))
        /\ obj' = [obj EXCEPT
                     ![c].curPage = IF o.curPage = Null THEN Null ELSE Stale,
                     ![c].curPageNo = p, ![c].curRec = MarkedRec(o),
                     ![c].told = "failed"]
        /\ stray' = (stray \/ o.curPage # Null)
  /\ UNCHANGED <<content, running, dueMark, refused>>

-----------------------------------------------------------------------------
(***************************************************************************)
(* scanNext, one page a step; nobody else runs before it returns.  A scan  *)
(* that is not on a page begins (again) with the first one, and takes it   *)
(* for the end of the file if it has no records.                           *)
(***************************************************************************)
ScanStaysAtEnd(c) ==
  /\ Has(c, "scan")
  /\ obj[c].curPageNo < 0
  /\ obj' = [obj EXCEPT ![c].told = "early"]
  /\ UNCHANGED <<content, pins, running, changed, history>>

ScanBegins(c) ==
  LET p == hdr.firstPage IN
  /\ Has(c, "scan")
  /\ obj[c].curPageNo >= 0 /\ obj[c].curPage = Null
  /\ due' = [due EXCEPT ![c] = Wanted]
  /\ \/ /\ NotPinned(p)
        /\ obj' = [obj EXCEPT ![c].curPageNo = p, ![c].curRec = NoSlot,
                     ![c].curDirty = FALSE, ![c].told = "failed"]
        /\ UNCHANGED <<pins, running>>
     \/ /\ LiveOn(p) = {}
        /\ obj' = [obj EXCEPT ![c].curPageNo = -1, ![c].curRec = NoSlot,
                     ![c].curDirty = FALSE, ![c].told = "early"]
        /\ UNCHANGED <<pins, running>>
     \/ /\ LiveOn(p) # {}
        /\ obj' = [obj EXCEPT ![c].curPage = p, ![c].curPageNo = p,
                     ![c].curRec = NoSlot, ![c].curDirty = FALSE]
        /\ pins' = [pins EXCEPT ![p] = @ + 1]
        /\ running' = [by |-> c, fresh |-> TRUE]
  /\ UNCHANGED <<content, changed, dueMark, stray, refused>>

ScanGoesOn(c) ==
  /\ Has(c, "scan")
  /\ obj[c].curPageNo >= 0 /\ obj[c].curPage # Null
  /\ running' = [by |-> c, fresh |-> FALSE]
  /\ UNCHANGED <<content, obj, pins, changed, history>>

\* Broken: curRec goes for a new page too.
BehindCurRec(c) == {s \in LiveOn(obj[c].curPage) : s > obj[c].curRec}

\* The records of the page that lie ahead: all of them if the scan is new on it.
Ahead(c) ==
  {s \in LiveOn(obj[c].curPage) : running.fresh \/ s > obj[c].curRec}

Passes(c, s) == file[obj[c].curPage].slot[s].hit

ScanFinds(c, s) ==
  /\ running.by = c
  /\ s \in Ahead(c) /\ Passes(c, s)
  /\ \A t \in Ahead(c) : t < s => ~Passes(c, t)
  /\ obj' = [obj EXCEPT ![c].curRec = s, ![c].told = "record"]
  /\ due' = [due EXCEPT ![c] = @ \ {<<obj[c].curPage, s>>}]
  /\ running' = Idle
  /\ UNCHANGED <<content, pins, changed, dueMark, stray, refused>>

\* No record of the page passes: curRec goes to s, the last of them, if any.
PageDone(c, s) ==
  /\ running.by = c
  /\ \A t \in Ahead(c) : ~Passes(c, t)
  /\ IF Ahead(c) = {} THEN s = obj[c].curRec
     ELSE s \in Ahead(c) /\ \A t \in Ahead(c) : t <= s

ScanEnds(c, s) ==
  /\ PageDone(c, s)
  /\ file[obj[c].curPage].next = -1
  /\ obj' = [obj EXCEPT ![c].curRec = s, ![c].told = "eof"]
  /\ running' = Idle
  /\ UNCHANGED <<content, pins, changed, history>>

\* Broken: the page is unpinned clean.
TurnsClean(c) == changed

SavedByTurn(c) == Saved(obj[c].curPage, obj[c].curDirty)

ScanTurns(c, s) ==
  LET p == obj[c].curPage
      q == file[p].next IN
  /\ PageDone(c, s)
  /\ q # -1
  /\ ~NotPinned(p)
  /\ changed' = SavedByTurn(c)
  /\ \/ /\ pins' = [UnPinned(p) EXCEPT ![q] = @ + 1]
        /\ obj' = [obj EXCEPT ![c].curPage = q, ![c].curPageNo = q,
                     ![c].curRec = s, ![c].curDirty = FALSE]
        /\ running' = [by |-> c, fresh |-> TRUE]
     \/ /\ NotPinned(q)
        /\ pins' = UnPinned(p)
        /\ obj' = [obj EXCEPT ![c].curPage = Null, ![c].curPageNo = q,
                     ![c].curRec = s, ![c].curDirty = FALSE,
                     ![c].told = "failed"]
        /\ running' = Idle
  /\ UNCHANGED <<content, history>>

ScanUnPinFails(c, s) ==
  /\ PageDone(c, s)
  /\ file[obj[c].curPage].next # -1
  /\ NotPinned(obj[c].curPage)
  /\ obj' = [obj EXCEPT ![c].curPage = Null, ![c].curPageNo = -1,
               ![c].curRec = s, ![c].told = "failed"]
  /\ running' = Idle
  /\ UNCHANGED <<content, pins, changed, history>>

-----------------------------------------------------------------------------
\* deleteRecord counts one record less whatever the page answers.
Without(d, r) == [c \in Clients |-> d[c] \ {r}]

DeleteRecord(c, n) ==
  LET p == obj[c].curPage
      s == obj[c].curRec IN
  /\ Has(c, "scan")
  /\ obj[c].told = "record"
  /\ obj' = [obj EXCEPT ![c].curDirty = TRUE, ![c].hdrDirty = TRUE,
               ![c].told = "nothing"]
  /\ hdr' = [hdr EXCEPT !.recCnt = @ - 1]
  /\ \/ /\ s \in LiveOn(p)
        /\ SlotsLeft(file[p], s, n)
        /\ file' = [file EXCEPT ![p] = Deleted(@, s, n)]
        /\ changed' = changed \cup {p, Header}
        /\ due' = Without(due, <<p, s>>)
        /\ dueMark' = Without(dueMark, <<p, s>>)
        /\ UNCHANGED refused
     \/ /\ s \notin LiveOn(p)
        /\ ~refused   \* a bound: recCnt has no other
        /\ refused' = TRUE
        /\ changed' = changed \cup {Header}
        /\ UNCHANGED <<file, due, dueMark>>
  /\ UNCHANGED <<pins, running, stray>>

\* The client changes the record it was given, in place, and says so.
MarkDirty(c) ==
  /\ Has(c, "scan")
  /\ obj[c].told = "record"
  /\ obj' = [obj EXCEPT ![c].curDirty = TRUE]
  /\ changed' = changed \cup {obj[c].curPage}
  /\ UNCHANGED <<content, pins, running, history>>

\* HeapFile::getRecord of a plain HeapFile, by a RID: slot s of page p.
GetHere(c, p, s) ==
  /\ Has(c, "reader")
  /\ obj[c].curPage = p
  /\ obj' = [obj EXCEPT ![c].curRec = s]
  /\ UNCHANGED <<content, pins, running, changed, history>>

GetUnPinFails(c, p) ==
  /\ Has(c, "reader")
  /\ obj[c].curPage # p
  /\ NotPinned(obj[c].curPageNo)
  /\ obj' = [obj EXCEPT ![c].curPage = Null, ![c].curPageNo = 0,
               ![c].curDirty = FALSE, ![c].told = "failed"]
  /\ UNCHANGED <<content, pins, running, changed, history>>

GetAway(c, p, s) ==
  LET q == obj[c].curPage IN
  /\ Has(c, "reader")
  /\ q # p
  /\ ~NotPinned(q)
  /\ changed' = Saved(q, obj[c].curDirty)
  /\ \/ /\ pins' = [UnPinned(q) EXCEPT ![p] = @ + 1]
        /\ obj' = [obj EXCEPT ![c].curPage = p, ![c].curPageNo = p,
                     ![c].curRec = s, ![c].curDirty = FALSE]
        /\ UNCHANGED stray
     \/ /\ NotPinned(p)
        /\ pins' = UnPinned(q)
        /\ obj' = [obj EXCEPT ![c].curPage = Stale, ![c].told = "failed"]
        /\ stray' = TRUE
  /\ UNCHANGED <<content, running, due, dueMark, refused>>

-----------------------------------------------------------------------------
\* insertRecord.  It always finds a current page: only a failure takes it away.
\* A record longer than DataSize changes nothing.
InsertHere(c, r, s) ==
  LET p == obj[c].curPage IN
  /\ Has(c, "insert")
  /\ Fits(file[p], r)
  /\ SlotFor(file[p], s)
  /\ file' = [file EXCEPT ![p] = Inserted(@, r, s)]
  /\ hdr' = [hdr EXCEPT !.recCnt = @ + 1]
  /\ obj' = [obj EXCEPT ![c].curDirty = TRUE, ![c].hdrDirty = TRUE]
  /\ changed' = changed \cup {p, Header}
  /\ UNCHANGED <<pins, running, history>>

\* The page is full and allocPage, unless it fails, gives the new page q.
\* (Nobody disposes of a page of a heap file, so that q lies behind all others;
\* a page that allocPage has lost is skipped.)
NeedsPage(c, r, q) ==
  /\ Has(c, "insert")
  /\ r.len <= DataSize
  /\ ~Fits(file[obj[c].curPage], r)
  /\ q \in DataPages
  /\ \A p \in Used : p < q

\* Broken: the old page is not linked to the new one.
NotLinked(p, q, g) == [file EXCEPT ![q] = g]

Linked(p, q, g) == [file EXCEPT ![p].next = q, ![q] = g]

\* The record goes to the new page, if it fits on any page.
InsertNewPage(c, r, q) ==
  LET p == obj[c].curPage
      fits == Fits(NewPage, r)
      g == IF fits THEN Inserted(NewPage, r, 0) ELSE NewPage IN
  /\ NeedsPage(c, r, q)
  /\ ~NotPinned(p)
  /\ file' = Linked(p, q, g)
  /\ hdr' = [hdr EXCEPT !.lastPage = q, !.pageCnt = @ + 1,
                        !.recCnt = IF fits THEN @ + 1 ELSE @]
  /\ obj' = [obj EXCEPT ![c].curPage = q, ![c].curPageNo = q,
               ![c].curDirty = @ \/ fits, ![c].hdrDirty = TRUE]
  /\ pins' = [UnPinned(p) EXCEPT ![q] = 1]
  /\ changed' = (changed \ {p}) \cup {q, Header}
  /\ UNCHANGED <<running, history>>

InsertUnPinFails(c, r, q) ==
  LET p == obj[c].curPage IN
  /\ NeedsPage(c, r, q)
  /\ NotPinned(p)
  /\ file' = Linked(p, q, NewPage)
  /\ hdr' = [hdr EXCEPT !.lastPage = q, !.pageCnt = @ + 1]
  /\ obj' = [obj EXCEPT ![c].curPage = Null, ![c].curPageNo = -1,
               ![c].curDirty = FALSE, ![c].hdrDirty = TRUE,
               ![c].told = "failed"]
  /\ changed' = changed \cup {p, Header}
  /\ UNCHANGED <<pins, running, history>>

-----------------------------------------------------------------------------
ScanNext(c) ==
  \/ ScanStaysAtEnd(c) \/ ScanBegins(c) \/ ScanGoesOn(c)
  \/ /\ running.by = c
     /\ \E s \in Ahead(c) \cup {obj[c].curRec} :
          ScanFinds(c, s) \/ ScanEnds(c, s) \/ ScanTurns(c, s)
            \/ ScanUnPinFails(c, s)

ResetScan(c) == ResetHere(c) \/ ResetUnPinFails(c) \/ ResetAway(c)

Delete(c) ==
  /\ Has(c, "scan") /\ obj[c].told = "record"
  /\ \E n \in 0..file[obj[c].curPage].cnt : DeleteRecord(c, n)

InsertRecord(c) ==
  /\ Has(c, "insert")
  /\ \E r \in Records :
       \/ \E s \in 0..file[obj[c].curPage].cnt : InsertHere(c, r, s)
       \/ \E q \in DataPages : InsertNewPage(c, r, q) \/ InsertUnPinFails(c, r, q)

\* The RIDs a client can have seen are on pages of the file.
GetRecord(c) ==
  \E p \in Used : \E s \in 0..file[p].cnt :
    GetHere(c, p, s) \/ GetUnPinFails(c, p) \/ GetAway(c, p, s)

\* Once a curPage is stale only the destructors are followed (a bound).
Step ==
  \E c \in Clients :
    \/ Close(c)
    \/ /\ ~stray
       /\ \/ OpenScan(c) \/ OpenReader(c) \/ OpenInsert(c)
          \/ EndScan(c) \/ MarkScan(c) \/ ResetScan(c)
          \/ ScanNext(c) \/ Delete(c) \/ MarkDirty(c)
          \/ GetRecord(c) \/ InsertRecord(c)

(***************************************************************************)
(* What happens next is undefined, and not specified: a constructor uses   *)
(* the header page it could not read; a stale pointer is followed; the     *)
(* pool takes the frame of a page that an object is on, because its pin is *)
(* gone.                                                                   *)
(***************************************************************************)
NoHeader(c) == (\E kind \in Uses[c] : CanOpen(c, kind)) /\ NotPinned(Header)

FollowsStale(c) ==
  /\ running = Idle
  /\ obj[c] # Nil
  /\ obj[c].curPage = Stale
  /\ obj[c].told # "failed"

Evicted(c) ==
  /\ obj[c] # Nil
  /\ obj[c].curPage \in DataPages
  /\ NotPinned(obj[c].curPage)

GoesAstray ==
  /\ \E c \in Clients : NoHeader(c) \/ FollowsStale(c) \/ Evicted(c)
  /\ undefined' = TRUE
  /\ UNCHANGED <<content, obj, pins, running, changed, history>>

Next ==
  /\ ~undefined
  /\ \/ Step /\ UNCHANGED undefined
     \/ GoesAstray

Spec == Init /\ [][Next]_vars

-----------------------------------------------------------------------------
IsPage(g) ==
  /\ g = [slot |-> g.slot, cnt |-> g.cnt, free |-> g.free, next |-> g.next]
  /\ g.cnt \in Nat
  /\ g.slot \in [0..(g.cnt - 1) -> Records \cup {Free}]
  /\ g.free \in Nat
  /\ g.next \in DataPages \cup {-1}

PageNos == DataPages \cup {0, -1}
SlotNos == Nat \cup {NoSlot}

Objects ==
  [kind : {"scan", "insert", "reader"},
   curPage : DataPages \cup {Null, Stale}, curPageNo : PageNos,
   curRec : SlotNos, curDirty : BOOLEAN, hdrDirty : BOOLEAN,
   mark : [pageNo : DataPages, rec : SlotNos] \cup {Nil},
   told : {"nothing", "record", "eof", "early", "failed"}]

TypeOK ==
  /\ file = [p \in DataPages |-> file[p]]
  /\ \A p \in Used : IsPage(file[p])
  /\ hdr \in [firstPage : DataPages, lastPage : DataPages, pageCnt : Nat,
              recCnt : Int]
  /\ obj \in [Clients -> Objects \cup {Nil}]
  /\ pins \in [Pages -> Nat]
  /\ running \in [by : Clients \cup {Nil}, fresh : BOOLEAN]
  /\ undefined \in BOOLEAN
  /\ changed \subseteq Pages
  /\ due \in [Clients -> SUBSET Wanted]
  /\ dueMark \in [Clients -> SUBSET Wanted]
  /\ stray \in BOOLEAN
  /\ refused \in BOOLEAN

\* The links lead from the first page over every page of the file to the last,
\* where they end, and the header counts the pages.
ChainSound ==
  /\ hdr.firstPage \in Used /\ hdr.lastPage \in Used
  /\ hdr.pageCnt = Cardinality(Used)
  /\ \A p \in Used :
       /\ hdr.firstPage <= p /\ p <= hdr.lastPage
       /\ p = hdr.lastPage => file[p].next = -1
       /\ p # hdr.lastPage => /\ file[p].next \in Used
                              /\ file[p].next > p
                              /\ \A q \in Used : q <= p \/ q >= file[p].next

\* A scan that comes to the end of the file has found every record that passes
\* its filter and was there all the time since it began (or since the position
\* it was reset to), whatever was inserted and deleted meanwhile, by itself too.
\* ("early" is another matter: a scan that endScan has taken off its page and
\* that is used again stops at a first page without records.)
ScanFindsAll ==
  \A c \in Clients :
    obj[c] # Nil => (obj[c].told = "eof" => due[c] = {})

OpenOn(p) == {c \in Clients : obj[c] # Nil /\ (p = Header \/ obj[c].curPage = p)}

\* A page has one pin for each object that is on it: no object loses the page
\* under it, and none leaves a pin behind.  (Until a read has failed where the
\* code keeps the old pointer.)
PinsKept == ~stray => \A p \in Pages : pins[p] = Cardinality(OpenOn(p))

\* Whoever changes a page, somebody on it will unpin it as dirty.
ChangesSaved ==
  ~stray => \A p \in changed : \E c \in OpenOn(p) :
              IF p = Header THEN obj[c].hdrDirty ELSE SaysDirty(obj[c])

\* recCnt is the number of records, as long as no scan has deleted a record that
\* another had deleted before.
CountKept == ~refused => hdr.recCnt = Cardinality(Rids)
=============================================================================
