--------------------------- MODULE HeapFileProofs ---------------------------
(***************************************************************************)
(* Proofs about a heap file, for any clients, records and sizes.           *)
(***************************************************************************)
EXTENDS HeapFile, FiniteSetTheorems, TLAPS

\* Every open object has the header page pinned.
OpenObjects == {c \in Clients : obj[c] # Nil}
HeaderPinned == pins[Header] = Cardinality(OpenObjects)

\* Objects are on pages of the file, where they say; an InsertFileScan that has
\* not failed is on the last.
GoodObject(c) ==
  obj[c] # Nil =>
    /\ obj[c].curPage \in Used \cup {Null, Stale}
    /\ obj[c].curPage \in Used => obj[c].curPageNo = obj[c].curPage
    /\ obj[c].mark # Nil => obj[c].mark.pageNo \in Used
    /\ obj[c].told \in {"record", "eof"} =>
         obj[c].kind = "scan" /\ obj[c].curPage \in Used
    /\ obj[c].kind = "insert" =>
         /\ obj[c].curPage \in {hdr.lastPage, Null, Stale}
         /\ obj[c].curPage = Null => obj[c].told = "failed"

OneInserter ==
  \A c, d \in Clients :
    (/\ obj[c] # Nil /\ obj[c].kind = "insert"
     /\ obj[d] # Nil /\ obj[d].kind = "insert") => c = d

\* The scan that is running is on a page.
GoodRunning ==
  /\ running.by = Nil => running = Idle
  /\ running.by # Nil =>
       /\ obj[running.by] # Nil
       /\ obj[running.by].kind = "scan"
       /\ obj[running.by].curPage \in Used

\* Record r lies behind slot s of page p.
Behind(r, p, s) == r[1] > p \/ (r[1] = p /\ r[2] > s)

Fresh(c) == running.by = c /\ running.fresh

\* What a scan has yet to find lies behind it; and behind the mark what it had
\* yet to find there.
GoodScan(c) ==
  obj[c] # Nil =>
    /\ (obj[c].kind = "scan" /\ obj[c].curPage \in Used) =>
         \A r \in due[c] : \/ Behind(r, obj[c].curPage, obj[c].curRec)
                           \/ Fresh(c) /\ r[1] = obj[c].curPage
    /\ obj[c].mark # Nil =>
         \A r \in dueMark[c] : Behind(r, obj[c].mark.pageNo, obj[c].mark.rec)
    /\ obj[c].told = "eof" => due[c] = {}

IInv ==
  /\ TypeOK
  /\ ChainSound
  /\ HeaderPinned
  /\ OneInserter
  /\ GoodRunning
  /\ \A c \in Clients : GoodObject(c) /\ GoodScan(c)

-----------------------------------------------------------------------------
LEMMA Constants ==
  /\ MaxPage \in Nat /\ MaxPage > 1 /\ DataSize \in Nat
  /\ SlotSize \in Nat /\ SlotSize > 0
  /\ Header \in Pages /\ Header = 1
  /\ DataPages = 2..MaxPage
  /\ Null \notin Pages /\ Stale \notin Pages /\ Null # Stale
BY SizesAssumption DEF Pages, DataPages, Header, Null, Stale

\* No page, no object and no mark is taken for none.
LEMMA NilIsNothing ==
  /\ Nil \notin Objects
  /\ Nil \notin [pageNo : DataPages, rec : SlotNos]
  /\ \A g : IsPage(g) => g # Nil
BY DEF Nil, Objects, IsPage

LEMMA FreeIsNoRecord == Free \notin Records
BY RecordsAssumption DEF Free

-----------------------------------------------------------------------------
\* The records of the file, one by one.
LEMMA WantedRecords ==
  \A r : r \in Wanted <=>
           \E p \in Used : \E s \in LiveOn(p) :
             r = <<p, s>> /\ file[p].slot[s].hit
BY DEF Wanted, Rids

LEMMA SlotNumbers ==
  ASSUME TypeOK, NEW p \in Used
  PROVE  /\ IsPage(file[p])
         /\ DOMAIN file[p].slot = 0..(file[p].cnt - 1)
         /\ LiveOn(p) \subseteq 0..(file[p].cnt - 1)
         /\ LiveOn(p) \subseteq Nat
<1>1. IsPage(file[p])
  BY DEF TypeOK
<1>2. /\ file[p].slot \in [0..(file[p].cnt - 1) -> Records \cup {Free}]
      /\ file[p].cnt \in Nat
  BY <1>1 DEF IsPage
<1>3. DOMAIN file[p].slot = 0..(file[p].cnt - 1)
  BY <1>2
<1> QED
  BY <1>1, <1>2, <1>3 DEF LiveOn

LEMMA WantedRecord ==
  ASSUME TypeOK, NEW r \in Wanted
  PROVE  /\ r[1] \in Used /\ r[1] \in DataPages /\ r[1] \in Nat
         /\ r[2] \in LiveOn(r[1]) /\ r[2] \in Nat
         /\ r = <<r[1], r[2]>>
         /\ file[r[1]].slot[r[2]].hit
<1>0. PICK p \in Used :
        \E s \in LiveOn(p) : r = <<p, s>> /\ file[p].slot[s].hit
  BY WantedRecords
<1>1. PICK s \in LiveOn(p) : r = <<p, s>> /\ file[p].slot[s].hit
  BY <1>0
<1>2. p \in DataPages /\ p \in Nat
  BY Constants DEF Used
<1>3. s \in Nat
  BY SlotNumbers
<1> QED
  BY <1>1, <1>2, <1>3

(***************************************************************************)
(* A step of c that leaves the file as it is.                              *)
(***************************************************************************)
LEMMA OwnStepKeepsIInv ==
  ASSUME IInv, NEW c \in Clients, UNCHANGED content,
         obj' = [obj EXCEPT ![c] = obj'[c]],
         obj'[c] \in Objects \cup {Nil},
         pins' \in [Pages -> Nat],
         pins'[Header] = Cardinality(OpenObjects'),
         running' \in [by : {c, Nil}, fresh : BOOLEAN],
         running.by \in {c, Nil},
         undefined' \in BOOLEAN,
         changed' \subseteq Pages,
         due' = [due EXCEPT ![c] = due'[c]], due'[c] \subseteq Wanted,
         dueMark' = [dueMark EXCEPT ![c] = dueMark'[c]],
         dueMark'[c] \subseteq Wanted,
         stray' \in BOOLEAN, refused' \in BOOLEAN,
         OneInserter', GoodRunning', GoodObject(c)', GoodScan(c)'
  PROVE  IInv'
<1>1. Used' = Used /\ Wanted' = Wanted /\ ChainSound'
  BY DEF IInv, content, Used, Wanted, Rids, LiveOn, ChainSound
<1>2. TypeOK'
  BY <1>1 DEF IInv, TypeOK, content
<1>3. ASSUME NEW d \in Clients
      PROVE  GoodObject(d)' /\ GoodScan(d)'
  <2>1. CASE d = c
    BY <2>1
  <2>2. CASE d # c
    <3>1. obj'[d] = obj[d] /\ due'[d] = due[d] /\ dueMark'[d] = dueMark[d]
      BY <2>2 DEF IInv, TypeOK
    <3>2. ~Fresh(d) /\ ~Fresh(d)'
      BY <2>2, ClientsAssumption DEF Fresh
    <3>3. GoodObject(d) /\ GoodScan(d)
      BY DEF IInv
    <3>4. GoodObject(d)'
      BY <1>1, <3>1, <3>3 DEF GoodObject, content
    <3>5. GoodScan(d)'
      BY <1>1, <3>1, <3>2, <3>3 DEF GoodScan, Behind
    <3> QED
      BY <3>4, <3>5
  <2> QED
    BY <2>1, <2>2
<1> QED
  BY <1>1, <1>2, <1>3 DEF IInv, HeaderPinned

\* A call of an open object: it stays open and what it is.
LEMMA CallKeepsIInv ==
  ASSUME IInv, NEW c \in Clients, UNCHANGED content,
         obj[c] # Nil,
         obj' = [obj EXCEPT ![c] = obj'[c]],
         obj'[c] \in Objects, obj'[c].kind = obj[c].kind,
         pins' \in [Pages -> Nat], pins'[Header] = pins[Header],
         running' \in [by : {c, Nil}, fresh : BOOLEAN],
         running.by \in {c, Nil},
         undefined' \in BOOLEAN,
         changed' \subseteq Pages,
         due' = [due EXCEPT ![c] = due'[c]], due'[c] \subseteq Wanted,
         dueMark' = [dueMark EXCEPT ![c] = dueMark'[c]],
         dueMark'[c] \subseteq Wanted,
         stray' \in BOOLEAN, refused' \in BOOLEAN,
         GoodRunning', GoodObject(c)', GoodScan(c)'
  PROVE  IInv'
<1>1. obj'[c] # Nil
  BY NilIsNothing
<1>2. OpenObjects' = OpenObjects
  BY <1>1 DEF OpenObjects, IInv, TypeOK
<1>3. OneInserter'
  BY <1>1 DEF OneInserter, IInv, TypeOK
<1>4. pins'[Header] = Cardinality(OpenObjects')
  BY <1>2 DEF IInv, HeaderPinned
<1> QED
  BY <1>3, <1>4, OwnStepKeepsIInv

\* The parts of the invariant that need no DEF.
LEMMA Typed ==
  ASSUME IInv
  PROVE  /\ TypeOK /\ ChainSound /\ GoodRunning
         /\ obj \in [Clients -> Objects \cup {Nil}]
         /\ pins \in [Pages -> Nat]
         /\ running \in [by : Clients \cup {Nil}, fresh : BOOLEAN]
         /\ changed \subseteq Pages
         /\ due \in [Clients -> SUBSET Wanted]
         /\ dueMark \in [Clients -> SUBSET Wanted]
         /\ undefined \in BOOLEAN /\ stray \in BOOLEAN /\ refused \in BOOLEAN
BY DEF IInv, TypeOK

LEMMA UnPinnedTyped ==
  ASSUME TypeOK, NEW p, p # Header
  PROVE  /\ UnPinned(p) \in [Pages -> Nat]
         /\ UnPinned(p)[Header] = pins[Header]
BY Constants DEF TypeOK, UnPinned, NotPinned

LEMMA UsedPages ==
  ASSUME TypeOK
  PROVE  /\ Used \subseteq DataPages /\ Used \subseteq Pages
         /\ Used \subseteq Nat
         /\ Null \notin Used /\ Stale \notin Used /\ Header \notin Used
         /\ 0 \notin Used /\ -1 \notin Used
BY SizesAssumption DEF Used, DataPages, Pages, Null, Stale, Header

LEMMA FileKept ==
  ASSUME TypeOK, UNCHANGED content
  PROVE  /\ Used' = Used /\ Wanted' = Wanted /\ hdr' = hdr /\ file' = file
         /\ Null \notin Used' /\ Stale \notin Used'
BY UsedPages DEF content, Used, Wanted, Rids, LiveOn

LEMMA HasObject ==
  ASSUME IInv, NEW c \in Clients, NEW kind, Has(c, kind)
  PROVE  /\ obj[c] \in Objects /\ obj[c] # Nil /\ obj[c].kind = kind
         /\ running = Idle /\ running.by = Nil /\ ~Fresh(c)
         /\ obj[c].curPage \in Used \cup {Null}
         /\ obj[c].told # "failed"
         /\ GoodObject(c) /\ GoodScan(c)
         /\ due[c] \subseteq Wanted /\ dueMark[c] \subseteq Wanted
BY ClientsAssumption
DEF IInv, TypeOK, Has, GoodObject, Idle, Fresh

-----------------------------------------------------------------------------
LEMMA EndScanKeepsIInv ==
  ASSUME IInv, NEW c \in Clients, EndScan(c), UNCHANGED undefined
  PROVE  IInv'
<1> DEFINE o == obj[c]
           n == obj'[c]
<1>1. /\ o \in Objects /\ o # Nil /\ o.kind = "scan" /\ running = Idle
      /\ o.curPage \in Used /\ o.curPageNo \in Used
      /\ GoodObject(c) /\ GoodScan(c)
  BY HasObject DEF EndScan, GoodObject
<1>2. n = [o EXCEPT !.curPage = Null, !.curPageNo = 0, !.curDirty = FALSE,
                    !.told = IF NotPinned(o.curPageNo) THEN "failed"
                                                       ELSE "nothing"]
  BY DEF EndScan, IInv, TypeOK
<1>3. /\ n \in Objects /\ n.kind = "scan" /\ n.curPage = Null
      /\ n.mark = o.mark /\ n.told \in {"failed", "nothing"}
  BY <1>1, <1>2 DEF Objects, PageNos
<1>4. pins' \in [Pages -> Nat] /\ pins'[Header] = pins[Header]
  BY <1>1, UnPinnedTyped, UsedPages DEF EndScan, IInv
<1>7. /\ UNCHANGED content /\ obj' = [obj EXCEPT ![c] = n]
      /\ UNCHANGED <<running, due, dueMark, stray, refused>>
  BY DEF EndScan, history, IInv, TypeOK
<1>5. GoodObject(c)'
  BY <1>1, <1>3, <1>7, FileKept DEF GoodObject, IInv
<1>6. GoodScan(c)'
  BY <1>1, <1>3, <1>7, FileKept DEF GoodScan, IInv
<1>8. changed' \subseteq Pages
  BY DEF EndScan, Saved, IInv, TypeOK
<1> QED
  BY <1>1, <1>3, <1>4, <1>5, <1>6, <1>7, <1>8, CallKeepsIInv
  DEF IInv, TypeOK, GoodRunning, Idle

LEMMA MarkScanKeepsIInv ==
  ASSUME IInv, NEW c \in Clients, MarkScan(c), UNCHANGED undefined
  PROVE  IInv'
<1> DEFINE o == obj[c]
           n == obj'[c]
<1>1. /\ o \in Objects /\ o # Nil /\ o.kind = "scan" /\ running = Idle
      /\ o.curPage \in Used /\ o.curPageNo = o.curPage /\ ~Fresh(c)
      /\ GoodObject(c) /\ GoodScan(c) /\ due[c] \subseteq Wanted
  BY HasObject DEF MarkScan, GoodObject
<1>2. n = [o EXCEPT !.mark = [pageNo |-> o.curPageNo, rec |-> o.curRec]]
  BY DEF MarkScan, IInv, TypeOK
<1>3. o.curPageNo \in DataPages /\ o.curRec \in SlotNos
  BY <1>1, UsedPages DEF Objects, IInv
<1>4. /\ n \in Objects /\ n.kind = "scan"
      /\ n.curPage = o.curPage /\ n.curPageNo = o.curPageNo
      /\ n.curRec = o.curRec /\ n.told = o.told
      /\ n.mark = [pageNo |-> o.curPageNo, rec |-> o.curRec]
  BY <1>1, <1>2, <1>3 DEF Objects
<1>5. /\ UNCHANGED content /\ obj' = [obj EXCEPT ![c] = n]
      /\ dueMark' = [dueMark EXCEPT ![c] = due[c]] /\ dueMark'[c] = due[c]
      /\ UNCHANGED <<pins, running, changed, due, stray, refused>>
  BY DEF MarkScan, IInv, TypeOK
<1>6. GoodObject(c)'
  BY <1>1, <1>4, <1>5, FileKept DEF GoodObject, IInv
<1>7. GoodScan(c)'
  BY <1>1, <1>4, <1>5, FileKept DEF GoodScan, IInv, Fresh
<1> QED
  BY <1>1, <1>4, <1>5, <1>6, <1>7, CallKeepsIInv
  DEF IInv, TypeOK, GoodRunning, Idle

LEMMA ResetHereKeepsIInv ==
  ASSUME IInv, NEW c \in Clients, ResetHere(c), UNCHANGED undefined
  PROVE  IInv'
<1> DEFINE o == obj[c]
           n == obj'[c]
<1>1. /\ o \in Objects /\ o # Nil /\ o.kind = "scan" /\ running = Idle
      /\ o.curPage \in Used \cup {Null} /\ o.mark # Nil
      /\ o.mark.pageNo = o.curPageNo /\ ~Fresh(c)
      /\ GoodObject(c) /\ GoodScan(c)
      /\ due[c] \subseteq Wanted /\ dueMark[c] \subseteq Wanted
  BY HasObject DEF ResetHere
<1>2. n = [o EXCEPT !.curRec = o.mark.rec, !.told = "nothing"]
  BY DEF ResetHere, MarkedRec, IInv, TypeOK
<1>3. o.mark.rec \in SlotNos
  BY <1>1 DEF Objects
<1>4. /\ n \in Objects /\ n.kind = "scan"
      /\ n.curPage = o.curPage /\ n.curPageNo = o.curPageNo
      /\ n.curRec = o.mark.rec /\ n.told = "nothing" /\ n.mark = o.mark
  BY <1>1, <1>2, <1>3 DEF Objects
<1>5. /\ UNCHANGED content /\ obj' = [obj EXCEPT ![c] = n]
      /\ due' = [due EXCEPT ![c] = dueMark[c]] /\ due'[c] = dueMark[c]
      /\ UNCHANGED <<pins, running, changed, dueMark, stray, refused>>
  BY DEF ResetHere, IInv, TypeOK
<1>6. GoodObject(c)'
  BY <1>1, <1>4, <1>5, FileKept DEF GoodObject, IInv
<1>7. GoodScan(c)'
  BY <1>1, <1>4, <1>5, FileKept DEF GoodScan, GoodObject, IInv, Fresh
<1> QED
  BY <1>1, <1>4, <1>5, <1>6, <1>7, CallKeepsIInv
  DEF IInv, TypeOK, GoodRunning, Idle

\* A call that fails before it has done anything.
LEMMA ResetUnPinFailsKeepsIInv ==
  ASSUME IInv, NEW c \in Clients, ResetUnPinFails(c), UNCHANGED undefined
  PROVE  IInv'
<1> DEFINE o == obj[c]
           n == obj'[c]
<1>1. /\ o \in Objects /\ o # Nil /\ o.kind = "scan" /\ running = Idle
      /\ GoodObject(c) /\ GoodScan(c)
  BY HasObject DEF ResetUnPinFails, MustReset
<1>2. n = [o EXCEPT !.told = "failed"]
  BY DEF ResetUnPinFails, IInv, TypeOK
<1>3. /\ n \in Objects /\ n.kind = "scan"
      /\ n.curPage = o.curPage /\ n.curPageNo = o.curPageNo
      /\ n.curRec = o.curRec /\ n.told = "failed" /\ n.mark = o.mark
  BY <1>1, <1>2 DEF Objects
<1>4. /\ UNCHANGED content /\ obj' = [obj EXCEPT ![c] = n]
      /\ UNCHANGED <<pins, running, changed, due, dueMark, stray, refused>>
  BY DEF ResetUnPinFails, history, IInv, TypeOK
<1>5. GoodObject(c)'
  BY <1>1, <1>3, <1>4, FileKept DEF GoodObject, IInv
<1>6. GoodScan(c)'
  BY <1>1, <1>3, <1>4, FileKept DEF GoodScan, IInv, Fresh
<1>7. /\ running' \in [by : {c, Nil}, fresh : BOOLEAN]
      /\ running.by \in {c, Nil} /\ GoodRunning'
  BY <1>1, <1>4 DEF Idle, GoodRunning
<1> QED
  BY <1>1, <1>3, <1>4, <1>5, <1>6, <1>7, Typed, CallKeepsIInv

LEMMA ResetAwayKeepsIInv ==
  ASSUME IInv, NEW c \in Clients, ResetAway(c), UNCHANGED undefined
  PROVE  IInv'
<1> DEFINE o == obj[c]
           n == obj'[c]
           p == o.mark.pageNo
<1>1. /\ o \in Objects /\ o # Nil /\ o.kind = "scan" /\ running = Idle
      /\ o.curPage \in Used \cup {Null} /\ o.mark # Nil /\ p \in Used
      /\ GoodObject(c) /\ GoodScan(c)
      /\ due[c] \subseteq Wanted /\ dueMark[c] \subseteq Wanted
  BY HasObject DEF ResetAway, MustReset, GoodObject
<1>2. /\ p \in DataPages /\ p \in Pages /\ p # Header /\ o.mark.rec \in SlotNos
  BY <1>1, UsedPages DEF Objects, IInv
<1>3. Left(o) # Header
  BY <1>1, UsedPages, Constants DEF Left, GoodObject, IInv, Null, Header
<1>4. /\ UnPinned(Left(o)) \in [Pages -> Nat]
      /\ UnPinned(Left(o))[Header] = pins[Header]
  BY <1>3, UnPinnedTyped DEF IInv
<1>5. /\ UNCHANGED content /\ obj' = [obj EXCEPT ![c] = n]
      /\ due' = [due EXCEPT ![c] = dueMark[c]] /\ due'[c] = dueMark[c]
      /\ UNCHANGED <<running, dueMark, refused>>
  BY DEF ResetAway, IInv, TypeOK
<1>6. changed' \subseteq Pages /\ stray' \in BOOLEAN
  BY DEF ResetAway, Saved, IInv, TypeOK
<1>7. CASE
        /\ pins' = [UnPinned(Left(o)) EXCEPT ![p] = @ + 1]
        /\ obj' = [obj EXCEPT ![c].curPage = p, ![c].curPageNo = p,
                     ![c].curRec = MarkedRec(o), ![c].curDirty = FALSE,
                     ![c].told = "nothing"]
  <2>1. n = [o EXCEPT !.curPage = p, !.curPageNo = p, !.curRec = o.mark.rec,
                      !.curDirty = FALSE, !.told = "nothing"]
    BY <1>7 DEF MarkedRec, IInv, TypeOK
  <2>2. /\ n \in Objects /\ n.kind = "scan" /\ n.curPage = p
        /\ n.curPageNo = p /\ n.curRec = o.mark.rec
        /\ n.told = "nothing" /\ n.mark = o.mark
    BY <1>1, <1>2, <2>1 DEF Objects, PageNos
  <2>3. pins' \in [Pages -> Nat] /\ pins'[Header] = pins[Header]
    BY <1>2, <1>4, <1>7
  <2>4. GoodObject(c)'
    BY <1>1, <1>5, <2>2, FileKept DEF GoodObject, IInv
  <2>5. GoodScan(c)'
    BY <1>1, <1>5, <2>2, FileKept DEF GoodScan, IInv, Fresh
  <2> QED
    BY <1>1, <1>5, <1>6, <2>2, <2>3, <2>4, <2>5, CallKeepsIInv
    DEF IInv, TypeOK, GoodRunning, Idle
<1>8. CASE
        /\ pins' = UnPinned(Left(o))
        /\ obj' = [obj EXCEPT
                     ![c].curPage = IF o.curPage = Null THEN Null ELSE Stale,
                     ![c].curPageNo = p, ![c].curRec = MarkedRec(o),
                     ![c].told = "failed"]
  <2>1. n = [o EXCEPT !.curPage = IF o.curPage = Null THEN Null ELSE Stale,
                      !.curPageNo = p, !.curRec = o.mark.rec, !.told = "failed"]
    BY <1>8 DEF MarkedRec, IInv, TypeOK
  <2>2. /\ n \in Objects /\ n.kind = "scan" /\ n.curPage \in {Null, Stale}
        /\ n.told = "failed" /\ n.mark = o.mark
    BY <1>1, <1>2, <2>1 DEF Objects, PageNos
  <2>3. GoodObject(c)'
    BY <1>1, <1>5, <2>2, FileKept DEF GoodObject, IInv
  <2>4. GoodScan(c)'
    BY <1>1, <1>5, <2>2, FileKept DEF GoodScan, IInv
  <2>5. pins' \in [Pages -> Nat] /\ pins'[Header] = pins[Header]
    BY <1>4, <1>8
  <2> QED
    BY <1>1, <1>5, <1>6, <2>2, <2>3, <2>4, <2>5, CallKeepsIInv
    DEF IInv, TypeOK, GoodRunning, Idle
<1> QED
  BY <1>7, <1>8 DEF ResetAway

-----------------------------------------------------------------------------
LEMMA StaysAtEndKeepsIInv ==
  ASSUME IInv, NEW c \in Clients, ScanStaysAtEnd(c), UNCHANGED undefined
  PROVE  IInv'
<1> DEFINE o == obj[c]
           n == obj'[c]
<1>1. /\ o \in Objects /\ o # Nil /\ o.kind = "scan" /\ running = Idle
      /\ GoodObject(c) /\ GoodScan(c)
  BY HasObject DEF ScanStaysAtEnd
<1>2. n = [o EXCEPT !.told = "early"]
  BY DEF ScanStaysAtEnd, IInv, TypeOK
<1>3. /\ n \in Objects /\ n.kind = "scan"
      /\ n.curPage = o.curPage /\ n.curPageNo = o.curPageNo
      /\ n.curRec = o.curRec /\ n.told = "early" /\ n.mark = o.mark
  BY <1>1, <1>2 DEF Objects
<1>4. /\ UNCHANGED content /\ obj' = [obj EXCEPT ![c] = n]
      /\ UNCHANGED <<pins, running, changed, due, dueMark, stray, refused>>
  BY DEF ScanStaysAtEnd, history, IInv, TypeOK
<1>5. GoodObject(c)'
  BY <1>1, <1>3, <1>4, FileKept DEF GoodObject, IInv
<1>6. GoodScan(c)'
  BY <1>1, <1>3, <1>4, FileKept DEF GoodScan, IInv, Fresh
<1> QED
  BY <1>1, <1>3, <1>4, <1>5, <1>6, CallKeepsIInv
  DEF IInv, TypeOK, GoodRunning, Idle

\* What is on the first page, or behind it, is behind the start of a scan.
LEMMA AllBehindStart ==
  ASSUME IInv, NEW r \in Wanted
  PROVE  Behind(r, hdr.firstPage, NoSlot)
<1>1. r[1] \in Used /\ r[1] \in Nat /\ r[2] \in Nat
  BY WantedRecord DEF IInv
<1>2. hdr.firstPage <= r[1] /\ hdr.firstPage \in Nat
  BY <1>1, UsedPages DEF IInv, ChainSound
<1> QED
  BY <1>1, <1>2 DEF Behind, NoSlot

LEMMA ScanBeginsKeepsIInv ==
  ASSUME IInv, NEW c \in Clients, ScanBegins(c), UNCHANGED undefined
  PROVE  IInv'
<1> DEFINE o == obj[c]
           n == obj'[c]
           p == hdr.firstPage
<1>1. /\ o \in Objects /\ o # Nil /\ o.kind = "scan" /\ running = Idle
      /\ o.curPage = Null /\ GoodObject(c) /\ GoodScan(c) /\ Null \notin Used
      /\ o.told \notin {"record", "eof"}
  BY HasObject, UsedPages DEF ScanBegins, GoodObject, IInv
<1>2. p \in Used /\ p \in DataPages /\ p \in Pages /\ p # Header
  BY UsedPages DEF IInv, ChainSound
<1>3. /\ UNCHANGED content /\ obj' = [obj EXCEPT ![c] = n]
      /\ due' = [due EXCEPT ![c] = Wanted] /\ due'[c] = Wanted
      /\ UNCHANGED <<changed, dueMark, stray, refused>>
      /\ dueMark[c] \subseteq Wanted
  BY DEF ScanBegins, IInv, TypeOK
<1>4. CASE
        /\ n.kind = "scan" /\ n.curPage = Null /\ n.mark = o.mark
        /\ n.told \in {"failed", "early"} /\ n \in Objects
        /\ UNCHANGED <<pins, running>>
  <2>1. GoodObject(c)'
    BY <1>1, <1>3, <1>4, FileKept DEF GoodObject, IInv
  <2>2. GoodScan(c)'
    BY <1>1, <1>3, <1>4, FileKept DEF GoodScan, IInv
  <2>3. /\ running' \in [by : {c, Nil}, fresh : BOOLEAN]
        /\ running.by \in {c, Nil} /\ GoodRunning'
    BY <1>1, <1>4 DEF Idle, GoodRunning
  <2> QED
    BY <1>1, <1>3, <1>4, <2>1, <2>2, <2>3, Typed, CallKeepsIInv
<1>5. CASE
        /\ obj' = [obj EXCEPT ![c].curPage = p, ![c].curPageNo = p,
                     ![c].curRec = NoSlot, ![c].curDirty = FALSE]
        /\ pins' = [pins EXCEPT ![p] = @ + 1]
        /\ running' = [by |-> c, fresh |-> TRUE]
  <2>1. n = [o EXCEPT !.curPage = p, !.curPageNo = p, !.curRec = NoSlot,
                      !.curDirty = FALSE]
    BY <1>5 DEF IInv, TypeOK
  <2>2. /\ n \in Objects /\ n.kind = "scan" /\ n.curPage = p
        /\ n.curPageNo = p /\ n.curRec = NoSlot
        /\ n.told = o.told /\ n.mark = o.mark
    BY <1>1, <1>2, <2>1 DEF Objects, PageNos, SlotNos
  <2>3. pins' \in [Pages -> Nat] /\ pins'[Header] = pins[Header]
    BY <1>2, <1>5 DEF IInv, TypeOK
  <2>4. GoodObject(c)'
    BY <1>1, <1>2, <1>3, <2>2, FileKept, UsedPages DEF GoodObject, IInv
  <2>5. GoodScan(c)'
    BY <1>1, <1>3, <2>2, FileKept, AllBehindStart DEF GoodScan, IInv
  <2>6. GoodRunning'
    BY <1>2, <1>3, <1>5, <2>2, FileKept, NilIsNothing, ClientsAssumption
    DEF GoodRunning, IInv
  <2>7. running' \in [by : {c, Nil}, fresh : BOOLEAN] /\ running.by \in {c, Nil}
    BY <1>1, <1>5 DEF Idle
  <2> QED
    BY <1>1, <1>3, <2>2, <2>3, <2>4, <2>5, <2>6, <2>7, Typed, CallKeepsIInv
<1>6. CASE
        /\ obj' = [obj EXCEPT ![c].curPageNo = p, ![c].curRec = NoSlot,
                     ![c].curDirty = FALSE, ![c].told = "failed"]
        /\ UNCHANGED <<pins, running>>
  <2>1. n = [o EXCEPT !.curPageNo = p, !.curRec = NoSlot, !.curDirty = FALSE,
                      !.told = "failed"]
    BY <1>6 DEF IInv, TypeOK
  <2>2. /\ n \in Objects /\ n.kind = "scan" /\ n.curPage = Null
        /\ n.mark = o.mark /\ n.told = "failed"
    BY <1>1, <1>2, <2>1 DEF Objects, PageNos, SlotNos
  <2> QED
    BY <1>4, <1>6, <2>2
<1>7. CASE
        /\ obj' = [obj EXCEPT ![c].curPageNo = -1, ![c].curRec = NoSlot,
                     ![c].curDirty = FALSE, ![c].told = "early"]
        /\ UNCHANGED <<pins, running>>
  <2>1. n = [o EXCEPT !.curPageNo = -1, !.curRec = NoSlot, !.curDirty = FALSE,
                      !.told = "early"]
    BY <1>7 DEF IInv, TypeOK
  <2>2. /\ n \in Objects /\ n.kind = "scan" /\ n.curPage = Null
        /\ n.mark = o.mark /\ n.told = "early"
    BY <1>1, <1>2, <2>1 DEF Objects, PageNos, SlotNos
  <2> QED
    BY <1>4, <1>7, <2>2
<1> QED
  BY <1>5, <1>6, <1>7 DEF ScanBegins

LEMMA RunningObject ==
  ASSUME IInv, NEW c \in Clients, running.by = c
  PROVE  /\ obj[c] \in Objects /\ obj[c] # Nil /\ obj[c].kind = "scan"
         /\ obj[c].curPage \in Used /\ obj[c].curPageNo = obj[c].curPage
         /\ GoodObject(c) /\ GoodScan(c)
         /\ due[c] \subseteq Wanted /\ dueMark[c] \subseteq Wanted
         /\ running \in [by : {c, Nil}, fresh : BOOLEAN]
BY ClientsAssumption DEF IInv, TypeOK, GoodRunning, GoodObject

\* Every record of the page that the scan has yet to find is one it looks at.
LEMMA DueIsAhead ==
  ASSUME IInv, NEW c \in Clients, running.by = c,
         NEW r \in due[c], r[1] = obj[c].curPage
  PROVE  r[2] \in Ahead(c) /\ Passes(c, r[2]) /\ r[2] \in Nat
<1>1. r \in Wanted
  BY RunningObject
<1>2. r[2] \in LiveOn(r[1]) /\ file[r[1]].slot[r[2]].hit /\ r[2] \in Nat
      /\ r[1] \in Nat
  BY <1>1, WantedRecord DEF IInv
<1>3. running.fresh \/ r[2] > obj[c].curRec
  BY <1>2, RunningObject DEF GoodScan, Behind, Fresh
<1> QED
  BY <1>2, <1>3 DEF Ahead, Passes

LEMMA AheadSlots ==
  ASSUME IInv, NEW c \in Clients, running.by = c, NEW s \in Ahead(c)
  PROVE  s \in Nat /\ s \in SlotNos
BY RunningObject, SlotNumbers DEF Ahead, SlotNos, IInv

LEMMA ScanGoesOnKeepsIInv ==
  ASSUME IInv, NEW c \in Clients, ScanGoesOn(c), UNCHANGED undefined
  PROVE  IInv'
<1> DEFINE o == obj[c]
<1>1. /\ o \in Objects /\ o # Nil /\ o.kind = "scan" /\ running = Idle
      /\ o.curPage \in Used /\ GoodObject(c) /\ GoodScan(c)
  BY HasObject DEF ScanGoesOn
<1>2. /\ running' = [by |-> c, fresh |-> FALSE]
      /\ UNCHANGED <<content, obj, pins, changed, due, dueMark, stray,
                     refused>>
  BY DEF ScanGoesOn, history
<1>3. GoodObject(c)' /\ GoodScan(c)'
  BY <1>1, <1>2, HasObject, FileKept
  DEF GoodObject, GoodScan, IInv, ScanGoesOn, Fresh
<1>4. GoodRunning'
  BY <1>1, <1>2, FileKept, ClientsAssumption DEF GoodRunning, IInv
<1> QED
  BY <1>1, <1>2, <1>3, <1>4, CallKeepsIInv DEF IInv, TypeOK, Idle

LEMMA ScanFindsKeepsIInv ==
  ASSUME IInv, NEW c \in Clients, NEW s, ScanFinds(c, s), UNCHANGED undefined
  PROVE  IInv'
<1> DEFINE o == obj[c]
           n == obj'[c]
<1>1. running.by = c /\ s \in Ahead(c) /\ s \in Nat /\ s \in SlotNos
  BY AheadSlots DEF ScanFinds
<1>2. /\ o \in Objects /\ o # Nil /\ o.kind = "scan" /\ o.curPage \in Used
      /\ o.curPageNo = o.curPage
      /\ GoodObject(c) /\ GoodScan(c)
      /\ due[c] \subseteq Wanted /\ dueMark[c] \subseteq Wanted
  BY <1>1, RunningObject
<1>3. n = [o EXCEPT !.curRec = s, !.told = "record"]
  BY DEF ScanFinds, IInv, TypeOK
<1>4. /\ n \in Objects /\ n.kind = "scan"
      /\ n.curPage = o.curPage /\ n.curPageNo = o.curPageNo
      /\ n.curRec = s /\ n.told = "record" /\ n.mark = o.mark
  BY <1>1, <1>2, <1>3 DEF Objects
<1>5. /\ UNCHANGED content /\ obj' = [obj EXCEPT ![c] = n]
      /\ due'[c] = due[c] \ {<<o.curPage, s>>}
      /\ due' = [due EXCEPT ![c] = due'[c]]
      /\ running' = Idle
      /\ UNCHANGED <<pins, changed, dueMark, stray, refused>>
  BY DEF ScanFinds, IInv, TypeOK
<1>6. GoodObject(c)'
  BY <1>2, <1>4, <1>5, FileKept DEF GoodObject, IInv
<1>7. ASSUME NEW r \in due'[c]
      PROVE  Behind(r, o.curPage, s)
  <2>1. r \in due[c] /\ r # <<o.curPage, s>>
    BY <1>5
  <2>2. r = <<r[1], r[2]>>
    BY <1>2, <2>1, WantedRecord DEF IInv
  <2>3. CASE r[1] = o.curPage
    <3>1. r[2] \in Ahead(c) /\ Passes(c, r[2]) /\ r[2] \in Nat
      BY <1>1, <2>1, <2>3, DueIsAhead
    <3>2. ~(r[2] < s) /\ r[2] # s
      BY <2>1, <2>2, <2>3, <3>1 DEF ScanFinds
    <3> QED
      BY <1>1, <2>3, <3>1, <3>2 DEF Behind
  <2>4. CASE r[1] # o.curPage
    BY <1>2, <2>1, <2>4 DEF GoodScan, Behind
  <2> QED
    BY <2>3, <2>4
<1>8. GoodScan(c)'
  BY <1>2, <1>4, <1>5, <1>7, FileKept DEF GoodScan, IInv
<1> QED
  BY <1>1, <1>2, <1>4, <1>5, <1>6, <1>8, CallKeepsIInv
  DEF IInv, TypeOK, GoodRunning, Idle

\* The page after this one holds all that is left.
LEMMA NextPageIsNext ==
  ASSUME IInv, NEW c \in Clients, NEW s, PageDone(c, s), NEW r \in due[c]
  PROVE  LET q == file[obj[c].curPage].next IN
         /\ q # -1 => r[1] \in Nat /\ q \in Used /\ (r[1] > q \/ r[1] = q)
         /\ q # -1
<1> DEFINE p == obj[c].curPage
           q == file[p].next
<1>1. /\ running.by = c /\ p \in Used /\ GoodScan(c) /\ obj[c] # Nil
      /\ obj[c].kind = "scan" /\ r \in Wanted
  BY RunningObject DEF PageDone
<1>2. r[1] # p
  BY <1>1, DueIsAhead DEF PageDone
<1>3. r[1] \in Used /\ r[1] \in Nat
  BY <1>1, WantedRecord DEF IInv
<1>4. r[1] > p
  BY <1>1, <1>2 DEF GoodScan, Behind
<1>5. p # hdr.lastPage
  BY <1>1, <1>3, <1>4, UsedPages DEF IInv, ChainSound
<1>6. q \in Used /\ r[1] >= q /\ q \in Nat
  BY <1>1, <1>3, <1>4, <1>5, UsedPages DEF IInv, ChainSound
<1> QED
  BY <1>3, <1>6, UsedPages DEF IInv

LEMMA CurRecIsSlot ==
  ASSUME IInv, NEW c \in Clients, NEW s, PageDone(c, s)
  PROVE  s \in SlotNos
BY RunningObject, AheadSlots DEF PageDone, Objects

LEMMA ScanEndsKeepsIInv ==
  ASSUME IInv, NEW c \in Clients, NEW s, ScanEnds(c, s), UNCHANGED undefined
  PROVE  IInv'
<1> DEFINE o == obj[c]
           n == obj'[c]
<1>1. running.by = c /\ PageDone(c, s) /\ s \in SlotNos
  BY CurRecIsSlot DEF ScanEnds, PageDone
<1>2. /\ o \in Objects /\ o # Nil /\ o.kind = "scan" /\ o.curPage \in Used
      /\ o.curPageNo = o.curPage
      /\ GoodObject(c) /\ GoodScan(c)
  BY <1>1, RunningObject
<1>3. n = [o EXCEPT !.curRec = s, !.told = "eof"]
  BY DEF ScanEnds, IInv, TypeOK
<1>4. /\ n \in Objects /\ n.kind = "scan"
      /\ n.curPage = o.curPage /\ n.curPageNo = o.curPageNo
      /\ n.told = "eof" /\ n.mark = o.mark
  BY <1>1, <1>2, <1>3 DEF Objects
<1>5. /\ UNCHANGED content /\ obj' = [obj EXCEPT ![c] = n]
      /\ running' = Idle
      /\ UNCHANGED <<pins, changed, due, dueMark, stray, refused>>
  BY DEF ScanEnds, history, IInv, TypeOK
<1>6. due[c] = {}
  BY <1>1, NextPageIsNext DEF ScanEnds
<1>7. GoodObject(c)'
  BY <1>2, <1>4, <1>5, FileKept DEF GoodObject, IInv
<1>8. GoodScan(c)'
  BY <1>2, <1>4, <1>5, <1>6, FileKept DEF GoodScan, IInv
<1> QED
  BY <1>1, <1>2, <1>4, <1>5, <1>7, <1>8, CallKeepsIInv
  DEF IInv, TypeOK, GoodRunning, Idle

LEMMA ScanTurnsKeepsIInv ==
  ASSUME IInv, NEW c \in Clients, NEW s, ScanTurns(c, s), UNCHANGED undefined
  PROVE  IInv'
<1> DEFINE o == obj[c]
           n == obj'[c]
           p == o.curPage
           q == file[p].next
<1>1. running.by = c /\ PageDone(c, s) /\ s \in SlotNos
  BY CurRecIsSlot DEF ScanTurns, PageDone
<1>2. /\ o \in Objects /\ o # Nil /\ o.kind = "scan" /\ p \in Used
      /\ GoodObject(c) /\ GoodScan(c)
  BY <1>1, RunningObject
<1>3. IsPage(file[p])
  BY <1>2, Typed, SlotNumbers
<1>4. /\ q \in DataPages /\ q \in Pages /\ q # Header /\ q # -1
      /\ p # Header
  <2>1. q # -1
    BY DEF ScanTurns
  <2>2. q \in DataPages \cup {-1}
    BY <1>3 DEF IsPage
  <2> QED
    <3>1. q \in DataPages /\ q # Header /\ q \in Pages
      BY <2>1, <2>2 DEF DataPages
    <3> QED
      BY <1>2, <2>1, <3>1, Typed, UsedPages
<1>5. q \in Used
  BY <1>2, <1>4, Typed DEF ChainSound
<1>6. UnPinned(p) \in [Pages -> Nat] /\ UnPinned(p)[Header] = pins[Header]
  BY <1>4, Typed, UnPinnedTyped
<1>7. /\ UNCHANGED content /\ obj' = [obj EXCEPT ![c] = n]
      /\ UNCHANGED <<due, dueMark, stray, refused>>
  <2>1. UNCHANGED <<content, due, dueMark, stray, refused>>
    BY DEF ScanTurns, history
  <2>2. obj' = [obj EXCEPT ![c] = n]
    BY Typed DEF ScanTurns
  <2> QED
    BY <2>1, <2>2
<1>8. changed' \subseteq Pages
  BY Typed DEF ScanTurns, SavedByTurn, Saved
<1>9. CASE
        /\ pins' = [UnPinned(p) EXCEPT ![q] = @ + 1]
        /\ obj' = [obj EXCEPT ![c].curPage = q, ![c].curPageNo = q,
                     ![c].curRec = s, ![c].curDirty = FALSE]
        /\ running' = [by |-> c, fresh |-> TRUE]
  <2>1. n = [o EXCEPT !.curPage = q, !.curPageNo = q, !.curRec = s,
                      !.curDirty = FALSE]
    BY <1>9, Typed
  <2>2. /\ n \in Objects /\ n.kind = "scan" /\ n.curPage = q
        /\ n.curPageNo = q /\ n.told = o.told /\ n.mark = o.mark
    BY <1>1, <1>2, <1>4, <2>1 DEF Objects, PageNos
  <2>3. pins' \in [Pages -> Nat] /\ pins'[Header] = pins[Header]
    BY <1>4, <1>6, <1>9
  <2>4. GoodObject(c)'
    BY <1>2, <1>5, <1>7, <2>2, FileKept DEF GoodObject, IInv
  <2>5. \A r \in due[c] : r[1] > q \/ r[1] = q
    BY <1>1, <1>4, NextPageIsNext
  <2>6. /\ running' \in [by : {c, Nil}, fresh : BOOLEAN]
        /\ running'.by = c /\ running'.fresh
    BY <1>9
  <2>7. due' = due /\ dueMark' = dueMark /\ Used' = Used
    BY <1>7, FileKept DEF IInv
  <2>8. GoodScan(c)'
    <3>1. n.mark # Nil =>
            \A r \in dueMark[c] : Behind(r, n.mark.pageNo, n.mark.rec)
      BY <1>2, <2>2 DEF GoodScan
    <3>2. n.told = "eof" => due[c] = {}
      BY <1>2, <2>2 DEF GoodScan
    <3>3. \A r \in due[c] : \/ Behind(r, q, n.curRec)
                            \/ Fresh(c)' /\ r[1] = q
      <4>1. Fresh(c)'
        BY <2>6 DEF Fresh
      <4> QED
        BY <2>5, <4>1 DEF Behind
    <3> QED
      BY <2>2, <2>7, <3>1, <3>2, <3>3 DEF GoodScan, Behind
  <2>9. GoodRunning'
    BY <1>5, <1>7, <1>9, <2>2, FileKept, NilIsNothing, ClientsAssumption
    DEF GoodRunning, IInv
  <2> QED
    BY <1>1, <1>2, <1>7, <1>8, <2>2, <2>3, <2>4, <2>6, <2>7, <2>8, <2>9,
       Typed, CallKeepsIInv
<1>10. CASE
        /\ pins' = UnPinned(p)
        /\ obj' = [obj EXCEPT ![c].curPage = Null, ![c].curPageNo = q,
                     ![c].curRec = s, ![c].curDirty = FALSE,
                     ![c].told = "failed"]
        /\ running' = Idle
  <2>1. n = [o EXCEPT !.curPage = Null, !.curPageNo = q, !.curRec = s,
                      !.curDirty = FALSE, !.told = "failed"]
    BY <1>10, Typed
  <2>2. /\ n \in Objects /\ n.kind = "scan" /\ n.curPage = Null
        /\ n.told = "failed" /\ n.mark = o.mark
    BY <1>1, <1>2, <1>4, <2>1 DEF Objects, PageNos
  <2>3. GoodObject(c)'
    BY <1>2, <1>7, <2>2, FileKept DEF GoodObject, IInv
  <2>4. GoodScan(c)'
    BY <1>2, <1>7, <2>2, FileKept DEF GoodScan, IInv
  <2>5. pins' \in [Pages -> Nat] /\ pins'[Header] = pins[Header]
    BY <1>6, <1>10
  <2>6. running' \in [by : {c, Nil}, fresh : BOOLEAN] /\ GoodRunning'
    BY <1>10 DEF GoodRunning, Idle
  <2> QED
    BY <1>1, <1>2, <1>7, <1>8, <2>2, <2>3, <2>4, <2>5, <2>6,
       Typed, CallKeepsIInv
<1> QED
  BY <1>9, <1>10, ZenonT(40) DEF ScanTurns

LEMMA ScanUnPinFailsKeepsIInv ==
  ASSUME IInv, NEW c \in Clients, NEW s, ScanUnPinFails(c, s),
         UNCHANGED undefined
  PROVE  IInv'
<1> DEFINE o == obj[c]
           n == obj'[c]
<1>1. running.by = c /\ s \in SlotNos
  BY CurRecIsSlot DEF ScanUnPinFails, PageDone
<1>2. /\ o \in Objects /\ o # Nil /\ o.kind = "scan"
      /\ GoodObject(c) /\ GoodScan(c)
  BY <1>1, RunningObject
<1>3. n = [o EXCEPT !.curPage = Null, !.curPageNo = -1, !.curRec = s,
                    !.told = "failed"]
  BY DEF ScanUnPinFails, IInv, TypeOK
<1>4. /\ n \in Objects /\ n.kind = "scan" /\ n.curPage = Null
      /\ n.told = "failed" /\ n.mark = o.mark
  BY <1>1, <1>2, <1>3 DEF Objects, PageNos
<1>5. /\ UNCHANGED content /\ obj' = [obj EXCEPT ![c] = n]
      /\ running' = Idle
      /\ UNCHANGED <<pins, changed, due, dueMark, stray, refused>>
  BY DEF ScanUnPinFails, history, IInv, TypeOK
<1>6. GoodObject(c)' /\ GoodScan(c)'
  BY <1>2, <1>4, <1>5, FileKept DEF GoodObject, GoodScan, IInv
<1> QED
  BY <1>1, <1>2, <1>4, <1>5, <1>6, CallKeepsIInv, RunningObject
  DEF IInv, TypeOK, GoodRunning, Idle

-----------------------------------------------------------------------------
LEMMA MarkDirtyKeepsIInv ==
  ASSUME IInv, NEW c \in Clients, MarkDirty(c), UNCHANGED undefined
  PROVE  IInv'
<1> DEFINE o == obj[c]
           n == obj'[c]
<1>1. /\ o \in Objects /\ o # Nil /\ o.kind = "scan" /\ running = Idle
      /\ o.curPage \in Used /\ GoodObject(c) /\ GoodScan(c)
  BY HasObject DEF MarkDirty, GoodObject
<1>2. n = [o EXCEPT !.curDirty = TRUE]
  BY DEF MarkDirty, IInv, TypeOK
<1>3. /\ n \in Objects /\ n.kind = "scan"
      /\ n.curPage = o.curPage /\ n.curPageNo = o.curPageNo
      /\ n.curRec = o.curRec /\ n.told = o.told /\ n.mark = o.mark
  BY <1>1, <1>2 DEF Objects
<1>4. /\ UNCHANGED content /\ obj' = [obj EXCEPT ![c] = n]
      /\ changed' = changed \cup {o.curPage}
      /\ UNCHANGED <<pins, running, due, dueMark, stray, refused>>
  BY DEF MarkDirty, history, IInv, TypeOK
<1>5. GoodObject(c)'
  BY <1>1, <1>3, <1>4, FileKept DEF GoodObject, IInv
<1>6. GoodScan(c)'
  BY <1>1, <1>3, <1>4, FileKept DEF GoodScan, IInv, Fresh
<1>7. changed' \subseteq Pages
  BY <1>1, <1>4, UsedPages DEF IInv, TypeOK
<1> QED
  BY <1>1, <1>3, <1>4, <1>5, <1>6, <1>7, CallKeepsIInv
  DEF IInv, TypeOK, GoodRunning, Idle

LEMMA GetHereKeepsIInv ==
  ASSUME IInv, NEW c \in Clients, NEW p \in Used, NEW s \in Nat,
         GetHere(c, p, s), UNCHANGED undefined
  PROVE  IInv'
<1> DEFINE o == obj[c]
           n == obj'[c]
<1>1. /\ o \in Objects /\ o # Nil /\ o.kind = "reader" /\ running = Idle
      /\ GoodObject(c) /\ GoodScan(c)
  BY HasObject DEF GetHere
<1>2. n = [o EXCEPT !.curRec = s]
  BY DEF GetHere, IInv, TypeOK
<1>3. /\ n \in Objects /\ n.kind = "reader"
      /\ n.curPage = o.curPage /\ n.curPageNo = o.curPageNo
      /\ n.told = o.told /\ n.mark = o.mark
  BY <1>1, <1>2 DEF Objects, SlotNos
<1>4. /\ UNCHANGED content /\ obj' = [obj EXCEPT ![c] = n]
      /\ UNCHANGED <<pins, running, changed, due, dueMark, stray, refused>>
  BY DEF GetHere, history, IInv, TypeOK
<1>5. GoodObject(c)' /\ GoodScan(c)'
  BY <1>1, <1>3, <1>4, FileKept DEF GoodObject, GoodScan, IInv
<1> QED
  BY <1>1, <1>3, <1>4, <1>5, CallKeepsIInv
  DEF IInv, TypeOK, GoodRunning, Idle

LEMMA GetUnPinFailsKeepsIInv ==
  ASSUME IInv, NEW c \in Clients, NEW p \in Used, GetUnPinFails(c, p),
         UNCHANGED undefined
  PROVE  IInv'
<1> DEFINE o == obj[c]
           n == obj'[c]
<1>1. /\ o \in Objects /\ o # Nil /\ o.kind = "reader" /\ running = Idle
      /\ GoodObject(c) /\ GoodScan(c)
  BY HasObject DEF GetUnPinFails
<1>2. n = [o EXCEPT !.curPage = Null, !.curPageNo = 0, !.curDirty = FALSE,
                    !.told = "failed"]
  BY DEF GetUnPinFails, IInv, TypeOK
<1>3. /\ n \in Objects /\ n.kind = "reader" /\ n.curPage = Null
      /\ n.told = "failed" /\ n.mark = o.mark
  BY <1>1, <1>2 DEF Objects, PageNos
<1>4. /\ UNCHANGED content /\ obj' = [obj EXCEPT ![c] = n]
      /\ UNCHANGED <<pins, running, changed, due, dueMark, stray, refused>>
  BY DEF GetUnPinFails, history, IInv, TypeOK
<1>5. GoodObject(c)' /\ GoodScan(c)'
  BY <1>1, <1>3, <1>4, FileKept DEF GoodObject, GoodScan, IInv
<1> QED
  BY <1>1, <1>3, <1>4, <1>5, CallKeepsIInv
  DEF IInv, TypeOK, GoodRunning, Idle

LEMMA GetAwayKeepsIInv ==
  ASSUME IInv, NEW c \in Clients, NEW p \in Used, NEW s \in Nat,
         GetAway(c, p, s), UNCHANGED undefined
  PROVE  IInv'
<1> DEFINE o == obj[c]
           n == obj'[c]
           q == o.curPage
<1>1. /\ o \in Objects /\ o # Nil /\ o.kind = "reader" /\ running = Idle
      /\ q \in Used \cup {Null} /\ GoodObject(c) /\ GoodScan(c)
  BY HasObject DEF GetAway
<1>2. /\ p \in DataPages /\ p \in Pages /\ p # Header /\ q # Header
      /\ s \in SlotNos
  BY <1>1, UsedPages DEF IInv, Null, Header, SlotNos
<1>3. UnPinned(q) \in [Pages -> Nat] /\ UnPinned(q)[Header] = pins[Header]
  BY <1>2, UnPinnedTyped DEF IInv
<1>4. /\ UNCHANGED content /\ obj' = [obj EXCEPT ![c] = n]
      /\ UNCHANGED <<running, due, dueMark, refused>>
  BY DEF GetAway, IInv, TypeOK
<1>5. changed' \subseteq Pages /\ stray' \in BOOLEAN
  BY DEF GetAway, Saved, IInv, TypeOK
<1>6. /\ running' \in [by : {c, Nil}, fresh : BOOLEAN]
      /\ running.by \in {c, Nil} /\ GoodRunning'
  BY <1>1, <1>4 DEF Idle, GoodRunning
<1>7. CASE
        /\ pins' = [UnPinned(q) EXCEPT ![p] = @ + 1]
        /\ obj' = [obj EXCEPT ![c].curPage = p, ![c].curPageNo = p,
                     ![c].curRec = s, ![c].curDirty = FALSE]
  <2>1. n = [o EXCEPT !.curPage = p, !.curPageNo = p, !.curRec = s,
                      !.curDirty = FALSE]
    BY <1>7 DEF IInv, TypeOK
  <2>2. /\ n \in Objects /\ n.kind = "reader" /\ n.curPage = p
        /\ n.curPageNo = p /\ n.told = o.told /\ n.mark = o.mark
    BY ZenonT(60), <1>1, <1>2, <2>1 DEF Objects, PageNos
  <2>3. pins' \in [Pages -> Nat] /\ pins'[Header] = pins[Header]
    BY <1>2, <1>3, <1>7
  <2>4. GoodObject(c)' /\ GoodScan(c)'
    BY <1>1, <1>4, <2>2, FileKept DEF GoodObject, GoodScan, IInv
  <2> QED
    BY <1>1, <1>4, <1>5, <1>6, <2>2, <2>3, <2>4, Typed, CallKeepsIInv
<1>8. CASE
        /\ pins' = UnPinned(q)
        /\ obj' = [obj EXCEPT ![c].curPage = Stale, ![c].told = "failed"]
  <2>1. n = [o EXCEPT !.curPage = Stale, !.told = "failed"]
    BY <1>8 DEF IInv, TypeOK
  <2>2. /\ n \in Objects /\ n.kind = "reader" /\ n.curPage = Stale
        /\ n.told = "failed" /\ n.mark = o.mark
    BY <1>1, <2>1 DEF Objects
  <2>3. pins' \in [Pages -> Nat] /\ pins'[Header] = pins[Header]
    BY <1>3, <1>8
  <2>4. GoodObject(c)' /\ GoodScan(c)'
    BY <1>1, <1>4, <2>2, FileKept DEF GoodObject, GoodScan, IInv
  <2> QED
    BY <1>1, <1>4, <1>5, <1>6, <2>2, <2>3, <2>4, Typed, CallKeepsIInv
<1> QED
  BY <1>7, <1>8 DEF GetAway

-----------------------------------------------------------------------------
\* What the page operations do.
LEMMA InsertedPage ==
  ASSUME NEW g, IsPage(g), NEW r \in Records, Fits(g, r), NEW s, SlotFor(g, s)
  PROVE  /\ IsPage(Inserted(g, r, s))
         /\ Inserted(g, r, s).next = g.next
         /\ \A t \in DOMAIN g.slot : g.slot[t] # Free =>
              /\ t \in DOMAIN Inserted(g, r, s).slot
              /\ Inserted(g, r, s).slot[t] = g.slot[t]
<1> DEFINE n == IF s = g.cnt THEN s + 1 ELSE g.cnt
           h == Inserted(g, r, s)
<1>1. /\ g.cnt \in Nat /\ s \in 0..g.cnt /\ g.free \in Nat
      /\ g.slot \in [0..(g.cnt - 1) -> Records \cup {Free}]
      /\ g.next \in DataPages \cup {-1}
      /\ s # g.cnt => g.slot[s] = Free
  BY DEF IsPage, SlotFor
<1>2. /\ n \in Nat /\ n >= g.cnt /\ n <= g.cnt + 1 /\ s \in 0..(n - 1)
      /\ \A t \in 0..(n - 1) : t # s => t \in 0..(g.cnt - 1)
  BY <1>1
<1>3. h = [slot |-> [t \in 0..(n - 1) |-> IF t = s THEN r ELSE g.slot[t]],
           cnt |-> n, free |-> g.free - r.len - SlotSize * (n - g.cnt),
           next |-> g.next]
  BY DEF Inserted
<1> HIDE DEF h, n
<1>4. h.cnt = n /\ h.next = g.next
      /\ h.slot = [t \in 0..(n - 1) |-> IF t = s THEN r ELSE g.slot[t]]
      /\ h.free = g.free - r.len - SlotSize * (n - g.cnt)
      /\ h = [slot |-> h.slot, cnt |-> h.cnt, free |-> h.free, next |-> h.next]
  BY <1>3
<1>5. h.slot \in [0..(n - 1) -> Records \cup {Free}]
  BY <1>1, <1>2, <1>4
<1>6. SlotSize * (n - g.cnt) <= SlotSize /\ SlotSize * (n - g.cnt) \in Int
  <2>1. n - g.cnt \in {0, 1}
    BY <1>1, <1>2
  <2>2. SlotSize * 0 = 0 /\ SlotSize * 1 = SlotSize
    BY SizesAssumption
  <2> QED
    BY <2>1, <2>2, SizesAssumption
<1>7. r.len \in Nat
  BY RecordsAssumption
<1>8. h.free \in Nat
  BY SMTT(30), <1>1, <1>4, <1>6, <1>7, SizesAssumption DEF Fits
<1>9. IsPage(h)
  BY <1>1, <1>2, <1>4, <1>5, <1>8 DEF IsPage
<1>10. \A t \in DOMAIN g.slot : g.slot[t] # Free =>
         t \in DOMAIN h.slot /\ h.slot[t] = g.slot[t]
  <2>1. DOMAIN g.slot = 0..(g.cnt - 1) /\ DOMAIN h.slot = 0..(n - 1)
    BY <1>1, <1>5
  <2>2. \A t \in 0..(g.cnt - 1) : t \in 0..(n - 1)
    BY <1>1, <1>2
  <2>3. \A t \in 0..(g.cnt - 1) : g.slot[t] # Free => t # s
    BY <1>1
  <2> QED
    BY <1>4, <2>1, <2>2, <2>3
<1> QED
  BY <1>4, <1>9, <1>10 DEF h

LEMMA DeletedPage ==
  ASSUME NEW g, IsPage(g), NEW s \in DOMAIN g.slot, g.slot[s] # Free,
         NEW n, SlotsLeft(g, s, n)
  PROVE  /\ IsPage(Deleted(g, s, n))
         /\ Deleted(g, s, n).next = g.next
         /\ \A t \in DOMAIN g.slot : (g.slot[t] # Free /\ t # s) =>
              /\ t \in DOMAIN Deleted(g, s, n).slot
              /\ Deleted(g, s, n).slot[t] = g.slot[t]
<1> DEFINE h == Deleted(g, s, n)
<1>1. /\ g.cnt \in Nat /\ g.free \in Nat
      /\ g.slot \in [0..(g.cnt - 1) -> Records \cup {Free}]
      /\ g.next \in DataPages \cup {-1}
      /\ s \in 0..(g.cnt - 1) /\ g.slot[s] \in Records
  BY DEF IsPage
<1>2. /\ n \in Nat /\ n <= g.cnt
      /\ \A t \in n..(g.cnt - 1) : t = s \/ g.slot[t] = Free
  BY <1>1 DEF SlotsLeft
<1>3. h = [slot |-> [t \in 0..(n - 1) |-> IF t = s THEN Free ELSE g.slot[t]],
           cnt |-> n,
           free |-> g.free + g.slot[s].len + SlotSize * (g.cnt - n),
           next |-> g.next]
  BY DEF Deleted
<1> HIDE DEF h
<1>4. h.cnt = n /\ h.next = g.next
      /\ h.slot = [t \in 0..(n - 1) |-> IF t = s THEN Free ELSE g.slot[t]]
      /\ h.free = g.free + g.slot[s].len + SlotSize * (g.cnt - n)
      /\ h = [slot |-> h.slot, cnt |-> h.cnt, free |-> h.free, next |-> h.next]
  BY <1>3
<1>5. h.slot \in [0..(n - 1) -> Records \cup {Free}]
  BY <1>1, <1>2, <1>4
<1>6. SlotSize * (g.cnt - n) \in Nat
  BY <1>1, <1>2, SizesAssumption
<1>7. g.slot[s].len \in Nat
  BY <1>1, RecordsAssumption
<1>8. h.free \in Nat
  BY <1>1, <1>4, <1>6, <1>7
<1>9. IsPage(h)
  BY <1>1, <1>2, <1>4, <1>5, <1>8 DEF IsPage
<1>10. \A t \in DOMAIN g.slot : (g.slot[t] # Free /\ t # s) =>
         t \in DOMAIN h.slot /\ h.slot[t] = g.slot[t]
  BY SMTT(30), <1>1, <1>2, <1>4
<1> QED
  BY <1>4, <1>9, <1>10 DEF h

LEMMA NewPageIsPage == IsPage(NewPage) /\ NewPage.next = -1
BY SizesAssumption DEF NewPage, IsPage

(***************************************************************************)
(* A step of c that changes the file.                                      *)
(***************************************************************************)
LEMMA FileStepKeepsIInv ==
  ASSUME IInv, NEW c \in Clients, running = Idle, running' = running,
         obj[c] # Nil,
         obj' = [obj EXCEPT ![c] = obj'[c]],
         obj'[c] \in Objects, obj'[c].kind = obj[c].kind,
         pins' \in [Pages -> Nat], pins'[Header] = pins[Header],
         undefined' \in BOOLEAN,
         changed' \subseteq Pages,
         stray' \in BOOLEAN, refused' \in BOOLEAN,
         file' = [p \in DataPages |-> file'[p]],
         \A p \in Used' : IsPage(file[p])',
         hdr' \in [firstPage : DataPages, lastPage : DataPages, pageCnt : Nat,
                   recCnt : Int],
         Used \subseteq Used', ChainSound',
         hdr'.lastPage = hdr.lastPage \/ obj[c].kind = "insert",
         due' \in [Clients -> SUBSET Wanted'],
         dueMark' \in [Clients -> SUBSET Wanted'],
         \A d \in Clients : due'[d] \subseteq due[d]
                            /\ dueMark'[d] \subseteq dueMark[d],
         GoodObject(c)', GoodScan(c)'
  PROVE  IInv'
<1>1. obj'[c] # Nil
  BY NilIsNothing
<1>2. OpenObjects' = OpenObjects
  BY <1>1 DEF OpenObjects, IInv, TypeOK
<1>3. HeaderPinned'
  BY <1>2 DEF IInv, HeaderPinned
<1>4. OneInserter'
  BY <1>1 DEF OneInserter, IInv, TypeOK
<1>5. obj' \in [Clients -> Objects \cup {Nil}]
  BY DEF IInv, TypeOK
<1>6. TypeOK'
  BY <1>5 DEF IInv, TypeOK
<1>7. GoodRunning'
  BY DEF GoodRunning, Idle
<1>8. Null \notin Used' /\ Stale \notin Used'
  BY <1>6, UsedPages DEF Used, Null, Stale, DataPages, Pages
<1>9. ASSUME NEW d \in Clients
      PROVE  GoodObject(d)' /\ GoodScan(d)'
  <2>1. CASE d = c
    BY <2>1
  <2>2. CASE d # c
    <3>1. obj'[d] = obj[d]
      BY <2>2 DEF IInv, TypeOK
    <3>2. GoodObject(d) /\ GoodScan(d)
      BY DEF IInv
    <3>3. obj[d] # Nil => obj[d].curPage \in Used \cup {Null, Stale}
      BY <3>2 DEF GoodObject
    <3>4. (obj[d] # Nil /\ obj[d].kind = "insert") =>
            hdr'.lastPage = hdr.lastPage
      BY <2>2 DEF IInv, OneInserter
    <3>5. GoodObject(d)'
      BY <1>8, <3>1, <3>2, <3>3, <3>4 DEF GoodObject
    <3>6. ~Fresh(d)
      BY ClientsAssumption DEF Fresh, Idle
    <3>7. GoodScan(d)'
      BY <1>8, <3>1, <3>2, <3>3, <3>6 DEF GoodScan, Behind
    <3> QED
      BY <3>5, <3>7
  <2> QED
    BY <2>1, <2>2
<1> QED
  BY <1>3, <1>4, <1>6, <1>7, <1>9 DEF IInv

\* A change of page p within itself loses at most the record x of Wanted.
LEMMA PageChanged ==
  ASSUME TypeOK, ChainSound, NEW p \in Used, NEW g, IsPage(g),
         g.next = file[p].next, file' = [file EXCEPT ![p] = g],
         hdr'.firstPage = hdr.firstPage, hdr'.lastPage = hdr.lastPage,
         hdr'.pageCnt = hdr.pageCnt
  PROVE  /\ file' = [q \in DataPages |-> file'[q]]
         /\ Used' = Used
         /\ \A q \in Used' : IsPage(file[q])'
         /\ ChainSound'
<1>1. p \in DataPages /\ g # Nil
  BY NilIsNothing, UsedPages
<1>2. \A q \in DataPages : file'[q] = IF q = p THEN g ELSE file[q]
  BY <1>1 DEF TypeOK
<1>3. Used' = Used
  BY <1>1, <1>2 DEF Used
<1>4. file' = [q \in DataPages |-> file'[q]]
  BY DEF TypeOK
<1>5. \A q \in Used : file'[q].next = file[q].next
  BY <1>2, UsedPages
<1>6. \A q \in Used' : IsPage(file[q])'
  BY <1>2, <1>3, UsedPages DEF TypeOK, IsPage
<1>7. ChainSound'
  BY <1>3, <1>5 DEF ChainSound
<1> QED
  BY <1>3, <1>4, <1>6, <1>7

\* A record that is in the file and stays where it is.
LEMMA StaysWanted ==
  ASSUME TypeOK, NEW r \in Wanted, r[1] \in Used',
         r[2] \in DOMAIN file'[r[1]].slot,
         file'[r[1]].slot[r[2]] = file[r[1]].slot[r[2]]
  PROVE  r \in Wanted'
<1>1. /\ r[2] \in LiveOn(r[1]) /\ r = <<r[1], r[2]>>
      /\ file[r[1]].slot[r[2]].hit
  BY WantedRecord
<1>2. r[2] \in LiveOn(r[1])'
  BY <1>1 DEF LiveOn
<1>3. r \in Rids'
  BY <1>1, <1>2 DEF Rids
<1> QED
  BY <1>1, <1>3 DEF Wanted

LEMMA DeleteKeepsIInv ==
  ASSUME IInv, NEW c \in Clients, NEW n, DeleteRecord(c, n),
         UNCHANGED undefined
  PROVE  IInv'
<1> DEFINE o == obj[c]
           m == obj'[c]
           p == o.curPage
           s == o.curRec
<1>1. /\ o \in Objects /\ o # Nil /\ o.kind = "scan" /\ running = Idle
      /\ p \in Used /\ GoodObject(c) /\ GoodScan(c) /\ ~Fresh(c)
  BY HasObject DEF DeleteRecord, GoodObject
<1>2. m = [o EXCEPT !.curDirty = TRUE, !.hdrDirty = TRUE, !.told = "nothing"]
  BY DEF DeleteRecord, IInv, TypeOK
<1>3. /\ m \in Objects /\ m.kind = "scan"
      /\ m.curPage = o.curPage /\ m.curPageNo = o.curPageNo
      /\ m.curRec = o.curRec /\ m.told = "nothing" /\ m.mark = o.mark
  BY <1>1, <1>2 DEF Objects
<1>4. /\ obj' = [obj EXCEPT ![c] = m]
      /\ UNCHANGED <<pins, running, stray>>
      /\ hdr' = [hdr EXCEPT !.recCnt = @ - 1]
  BY DEF DeleteRecord, IInv, TypeOK
<1>5. /\ hdr' \in [firstPage : DataPages, lastPage : DataPages, pageCnt : Nat,
                   recCnt : Int]
      /\ hdr'.firstPage = hdr.firstPage /\ hdr'.lastPage = hdr.lastPage
      /\ hdr'.pageCnt = hdr.pageCnt
  BY <1>4 DEF IInv, TypeOK
<1>6. changed' \subseteq Pages /\ refused' \in BOOLEAN
  BY <1>1, UsedPages, Constants DEF DeleteRecord, IInv, TypeOK
<1>7. CASE
        /\ s \in LiveOn(p)
        /\ SlotsLeft(file[p], s, n)
        /\ file' = [file EXCEPT ![p] = Deleted(@, s, n)]
        /\ due' = Without(due, <<p, s>>)
        /\ dueMark' = Without(dueMark, <<p, s>>)
  <2> DEFINE g == Deleted(file[p], s, n)
  <2>1. IsPage(file[p]) /\ p \in DataPages
    BY <1>1, UsedPages DEF IInv, TypeOK
  <2>2. s \in DOMAIN file[p].slot /\ file[p].slot[s] # Free
    BY <1>7 DEF LiveOn
  <2>3. /\ IsPage(g) /\ g.next = file[p].next
        /\ \A t \in DOMAIN file[p].slot : (file[p].slot[t] # Free /\ t # s) =>
             t \in DOMAIN g.slot /\ g.slot[t] = file[p].slot[t]
    BY <1>7, <2>1, <2>2, DeletedPage
  <2>4. /\ file' = [q \in DataPages |-> file'[q]]
        /\ Used' = Used
        /\ \A q \in Used' : IsPage(file[q])'
        /\ ChainSound'
    <3>1. file' = [file EXCEPT ![p] = g]
      BY <1>7
    <3> HIDE DEF g
    <3> QED
      BY <1>1, <1>5, <2>3, <3>1, PageChanged DEF IInv
  <2>5. ASSUME NEW r \in Wanted, r # <<p, s>>
        PROVE  r \in Wanted'
    <3>1. /\ r[1] \in Used /\ r[2] \in LiveOn(r[1]) /\ r = <<r[1], r[2]>>
      BY WantedRecord DEF IInv
    <3>2. CASE r[1] = p
      <4>1. file'[p] = g
        BY <1>7, <2>1 DEF IInv, TypeOK
      <4>2. r[2] # s
        BY <2>5, <3>1, <3>2
      <4>3. r[2] \in DOMAIN g.slot /\ g.slot[r[2]] = file[p].slot[r[2]]
        BY <2>3, <3>1, <3>2, <4>2 DEF LiveOn
      <4> HIDE DEF g
      <4> QED
        BY <2>4, <3>1, <3>2, <4>1, <4>3, StaysWanted DEF IInv
    <3>3. CASE r[1] # p
      <4>1. file'[r[1]] = file[r[1]]
        BY <1>7, <3>1, <3>3, UsedPages DEF IInv, TypeOK
      <4> QED
        BY <2>4, <3>1, <4>1, StaysWanted DEF IInv, LiveOn
    <3> QED
      BY <3>2, <3>3
  <2>6. \A d \in Clients : /\ due'[d] = due[d] \ {<<p, s>>}
                           /\ dueMark'[d] = dueMark[d] \ {<<p, s>>}
                           /\ due[d] \subseteq Wanted
                           /\ dueMark[d] \subseteq Wanted
    BY <1>7 DEF Without, IInv, TypeOK
  <2>7. /\ due' \in [Clients -> SUBSET Wanted']
        /\ dueMark' \in [Clients -> SUBSET Wanted']
    <3>1. \A d \in Clients : /\ due'[d] \subseteq Wanted'
                             /\ dueMark'[d] \subseteq Wanted'
      BY <2>5, <2>6
    <3> QED
      BY <1>7, <3>1 DEF Without
  <2>8. GoodObject(c)'
    BY <1>1, <1>3, <2>4, UsedPages DEF GoodObject, IInv
  <2>9. GoodScan(c)'
    BY <1>1, <1>3, <2>4, <2>6 DEF GoodScan, Behind
  <2>10. /\ \A d \in Clients : /\ due'[d] \subseteq due[d]
                              /\ dueMark'[d] \subseteq dueMark[d]
         /\ Used \subseteq Used'
    BY <2>4, <2>6
  <2>11. pins' \in [Pages -> Nat] /\ stray' \in BOOLEAN /\ undefined' \in BOOLEAN
    BY <1>4 DEF IInv, TypeOK
  <2> QED
    BY <1>1, <1>3, <1>4, <1>5, <1>6, <2>4, <2>7, <2>8, <2>9, <2>10, <2>11,
       FileStepKeepsIInv
<1>8. CASE UNCHANGED <<file, due, dueMark>>
  <2>1. Used' = Used /\ Wanted' = Wanted
    BY <1>8 DEF Used, Wanted, Rids, LiveOn
  <2>2. ChainSound'
    BY <1>5, <1>8, <2>1 DEF IInv, ChainSound
  <2>3. GoodObject(c)'
    BY <1>1, <1>3, <2>1, UsedPages DEF GoodObject, IInv
  <2>4. GoodScan(c)'
    BY <1>1, <1>3, <1>8, <2>1 DEF GoodScan, Behind
  <2>5. /\ \A q \in Used' : IsPage(file[q])'
        /\ file' = [q \in DataPages |-> file'[q]]
    BY <1>8, <2>1 DEF IInv, TypeOK, IsPage
  <2>6. /\ due' \in [Clients -> SUBSET Wanted']
        /\ dueMark' \in [Clients -> SUBSET Wanted']
        /\ \A d \in Clients : /\ due'[d] \subseteq due[d]
                             /\ dueMark'[d] \subseteq dueMark[d]
    BY <1>8, <2>1 DEF IInv, TypeOK
  <2>7. Used \subseteq Used'
    BY <2>1
  <2>8. pins' \in [Pages -> Nat] /\ stray' \in BOOLEAN /\ undefined' \in BOOLEAN
    BY <1>4 DEF IInv, TypeOK
  <2> QED
    BY <1>1, <1>3, <1>4, <1>5, <1>6, <2>2, <2>3, <2>4, <2>5, <2>6, <2>7,
       <2>8, FileStepKeepsIInv
<1> QED
  BY <1>7, <1>8 DEF DeleteRecord

\* A page is added behind the last.
LEMMA PageAdded ==
  ASSUME TypeOK, ChainSound, NEW p, p = hdr.lastPage,
         NEW q \in DataPages, \A u \in Used : u < q,
         NEW g, IsPage(g), g.next = -1, file' = Linked(p, q, g),
         hdr'.firstPage = hdr.firstPage, hdr'.lastPage = q,
         hdr'.pageCnt = hdr.pageCnt + 1
  PROVE  /\ file' = [u \in DataPages |-> file'[u]]
         /\ Used' = Used \cup {q}
         /\ \A u \in Used' : IsPage(file[u])'
         /\ ChainSound'
         /\ Wanted \subseteq Wanted'
<1>1. p \in Used /\ p \in DataPages /\ p # q /\ q \notin Used /\ p \in Nat
      /\ q \in Nat /\ p < q /\ hdr.firstPage \in Used /\ hdr.firstPage \in Nat
  BY UsedPages, Constants DEF ChainSound
<1>2. IsPage(file[p]) /\ g # Nil
  BY <1>1, NilIsNothing DEF TypeOK
<1>3. \A u \in DataPages : file'[u] = IF u = q THEN g
                                      ELSE IF u = p THEN [file[p] EXCEPT !.next = q]
                                      ELSE file[u]
  BY <1>1 DEF TypeOK, Linked
<1>4. LET h == [file[p] EXCEPT !.next = q] IN
      /\ IsPage(h) /\ h.next = q /\ h.slot = file[p].slot
  BY <1>1, <1>2 DEF IsPage
<1>5. file' = [u \in DataPages |-> file'[u]]
  BY DEF TypeOK, Linked
<1>6. Used' = Used \cup {q}
  <2>1. \A u \in DataPages : file'[u] # Nil <=> u = q \/ file[u] # Nil
    BY <1>1, <1>2, <1>3, <1>4, NilIsNothing DEF Used
  <2> QED
    BY <2>1 DEF Used
<1>7. \A u \in Used' : IsPage(file[u])'
  <2>1. \A u \in Used' : IsPage(file'[u])
    BY ZenonT(60), <1>1, <1>3, <1>4, <1>6, UsedPages DEF TypeOK
  <2> QED
    BY <2>1 DEF IsPage
<1>8. /\ file'[q].next = -1 /\ file'[p].next = q
      /\ \A u \in Used : u # p => file'[u].next = file[u].next
  BY <1>1, <1>3, <1>4, UsedPages
<1>9. hdr'.pageCnt = Cardinality(Used')
  <2>1. IsFiniteSet(Used)
    <3>1. IsFiniteSet(DataPages)
      BY Constants, FS_Interval
    <3> QED
      BY <3>1, UsedPages, FS_Subset
  <2> QED
    BY <1>1, <1>6, <2>1, FS_AddElement DEF ChainSound
<1>10. ChainSound'
  <2>1. hdr'.firstPage \in Used' /\ hdr'.lastPage \in Used'
    BY <1>1, <1>6
  <2>2. ASSUME NEW u \in Used'
        PROVE  /\ hdr'.firstPage <= u /\ u <= q
               /\ u = q => file'[u].next = -1
               /\ u # q => /\ file'[u].next \in Used'
                           /\ file'[u].next > u
                           /\ \A w \in Used' : w <= u \/ w >= file'[u].next
    <3>1. CASE u = q
      BY <1>1, <1>8, <3>1 DEF ChainSound
    <3>2. CASE u = p
      BY <1>1, <1>6, <1>8, <3>2, UsedPages DEF ChainSound
    <3>3. CASE u # q /\ u # p
      <4>1. u \in Used /\ u \in Nat /\ u < q /\ u # hdr.lastPage
        BY <1>6, <3>3, UsedPages
      <4>2. /\ hdr.firstPage <= u /\ file[u].next \in Used
            /\ file[u].next > u
            /\ \A w \in Used : w <= u \/ w >= file[u].next
        BY <4>1 DEF ChainSound
      <4>3. file'[u].next = file[u].next /\ file[u].next \in Nat
            /\ file[u].next < q
        BY <1>8, <3>3, <4>1, <4>2, UsedPages
      <4> QED
        BY <1>1, <1>6, <3>3, <4>1, <4>2, <4>3
    <3> QED
      BY <3>1, <3>2, <3>3
  <2> QED
    BY <1>9, <2>1, <2>2 DEF ChainSound
<1>11. ASSUME NEW r \in Wanted
       PROVE  r \in Wanted'
  <2>1. r[1] \in Used /\ r[2] \in LiveOn(r[1]) /\ r[1] \in DataPages
    BY WantedRecord
  <2>2. file'[r[1]].slot = file[r[1]].slot
    BY <1>1, <1>3, <1>4, <2>1
  <2> QED
    BY <1>6, <2>1, <2>2, StaysWanted DEF LiveOn
<1> QED
  BY <1>5, <1>6, <1>7, <1>10, <1>11

LEMMA InsertHereKeepsIInv ==
  ASSUME IInv, NEW c \in Clients, NEW r \in Records, NEW s,
         InsertHere(c, r, s), UNCHANGED undefined
  PROVE  IInv'
<1> DEFINE o == obj[c]
           m == obj'[c]
           p == o.curPage
           g == Inserted(file[p], r, s)
<1>1. /\ o \in Objects /\ o # Nil /\ o.kind = "insert" /\ running = Idle
      /\ p \in Used /\ GoodObject(c) /\ GoodScan(c)
  BY HasObject DEF InsertHere, GoodObject
<1>2. m = [o EXCEPT !.curDirty = TRUE, !.hdrDirty = TRUE]
  BY DEF InsertHere, IInv, TypeOK
<1>3. /\ m \in Objects /\ m.kind = "insert"
      /\ m.curPage = o.curPage /\ m.curPageNo = o.curPageNo
      /\ m.curRec = o.curRec /\ m.told = o.told /\ m.mark = o.mark
  BY <1>1, <1>2 DEF Objects
<1>4. /\ obj' = [obj EXCEPT ![c] = m]
      /\ UNCHANGED <<pins, running, due, dueMark, stray, refused>>
      /\ hdr' = [hdr EXCEPT !.recCnt = @ + 1]
      /\ file' = [file EXCEPT ![p] = g]
  BY DEF InsertHere, history, IInv, TypeOK
<1>5. /\ hdr' \in [firstPage : DataPages, lastPage : DataPages, pageCnt : Nat,
                   recCnt : Int]
      /\ hdr'.firstPage = hdr.firstPage /\ hdr'.lastPage = hdr.lastPage
      /\ hdr'.pageCnt = hdr.pageCnt
  BY <1>4 DEF IInv, TypeOK
<1>6. changed' \subseteq Pages
  BY SMTT(30), <1>1, UsedPages, Constants DEF InsertHere, IInv, TypeOK
<1>7. IsPage(file[p]) /\ p \in DataPages
  BY <1>1, UsedPages DEF IInv, TypeOK
<1>8. /\ IsPage(g) /\ g.next = file[p].next
      /\ \A t \in DOMAIN file[p].slot : file[p].slot[t] # Free =>
           t \in DOMAIN g.slot /\ g.slot[t] = file[p].slot[t]
  BY <1>7, InsertedPage DEF InsertHere
<1> HIDE DEF g
<1>9. /\ file' = [q \in DataPages |-> file'[q]]
      /\ Used' = Used
      /\ \A q \in Used' : IsPage(file[q])'
      /\ ChainSound'
  BY <1>1, <1>4, <1>5, <1>8, PageChanged DEF IInv
<1>10. ASSUME NEW x \in Wanted
       PROVE  x \in Wanted'
  <2>1. x[1] \in Used /\ x[2] \in LiveOn(x[1]) /\ x[1] \in DataPages
    BY WantedRecord DEF IInv
  <2>2. file'[x[1]] = IF x[1] = p THEN g ELSE file[x[1]]
    BY <1>4, <2>1 DEF IInv, TypeOK
  <2>3. /\ x[2] \in DOMAIN file'[x[1]].slot
        /\ file'[x[1]].slot[x[2]] = file[x[1]].slot[x[2]]
    BY <1>8, <2>1, <2>2 DEF LiveOn
  <2> QED
    BY <1>9, <2>1, <2>3, StaysWanted DEF IInv
<1>11. /\ due' \in [Clients -> SUBSET Wanted']
       /\ dueMark' \in [Clients -> SUBSET Wanted']
       /\ \A d \in Clients : /\ due'[d] \subseteq due[d]
                             /\ dueMark'[d] \subseteq dueMark[d]
  BY <1>4, <1>10 DEF IInv, TypeOK
<1>12. GoodObject(c)'
  BY <1>1, <1>3, <1>5, <1>9 DEF GoodObject
<1>13. GoodScan(c)'
  BY <1>1, <1>3, <1>4, <1>9 DEF GoodScan, Behind
<1>14. pins' \in [Pages -> Nat] /\ stray' \in BOOLEAN /\ undefined' \in BOOLEAN
       /\ refused' \in BOOLEAN
  BY <1>4 DEF IInv, TypeOK
<1> QED
  BY <1>1, <1>3, <1>4, <1>5, <1>6, <1>9, <1>11, <1>12, <1>13, <1>14,
     FileStepKeepsIInv

\* Where an insertion that needs a page finds itself.
LEMMA NeedsPageFacts ==
  ASSUME IInv, NEW c \in Clients, NEW r \in Records, NEW q, NeedsPage(c, r, q)
  PROVE  /\ obj[c] \in Objects /\ obj[c] # Nil /\ obj[c].kind = "insert"
         /\ running = Idle /\ GoodObject(c) /\ GoodScan(c)
         /\ obj[c].curPage = hdr.lastPage /\ hdr.lastPage \in Used
         /\ hdr.lastPage \in Pages /\ hdr.lastPage # Header
         /\ q \in DataPages /\ q \in Pages /\ q # Header /\ q # -1
         /\ \A u \in Used : u < q
<1>1. /\ obj[c] \in Objects /\ obj[c] # Nil /\ obj[c].kind = "insert"
      /\ running = Idle /\ GoodObject(c) /\ GoodScan(c)
      /\ obj[c].told # "failed" /\ obj[c].curPage \in Used \cup {Null}
  BY HasObject DEF NeedsPage
<1>2. obj[c].curPage = hdr.lastPage
  BY <1>1, UsedPages DEF GoodObject, IInv
<1>3. q \in DataPages /\ \A u \in Used : u < q
  BY DEF NeedsPage
<1>4. q \in Pages /\ q # Header /\ q # -1
  BY <1>3, Constants DEF DataPages, Pages
<1> QED
  BY <1>1, <1>2, <1>3, <1>4, UsedPages DEF IInv, ChainSound

\* What a new page, and perhaps a record on it, make of the header.
LEMMA HeaderTurns ==
  ASSUME NEW h \in [firstPage : DataPages, lastPage : DataPages, pageCnt : Nat,
                    recCnt : Int],
         NEW q \in DataPages
  PROVE  LET k == [h EXCEPT !.lastPage = q, !.pageCnt = @ + 1] IN
         /\ k \in [firstPage : DataPages, lastPage : DataPages, pageCnt : Nat,
                   recCnt : Int]
         /\ k.firstPage = h.firstPage /\ k.lastPage = q
         /\ k.pageCnt = h.pageCnt + 1
<1> DEFINE a == [h EXCEPT !.lastPage = q]
           n == a.pageCnt + 1
           b == [a EXCEPT !.pageCnt = n]
<1>1. /\ a \in [firstPage : DataPages, lastPage : DataPages, pageCnt : Nat,
                recCnt : Int]
      /\ a.firstPage = h.firstPage /\ a.lastPage = q /\ a.pageCnt = h.pageCnt
  OBVIOUS
<1>2. b = [h EXCEPT !.lastPage = q, !.pageCnt = @ + 1]
  OBVIOUS
<1> HIDE DEF a
<1>3. n \in Nat
  BY <1>1
<1> HIDE DEF n
<1>4. /\ b \in [firstPage : DataPages, lastPage : DataPages, pageCnt : Nat,
                recCnt : Int]
      /\ b.firstPage = a.firstPage /\ b.lastPage = a.lastPage
      /\ b.pageCnt = n
  BY <1>1, <1>3
<1> QED
  BY <1>1, <1>2, <1>4 DEF n

LEMMA HeaderCounts ==
  ASSUME NEW h \in [firstPage : DataPages, lastPage : DataPages, pageCnt : Nat,
                    recCnt : Int],
         NEW q \in DataPages, NEW F \in BOOLEAN
  PROVE  LET k == [h EXCEPT !.lastPage = q, !.pageCnt = @ + 1,
                            !.recCnt = IF F THEN @ + 1 ELSE @] IN
         /\ k \in [firstPage : DataPages, lastPage : DataPages, pageCnt : Nat,
                   recCnt : Int]
         /\ k.firstPage = h.firstPage /\ k.lastPage = q
         /\ k.pageCnt = h.pageCnt + 1
<1> DEFINE a == [h EXCEPT !.lastPage = q, !.pageCnt = @ + 1]
           i == IF F THEN a.recCnt + 1 ELSE a.recCnt
           b == [a EXCEPT !.recCnt = i]
<1>1. /\ a \in [firstPage : DataPages, lastPage : DataPages, pageCnt : Nat,
                recCnt : Int]
      /\ a.firstPage = h.firstPage /\ a.lastPage = q
      /\ a.pageCnt = h.pageCnt + 1
  BY HeaderTurns
<1>2. b = [h EXCEPT !.lastPage = q, !.pageCnt = @ + 1,
                    !.recCnt = IF F THEN @ + 1 ELSE @]
  OBVIOUS
<1> HIDE DEF a
<1>3. i \in Int
  BY <1>1
<1> HIDE DEF i
<1>4. /\ b \in [firstPage : DataPages, lastPage : DataPages, pageCnt : Nat,
                recCnt : Int]
      /\ b.firstPage = a.firstPage /\ b.lastPage = a.lastPage
      /\ b.pageCnt = a.pageCnt
  BY <1>1, <1>3
<1> QED
  BY <1>1, <1>2, <1>4

LEMMA InsertNewPageKeepsIInv ==
  ASSUME IInv, NEW c \in Clients, NEW r \in Records, NEW q,
         InsertNewPage(c, r, q), UNCHANGED undefined
  PROVE  IInv'
<1> DEFINE o == obj[c]
           m == obj'[c]
           p == o.curPage
           fits == Fits(NewPage, r)
           g == IF fits THEN Inserted(NewPage, r, 0) ELSE NewPage
<1>1. /\ o \in Objects /\ o # Nil /\ o.kind = "insert" /\ running = Idle
      /\ GoodObject(c) /\ GoodScan(c)
      /\ p = hdr.lastPage /\ p \in Used /\ p \in Pages /\ p # Header
      /\ q \in DataPages /\ q \in Pages /\ q # Header
      /\ \A u \in Used : u < q
  BY NeedsPageFacts DEF InsertNewPage
<1>2. m = [o EXCEPT !.curPage = q, !.curPageNo = q,
                    !.curDirty = @ \/ fits, !.hdrDirty = TRUE]
  BY DEF InsertNewPage, IInv, TypeOK
<1>3. /\ m \in Objects /\ m.kind = "insert"
      /\ m.curPage = q /\ m.curPageNo = q
      /\ m.curRec = o.curRec /\ m.told = o.told /\ m.mark = o.mark
  BY <1>1, <1>2 DEF Objects, PageNos
<1>4. /\ obj' = [obj EXCEPT ![c] = m]
      /\ UNCHANGED <<running, due, dueMark, stray, refused>>
      /\ hdr' = [hdr EXCEPT !.lastPage = q, !.pageCnt = @ + 1,
                            !.recCnt = IF fits THEN @ + 1 ELSE @]
      /\ file' = Linked(p, q, g)
      /\ pins' = [UnPinned(p) EXCEPT ![q] = 1]
      /\ changed' = (changed \ {p}) \cup {q, Header}
  BY DEF InsertNewPage, history, IInv, TypeOK
<1>5. /\ hdr' \in [firstPage : DataPages, lastPage : DataPages, pageCnt : Nat,
                   recCnt : Int]
      /\ hdr'.firstPage = hdr.firstPage /\ hdr'.lastPage = q
      /\ hdr'.pageCnt = hdr.pageCnt + 1
  <2>1. hdr \in [firstPage : DataPages, lastPage : DataPages, pageCnt : Nat,
                 recCnt : Int]
    BY DEF IInv, TypeOK
  <2>2. q \in DataPages /\ hdr' = [hdr EXCEPT !.lastPage = q, !.pageCnt = @ + 1,
                            !.recCnt = IF fits THEN @ + 1 ELSE @]
    BY <1>1, <1>4
  <2>3. fits \in BOOLEAN
    BY DEF Fits
  <2> HIDE DEF fits
  <2> QED
    BY <2>1, <2>2, <2>3, HeaderCounts
<1>6. changed' \subseteq Pages
  BY <1>1, <1>4, Constants DEF IInv, TypeOK
<1>7. pins' \in [Pages -> Nat] /\ pins'[Header] = pins[Header]
  <2>1. UnPinned(p) \in [Pages -> Nat] /\ UnPinned(p)[Header] = pins[Header]
    BY <1>1, UnPinnedTyped DEF IInv
  <2> QED
    BY <1>1, <1>4, <2>1
<1>8. IsPage(g) /\ g.next = -1
  <2>1. SlotFor(NewPage, 0)
    BY DEF SlotFor, NewPage
  <2> QED
    BY <2>1, NewPageIsPage, InsertedPage
<1> HIDE DEF g, fits
<1>9. /\ file' = [u \in DataPages |-> file'[u]]
      /\ Used' = Used \cup {q}
      /\ \A u \in Used' : IsPage(file[u])'
      /\ ChainSound'
      /\ Wanted \subseteq Wanted'
  BY <1>1, <1>4, <1>5, <1>8, PageAdded DEF IInv
<1>10. /\ due' \in [Clients -> SUBSET Wanted']
       /\ dueMark' \in [Clients -> SUBSET Wanted']
       /\ \A d \in Clients : /\ due'[d] \subseteq due[d]
                             /\ dueMark'[d] \subseteq dueMark[d]
  BY <1>4, <1>9 DEF IInv, TypeOK
<1>11. GoodObject(c)'
  <2>1. q # Null
    BY <1>1, Constants DEF Null
  <2> QED
    BY <1>1, <1>3, <1>5, <1>9, <2>1 DEF GoodObject
<1>12. GoodScan(c)'
  BY <1>1, <1>3, <1>4, <1>9 DEF GoodScan, Behind
<1>13. stray' \in BOOLEAN /\ undefined' \in BOOLEAN /\ refused' \in BOOLEAN
       /\ Used \subseteq Used'
  BY <1>4, <1>9 DEF IInv, TypeOK
<1> QED
  BY <1>1, <1>3, <1>4, <1>5, <1>6, <1>7, <1>9, <1>10, <1>11, <1>12, <1>13,
     FileStepKeepsIInv

LEMMA InsertUnPinFailsKeepsIInv ==
  ASSUME IInv, NEW c \in Clients, NEW r \in Records, NEW q,
         InsertUnPinFails(c, r, q), UNCHANGED undefined
  PROVE  IInv'
<1> DEFINE o == obj[c]
           m == obj'[c]
           p == o.curPage
<1>1. /\ o \in Objects /\ o # Nil /\ o.kind = "insert" /\ running = Idle
      /\ GoodObject(c) /\ GoodScan(c)
      /\ p = hdr.lastPage /\ p \in Used /\ p \in Pages /\ q \in DataPages
      /\ \A u \in Used : u < q
  BY NeedsPageFacts DEF InsertUnPinFails
<1>2. m = [o EXCEPT !.curPage = Null, !.curPageNo = -1, !.curDirty = FALSE,
                    !.hdrDirty = TRUE, !.told = "failed"]
  BY DEF InsertUnPinFails, IInv, TypeOK
<1>3. /\ m \in Objects /\ m.kind = "insert"
      /\ m.curPage = Null /\ m.told = "failed" /\ m.mark = o.mark
  BY <1>1, <1>2 DEF Objects, PageNos
<1>4. /\ obj' = [obj EXCEPT ![c] = m]
      /\ UNCHANGED <<pins, running, due, dueMark, stray, refused>>
      /\ hdr' = [hdr EXCEPT !.lastPage = q, !.pageCnt = @ + 1]
      /\ file' = Linked(p, q, NewPage)
      /\ changed' = changed \cup {p, Header}
  BY DEF InsertUnPinFails, history, IInv, TypeOK
<1>5. /\ hdr' \in [firstPage : DataPages, lastPage : DataPages, pageCnt : Nat,
                   recCnt : Int]
      /\ hdr'.firstPage = hdr.firstPage /\ hdr'.lastPage = q
      /\ hdr'.pageCnt = hdr.pageCnt + 1
  <2>1. hdr \in [firstPage : DataPages, lastPage : DataPages, pageCnt : Nat,
                 recCnt : Int]
    BY DEF IInv, TypeOK
  <2>2. q \in DataPages /\ hdr' = [hdr EXCEPT !.lastPage = q, !.pageCnt = @ + 1]
    BY <1>1, <1>4
  <2> QED
    BY <2>1, <2>2, HeaderTurns
<1>6. changed' \subseteq Pages
  BY <1>1, <1>4, Constants DEF IInv, TypeOK
<1>7. /\ file' = [u \in DataPages |-> file'[u]]
      /\ Used' = Used \cup {q}
      /\ \A u \in Used' : IsPage(file[u])'
      /\ ChainSound'
      /\ Wanted \subseteq Wanted'
  BY <1>1, <1>4, <1>5, NewPageIsPage, PageAdded DEF IInv
<1>8. /\ due' \in [Clients -> SUBSET Wanted']
      /\ dueMark' \in [Clients -> SUBSET Wanted']
      /\ \A d \in Clients : /\ due'[d] \subseteq due[d]
                            /\ dueMark'[d] \subseteq dueMark[d]
  BY <1>4, <1>7 DEF IInv, TypeOK
<1>9. GoodObject(c)' /\ GoodScan(c)'
  <2>1. Null \notin Used'
    BY <1>1, <1>7, UsedPages, Constants DEF IInv, DataPages
  <2> QED
    BY <1>1, <1>3, <1>4, <1>5, <1>7, <2>1 DEF GoodObject, GoodScan, Behind
<1>10. /\ stray' \in BOOLEAN /\ undefined' \in BOOLEAN /\ refused' \in BOOLEAN
       /\ Used \subseteq Used' /\ pins' \in [Pages -> Nat]
  BY <1>4, <1>7 DEF IInv, TypeOK
<1> QED
  BY <1>1, <1>3, <1>4, <1>5, <1>6, <1>7, <1>8, <1>9, <1>10,
     FileStepKeepsIInv

-----------------------------------------------------------------------------
\* What a constructor makes.
LEMMA ObjectFields ==
  ASSUME NEW kind \in {"scan", "insert", "reader"},
         NEW x \in DataPages \cup {Stale}, NEW p \in DataPages
  PROVE  LET m == Object(kind, x, p) IN
         /\ m \in Objects /\ m.kind = kind /\ m.curPage = x
         /\ m.curPageNo = p /\ m.curRec = NoSlot /\ m.mark = Nil
         /\ m.told = "nothing"
BY DEF Object, Objects, PageNos, SlotNos

LEMMA OpenKeepsIInv ==
  ASSUME IInv, NEW c \in Clients, NEW kind \in {"scan", "insert", "reader"},
         NEW p \in Used, Open(c, kind, p), UNCHANGED undefined,
         kind = "scan" => p = hdr.firstPage,
         kind = "insert" =>
           /\ p = hdr.lastPage
           /\ \A d \in Clients : obj[d] # Nil => obj[d].kind # "insert"
  PROVE  IInv'
<1> DEFINE m == obj'[c]
<1>1. /\ obj[c] = Nil /\ running = Idle /\ ~Fresh(c)
      /\ p \in Pages /\ p \in DataPages /\ p # Header /\ Header \in Pages
  BY UsedPages, Constants, ClientsAssumption
  DEF Open, CanOpen, Fresh, Idle, IInv
<1>2. /\ UNCHANGED <<content, running, changed, dueMark, refused>>
      /\ obj' = [obj EXCEPT ![c] = m]
      /\ due'[c] \in {Wanted, {}} /\ due' = [due EXCEPT ![c] = due'[c]]
      /\ stray' \in BOOLEAN
  BY DEF Open, IInv, TypeOK
<1>3. /\ m \in {Object(kind, p, p), Object(kind, Stale, p)}
      /\ m = Object(kind, Stale, p) =>
           pins' = [pins EXCEPT ![Header] = @ + 1]
      /\ m = Object(kind, p, p) =>
           pins' = [pins EXCEPT ![Header] = @ + 1, ![p] = @ + 1]
  <2>1. Object(kind, p, p) # Object(kind, Stale, p)
    BY <1>1, Constants DEF Object
  <2> QED
    BY <2>1 DEF Open, IInv, TypeOK
<1>4. /\ m \in Objects /\ m # Nil /\ m.kind = kind
      /\ m.curPage \in {p, Stale} /\ m.curPageNo = p
      /\ m.curRec = NoSlot /\ m.mark = Nil /\ m.told = "nothing"
  BY <1>1, <1>3, ObjectFields, NilIsNothing
<1>5. pins' \in [Pages -> Nat] /\ pins'[Header] = pins[Header] + 1
  BY <1>1, <1>3 DEF IInv, TypeOK
<1>6. pins'[Header] = Cardinality(OpenObjects')
  <2>1. OpenObjects' = OpenObjects \cup {c} /\ c \notin OpenObjects
    BY <1>1, <1>2, <1>4 DEF OpenObjects, IInv, TypeOK
  <2>2. IsFiniteSet(OpenObjects)
    BY ClientsAssumption, FS_Subset DEF OpenObjects
  <2>3. pins[Header] = Cardinality(OpenObjects)
    BY DEF IInv, HeaderPinned
  <2>4. Cardinality(OpenObjects \cup {c}) = Cardinality(OpenObjects) + 1
    BY <2>1, <2>2, FS_AddElement
  <2> QED
    BY <1>5, <2>1, <2>3, <2>4
<1>7. OneInserter'
  BY <1>1, <1>2, <1>4 DEF OneInserter, IInv, TypeOK
<1>8. GoodRunning'
  BY <1>1, <1>2 DEF GoodRunning, Idle
<1>9. GoodObject(c)'
  <2>1. Used' = Used /\ hdr' = hdr /\ Null \notin Used /\ Stale \notin Used
    BY <1>2, FileKept DEF IInv
  <2> QED
    BY <1>4, <2>1, Constants DEF GoodObject
<1>10. GoodScan(c)'
  <2>1. kind = "scan" => \A r \in Wanted : Behind(r, p, NoSlot)
    BY AllBehindStart
  <2> QED
    BY <1>2, <1>4, <2>1, FileKept DEF GoodScan, Behind, IInv
<1> QED
  BY <1>1, <1>2, <1>4, <1>5, <1>6, <1>7, <1>8, <1>9, <1>10, OwnStepKeepsIInv
  DEF IInv, TypeOK, Idle

LEMMA CloseKeepsIInv ==
  ASSUME IInv, NEW c \in Clients, Close(c), UNCHANGED undefined
  PROVE  IInv'
<1> DEFINE o == obj[c]
<1>1. o \in Objects /\ o # Nil /\ running = Idle
  BY DEF Close, IInv, TypeOK
<1>2. Left(o) # Header
  BY <1>1, Constants DEF Left, Objects, PageNos, Null, DataPages
<1>3. UnPinned(Left(o)) \in [Pages -> Nat]
      /\ UnPinned(Left(o))[Header] = pins[Header]
  BY <1>2, UnPinnedTyped DEF IInv
<1>4. /\ UNCHANGED <<content, running, stray, refused>>
      /\ obj' = [obj EXCEPT ![c] = Nil] /\ obj'[c] = Nil
      /\ due' = [due EXCEPT ![c] = {}] /\ due'[c] = {}
      /\ dueMark' = [dueMark EXCEPT ![c] = {}] /\ dueMark'[c] = {}
      /\ pins' = [UnPinned(Left(o)) EXCEPT ![Header] = @ - 1]
  BY DEF Close, IInv, TypeOK
<1>5. changed' \subseteq Pages
  BY DEF Close, Saved, IInv, TypeOK
<1>6. OpenObjects' = OpenObjects \ {c} /\ c \in OpenObjects
  BY <1>1, <1>4 DEF OpenObjects, IInv, TypeOK
<1>7. /\ IsFiniteSet(OpenObjects) /\ Cardinality(OpenObjects) \in Nat
      /\ Cardinality(OpenObjects') = Cardinality(OpenObjects) - 1
      /\ Cardinality(OpenObjects') \in Nat
  <2>1. IsFiniteSet(OpenObjects)
    BY ClientsAssumption, FS_Subset DEF OpenObjects
  <2>2. IsFiniteSet(OpenObjects')
    BY <1>6, <2>1, FS_Subset
  <2> QED
    BY <1>6, <2>1, <2>2, FS_RemoveElement, FS_CardinalityType
<1>8. pins' \in [Pages -> Nat] /\ pins'[Header] = Cardinality(OpenObjects')
  BY <1>3, <1>4, <1>7, Constants DEF IInv, HeaderPinned
<1>9. OneInserter'
  BY <1>4 DEF OneInserter, IInv, TypeOK
<1>10. GoodRunning' /\ GoodObject(c)' /\ GoodScan(c)'
  BY <1>1, <1>4 DEF GoodRunning, GoodObject, GoodScan, Idle
<1> QED
  BY <1>1, <1>4, <1>5, <1>8, <1>9, <1>10, OwnStepKeepsIInv
  DEF IInv, TypeOK, Idle

-----------------------------------------------------------------------------
\* Nothing but the flag.
LEMMA NothingHappensKeepsIInv ==
  ASSUME IInv, undefined' \in BOOLEAN,
         UNCHANGED <<file, hdr, obj, pins, running, changed, history>>
  PROVE  IInv'
<1>1. /\ file' = file /\ hdr' = hdr /\ obj' = obj /\ pins' = pins
      /\ running' = running /\ changed' = changed /\ due' = due
      /\ dueMark' = dueMark /\ stray' = stray /\ refused' = refused
  BY DEF history
<1>2. Used' = Used /\ Wanted' = Wanted
  BY <1>1 DEF Used, Wanted, Rids, LiveOn
<1>3. TypeOK'
  BY <1>1, <1>2 DEF IInv, TypeOK
<1>4. ChainSound' /\ HeaderPinned' /\ OneInserter' /\ GoodRunning'
  BY <1>1, <1>2
  DEF IInv, ChainSound, HeaderPinned, OpenObjects, OneInserter, GoodRunning
<1>5. \A c \in Clients : GoodObject(c)' /\ GoodScan(c)'
  BY <1>1, <1>2 DEF IInv, GoodObject, GoodScan, Fresh
<1> QED
  BY <1>3, <1>4, <1>5 DEF IInv

LEMMA InitHasIInv == Init => IInv
<1> SUFFICES ASSUME Init
             PROVE  IInv
  OBVIOUS
<1>1. 2 \in DataPages /\ 2 # -1 /\ Header \in Pages
  BY Constants DEF DataPages, Pages
<1>2. file[2] = NewPage /\ \A p \in DataPages \ {2} : file[p] = Nil
  BY <1>1 DEF Init
<1>3. Used = {2}
  BY <1>1, <1>2, NewPageIsPage, NilIsNothing DEF Used
<1>4. LiveOn(2) = {}
  BY <1>2 DEF LiveOn, NewPage
<1>5. Wanted = {}
  BY <1>3, <1>4, WantedRecords
<1>6. TypeOK
  <2>1. file = [p \in DataPages |-> file[p]]
    BY DEF Init
  <2>2. \A p \in Used : IsPage(file[p])
    BY <1>2, <1>3, NewPageIsPage
  <2>3. hdr \in [firstPage : DataPages, lastPage : DataPages, pageCnt : Nat,
                 recCnt : Int]
    BY <1>1 DEF Init
  <2>4. /\ obj \in [Clients -> Objects \cup {Nil}]
        /\ pins \in [Pages -> Nat]
        /\ running \in [by : Clients \cup {Nil}, fresh : BOOLEAN]
    BY DEF Init, Idle
  <2>5. /\ due \in [Clients -> SUBSET Wanted]
        /\ dueMark \in [Clients -> SUBSET Wanted]
    BY DEF Init
  <2>6. /\ undefined \in BOOLEAN /\ stray \in BOOLEAN /\ refused \in BOOLEAN
        /\ changed \subseteq Pages
    BY DEF Init
  <2> QED
    BY <2>1, <2>2, <2>3, <2>4, <2>5, <2>6 DEF TypeOK
<1>7. ChainSound
  <2>1. Cardinality({2}) = 1
    BY FS_Singleton
  <2> QED
    BY <1>2, <1>3, <2>1, NewPageIsPage DEF Init, ChainSound
<1>8. HeaderPinned
  <2>1. OpenObjects = {}
    BY DEF Init, OpenObjects
  <2> QED
    BY <1>1, <2>1, FS_EmptySet DEF Init, HeaderPinned
<1>9. OneInserter /\ GoodRunning
  BY DEF Init, OneInserter, GoodRunning, Idle
<1>10. \A c \in Clients : GoodObject(c) /\ GoodScan(c)
  BY DEF Init, GoodObject, GoodScan
<1> QED
  BY <1>6, <1>7, <1>8, <1>9, <1>10 DEF IInv

LEMMA ScanNextKeepsIInv ==
  ASSUME IInv, NEW c \in Clients, ScanNext(c), UNCHANGED undefined
  PROVE  IInv'
<1>1. CASE ScanStaysAtEnd(c)
  BY <1>1, StaysAtEndKeepsIInv
<1>2. CASE ScanBegins(c)
  BY <1>2, ScanBeginsKeepsIInv
<1>3. CASE ScanGoesOn(c)
  BY <1>3, ScanGoesOnKeepsIInv
<1>4. ASSUME NEW s, ScanFinds(c, s)
      PROVE  IInv'
  BY <1>4, ScanFindsKeepsIInv
<1>5. ASSUME NEW s, ScanEnds(c, s)
      PROVE  IInv'
  BY <1>5, ScanEndsKeepsIInv
<1>6. ASSUME NEW s, ScanTurns(c, s)
      PROVE  IInv'
  BY <1>6, ScanTurnsKeepsIInv
<1>7. ASSUME NEW s, ScanUnPinFails(c, s)
      PROVE  IInv'
  BY <1>7, ScanUnPinFailsKeepsIInv
<1> QED
  BY <1>1, <1>2, <1>3, <1>4, <1>5, <1>6, <1>7 DEF ScanNext

LEMMA ClientStepKeepsIInv ==
  ASSUME IInv, Step, UNCHANGED undefined
  PROVE  IInv'
<1> PICK c \in Clients :
      \/ Close(c)
      \/ OpenScan(c) \/ OpenReader(c) \/ OpenInsert(c)
      \/ EndScan(c) \/ MarkScan(c) \/ ResetScan(c)
      \/ ScanNext(c) \/ Delete(c) \/ MarkDirty(c)
      \/ GetRecord(c) \/ InsertRecord(c)
  BY DEF Step
<1>0. hdr.firstPage \in Used /\ hdr.lastPage \in Used
  BY DEF IInv, ChainSound
<1>1. CASE Close(c)
  BY <1>1, CloseKeepsIInv
<1>2. CASE OpenScan(c)
  BY <1>0, <1>2, OpenKeepsIInv DEF OpenScan
<1>3. CASE OpenReader(c)
  BY <1>0, <1>3, OpenKeepsIInv DEF OpenReader
<1>4. CASE OpenInsert(c)
  BY <1>0, <1>4, OpenKeepsIInv DEF OpenInsert
<1>5. CASE EndScan(c)
  BY <1>5, EndScanKeepsIInv
<1>6. CASE MarkScan(c)
  BY <1>6, MarkScanKeepsIInv
<1>7. CASE ResetScan(c)
  BY <1>7, ResetHereKeepsIInv, ResetUnPinFailsKeepsIInv, ResetAwayKeepsIInv
  DEF ResetScan
<1>8. CASE ScanNext(c)
  BY <1>8, ScanNextKeepsIInv
<1>9. CASE Delete(c)
  BY <1>9, DeleteKeepsIInv DEF Delete
<1>10. CASE MarkDirty(c)
  BY <1>10, MarkDirtyKeepsIInv
<1>11. CASE GetRecord(c)
  <2>1. PICK p \in Used : \E s \in 0..file[p].cnt :
          GetHere(c, p, s) \/ GetUnPinFails(c, p) \/ GetAway(c, p, s)
    BY <1>11 DEF GetRecord
  <2>2. PICK s \in 0..file[p].cnt :
          GetHere(c, p, s) \/ GetUnPinFails(c, p) \/ GetAway(c, p, s)
    BY <2>1
  <2>3. s \in Nat
    BY <2>2
  <2> QED
    BY <2>2, <2>3, GetHereKeepsIInv, GetUnPinFailsKeepsIInv, GetAwayKeepsIInv
<1>12. CASE InsertRecord(c)
  <2>1. PICK r \in Records :
          \/ \E s \in 0..file[obj[c].curPage].cnt : InsertHere(c, r, s)
          \/ \E q \in DataPages :
               InsertNewPage(c, r, q) \/ InsertUnPinFails(c, r, q)
    BY <1>12 DEF InsertRecord
  <2> QED
    BY <2>1, InsertHereKeepsIInv, InsertNewPageKeepsIInv,
       InsertUnPinFailsKeepsIInv
<1> QED
  BY <1>1, <1>2, <1>3, <1>4, <1>5, <1>6, <1>7, <1>8, <1>9, <1>10, <1>11, <1>12

LEMMA NextKeepsIInv == IInv /\ [Next]_vars => IInv'
<1> SUFFICES ASSUME IInv, [Next]_vars
             PROVE  IInv'
  OBVIOUS
<1>1. CASE Step /\ UNCHANGED undefined
  BY <1>1, ClientStepKeepsIInv
<1>2. CASE GoesAstray
  BY <1>2, NothingHappensKeepsIInv DEF GoesAstray, content
<1>3. CASE UNCHANGED vars
  BY <1>3, NothingHappensKeepsIInv DEF vars, history, IInv, TypeOK
<1> QED
  BY <1>1, <1>2, <1>3 DEF Next

-----------------------------------------------------------------------------
\* The invariant that carries the others.
THEOREM Invariance == Spec => []IInv
<1>1. IInv /\ [Next]_vars => IInv'
  BY NextKeepsIInv
<1> QED
  BY InitHasIInv, <1>1, PTL DEF Spec

\* Every page stays a page and every object an object, and what a scan has yet
\* to find are always records of the file, whatever fails or is deleted.
THEOREM TypesAlways == Spec => []TypeOK
<1>1. IInv => TypeOK
  BY DEF IInv
<1> QED
  BY Invariance, <1>1, PTL

\* The chain is never broken, not even by an insertion that fails after it has
\* linked the new page (heapfile.C, insertRecord).
THEOREM ChainAlwaysSound == Spec => []ChainSound
<1>1. IInv => ChainSound
  BY DEF IInv
<1> QED
  BY Invariance, <1>1, PTL

\* However inserts, deletes, other scans, marks and resets are interleaved with
\* it, a scan that says it is at the end (heapfile.C, scanNext) has skipped no
\* record that was there all the time.
THEOREM ScansAlwaysFindAll == Spec => []ScanFindsAll
<1>1. IInv => ScanFindsAll
  BY DEF IInv, GoodScan, ScanFindsAll
<1> QED
  BY Invariance, <1>1, PTL

-----------------------------------------------------------------------------
(***************************************************************************)
(* The pins and the dirty bits: both are kept by every object for itself,  *)
(* so that a step of c is right if it books what c does.                   *)
(***************************************************************************)
On(o, p) == o # Nil /\ (p = Header \/ o.curPage = p)
Dirties(o, p) == On(o, p) /\ IF p = Header THEN o.hdrDirty ELSE SaysDirty(o)
One(b) == IF b THEN 1 ELSE 0

NoneStale == ~stray => \A c \in Clients : obj[c] # Nil => obj[c].curPage # Stale

Booked == PinsKept /\ ChangesSaved /\ NoneStale

LEMMA PinnedOn ==
  ASSUME IInv, PinsKept, ~stray, NEW c \in Clients, NEW p \in Pages, On(obj[c], p)
  PROVE  pins[p] \in Nat /\ pins[p] > 0 /\ ~NotPinned(p)
<1>1. c \in OpenOn(p) /\ IsFiniteSet(OpenOn(p))
  BY ClientsAssumption, FS_Subset DEF OpenOn, On
<1>2. Cardinality(OpenOn(p)) # 0
  BY <1>1, FS_EmptySet
<1>3. pins[p] \in Nat /\ pins[p] = Cardinality(OpenOn(p))
  BY DEF IInv, TypeOK, PinsKept
<1> QED
  BY <1>2, <1>3 DEF NotPinned

\* A step in which c's object becomes m.
LEMMA StepKeepsBooked ==
  ASSUME IInv, Booked, ~stray, NEW c \in Clients, NEW m,
         obj' = [obj EXCEPT ![c] = m], m # Nil => m.curPage # Stale,
         \A p \in Pages : pins'[p] = pins[p] - One(On(obj[c], p)) + One(On(m, p)),
         changed' \subseteq Pages,
         \A p \in changed' : \/ Dirties(m, p)
                             \/ p \in changed /\ ~Dirties(obj[c], p)
  PROVE  Booked'
<1>1. obj'[c] = m /\ \A d \in Clients : d # c => obj'[d] = obj[d]
  BY DEF IInv, TypeOK
<1>2. ASSUME NEW p \in Pages
      PROVE  pins'[p] = Cardinality(OpenOn(p)')
  <2>1. /\ IsFiniteSet(OpenOn(p)) /\ Cardinality(OpenOn(p)) \in Nat
        /\ pins[p] = Cardinality(OpenOn(p))
    BY ClientsAssumption, FS_Subset, FS_CardinalityType
    DEF OpenOn, Booked, PinsKept
  <2>2. c \in OpenOn(p) <=> On(obj[c], p)
    BY DEF OpenOn, On
  <2>3. OpenOn(p)' = IF On(m, p) THEN OpenOn(p) \cup {c} ELSE OpenOn(p) \ {c}
    BY <1>1 DEF OpenOn, On
  <2>4. CASE On(m, p)
    <3>1. Cardinality(OpenOn(p)') =
            IF On(obj[c], p) THEN Cardinality(OpenOn(p)) ELSE Cardinality(OpenOn(p)) + 1
      BY <2>1, <2>2, <2>3, <2>4, FS_AddElement
    <3> QED  BY <2>1, <2>4, <3>1 DEF One
  <2>5. CASE ~On(m, p)
    <3>1. Cardinality(OpenOn(p)') =
            IF On(obj[c], p) THEN Cardinality(OpenOn(p)) - 1 ELSE Cardinality(OpenOn(p))
      BY <2>1, <2>2, <2>3, <2>5, FS_RemoveElement
    <3> QED  BY <2>1, <2>5, <3>1 DEF One
  <2> QED  BY <2>4, <2>5
<1>3. ASSUME NEW p \in changed'
      PROVE  \E d \in Clients : Dirties(obj'[d], p)
  <2>1. CASE Dirties(m, p)
    BY <1>1, <2>1
  <2>2. CASE p \in changed /\ ~Dirties(obj[c], p)
    <3>1. PICK d \in OpenOn(p) : IF p = Header THEN obj[d].hdrDirty
                                               ELSE SaysDirty(obj[d])
      BY <2>2 DEF Booked, ChangesSaved
    <3>2. d \in Clients /\ Dirties(obj[d], p)
      BY <3>1 DEF OpenOn, Dirties, On
    <3> QED  BY <1>1, <2>2, <3>2
  <2> QED  BY <1>3, <2>1, <2>2
<1>4. ChangesSaved'
  <2>1. ASSUME NEW p \in changed'
        PROVE  \E d \in OpenOn(p)' : IF p = Header THEN obj'[d].hdrDirty
                                                   ELSE SaysDirty(obj'[d])
    <3>1. PICK d \in Clients : Dirties(obj'[d], p)
      BY <1>3
    <3> QED  BY <3>1 DEF Dirties, On, OpenOn
  <2> QED  BY <2>1 DEF ChangesSaved
<1>5. NoneStale'
  BY <1>1 DEF Booked, NoneStale
<1> QED
  BY <1>2, <1>4, <1>5 DEF Booked, PinsKept

\* A call in which the object stays on its page, if it has one.
LEMMA StayKeepsBooked ==
  ASSUME IInv, Booked, ~stray, NEW c \in Clients, NEW m,
         obj' = [obj EXCEPT ![c] = m], pins' = pins,
         obj[c] # Nil, m # Nil, m.curPage = obj[c].curPage, m.kind = obj[c].kind,
         obj[c].hdrDirty => m.hdrDirty,
         obj[c].curPage # Null => (obj[c].curDirty => m.curDirty),
         changed' \subseteq Pages,
         \A p \in changed' \ changed : Dirties(m, p)
  PROVE  Booked'
<1>1. \A p \in Pages : On(m, p) <=> On(obj[c], p)
  BY DEF On
<1>2. ASSUME NEW p \in Pages
      PROVE  pins'[p] = pins[p] - One(On(obj[c], p)) + One(On(m, p))
  <2>1. pins[p] \in Nat
    BY DEF IInv, TypeOK
  <2> QED  BY <1>1, <2>1 DEF One
<1>3. ASSUME NEW p \in changed'
      PROVE  Dirties(m, p) \/ (p \in changed /\ ~Dirties(obj[c], p))
  <2>1. p \in Pages /\ (p # Header => p # Null)
    BY Constants
  <2>2. Dirties(obj[c], p) => Dirties(m, p)
    BY <1>1, <2>1 DEF Dirties, On, SaysDirty
  <2> QED  BY <1>3, <2>2
<1>4. m.curPage # Stale
  BY DEF Booked, NoneStale
<1> QED
  BY <1>2, <1>3, <1>4, StepKeepsBooked

\* A call in which the object leaves its page, if it has one, and goes to page
\* m.curPage, if that is one.
LEMMA MoveKeepsBooked ==
  ASSUME IInv, Booked, ~stray, NEW c \in Clients, NEW m,
         obj' = [obj EXCEPT ![c] = m], obj[c] # Nil, m # Nil,
         obj[c].curPage \in Used \cup {Null},
         m.curPage \in DataPages \cup {Null},
         pins' = IF m.curPage = Null THEN UnPinned(obj[c].curPage)
                 ELSE [UnPinned(obj[c].curPage) EXCEPT ![m.curPage] = @ + 1],
         obj[c].hdrDirty => m.hdrDirty,
         changed' \subseteq Pages,
         \A p \in changed' : \/ Dirties(m, p)
                             \/ p \in changed /\ ~Dirties(obj[c], p)
                             \/ p \in changed /\ p = Header
  PROVE  Booked'
<1> DEFINE x == obj[c].curPage
           y == m.curPage
<1>1. /\ x \in Pages \cup {Null} /\ y \in Pages \cup {Null}
      /\ x # Header /\ y # Header /\ Null \notin Pages
      /\ pins \in [Pages -> Nat]
  <2>1. TypeOK /\ pins \in [Pages -> Nat]
    BY Typed
  <2>2. Used \subseteq Pages /\ Header \notin Used
    BY <2>1, UsedPages
  <2>3. DataPages \subseteq Pages /\ Header \notin DataPages
    BY DEF DataPages
  <2>4. Null # Header /\ Null \notin Pages
    BY Constants
  <2> QED  BY <2>1, <2>2, <2>3, <2>4
<1>2. UnPinned(x) = IF x = Null THEN pins ELSE [pins EXCEPT ![x] = @ - 1]
  <2>1. x \in Pages => ~NotPinned(x)
    BY PinnedOn DEF Booked, On
  <2> QED  BY <1>1, <2>1 DEF UnPinned, NotPinned
<1>3. ASSUME NEW p \in Pages
      PROVE  pins'[p] = pins[p] - One(On(obj[c], p)) + One(On(m, p))
  <2>1. pins[p] \in Nat /\ p # Null
    BY <1>1
  <2>2. pins'[p] = pins[p] - One(x = p) + One(y = p)
    <3> HIDE DEF x
    <3>1. UnPinned(x)[p] = pins[p] - One(x = p)
      BY <1>1, <1>2, <2>1 DEF One
    <3>2. pins' = IF y = Null THEN UnPinned(x) ELSE [UnPinned(x) EXCEPT ![y] = @ + 1]
      BY DEF x
    <3>3. UnPinned(x) \in [Pages -> Int]
      BY <1>1, <1>2
    <3> HIDE DEF y
    <3> QED  BY <1>1, <2>1, <3>1, <3>2, <3>3 DEF One
  <2>3. CASE p = Header
    BY <1>1, <2>1, <2>2, <2>3 DEF On, One
  <2>4. CASE p # Header
    BY <2>2, <2>4 DEF On
  <2> QED  BY <2>3, <2>4
<1>4. ASSUME NEW p \in changed'
      PROVE  Dirties(m, p) \/ (p \in changed /\ ~Dirties(obj[c], p))
  BY <1>4 DEF Dirties, On
<1>5. m.curPage # Stale
  BY Constants DEF DataPages
<1> QED
  BY <1>3, <1>4, <1>5, StepKeepsBooked

\* An InsertFileScan that can insert is on the last page.
LEMMA NoInserterOffPage ==
  ASSUME IInv, NEW c \in Clients, Has(c, "insert")
  PROVE  obj[c].curPage \in Used /\ obj[c].curPage = hdr.lastPage
BY HasObject, UsedPages, Typed DEF GoodObject, ChainSound

\* The calls that leave the object where it is; what they change, they say.
LEMMA StaysBooked ==
  ASSUME IInv, Booked, ~stray, NEW c \in Clients,
         \/ MarkScan(c) \/ ResetHere(c) \/ ResetUnPinFails(c)
         \/ ScanStaysAtEnd(c) \/ ScanGoesOn(c)
         \/ \E s : ScanFinds(c, s) \/ ScanEnds(c, s) \/ GetHere(c, obj[c].curPage, s)
         \/ MarkDirty(c)
         \/ Has(c, "scan") /\ obj[c].told = "record" /\ \E n : DeleteRecord(c, n)
         \/ \E r, s : InsertHere(c, r, s)
  PROVE  Booked'
<1> DEFINE o == obj[c]
           m == obj'[c]
           p == o.curPage
<1>1. obj \in [Clients -> Objects \cup {Nil}] /\ changed \subseteq Pages
  BY Typed
<1>2. o \in Objects /\ o # Nil
  BY <1>1, RunningObject, HasObject
  DEF MarkScan, ResetHere, ResetUnPinFails, MustReset, ScanStaysAtEnd, ScanGoesOn,
      ScanFinds, ScanEnds, PageDone, GetHere, MarkDirty, InsertHere
<1>3. ASSUME pins' = pins, changed' = changed, obj' = [obj EXCEPT ![c] = m],
             m # Nil, m.curPage = p, m.kind = o.kind,
             m.hdrDirty = o.hdrDirty, m.curDirty = o.curDirty
      PROVE  Booked'
  BY <1>1, <1>2, <1>3, StayKeepsBooked
<1>4. ASSUME pins' = pins, changed' \subseteq changed \cup {p, Header},
             obj' = [obj EXCEPT ![c] = m], m # Nil, m.curPage = p,
             m.kind = o.kind, m.hdrDirty, m.curDirty, p \in Used
      PROVE  Booked'
  <2>1. p \in Pages /\ Header \in Pages
    BY <1>4, Typed, UsedPages, Constants
  <2>2. changed' \subseteq Pages
    BY <1>1, <1>4, <2>1
  <2>3. Dirties(m, p) /\ Dirties(m, Header)
    BY <1>4 DEF Dirties, On, SaysDirty
  <2> QED  BY <1>2, <1>4, <2>2, <2>3, StayKeepsBooked
<1>5. CASE MarkScan(c)
  <2>1. m = [o EXCEPT !.mark = [pageNo |-> o.curPageNo, rec |-> o.curRec]]
    BY <1>1, <1>5 DEF MarkScan
  <2>2. /\ m # Nil /\ m.curPage = p /\ m.kind = o.kind
        /\ m.hdrDirty = o.hdrDirty /\ m.curDirty = o.curDirty
    BY <1>2, <2>1 DEF Objects, Nil
  <2>3. obj' = [obj EXCEPT ![c] = m] /\ pins' = pins /\ changed' = changed
    BY <1>1, <1>5 DEF MarkScan
  <2> QED  BY <1>3, <2>2, <2>3
<1>6. CASE ResetHere(c)
  <2>1. m = [o EXCEPT !.curRec = MarkedRec(o), !.told = "nothing"]
    BY <1>1, <1>6 DEF ResetHere
  <2>2. /\ m # Nil /\ m.curPage = p /\ m.kind = o.kind
        /\ m.hdrDirty = o.hdrDirty /\ m.curDirty = o.curDirty
    BY <1>2, <2>1 DEF Objects, Nil
  <2>3. obj' = [obj EXCEPT ![c] = m] /\ pins' = pins /\ changed' = changed
    BY <1>1, <1>6 DEF ResetHere
  <2> QED  BY <1>3, <2>2, <2>3
<1>7. CASE ResetUnPinFails(c)
  <2>1. m = [o EXCEPT !.told = "failed"]
    BY <1>1, <1>7 DEF ResetUnPinFails
  <2>2. /\ m # Nil /\ m.curPage = p /\ m.kind = o.kind
        /\ m.hdrDirty = o.hdrDirty /\ m.curDirty = o.curDirty
    BY <1>2, <2>1 DEF Objects, Nil
  <2>3. obj' = [obj EXCEPT ![c] = m] /\ pins' = pins /\ changed' = changed
    BY <1>1, <1>7 DEF ResetUnPinFails
  <2> QED  BY <1>3, <2>2, <2>3
<1>8. CASE ScanStaysAtEnd(c)
  <2>1. m = [o EXCEPT !.told = "early"]
    BY <1>1, <1>8 DEF ScanStaysAtEnd
  <2>2. /\ m # Nil /\ m.curPage = p /\ m.kind = o.kind
        /\ m.hdrDirty = o.hdrDirty /\ m.curDirty = o.curDirty
    BY <1>2, <2>1 DEF Objects, Nil
  <2>3. obj' = [obj EXCEPT ![c] = m] /\ pins' = pins /\ changed' = changed
    BY <1>1, <1>8 DEF ScanStaysAtEnd
  <2> QED  BY <1>3, <2>2, <2>3
<1>9. CASE ScanGoesOn(c)
  <2>1. m = o /\ obj' = [obj EXCEPT ![c] = m] /\ pins' = pins /\ changed' = changed
    BY <1>1, <1>9 DEF ScanGoesOn
  <2> QED  BY <1>2, <1>3, <2>1
<1>10. ASSUME NEW s, ScanFinds(c, s)
      PROVE  Booked'
  <2>1. m = [o EXCEPT !.curRec = s, !.told = "record"]
    BY <1>1, <1>10 DEF ScanFinds
  <2>2. /\ m # Nil /\ m.curPage = p /\ m.kind = o.kind
        /\ m.hdrDirty = o.hdrDirty /\ m.curDirty = o.curDirty
    BY <1>2, <2>1 DEF Objects, Nil
  <2>3. obj' = [obj EXCEPT ![c] = m] /\ pins' = pins /\ changed' = changed
    BY <1>1, <1>10 DEF ScanFinds
  <2> QED  BY <1>3, <2>2, <2>3
<1>11. ASSUME NEW s, ScanEnds(c, s)
      PROVE  Booked'
  <2>1. m = [o EXCEPT !.curRec = s, !.told = "eof"]
    BY <1>1, <1>11 DEF ScanEnds
  <2>2. /\ m # Nil /\ m.curPage = p /\ m.kind = o.kind
        /\ m.hdrDirty = o.hdrDirty /\ m.curDirty = o.curDirty
    BY <1>2, <2>1 DEF Objects, Nil
  <2>3. obj' = [obj EXCEPT ![c] = m] /\ pins' = pins /\ changed' = changed
    BY <1>1, <1>11 DEF ScanEnds
  <2> QED  BY <1>3, <2>2, <2>3
<1>12. ASSUME NEW s, GetHere(c, p, s)
      PROVE  Booked'
  <2>1. m = [o EXCEPT !.curRec = s]
    BY <1>1, <1>12 DEF GetHere
  <2>2. /\ m # Nil /\ m.curPage = p /\ m.kind = o.kind
        /\ m.hdrDirty = o.hdrDirty /\ m.curDirty = o.curDirty
    BY <1>2, <2>1 DEF Objects, Nil
  <2>3. obj' = [obj EXCEPT ![c] = m] /\ pins' = pins /\ changed' = changed
    BY <1>1, <1>12 DEF GetHere
  <2> QED  BY <1>3, <2>2, <2>3
<1>13. CASE MarkDirty(c)
  <2>1. m = [o EXCEPT !.curDirty = TRUE] /\ p \in Used
    BY <1>1, <1>13, HasObject DEF MarkDirty, GoodObject
  <2>2. m # Nil /\ m.curPage = p /\ m.kind = o.kind /\ m.hdrDirty = o.hdrDirty /\ m.curDirty
    BY <1>2, <2>1 DEF Objects, Nil
  <2>3. obj' = [obj EXCEPT ![c] = m] /\ pins' = pins /\ changed' = changed \cup {p}
    BY <1>1, <1>13 DEF MarkDirty
  <2>4. p \in Pages /\ Dirties(m, p)
    BY <2>1, <2>2, Typed, UsedPages DEF Dirties, On, SaysDirty
  <2> QED  BY <1>1, <1>2, <2>2, <2>3, <2>4, StayKeepsBooked
<1>14. ASSUME Has(c, "scan"), o.told = "record", NEW n, DeleteRecord(c, n)
      PROVE  Booked'
  <2>1. /\ m = [o EXCEPT !.curDirty = TRUE, !.hdrDirty = TRUE, !.told = "nothing"]
        /\ p \in Used
    BY <1>1, <1>14, HasObject DEF DeleteRecord, GoodObject
  <2>2. m # Nil /\ m.curPage = p /\ m.kind = o.kind /\ m.hdrDirty /\ m.curDirty
    BY <1>2, <2>1 DEF Objects, Nil
  <2>3. /\ obj' = [obj EXCEPT ![c] = m] /\ pins' = pins
        /\ changed' \subseteq changed \cup {p, Header}
    BY <1>1, <1>14 DEF DeleteRecord
  <2> QED  BY <1>4, <2>1, <2>2, <2>3
<1>15. ASSUME NEW r, NEW s, InsertHere(c, r, s)
      PROVE  Booked'
  <2>1. m = [o EXCEPT !.curDirty = TRUE, !.hdrDirty = TRUE] /\ p \in Used
    BY <1>1, <1>15, HasObject, NoInserterOffPage DEF InsertHere
  <2>2. m # Nil /\ m.curPage = p /\ m.kind = o.kind /\ m.hdrDirty /\ m.curDirty
    BY <1>2, <2>1 DEF Objects, Nil
  <2>3. /\ obj' = [obj EXCEPT ![c] = m] /\ pins' = pins
        /\ changed' \subseteq changed \cup {p, Header}
    BY <1>1, <1>15 DEF InsertHere
  <2> QED  BY <1>4, <2>1, <2>2, <2>3
<1> QED
  BY <1>5, <1>6, <1>7, <1>8, <1>9, <1>10, <1>11, <1>12, <1>13, <1>14, <1>15

\* Such a call that unpins the page as dirty if the object has changed it.
LEMMA LeaveKeepsBooked ==
  ASSUME IInv, Booked, ~stray, NEW c \in Clients, NEW m,
         obj' = [obj EXCEPT ![c] = m], obj[c] # Nil, m # Nil,
         obj[c].curPage \in Used \cup {Null},
         m.curPage \in DataPages \cup {Null},
         pins' = IF m.curPage = Null THEN UnPinned(obj[c].curPage)
                 ELSE [UnPinned(obj[c].curPage) EXCEPT ![m.curPage] = @ + 1],
         obj[c].hdrDirty => m.hdrDirty,
         changed' = Saved(obj[c].curPage, SaysDirty(obj[c]))
  PROVE  Booked'
<1>1. changed' \subseteq changed /\ changed \subseteq Pages
  BY Typed DEF Saved
<1>2. ASSUME NEW p \in changed', p # Header, Dirties(obj[c], p)
      PROVE  FALSE
  <2>1. obj[c].curPage = p /\ SaysDirty(obj[c])
    BY <1>2 DEF Dirties, On
  <2> QED  BY <1>2, <2>1 DEF Saved
<1>3. /\ changed' \subseteq Pages
      /\ \A p \in changed' : \/ Dirties(m, p)
                             \/ p \in changed /\ ~Dirties(obj[c], p)
                             \/ p \in changed /\ p = Header
  BY <1>1, <1>2
<1> QED
  BY <1>3, MoveKeepsBooked

LEMMA GoesBooked ==
  ASSUME IInv, Booked, ~stray, NEW c \in Clients, NEW m, NEW q \in DataPages,
         obj' = [obj EXCEPT ![c] = m], obj[c] # Nil, m # Nil,
         obj[c].curPage \in Used \cup {Null}, m.curPage = q,
         pins' = [UnPinned(obj[c].curPage) EXCEPT ![q] = @ + 1],
         obj[c].hdrDirty => m.hdrDirty,
         changed' = Saved(obj[c].curPage, SaysDirty(obj[c]))
  PROVE  Booked'
<1>1. q # Null
  BY Constants DEF DataPages
<1>2. m.curPage \in DataPages \cup {Null}
  OBVIOUS
<1>3. pins' = IF m.curPage = Null THEN UnPinned(obj[c].curPage)
              ELSE [UnPinned(obj[c].curPage) EXCEPT ![m.curPage] = @ + 1]
  BY <1>1
<1> QED
  BY <1>2, <1>3, LeaveKeepsBooked

\* The calls that take an object off its page, or to another.
LEMMA EndScanBooked ==
  ASSUME IInv, Booked, ~stray, NEW c \in Clients, EndScan(c)
  PROVE  Booked'
<1> DEFINE o == obj[c]
           m == obj'[c]
<1>1. /\ o \in Objects /\ o # Nil /\ o.kind = "scan"
      /\ o.curPage \in Used /\ o.curPageNo = o.curPage
  BY HasObject DEF EndScan, GoodObject
<1>2. /\ m = [o EXCEPT !.curPage = Null, !.curPageNo = 0, !.curDirty = FALSE,
                       !.told = IF NotPinned(o.curPageNo) THEN "failed" ELSE "nothing"]
      /\ obj' = [obj EXCEPT ![c] = m]
      /\ pins' = UnPinned(o.curPage)
      /\ changed' = Saved(o.curPage, SaysDirty(o))
  BY <1>1, Typed DEF EndScan, SaysDirty, Saved
<1>3. m # Nil /\ m.curPage = Null /\ m.hdrDirty = o.hdrDirty
  BY <1>1, <1>2 DEF Objects, Nil
<1> QED
  BY <1>1, <1>2, <1>3, LeaveKeepsBooked

LEMMA ResetAwayBooked ==
  ASSUME IInv, Booked, ~stray, NEW c \in Clients, ResetAway(c)
  PROVE  Booked'
<1> DEFINE o == obj[c]
           m == obj'[c]
           p == o.mark.pageNo
<1>1. /\ o \in Objects /\ o # Nil /\ o.kind = "scan" /\ p \in DataPages
      /\ o.curPage \in Used \cup {Null}
      /\ Left(o) = o.curPage
  <2>1. /\ o \in Objects /\ o # Nil /\ o.kind = "scan" /\ o.mark # Nil
        /\ o.curPage \in Used \cup {Null} /\ GoodObject(c)
    BY HasObject DEF ResetAway, MustReset
  <2>2. p \in DataPages
    BY <2>1 DEF Objects
  <2> QED  BY <2>1, <2>2 DEF Left, GoodObject
<1>2. changed' = Saved(o.curPage, SaysDirty(o))
  BY <1>1 DEF ResetAway, SaysDirty, Saved
<1>3. CASE
        /\ pins' = [UnPinned(Left(o)) EXCEPT ![p] = @ + 1]
        /\ obj' = [obj EXCEPT ![c].curPage = p, ![c].curPageNo = p,
                     ![c].curRec = MarkedRec(o), ![c].curDirty = FALSE,
                     ![c].told = "nothing"]
  <2>1. m = [o EXCEPT !.curPage = p, !.curPageNo = p, !.curRec = MarkedRec(o),
                      !.curDirty = FALSE, !.told = "nothing"]
    BY <1>3, Typed
  <2>2. m # Nil /\ m.curPage = p /\ m.hdrDirty = o.hdrDirty
    BY <1>1, <2>1 DEF Objects, Nil
  <2>3. obj' = [obj EXCEPT ![c] = m]
    BY <1>3, <2>1
  <2>4. pins' = [UnPinned(o.curPage) EXCEPT ![p] = @ + 1]
    BY <1>1, <1>3
  <2> HIDE DEF m, p
  <2> QED  BY <1>1, <1>2, <2>2, <2>3, <2>4, GoesBooked
<1>4. CASE
        /\ pins' = UnPinned(Left(o))
        /\ obj' = [obj EXCEPT
                     ![c].curPage = IF o.curPage = Null THEN Null ELSE Stale,
                     ![c].curPageNo = p, ![c].curRec = MarkedRec(o),
                     ![c].told = "failed"]
        /\ stray' = (stray \/ o.curPage # Null)
  <2>1. CASE o.curPage # Null
    BY <1>4, <2>1 DEF Booked, PinsKept, ChangesSaved, NoneStale
  <2>2. CASE o.curPage = Null
    <3>1. /\ m = [o EXCEPT !.curPage = Null, !.curPageNo = p,
                           !.curRec = MarkedRec(o), !.told = "failed"]
          /\ obj' = [obj EXCEPT ![c] = m]
      BY <1>4, <2>2, Typed
    <3>2. m # Nil /\ m.curPage = Null /\ m.hdrDirty = o.hdrDirty
      BY <1>1, <3>1 DEF Objects, Nil
    <3>3. pins' = UnPinned(o.curPage)
      BY <1>1, <1>4
    <3> HIDE DEF m, p
    <3> QED  BY <1>1, <1>2, <3>1, <3>2, <3>3, LeaveKeepsBooked
  <2> QED  BY <2>1, <2>2
<1> QED
  BY <1>3, <1>4 DEF ResetAway
\* scanNext.
LEMMA ScanBeginsBooked ==
  ASSUME IInv, Booked, ~stray, NEW c \in Clients, ScanBegins(c)
  PROVE  Booked'
<1> DEFINE o == obj[c]
           m == obj'[c]
           p == hdr.firstPage
<1>1. /\ o \in Objects /\ o # Nil /\ o.kind = "scan" /\ o.curPage = Null
      /\ changed' = changed /\ changed \subseteq Pages
  BY HasObject, Typed DEF ScanBegins
<1>2. p \in DataPages
  BY Typed, UsedPages DEF ChainSound
<1>3. ASSUME pins' = pins, obj' = [obj EXCEPT ![c] = m], m # Nil,
             m.curPage = Null, m.kind = o.kind, m.hdrDirty = o.hdrDirty
      PROVE  Booked'
  BY <1>1, <1>3, StayKeepsBooked
<1>4. CASE
        /\ obj' = [obj EXCEPT ![c].curPageNo = p, ![c].curRec = NoSlot,
                     ![c].curDirty = FALSE, ![c].told = "failed"]
        /\ UNCHANGED <<pins, running>>
  <2>1. m = [o EXCEPT !.curPageNo = p, !.curRec = NoSlot, !.curDirty = FALSE,
                      !.told = "failed"]
    BY <1>4, Typed
  <2>2. /\ m # Nil /\ m.curPage = Null /\ m.kind = o.kind
        /\ m.hdrDirty = o.hdrDirty
    BY <1>1, <2>1 DEF Objects, Nil
  <2>3. pins' = pins /\ obj' = [obj EXCEPT ![c] = m]
    BY <1>4, <2>1
  <2> QED  BY <1>3, <2>2, <2>3
<1>5. CASE
        /\ obj' = [obj EXCEPT ![c].curPageNo = -1, ![c].curRec = NoSlot,
                     ![c].curDirty = FALSE, ![c].told = "early"]
        /\ UNCHANGED <<pins, running>>
  <2>1. m = [o EXCEPT !.curPageNo = -1, !.curRec = NoSlot, !.curDirty = FALSE,
                      !.told = "early"]
    BY <1>5, Typed
  <2>2. /\ m # Nil /\ m.curPage = Null /\ m.kind = o.kind
        /\ m.hdrDirty = o.hdrDirty
    BY <1>1, <2>1 DEF Objects, Nil
  <2>3. pins' = pins /\ obj' = [obj EXCEPT ![c] = m]
    BY <1>5, <2>1
  <2> QED  BY <1>3, <2>2, <2>3
<1>6. CASE
        /\ obj' = [obj EXCEPT ![c].curPage = p, ![c].curPageNo = p,
                     ![c].curRec = NoSlot, ![c].curDirty = FALSE]
        /\ pins' = [pins EXCEPT ![p] = @ + 1]
  <2>1. m = [o EXCEPT !.curPage = p, !.curPageNo = p, !.curRec = NoSlot,
                      !.curDirty = FALSE]
    BY <1>6, Typed
  <2>2. m # Nil /\ m.curPage = p /\ m.hdrDirty = o.hdrDirty
    BY <1>1, <2>1 DEF Objects, Nil
  <2>3. obj' = [obj EXCEPT ![c] = m]
    BY <1>6, <2>1
  <2>4. UnPinned(Null) = pins /\ Saved(Null, SaysDirty(o)) = changed
    BY <1>1, Constants DEF UnPinned, NotPinned, Saved
  <2>5. /\ pins' = [UnPinned(o.curPage) EXCEPT ![p] = @ + 1]
        /\ changed' = Saved(o.curPage, SaysDirty(o))
    BY <1>1, <1>6, <2>4
  <2>6. o.curPage \in Used \cup {Null}
    BY <1>1
  <2> HIDE DEF m, p
  <2> QED  BY <1>1, <1>2, <2>2, <2>3, <2>5, <2>6, GoesBooked
<1> QED
  BY <1>4, <1>5, <1>6 DEF ScanBegins

LEMMA ScanTurnsBooked ==
  ASSUME IInv, Booked, ~stray, NEW c \in Clients, NEW s, ScanTurns(c, s)
  PROVE  Booked'
<1> DEFINE o == obj[c]
           m == obj'[c]
           p == o.curPage
           q == file[p].next
<1>1. /\ o \in Objects /\ o # Nil /\ o.kind = "scan"
      /\ p \in Used /\ p \in Used \cup {Null}
  BY RunningObject DEF ScanTurns, PageDone
<1>2. q \in DataPages
  BY <1>1, Typed, SlotNumbers DEF ScanTurns, IsPage
<1>3. changed' = Saved(p, SaysDirty(o))
  <2>1. changed' = SavedByTurn(c)
    BY DEF ScanTurns
  <2>2. SaysDirty(o) <=> o.curDirty
    BY <1>1 DEF SaysDirty
  <2> QED  BY <2>1, <2>2 DEF SavedByTurn, Saved
<1>4. CASE
        /\ pins' = [UnPinned(p) EXCEPT ![q] = @ + 1]
        /\ obj' = [obj EXCEPT ![c].curPage = q, ![c].curPageNo = q,
                     ![c].curRec = s, ![c].curDirty = FALSE]
  <2>1. m = [o EXCEPT !.curPage = q, !.curPageNo = q, !.curRec = s,
                      !.curDirty = FALSE]
    BY <1>4, Typed
  <2>2. m # Nil /\ m.curPage = q /\ m.hdrDirty = o.hdrDirty
    BY <1>1, <2>1 DEF Objects, Nil
  <2>3. obj' = [obj EXCEPT ![c] = m]
    BY <1>4, <2>1
  <2> HIDE DEF m, q
  <2> QED  BY <1>1, <1>2, <1>3, <1>4, <2>2, <2>3, GoesBooked
<1>5. CASE
        /\ pins' = UnPinned(p)
        /\ obj' = [obj EXCEPT ![c].curPage = Null, ![c].curPageNo = q,
                     ![c].curRec = s, ![c].curDirty = FALSE,
                     ![c].told = "failed"]
  <2>1. m = [o EXCEPT !.curPage = Null, !.curPageNo = q, !.curRec = s,
                      !.curDirty = FALSE, !.told = "failed"]
    BY <1>5, Typed
  <2>2. m # Nil /\ m.curPage = Null /\ m.hdrDirty = o.hdrDirty
    BY <1>1, <2>1 DEF Objects, Nil
  <2>3. obj' = [obj EXCEPT ![c] = m]
    BY <1>5, <2>1
  <2> HIDE DEF m
  <2> QED  BY <1>1, <1>3, <1>5, <2>2, <2>3, LeaveKeepsBooked
<1> QED
  BY <1>4, <1>5 DEF ScanTurns

\* As long as the pins are kept nobody fails to unpin the page he is on.
LEMMA UnPinsHisPage ==
  ASSUME IInv, Booked, ~stray, NEW c \in Clients, obj[c] # Nil,
         obj[c].curPage \in Used
  PROVE  ~NotPinned(obj[c].curPage)
BY Typed, UsedPages, PinnedOn DEF On, Booked

LEMMA ScanUnPinNeverFails ==
  ASSUME IInv, Booked, ~stray, NEW c \in Clients, NEW s, ScanUnPinFails(c, s)
  PROVE  FALSE
BY RunningObject, UnPinsHisPage DEF ScanUnPinFails, PageDone

LEMMA ScanNextBooked ==
  ASSUME IInv, Booked, ~stray, NEW c \in Clients, ScanNext(c)
  PROVE  Booked'
<1>1. CASE ScanStaysAtEnd(c) \/ ScanGoesOn(c)
  BY <1>1, StaysBooked
<1>2. CASE ScanBegins(c)
  BY <1>2, ScanBeginsBooked
<1>3. ASSUME NEW s, ScanFinds(c, s) \/ ScanEnds(c, s)
      PROVE  Booked'
  BY <1>3, StaysBooked
<1>4. ASSUME NEW s, ScanTurns(c, s) \/ ScanUnPinFails(c, s)
      PROVE  Booked'
  BY <1>4, ScanTurnsBooked, ScanUnPinNeverFails
<1> QED
  BY <1>1, <1>2, <1>3, <1>4 DEF ScanNext

\* HeapFile::getRecord, and InsertFileScan::insertRecord.
LEMMA Astray ==
  ASSUME stray'
  PROVE  Booked'
BY DEF Booked, PinsKept, ChangesSaved, NoneStale

LEMMA GetUnPinFailsBooked ==
  ASSUME IInv, Booked, ~stray, NEW c \in Clients, NEW p, GetUnPinFails(c, p)
  PROVE  Booked'
<1> DEFINE o == obj[c]
           m == obj'[c]
<1>1. /\ o \in Objects /\ o # Nil /\ GoodObject(c)
      /\ o.curPage \in Used \cup {Null}
  BY HasObject DEF GetUnPinFails
<1>2. o.curPage = Null
  BY <1>1, UnPinsHisPage DEF GetUnPinFails, GoodObject
<1>3. /\ m = [o EXCEPT !.curPage = Null, !.curPageNo = 0, !.curDirty = FALSE,
                       !.told = "failed"]
      /\ pins' = pins /\ changed' = changed /\ changed \subseteq Pages
  BY Typed DEF GetUnPinFails
<1>4. m # Nil /\ m.curPage = Null /\ m.kind = o.kind /\ m.hdrDirty = o.hdrDirty
  BY <1>1, <1>3 DEF Objects, Nil
<1>5. obj' = [obj EXCEPT ![c] = m]
  BY <1>3 DEF GetUnPinFails
<1> HIDE DEF m
<1> QED
  BY <1>1, <1>2, <1>3, <1>4, <1>5, StayKeepsBooked

LEMMA GetAwayBooked ==
  ASSUME IInv, Booked, ~stray, NEW c \in Clients, NEW p \in Used, NEW s,
         GetAway(c, p, s)
  PROVE  Booked'
<1> DEFINE o == obj[c]
           m == obj'[c]
           q == o.curPage
<1>1. /\ o \in Objects /\ o # Nil /\ o.kind = "reader"
      /\ q \in Used \cup {Null} /\ p \in DataPages
  BY HasObject, Typed, UsedPages DEF GetAway
<1>2. changed' = Saved(q, SaysDirty(o))
  <2>1. changed' = Saved(q, o.curDirty)
    BY DEF GetAway
  <2>2. SaysDirty(o) <=> o.curDirty
    BY <1>1 DEF SaysDirty
  <2> QED  BY <2>1, <2>2 DEF Saved
<1>3. CASE
        /\ pins' = [UnPinned(q) EXCEPT ![p] = @ + 1]
        /\ obj' = [obj EXCEPT ![c].curPage = p, ![c].curPageNo = p,
                     ![c].curRec = s, ![c].curDirty = FALSE]
  <2>1. m = [o EXCEPT !.curPage = p, !.curPageNo = p, !.curRec = s,
                      !.curDirty = FALSE]
    BY <1>3, Typed
  <2>2. m # Nil /\ m.curPage = p /\ m.hdrDirty = o.hdrDirty
    BY <1>1, <2>1 DEF Objects, Nil
  <2>3. obj' = [obj EXCEPT ![c] = m]
    BY <1>3, <2>1
  <2> HIDE DEF m
  <2> QED  BY <1>1, <1>2, <1>3, <2>2, <2>3, GoesBooked
<1> QED
  BY <1>3, Astray DEF GetAway

LEMMA GetRecordBooked ==
  ASSUME IInv, Booked, ~stray, NEW c \in Clients, GetRecord(c)
  PROVE  Booked'
<1>0. PICK p \in Used : \E s \in 0..file[p].cnt :
        GetHere(c, p, s) \/ GetUnPinFails(c, p) \/ GetAway(c, p, s)
  BY DEF GetRecord
<1>1. PICK s \in 0..file[p].cnt :
        GetHere(c, p, s) \/ GetUnPinFails(c, p) \/ GetAway(c, p, s)
  BY <1>0
<1>2. CASE GetHere(c, p, s)
  <2>1. GetHere(c, obj[c].curPage, s)
    BY <1>2 DEF GetHere
  <2> QED  BY <2>1, StaysBooked
<1> QED
  BY <1>1, <1>2, GetUnPinFailsBooked, GetAwayBooked

\* Nobody is on the new page yet.
LEMMA NoneOnNewPage ==
  ASSUME IInv, Booked, ~stray, NEW q \in DataPages, \A u \in Used : u < q
  PROVE  pins[q] = 0
<1>1. q \in Pages /\ q # Header /\ q # Null /\ q # Stale /\ q \notin Used
  BY Constants, Typed, UsedPages DEF DataPages
<1>2. \A d \in Clients : obj[d] # Nil => obj[d].curPage # q
  BY <1>1 DEF IInv, GoodObject
<1>3. OpenOn(q) = {}
  BY <1>1, <1>2 DEF OpenOn
<1> QED
  BY <1>1, <1>3, FS_EmptySet DEF Booked, PinsKept

LEMMA InsertNewPageBooked ==
  ASSUME IInv, Booked, ~stray, NEW c \in Clients, NEW r \in Records, NEW q,
         InsertNewPage(c, r, q)
  PROVE  Booked'
<1> DEFINE o == obj[c]
           m == obj'[c]
           p == o.curPage
           fits == Fits(NewPage, r)
<1>1. /\ o \in Objects /\ o # Nil /\ o.kind = "insert"
      /\ p \in Used /\ p \in Used \cup {Null} /\ p \in Pages
      /\ q \in DataPages /\ q \in Pages /\ q # Header
      /\ \A u \in Used : u < q
  BY NeedsPageFacts DEF InsertNewPage
<1>2. m = [o EXCEPT !.curPage = q, !.curPageNo = q,
                    !.curDirty = @ \/ fits, !.hdrDirty = TRUE]
  BY Typed DEF InsertNewPage
<1>3. m # Nil /\ m.kind = "insert" /\ m.curPage = q /\ m.hdrDirty
  BY <1>1, <1>2 DEF Objects, Nil
<1>4. /\ obj' = [obj EXCEPT ![c] = m]
      /\ pins' = [UnPinned(p) EXCEPT ![q] = 1]
      /\ changed' = (changed \ {p}) \cup {q, Header}
  BY <1>2 DEF InsertNewPage
<1>5. m.curPage # Null /\ m.curPage \in DataPages \cup {Null}
  BY <1>1, <1>3, Constants DEF DataPages
<1>6. UnPinned(p)[q] = 0 /\ UnPinned(p) = [UnPinned(p) EXCEPT ![q] = 0]
  <2>1. pins[q] = 0 /\ pins \in [Pages -> Nat]
    BY <1>1, Typed, NoneOnNewPage
  <2>2. p # q
    BY <1>1, Typed, UsedPages
  <2> QED  BY <1>1, <2>1, <2>2 DEF UnPinned
<1>7. pins' = IF m.curPage = Null THEN UnPinned(p)
              ELSE [UnPinned(p) EXCEPT ![m.curPage] = @ + 1]
  BY <1>3, <1>4, <1>5, <1>6
<1>8. changed' \subseteq Pages
  BY <1>1, <1>4, Typed, Constants
<1>9. ASSUME NEW x \in changed'
      PROVE  \/ Dirties(m, x)
             \/ x \in changed /\ ~Dirties(o, x)
             \/ x \in changed /\ x = Header
  <2>1. CASE x = q \/ x = Header
    BY <1>3, <2>1 DEF Dirties, On, SaysDirty
  <2>2. CASE x \in changed /\ x # p /\ x # Header
    BY <2>2 DEF Dirties, On
  <2> QED  BY <1>4, <1>9, <2>1, <2>2
<1> HIDE DEF m
<1> QED
  BY <1>1, <1>3, <1>4, <1>5, <1>7, <1>8, <1>9, MoveKeepsBooked

LEMMA InsertRecordBooked ==
  ASSUME IInv, Booked, ~stray, NEW c \in Clients, InsertRecord(c)
  PROVE  Booked'
<1>1. PICK r \in Records :
        \/ \E s \in 0..file[obj[c].curPage].cnt : InsertHere(c, r, s)
        \/ \E q \in DataPages : InsertNewPage(c, r, q) \/ InsertUnPinFails(c, r, q)
  BY DEF InsertRecord
<1>2. ASSUME NEW s, InsertHere(c, r, s)
      PROVE  Booked'
  BY <1>2, StaysBooked
<1>3. ASSUME NEW q, InsertUnPinFails(c, r, q)
      PROVE  FALSE
  BY <1>3, NeedsPageFacts, UnPinsHisPage DEF InsertUnPinFails
<1> QED
  BY <1>1, <1>2, <1>3, InsertNewPageBooked

\* The constructors and destructors.
LEMMA OpenBooked ==
  ASSUME IInv, Booked, ~stray, NEW c \in Clients,
         NEW kind \in {"scan", "insert", "reader"}, NEW p \in Used, Open(c, kind, p)
  PROVE  Booked'
<1> DEFINE m == Object(kind, p, p)
<1>1. /\ obj[c] = Nil /\ pins \in [Pages -> Nat] /\ changed' = changed
      /\ changed \subseteq Pages
      /\ p \in DataPages /\ p \in Pages /\ p # Header /\ p # Stale /\ Header \in Pages
  BY Typed, UsedPages, Constants DEF Open, CanOpen
<1>2. m # Nil /\ m.curPage = p
  BY <1>1, ObjectFields, NilIsNothing
<1>3. CASE
        /\ obj' = [obj EXCEPT ![c] = m]
        /\ pins' = [pins EXCEPT ![Header] = @ + 1, ![p] = @ + 1]
  <2>1. ASSUME NEW x \in Pages
        PROVE  pins'[x] = pins[x] - One(On(obj[c], x)) + One(On(m, x))
    <3>1. One(On(obj[c], x)) = 0
      BY <1>1 DEF On, One
    <3>2. One(On(m, x)) = IF x = Header \/ x = p THEN 1 ELSE 0
      BY <1>2 DEF On, One
    <3>3. pins'[x] = IF x = Header \/ x = p THEN pins[x] + 1 ELSE pins[x]
      BY <1>1, <1>3
    <3> HIDE DEF m
    <3> QED  BY <1>1, <3>1, <3>2, <3>3
  <2>2. \A x \in changed' : x \in changed /\ ~Dirties(obj[c], x)
    BY <1>1 DEF Dirties, On
  <2>3. obj' = [obj EXCEPT ![c] = m] /\ m.curPage # Stale /\ changed' \subseteq Pages
    BY <1>1, <1>2, <1>3
  <2> HIDE DEF m
  <2> QED  BY <2>1, <2>2, <2>3, StepKeepsBooked
<1> QED
  BY <1>3, Astray DEF Open

LEMMA CloseBooked ==
  ASSUME IInv, Booked, NEW c \in Clients, Close(c)
  PROVE  Booked'
<1> DEFINE o == obj[c]
<1>1. CASE stray
  BY <1>1, Astray DEF Close
<1>2. CASE ~stray
  <2>1. /\ o \in Objects /\ o # Nil /\ o.curPage \in Used \cup {Null}
        /\ Left(o) = o.curPage
        /\ pins \in [Pages -> Nat] /\ changed \subseteq Pages
    <3>1. o # Nil /\ o \in Objects /\ GoodObject(c) /\ o.curPage # Stale
      BY <1>2, Typed DEF Close, Booked, NoneStale, IInv
    <3> QED  BY <3>1, Typed DEF GoodObject, Left
  <2>2. o.curPage \in Pages => ~NotPinned(o.curPage)
    BY <1>2, <2>1, PinnedOn DEF Booked, On
  <2>3. /\ o.curPage # Header /\ Null \notin Pages
        /\ o.curPage # Null => o.curPage \in Pages
    BY <2>1, Typed, UsedPages, Constants
  <2>4. ASSUME NEW x \in Pages
        PROVE  pins'[x] = pins[x] - One(On(o, x)) + One(On(Nil, x))
    <3>1. One(On(Nil, x)) = 0
      BY DEF On, One
    <3>2. One(On(o, x)) = IF x = Header \/ x = o.curPage THEN 1 ELSE 0
      BY <2>1 DEF On, One
    <3>3. UnPinned(o.curPage) =
            IF o.curPage = Null THEN pins ELSE [pins EXCEPT ![o.curPage] = @ - 1]
      BY <2>2, <2>3 DEF UnPinned, NotPinned
    <3>4. pins' = [UnPinned(o.curPage) EXCEPT ![Header] = @ - 1]
      BY <2>1 DEF Close
    <3>5. pins'[x] = IF x = Header \/ x = o.curPage THEN pins[x] - 1 ELSE pins[x]
      BY <2>1, <2>3, <3>3, <3>4
    <3> QED  BY <2>1, <3>1, <3>2, <3>5
  <2>5. /\ changed' \subseteq Pages
        /\ \A x \in changed' : x \in changed /\ ~Dirties(o, x)
    <3>1. changed' = Saved(o.curPage, SaysDirty(o))
                       \ (IF o.hdrDirty THEN {Header} ELSE {})
      BY <2>1 DEF Close
    <3> QED  BY <2>1, <3>1 DEF Saved, Dirties, On
  <2>6. obj' = [obj EXCEPT ![c] = Nil]
    BY DEF Close
  <2> QED  BY <1>2, <2>1, <2>4, <2>5, <2>6, StepKeepsBooked
<1> QED
  BY <1>1, <1>2

LEMMA SameBooked ==
  ASSUME Booked, UNCHANGED <<obj, pins, changed, stray>>
  PROVE  Booked'
BY DEF Booked, PinsKept, ChangesSaved, NoneStale, OpenOn

LEMMA NextKeepsBooked == IInv /\ Booked /\ [Next]_vars => Booked'
<1> SUFFICES ASSUME IInv, Booked, [Next]_vars
             PROVE  Booked'
  OBVIOUS
<1>1. CASE Step
  <2>1. PICK c \in Clients :
          \/ Close(c)
          \/ /\ ~stray
             /\ \/ OpenScan(c) \/ OpenReader(c) \/ OpenInsert(c)
                \/ EndScan(c) \/ MarkScan(c) \/ ResetScan(c)
                \/ ScanNext(c) \/ Delete(c) \/ MarkDirty(c)
                \/ GetRecord(c) \/ InsertRecord(c)
    BY <1>1 DEF Step
  <2>2. hdr.firstPage \in Used /\ hdr.lastPage \in Used
    BY Typed DEF ChainSound
  <2>3. CASE Close(c)
    BY <2>3, CloseBooked
  <2>4. CASE ~stray /\ (OpenScan(c) \/ OpenReader(c) \/ OpenInsert(c))
    BY <2>2, <2>4, OpenBooked DEF OpenScan, OpenReader, OpenInsert
  <2>5. CASE ~stray /\ (EndScan(c) \/ ScanNext(c) \/ GetRecord(c) \/ InsertRecord(c))
    BY <2>5, EndScanBooked, ScanNextBooked, GetRecordBooked, InsertRecordBooked
  <2>6. CASE ~stray /\ (MarkScan(c) \/ MarkDirty(c) \/ ResetHere(c) \/ ResetUnPinFails(c))
    BY <2>6, StaysBooked
  <2>7. CASE ~stray /\ ResetAway(c)
    BY <2>7, ResetAwayBooked
  <2>8. CASE ~stray /\ Delete(c)
    BY <2>8, StaysBooked DEF Delete
  <2> QED
    BY <2>1, <2>3, <2>4, <2>5, <2>6, <2>7, <2>8 DEF ResetScan
<1>2. CASE GoesAstray \/ UNCHANGED vars
  BY <1>2, SameBooked DEF GoesAstray, history, vars
<1> QED
  BY <1>1, <1>2 DEF Next

LEMMA InitBooked == Init => Booked
<1> SUFFICES ASSUME Init
             PROVE  Booked
  OBVIOUS
<1>1. \A p \in Pages : OpenOn(p) = {} /\ pins[p] = 0
  BY DEF Init, OpenOn
<1> QED
  BY <1>1, FS_EmptySet DEF Init, Booked, PinsKept, ChangesSaved, NoneStale

LEMMA BookedAlways == Spec => []Booked
BY InitHasIInv, NextKeepsIInv, InitBooked, NextKeepsBooked, PTL DEF Spec

\* No page of a heap file loses the pin of an object that is on it, or keeps the
\* pin of one that has left, whatever calls of buf.C fail for the destructors,
\* scanNext, getRecord and insertRecord of heapfile.C: until a failed readPage
\* leaves an old pointer behind.
THEOREM PinsAlwaysKept == Spec => []PinsKept
<1>1. Booked => PinsKept
  BY DEF Booked
<1> QED
  BY BookedAlways, <1>1, PTL

\* A page that was changed, by an insertion, a deletion or the client, is always
\* somebody's who will unpin it as dirty: no change is dropped by a scan that
\* turns the page, is reset or closed (heapfile.C).
THEOREM ChangesAlwaysSaved == Spec => []ChangesSaved
<1>1. Booked => ChangesSaved
  BY DEF Booked
<1> QED
  BY BookedAlways, <1>1, PTL

-----------------------------------------------------------------------------
(***************************************************************************)
(* The count of records.  That there are finitely many is carried along.   *)
(***************************************************************************)
Counted == IsFiniteSet(Rids) /\ CountKept

Live(g) == {s \in DOMAIN g.slot : g.slot[s] # Free}

LEMMA RidIsLive ==
  \A x : x \in Rids <=> \E p \in Used : \E s \in Live(file[p]) : x = <<p, s>>
BY DEF Rids, LiveOn, Live

LEMMA InsertedLive ==
  ASSUME NEW g, IsPage(g), NEW r \in Records, NEW s, SlotFor(g, s)
  PROVE  Live(Inserted(g, r, s)) = Live(g) \cup {s} /\ s \notin Live(g)
<1> DEFINE n == IF s = g.cnt THEN s + 1 ELSE g.cnt
<1>1. /\ g.cnt \in Nat /\ s \in 0..g.cnt
      /\ DOMAIN g.slot = 0..(g.cnt - 1)
      /\ s # g.cnt => g.slot[s] = Free
  BY DEF IsPage, SlotFor
<1>2. Inserted(g, r, s).slot = [t \in 0..(n - 1) |-> IF t = s THEN r ELSE g.slot[t]]
  BY DEF Inserted
<1>3. s \in 0..(n - 1) /\ \A t : t \in 0..(n - 1) /\ t # s <=>
                                   t \in 0..(g.cnt - 1) /\ t # s
  BY <1>1
<1>4. r # Free
  BY FreeIsNoRecord
<1> HIDE DEF n
<1>5. s \notin Live(g)
  BY <1>1 DEF Live
<1>6. \A t : t \in Live(Inserted(g, r, s)) <=> t \in Live(g) \cup {s}
  BY <1>1, <1>2, <1>3, <1>4 DEF Live
<1> QED
  BY <1>5, <1>6

LEMMA DeletedLive ==
  ASSUME NEW g, IsPage(g), NEW s \in Live(g), NEW n, SlotsLeft(g, s, n)
  PROVE  Live(Deleted(g, s, n)) = Live(g) \ {s}
<1>1. /\ g.cnt \in Nat /\ s \in 0..(g.cnt - 1)
      /\ DOMAIN g.slot = 0..(g.cnt - 1)
  BY DEF IsPage, Live
<1>2. /\ n \in Nat /\ n <= g.cnt
      /\ \A t \in n..(g.cnt - 1) : t = s \/ g.slot[t] = Free
  BY <1>1 DEF SlotsLeft
<1>3. Deleted(g, s, n).slot = [t \in 0..(n - 1) |-> IF t = s THEN Free ELSE g.slot[t]]
  BY DEF Deleted
<1>4. \A t : t \in 0..(g.cnt - 1) <=> t \in 0..(n - 1) \/ t \in n..(g.cnt - 1)
  BY <1>1, <1>2
<1>5. \A t : t \in Live(Deleted(g, s, n)) <=> t \in Live(g) \ {s}
  BY <1>1, <1>2, <1>3, <1>4 DEF Live
<1> QED
  BY <1>5

\* One page changes, or is new.
LEMMA OneRidMore ==
  ASSUME NEW p, NEW s, Used' = Used \cup {p}, <<p, s>> \notin Rids,
         \A u \in Used \ {p} : Live(file'[u]) = Live(file[u]),
         IF p \in Used THEN Live(file'[p]) = Live(file[p]) \cup {s}
                       ELSE Live(file'[p]) = {s},
         Counted, hdr'.recCnt = hdr.recCnt + 1, hdr.recCnt \in Int,
         refused' = refused
  PROVE  Counted'
<1>1. \A x : x \in Rids' <=> \E u \in Used' : \E t \in Live(file'[u]) : x = <<u, t>>
  BY DEF Rids, LiveOn, Live
<1>2. \A x : x \in Rids' <=> x \in Rids \cup {<<p, s>>}
  BY <1>1, RidIsLive
<1>3. Rids' = Rids \cup {<<p, s>>}
  BY <1>2
<1>4. IsFiniteSet(Rids') /\ Cardinality(Rids') = Cardinality(Rids) + 1
  BY <1>3, FS_AddElement DEF Counted
<1> QED
  BY <1>4 DEF Counted, CountKept

LEMMA OneRidLess ==
  ASSUME NEW p \in Used, NEW s \in Live(file[p]), Used' = Used,
         \A u \in Used \ {p} : Live(file'[u]) = Live(file[u]),
         Live(file'[p]) = Live(file[p]) \ {s},
         Counted, hdr'.recCnt = hdr.recCnt - 1, hdr.recCnt \in Int,
         refused' = refused
  PROVE  Counted'
<1>1. \A x : x \in Rids' <=> \E u \in Used' : \E t \in Live(file'[u]) : x = <<u, t>>
  BY DEF Rids, LiveOn, Live
<1>2. \A x : x \in Rids' <=> x \in Rids \ {<<p, s>>}
  BY <1>1, RidIsLive
<1>3. Rids' = Rids \ {<<p, s>>} /\ <<p, s>> \in Rids
  BY <1>2, RidIsLive
<1>4. IsFiniteSet(Rids') /\ Cardinality(Rids') = Cardinality(Rids) - 1
  BY <1>3, FS_RemoveElement DEF Counted
<1> QED
  BY <1>4 DEF Counted, CountKept

\* The file stays, and so does the count unless a deletion was refused.
LEMMA SameCounted ==
  ASSUME Counted, file' = file, hdr'.recCnt = hdr.recCnt \/ refused',
         refused => refused'
  PROVE  Counted'
<1>1. Rids' = Rids
  BY DEF Rids, Used, LiveOn
<1> QED
  BY <1>1 DEF Counted, CountKept

LEMMA InsertHereCounted ==
  ASSUME IInv, Counted, NEW c \in Clients, NEW r \in Records, NEW s,
         InsertHere(c, r, s)
  PROVE  Counted'
<1> DEFINE p == obj[c].curPage
           g == Inserted(file[p], r, s)
<1>1. p \in Used /\ p \in DataPages /\ IsPage(file[p]) /\ TypeOK
  BY NoInserterOffPage, Typed, UsedPages, SlotNumbers DEF InsertHere
<1>2. /\ file' = [file EXCEPT ![p] = g] /\ refused' = refused
      /\ hdr' = [hdr EXCEPT !.recCnt = @ + 1] /\ SlotFor(file[p], s)
  BY DEF InsertHere, history
<1>3. Live(g) = Live(file[p]) \cup {s} /\ s \notin Live(file[p])
  BY <1>1, <1>2, InsertedLive
<1>4. IsPage(g)
  BY <1>1, <1>2, InsertedPage DEF InsertHere
<1> HIDE DEF g
<1>5. \A u \in DataPages : file'[u] = IF u = p THEN g ELSE file[u]
  BY <1>1, <1>2 DEF TypeOK
<1>6. Used' = Used \cup {p}
  BY <1>1, <1>4, <1>5, NilIsNothing DEF Used
<1>7. hdr'.recCnt = hdr.recCnt + 1 /\ hdr.recCnt \in Int
  BY <1>1, <1>2 DEF TypeOK
<1>8. <<p, s>> \notin Rids
  BY <1>3, RidIsLive
<1>9. /\ \A u \in Used \ {p} : Live(file'[u]) = Live(file[u])
      /\ Live(file'[p]) = Live(file[p]) \cup {s}
  BY <1>1, <1>3, <1>5, UsedPages
<1> HIDE DEF p
<1> QED
  BY <1>1, <1>2, <1>6, <1>7, <1>8, <1>9, OneRidMore

LEMMA InsertNewPageCounted ==
  ASSUME IInv, Counted, NEW c \in Clients, NEW r \in Records, NEW q,
         InsertNewPage(c, r, q)
  PROVE  Counted'
<1> DEFINE p == obj[c].curPage
           fits == Fits(NewPage, r)
           g == IF fits THEN Inserted(NewPage, r, 0) ELSE NewPage
<1>1. /\ p \in Used /\ p \in DataPages /\ p # q /\ IsPage(file[p]) /\ TypeOK
      /\ q \in DataPages /\ q \notin Used
  BY NeedsPageFacts, Typed, UsedPages, SlotNumbers DEF InsertNewPage
<1>2. /\ file' = Linked(p, q, g) /\ refused' = refused
      /\ hdr' = [hdr EXCEPT !.lastPage = q, !.pageCnt = @ + 1,
                            !.recCnt = IF fits THEN @ + 1 ELSE @]
  BY DEF InsertNewPage, history
<1>3. Live(NewPage) = {}
  BY DEF Live, NewPage
<1>4. IsPage(g) /\ Live(g) = IF fits THEN {0} ELSE {}
  <2>1. SlotFor(NewPage, 0)
    BY DEF SlotFor, NewPage
  <2>2. Live(Inserted(NewPage, r, 0)) = {0}
    <3>1. Live(Inserted(NewPage, r, 0)) = Live(NewPage) \cup {0}
      BY <2>1, NewPageIsPage, InsertedLive
    <3> QED  BY <1>3, <3>1
  <2>3. CASE fits
    <3>1. g = Inserted(NewPage, r, 0) /\ IsPage(Inserted(NewPage, r, 0))
      BY <2>1, <2>3, NewPageIsPage, InsertedPage
    <3> HIDE DEF g, fits
    <3> QED  BY <2>2, <2>3, <3>1
  <2>4. CASE ~fits
    <3>1. g = NewPage
      BY <2>4
    <3> HIDE DEF g, fits
    <3> QED  BY <1>3, <2>4, <3>1, NewPageIsPage
  <2> QED  BY <2>3, <2>4
<1>5. hdr'.recCnt = (IF fits THEN hdr.recCnt + 1 ELSE hdr.recCnt) /\ hdr.recCnt \in Int
  <2> HIDE DEF fits
  <2> QED  BY <1>1, <1>2 DEF TypeOK
<1> HIDE DEF g, fits
<1>6. \A u \in DataPages : file'[u] = IF u = q THEN g
                                      ELSE IF u = p THEN [file[p] EXCEPT !.next = q]
                                      ELSE file[u]
  BY <1>1, <1>2 DEF TypeOK, Linked
<1>7. /\ [file[p] EXCEPT !.next = q] # Nil
      /\ Live([file[p] EXCEPT !.next = q]) = Live(file[p])
  BY <1>1, NilIsNothing DEF IsPage, Live, Nil
<1>8. Used' = Used \cup {q}
  <2>1. \A u \in DataPages : file'[u] # Nil <=> u = q \/ file[u] # Nil
    BY <1>1, <1>4, <1>6, <1>7, NilIsNothing DEF Used
  <2> QED  BY <1>1, <2>1 DEF Used
<1>9. /\ \A u \in Used : Live(file'[u]) = Live(file[u])
      /\ file'[q] = g
  BY <1>1, <1>6, <1>7, UsedPages
<1>10. CASE fits
  <2>1. <<q, 0>> \notin Rids
    BY <1>1, RidIsLive
  <2>2. Live(file'[q]) = {0} /\ hdr'.recCnt = hdr.recCnt + 1
    BY <1>4, <1>5, <1>9, <1>10
  <2> QED  BY <1>1, <1>2, <1>5, <1>8, <1>9, <2>1, <2>2, OneRidMore
<1>11. CASE ~fits
  <2>1. \A x : x \in Rids' <=> \E u \in Used' : \E t \in Live(file'[u]) : x = <<u, t>>
    BY DEF Rids, LiveOn, Live
  <2>2. Rids' = Rids
    <3>1. \A x : x \in Rids' <=> x \in Rids
      BY <1>4, <1>8, <1>9, <1>11, <2>1, RidIsLive
    <3>2. Rids' \subseteq Rids /\ Rids \subseteq Rids'
      BY <3>1
    <3> QED  BY <3>2
  <2> QED  BY <1>2, <1>5, <1>11, <2>2 DEF Counted, CountKept
<1> QED
  BY <1>10, <1>11

LEMMA DeleteCounted ==
  ASSUME IInv, Counted, NEW c \in Clients, NEW n, DeleteRecord(c, n)
  PROVE  Counted'
<1> DEFINE p == obj[c].curPage
           s == obj[c].curRec
           g == Deleted(file[p], s, n)
<1>1. p \in Used /\ p \in DataPages /\ IsPage(file[p]) /\ TypeOK
  BY HasObject, Typed, UsedPages, SlotNumbers DEF DeleteRecord, GoodObject
<1>2. hdr'.recCnt = hdr.recCnt - 1 /\ hdr.recCnt \in Int
  BY <1>1 DEF DeleteRecord, TypeOK
<1>3. CASE /\ s \in LiveOn(p) /\ SlotsLeft(file[p], s, n)
           /\ file' = [file EXCEPT ![p] = g] /\ UNCHANGED refused
  <2>1. s \in Live(file[p])
    BY <1>3 DEF Live, LiveOn
  <2>2. Live(g) = Live(file[p]) \ {s} /\ IsPage(g)
    BY <1>1, <1>3, <2>1, DeletedLive, DeletedPage DEF Live
  <2> HIDE DEF g
  <2>3. \A u \in DataPages : file'[u] = IF u = p THEN g ELSE file[u]
    BY <1>1, <1>3 DEF TypeOK
  <2>4. Used' = Used
    BY <1>1, <2>2, <2>3, NilIsNothing DEF Used
  <2>5. /\ \A u \in Used \ {p} : Live(file'[u]) = Live(file[u])
        /\ Live(file'[p]) = Live(file[p]) \ {s}
    BY <1>1, <2>2, <2>3, UsedPages
  <2> HIDE DEF p, s
  <2> QED  BY <1>1, <1>2, <1>3, <2>1, <2>4, <2>5, OneRidLess
<1>4. CASE refused' = TRUE /\ UNCHANGED file
  BY <1>4, SameCounted
<1> QED
  BY <1>3, <1>4 DEF DeleteRecord

LEMMA NextKeepsCounted == IInv /\ Booked /\ Counted /\ [Next]_vars => Counted'
<1> SUFFICES ASSUME IInv, Booked, Counted, [Next]_vars
             PROVE  Counted'
  OBVIOUS
<1>1. ASSUME UNCHANGED content, refused' = refused
      PROVE  Counted'
  BY <1>1, SameCounted DEF content
<1>2. ASSUME NEW c \in Clients, InsertRecord(c), ~stray
      PROVE  Counted'
  <2>1. PICK r \in Records :
          \/ \E s \in 0..file[obj[c].curPage].cnt : InsertHere(c, r, s)
          \/ \E q \in DataPages : InsertNewPage(c, r, q) \/ InsertUnPinFails(c, r, q)
    BY <1>2 DEF InsertRecord
  <2>2. ASSUME NEW q, InsertUnPinFails(c, r, q)
        PROVE  FALSE
    BY <1>2, <2>2, NeedsPageFacts, UnPinsHisPage DEF InsertUnPinFails
  <2> QED
    BY <2>1, <2>2, InsertHereCounted, InsertNewPageCounted
<1>3. ASSUME NEW c \in Clients, Delete(c)
      PROVE  Counted'
  BY <1>3, DeleteCounted DEF Delete
<1>4. CASE Step
  <2>1. PICK c \in Clients :
          \/ Close(c)
          \/ /\ ~stray
             /\ \/ OpenScan(c) \/ OpenReader(c) \/ OpenInsert(c)
                \/ EndScan(c) \/ MarkScan(c) \/ ResetScan(c)
                \/ ScanNext(c) \/ Delete(c) \/ MarkDirty(c)
                \/ GetRecord(c) \/ InsertRecord(c)
    BY <1>4 DEF Step
  <2>2. CASE \/ Close(c) \/ OpenScan(c) \/ OpenReader(c) \/ OpenInsert(c)
             \/ EndScan(c) \/ MarkScan(c) \/ ResetScan(c) \/ MarkDirty(c)
    BY <1>1, <2>2
    DEF Close, OpenScan, OpenReader, OpenInsert, Open, EndScan, MarkScan, ResetScan,
        ResetHere, ResetUnPinFails, ResetAway, MarkDirty, history
  <2>3. CASE ScanNext(c)
    BY <1>1, <2>3
    DEF ScanNext, ScanStaysAtEnd, ScanBegins, ScanGoesOn, ScanFinds, ScanEnds,
        ScanTurns, ScanUnPinFails, history
  <2>4. CASE GetRecord(c)
    BY <1>1, <2>4 DEF GetRecord, GetHere, GetUnPinFails, GetAway, history
  <2> QED
    BY <1>2, <1>3, <2>1, <2>2, <2>3, <2>4
<1>5. CASE GoesAstray \/ UNCHANGED vars
  BY <1>1, <1>5 DEF GoesAstray, history, vars, content
<1> QED
  BY <1>4, <1>5 DEF Next

LEMMA InitCounted == Init => Counted
<1> SUFFICES ASSUME Init
             PROVE  Counted
  OBVIOUS
<1>1. \A p \in Used : Live(file[p]) = {}
  BY DEF Init, Used, Live, NewPage, Nil
<1>2. Rids = {}
  BY <1>1, RidIsLive
<1> QED
  BY <1>2, FS_EmptySet DEF Init, Counted, CountKept

\* The header counts the records of the file, over insertions on old and new
\* pages, deletions by several scans and calls that fail (heapfile.C): until a
\* scan deletes a record that another has deleted before it.
THEOREM CountAlwaysKept == Spec => []CountKept
<1>1. Counted => CountKept
  BY DEF Counted
<1> QED
  BY InitHasIInv, NextKeepsIInv, InitBooked, NextKeepsBooked, InitCounted,
     NextKeepsCounted, <1>1, PTL DEF Spec
=============================================================================
