-------------------------- MODULE HeapFileP5Proofs --------------------------
(***************************************************************************)
(* Proofs about a heap file of stage P5, for any clients and any sizes.    *)
(***************************************************************************)
EXTENDS HeapFileP5, FiniteSetTheorems, TLAPS

\* Every open object has the header page pinned.
OpenObjects == {c \in Clients : obj[c] # Nil}
HeaderPinned == pins[Header] = Cardinality(OpenObjects)

\* A link leads to a page of the file.
ChainSound ==
  /\ hdr.firstPage = 2 /\ 2 \in Used
  /\ \A p \in Used : file[p].next \in Used \cup {-1}

\* The pages follow one another in the order of their numbers, as long as none
\* has been linked anew.
InOrder ==
  "relinked" \notin odd =>
    \A p \in Used :
      IF file[p].next = -1
      THEN \A q \in Used : q <= p
      ELSE p < file[p].next /\ \A q \in Used : q <= p \/ file[p].next <= q

\* Objects are on pages of the file, where they say; those that have let go of
\* their page may still be on it.
GoodObject(c) ==
  obj[c] # Nil =>
    /\ obj[c].curPage \in Used \cup {Null, Stale}
    /\ obj[c].curPage \in Used => obj[c].curPageNo = obj[c].curPage
    /\ obj[c].curPageNo \in Used \cup {0, -1}
    /\ obj[c].curPage = Stale => obj[c].told = "broken"
    /\ obj[c].mark # Nil => obj[c].mark.pageNo \in Used
    /\ obj[c].kind = "insert" => c \in given
    /\ c \in given => obj[c].curPage \in Used
    /\ obj[c].told = "record" =>
         obj[c].kind = "scan" /\ (obj[c].curPage \in Used \/ running = c)

\* Record r lies behind slot s of page p.
Behind(r, p, s) == r[1] > p \/ (r[1] = p /\ r[2] > s)

\* What a scan has yet to find lies behind it, or behind the place where it will
\* begin on the page it is to read; and behind the mark what it had yet to find
\* there.
GoodScan(c) ==
  obj[c] # Nil =>
    /\ (/\ obj[c].kind = "scan" /\ obj[c].told # "broken"
        /\ obj[c].curPageNo \in Used) =>
         \A r \in due[c] : Behind(r, obj[c].curPageNo, obj[c].curRec)
    /\ obj[c].mark # Nil =>
         \A r \in dueMark[c] : Behind(r, obj[c].mark.pageNo, obj[c].mark.rec)
    /\ obj[c].told = "eof" => due[c] = {}

IInv ==
  /\ TypeOK
  /\ ChainSound
  /\ InOrder
  /\ HeaderPinned
  /\ \A c \in Clients : GoodObject(c)
  /\ "relinked" \notin odd => \A c \in Clients : GoodScan(c)

-----------------------------------------------------------------------------
LEMMA Constants ==
  /\ MaxPage \in Nat /\ MaxPage > 1 /\ PageRecords \in Nat /\ PageRecords > 0
  /\ Header \in Pages /\ Header = 1
  /\ DataPages = 2..MaxPage /\ DataPages \subseteq Pages /\ Header \notin DataPages
  /\ Slots = 0..(PageRecords - 1)
  /\ NoSlot = -1 /\ Null = 0 /\ Stale = -1
  /\ Null \notin Pages /\ Stale \notin Pages
BY ConstantsAssumption DEF Pages, DataPages, Header, Slots, NoSlot, Null, Stale

\* No page, no object and no mark is taken for none.
LEMMA NilIsNothing ==
  /\ Nil \notin Objects
  /\ Nil \notin [pageNo : DataPages, rec : SlotNos]
  /\ Nil \notin DataPageStates
BY DEF Nil, Objects, DataPageStates

LEMMA FreeIsNoRecord == Free \notin Records /\ Free # "hit"
BY ConstantsAssumption DEF Free

LEMMA UsedPages ==
  ASSUME TypeOK
  PROVE  /\ Used \subseteq DataPages /\ Used \subseteq Pages
         /\ Used \subseteq Nat
         /\ \A p \in Used : p >= 2
         /\ Null \notin Used /\ Stale \notin Used /\ Header \notin Used
         /\ 0 \notin Used /\ -1 \notin Used
BY Constants DEF Used

LEMMA UsedPage ==
  ASSUME TypeOK, NEW p \in Used
  PROVE  /\ p \in DataPages
         /\ file[p] \in DataPageStates
         /\ file[p].slot \in [Slots -> Records \cup {Free}]
         /\ file[p].next \in DataPages \cup {-1}
         /\ LiveOn(p) \subseteq Slots
BY NilIsNothing DEF TypeOK, Used, DataPageStates, LiveOn

\* The records of the file, one by one.
LEMMA WantedRecords ==
  \A r : r \in Wanted <=>
           \E p \in Used : \E s \in LiveOn(p) :
             r = <<p, s>> /\ file[p].slot[s] = "hit"
BY DEF Wanted, Rids

LEMMA WantedRecord ==
  ASSUME TypeOK, NEW r \in Wanted
  PROVE  /\ r[1] \in Used /\ r[1] \in DataPages /\ r[1] \in Nat
         /\ r[2] \in LiveOn(r[1]) /\ r[2] \in Slots /\ r[2] \in Nat
         /\ r = <<r[1], r[2]>>
         /\ file[r[1]].slot[r[2]] = "hit"
<1>0. PICK p \in Used :
        \E s \in LiveOn(p) : r = <<p, s>> /\ file[p].slot[s] = "hit"
  BY WantedRecords
<1>1. PICK s \in LiveOn(p) : r = <<p, s>> /\ file[p].slot[s] = "hit"
  BY <1>0
<1>2. p \in DataPages /\ p \in Nat
  BY UsedPages
<1>3. s \in Slots /\ s \in Nat
  BY UsedPage, Constants DEF LiveOn
<1> QED
  BY <1>1, <1>2, <1>3

LEMMA FileKept ==
  ASSUME TypeOK, UNCHANGED content
  PROVE  /\ Used' = Used /\ Wanted' = Wanted /\ hdr' = hdr /\ file' = file
         /\ Null \notin Used' /\ Stale \notin Used'
BY UsedPages DEF content, Used, Wanted, Rids, LiveOn

LEMMA UnPinnedTyped ==
  ASSUME TypeOK, NEW p, p # Header
  PROVE  /\ UnPinned(p) \in [Pages -> Nat]
         /\ UnPinned(p)[Header] = pins[Header]
<1>1. pins \in [Pages -> Nat]
  BY DEF TypeOK
<1>2. CASE NotPinned(p)
  BY <1>1, <1>2 DEF UnPinned
<1>3. CASE ~NotPinned(p)
  <2>1. p \in Pages /\ pins[p] \in Nat /\ pins[p] # 0
    BY <1>1, <1>3 DEF NotPinned
  <2>2. pins[p] - 1 \in Nat
    BY <2>1
  <2>3. UnPinned(p) = [pins EXCEPT ![p] = pins[p] - 1]
    BY <1>3 DEF UnPinned
  <2> QED
    BY <1>1, <2>1, <2>2, <2>3, Constants
<1> QED
  BY <1>2, <1>3

\* The parts of the invariant that need no DEF.
LEMMA Typed ==
  ASSUME IInv
  PROVE  /\ TypeOK /\ ChainSound /\ InOrder /\ HeaderPinned
         /\ obj \in [Clients -> Objects \cup {Nil}]
         /\ pins \in [Pages -> Nat]
         /\ running \in Clients \cup {Nil}
         /\ changed \subseteq Pages
         /\ due \in [Clients -> SUBSET Wanted]
         /\ dueMark \in [Clients -> SUBSET Wanted]
         /\ given \subseteq OpenObjects
         /\ \A c \in Clients : GoodObject(c)
BY DEF IInv, TypeOK, OpenObjects

(***************************************************************************)
(* A step of c that leaves the file as it is.                              *)
(***************************************************************************)
LEMMA OwnStepKeepsIInv ==
  ASSUME IInv, NEW c \in Clients, UNCHANGED content,
         obj' = [obj EXCEPT ![c] = obj'[c]],
         obj'[c] \in Objects \cup {Nil},
         pins' \in [Pages -> Nat], HeaderPinned',
         running \in {c, Nil}, running' \in {c, Nil},
         changed' \subseteq Pages,
         due' = [due EXCEPT ![c] = due'[c]], due'[c] \subseteq Wanted,
         dueMark' = [dueMark EXCEPT ![c] = dueMark'[c]],
         dueMark'[c] \subseteq Wanted,
         given' \in {given \cup {c}, given \ {c}},
         c \in given' => obj'[c] # Nil,
         odd \subseteq odd',
         GoodObject(c)',
         "relinked" \notin odd' => GoodScan(c)'
  PROVE  IInv'
<1>1. Used' = Used /\ Wanted' = Wanted /\ ChainSound' /\ file' = file
  BY FileKept DEF IInv, content, ChainSound
<1>2. InOrder'
  BY <1>1 DEF IInv, InOrder
<1>3. TypeOK'
  BY <1>1 DEF IInv, TypeOK, content
<1>4. ASSUME NEW d \in Clients, d # c
      PROVE  /\ GoodObject(d)'
             /\ GoodScan(d) => GoodScan(d)'
  <2>1. obj'[d] = obj[d] /\ due'[d] = due[d] /\ dueMark'[d] = dueMark[d]
    BY <1>4 DEF IInv, TypeOK
  <2>2. running # d /\ (d \in given' <=> d \in given)
    BY <1>4, NilAssumption
  <2>3. GoodObject(d)
    BY DEF IInv
  <2>4. GoodObject(d)'
    BY <1>1, <2>1, <2>2, <2>3 DEF GoodObject
  <2>5. GoodScan(d) => GoodScan(d)'
    BY <1>1, <2>1 DEF GoodScan, Behind
  <2> QED
    BY <2>4, <2>5
<1>5. \A d \in Clients : GoodObject(d)'
  BY <1>4
<1>6. "relinked" \notin odd' => \A d \in Clients : GoodScan(d)'
  BY <1>4 DEF IInv
<1> QED
  BY <1>1, <1>2, <1>3, <1>5, <1>6 DEF IInv

\* A call of an open object: it stays open.
LEMMA CallKeepsIInv ==
  ASSUME IInv, NEW c \in Clients, UNCHANGED content,
         obj[c] # Nil,
         obj' = [obj EXCEPT ![c] = obj'[c]],
         obj'[c] \in Objects,
         pins' \in [Pages -> Nat], pins'[Header] = pins[Header],
         running \in {c, Nil}, running' \in {c, Nil},
         changed' \subseteq Pages,
         due' = [due EXCEPT ![c] = due'[c]], due'[c] \subseteq Wanted,
         dueMark' = [dueMark EXCEPT ![c] = dueMark'[c]],
         dueMark'[c] \subseteq Wanted,
         given' \in {given \cup {c}, given \ {c}},
         odd \subseteq odd',
         GoodObject(c)',
         "relinked" \notin odd' => GoodScan(c)'
  PROVE  IInv'
<1>1. obj'[c] # Nil
  BY NilIsNothing
<1>2. OpenObjects' = OpenObjects
  BY <1>1 DEF OpenObjects, IInv, TypeOK
<1>3. HeaderPinned'
  BY <1>2 DEF IInv, HeaderPinned
<1> QED
  BY <1>1, <1>3, OwnStepKeepsIInv

\* An object that is called, or whose scanNext goes on.
LEMMA HasObject ==
  ASSUME IInv, NEW c \in Clients, NEW kind, Has(c, kind)
  PROVE  /\ obj[c] \in Objects /\ obj[c] # Nil /\ obj[c].kind = kind
         /\ obj[c].told # "broken"
         /\ obj[c].curPage \in Used \cup {Null}
         /\ obj[c].curPageNo \in Used \cup {0, -1}
         /\ obj[c].curPage \in Used => obj[c].curPageNo = obj[c].curPage
         /\ GoodObject(c)
         /\ "relinked" \notin odd => GoodScan(c)
         /\ due[c] \subseteq Wanted /\ dueMark[c] \subseteq Wanted
BY DEF IInv, TypeOK, Has, GoodObject

-----------------------------------------------------------------------------
LEMMA OddGrows ==
  ASSUME NEW S, Odd(S)
  PROVE  /\ odd \subseteq odd' /\ odd' = odd \cup S
         /\ "relinked" \notin odd' => "relinked" \notin odd
BY DEF Odd

\* What Lets does to the pins and to what it does not concern.
LEMMA LetsTyped ==
  ASSUME IInv, NEW c \in Clients, NEW p, p # Header, NEW dirty, Lets(c, p, dirty)
  PROVE  /\ pins' \in [Pages -> Nat] /\ pins'[Header] = pins[Header]
         /\ changed' \subseteq Pages
         /\ given' = given \ {c}
         /\ odd \subseteq odd'
         /\ "relinked" \notin odd' => "relinked" \notin odd
BY Typed, UnPinnedTyped, OddGrows DEF Lets, Saved

LEMMA EndScanKeepsIInv ==
  ASSUME IInv, NEW c \in Clients, EndScan(c)
  PROVE  IInv'
<1> DEFINE o == obj[c]
           n == obj'[c]
<1>1. /\ o \in Objects /\ o # Nil /\ o.kind = "scan" /\ running = Nil
      /\ o.curPage \in Used /\ o.curPageNo \in Used
      /\ GoodObject(c) /\ ("relinked" \notin odd => GoodScan(c))
  BY HasObject DEF EndScan, Calls
<1>2. n = [o EXCEPT !.curPage = Null, !.curPageNo = 0, !.curDirty = FALSE,
                    !.told = "nothing"]
  BY DEF EndScan, IInv, TypeOK
<1>3. /\ n \in Objects /\ n.kind = "scan" /\ n.curPage = Null
      /\ n.curPageNo = 0 /\ n.mark = o.mark /\ n.told = "nothing"
  BY <1>1, <1>2 DEF Objects
<1>4. /\ pins' \in [Pages -> Nat] /\ pins'[Header] = pins[Header]
      /\ changed' \subseteq Pages /\ given' = given \ {c} /\ odd \subseteq odd'
      /\ "relinked" \notin odd' => "relinked" \notin odd
  BY <1>1, LetsTyped, Typed, UsedPages DEF EndScan
<1>5. /\ UNCHANGED content /\ obj' = [obj EXCEPT ![c] = n]
      /\ UNCHANGED <<running, due, dueMark>>
  BY DEF EndScan, dues, IInv, TypeOK
<1>6. GoodObject(c)'
  BY <1>1, <1>3, <1>4, <1>5, FileKept, Typed, Constants DEF GoodObject
<1>7. "relinked" \notin odd' => GoodScan(c)'
  BY <1>1, <1>3, <1>4, <1>5, FileKept, Typed, UsedPages DEF GoodScan
<1> QED
  BY <1>1, <1>3, <1>4, <1>5, <1>6, <1>7, Typed, CallKeepsIInv

LEMMA MarkScanKeepsIInv ==
  ASSUME IInv, NEW c \in Clients, MarkScan(c)
  PROVE  IInv'
<1> DEFINE o == obj[c]
           n == obj'[c]
<1>1. /\ o \in Objects /\ o # Nil /\ o.kind = "scan" /\ running = Nil
      /\ o.told # "broken" /\ o.curPage \in Used /\ o.curPageNo = o.curPage
      /\ GoodObject(c) /\ ("relinked" \notin odd => GoodScan(c))
      /\ due[c] \subseteq Wanted
  BY HasObject DEF MarkScan, Calls
<1>2. n = [o EXCEPT !.mark = [pageNo |-> o.curPageNo, rec |-> o.curRec]]
  BY DEF MarkScan, IInv, TypeOK
<1>3. o.curPageNo \in DataPages /\ o.curRec \in SlotNos
  BY <1>1, Typed, UsedPages DEF Objects
<1>4. /\ n \in Objects /\ n.kind = "scan"
      /\ n.curPage = o.curPage /\ n.curPageNo = o.curPageNo
      /\ n.curRec = o.curRec /\ n.told = o.told
      /\ n.mark = [pageNo |-> o.curPageNo, rec |-> o.curRec]
  BY <1>1, <1>2, <1>3 DEF Objects
<1>5. /\ UNCHANGED content /\ obj' = [obj EXCEPT ![c] = n]
      /\ dueMark' = [dueMark EXCEPT ![c] = due[c]] /\ dueMark'[c] = due[c]
      /\ UNCHANGED <<pins, running, changed, due, given, odd>>
  BY DEF MarkScan, IInv, TypeOK
<1>6. GoodObject(c)'
  BY <1>1, <1>4, <1>5, FileKept, Typed DEF GoodObject
<1>7. "relinked" \notin odd' => GoodScan(c)'
  BY <1>1, <1>4, <1>5, FileKept, Typed DEF GoodScan, Behind
<1>8. given' \in {given \cup {c}, given \ {c}}
  BY <1>5
<1> QED
  BY <1>1, <1>4, <1>5, <1>6, <1>7, <1>8, Typed, CallKeepsIInv

LEMMA ResetHereKeepsIInv ==
  ASSUME IInv, NEW c \in Clients, ResetHere(c)
  PROVE  IInv'
<1> DEFINE o == obj[c]
           n == obj'[c]
<1>1. /\ o \in Objects /\ o # Nil /\ o.kind = "scan" /\ running = Nil
      /\ o.curPage \in Used \cup {Null} /\ o.mark # Nil
      /\ o.mark.pageNo = o.curPageNo
      /\ GoodObject(c) /\ ("relinked" \notin odd => GoodScan(c))
      /\ due[c] \subseteq Wanted /\ dueMark[c] \subseteq Wanted
  BY HasObject DEF ResetHere, Calls
<1>2. n = [o EXCEPT !.curRec = o.mark.rec, !.told = "nothing"]
  BY DEF ResetHere, MarkedRec, IInv, TypeOK
<1>3. o.mark.rec \in SlotNos
  BY <1>1 DEF Objects
<1>4. /\ n \in Objects /\ n.kind = "scan"
      /\ n.curPage = o.curPage /\ n.curPageNo = o.curPageNo
      /\ n.curRec = o.mark.rec /\ n.told = "nothing" /\ n.mark = o.mark
  BY <1>1, <1>2, <1>3 DEF Objects
<1>5. /\ UNCHANGED content /\ obj' = [obj EXCEPT ![c] = n]
      /\ due' = [due EXCEPT ![c] = dueMark[c]] /\ due'[c] = dueMark[c]
      /\ UNCHANGED <<pins, running, changed, dueMark, given, odd>>
  BY DEF ResetHere, IInv, TypeOK
<1>6. GoodObject(c)'
  <2>1. /\ Used' = Used /\ given' = given /\ running' = running
        /\ o.mark.pageNo \in Used
        /\ o.curPageNo \in Used \cup {0, -1}
        /\ o.curPage \in Used => o.curPageNo = o.curPage
        /\ c \in given => o.curPage \in Used
    BY <1>1, <1>5, FileKept, Typed DEF GoodObject
  <2>2. o.curPage # Stale
    BY <1>1, Typed, UsedPages, Constants
  <2> HIDE DEF o, n
  <2> QED
    BY <1>1, <1>4, <2>1, <2>2 DEF GoodObject, n
<1>7. "relinked" \notin odd' => GoodScan(c)'
  BY <1>1, <1>4, <1>5, FileKept, Typed DEF GoodScan, Behind
<1>8. given' \in {given \cup {c}, given \ {c}}
  BY <1>5
<1> QED
  BY <1>1, <1>4, <1>5, <1>6, <1>7, <1>8, Typed, CallKeepsIInv

\* One more pin on a data page.
LEMMA PinTyped ==
  ASSUME NEW f \in [Pages -> Nat], NEW p \in DataPages
  PROVE  /\ [f EXCEPT ![p] = @ + 1] \in [Pages -> Nat]
         /\ [f EXCEPT ![p] = @ + 1][Header] = f[Header]
BY Constants

\* What an object that has let go of its page leaves to the pool.
LEMMA LeftTyped ==
  ASSUME IInv, NEW c \in Clients, NEW kind, Has(c, kind)
  PROVE  /\ Left(obj[c]) \in Used \cup {Null} /\ Left(obj[c]) # Header
         /\ Left(obj[c]) = obj[c].curPage
         /\ UnPinned(Left(obj[c])) \in [Pages -> Nat]
         /\ UnPinned(Left(obj[c]))[Header] = pins[Header]
<1>1. /\ obj[c].curPage \in Used \cup {Null}
      /\ obj[c].curPage \in Used => obj[c].curPageNo = obj[c].curPage
  BY HasObject
<1>2. Left(obj[c]) \in Used \cup {Null} /\ Left(obj[c]) = obj[c].curPage
  BY <1>1 DEF Left
<1>3. Left(obj[c]) # Header
  BY <1>2, Typed, UsedPages, Constants
<1> QED
  BY <1>2, <1>3, Typed, UnPinnedTyped

LEMMA ResetAwayKeepsIInv ==
  ASSUME IInv, NEW c \in Clients, ResetAway(c)
  PROVE  IInv'
<1> DEFINE o == obj[c]
           n == obj'[c]
           p == o.mark.pageNo
           left == UnPinned(Left(o))
<1>1. /\ o \in Objects /\ o # Nil /\ o.kind = "scan" /\ running = Nil
      /\ Has(c, "scan")
      /\ o.curPage \in Used \cup {Null} /\ o.mark # Nil
      /\ GoodObject(c) /\ ("relinked" \notin odd => GoodScan(c))
      /\ due[c] \subseteq Wanted /\ dueMark[c] \subseteq Wanted
      /\ due \in [Clients -> SUBSET Wanted]
  BY HasObject, Typed DEF ResetAway, Calls
<1>2. p \in Used /\ p \in DataPages /\ o.mark.rec \in SlotNos
  BY <1>1, Typed, UsedPages DEF Objects, GoodObject
<1>3. left \in [Pages -> Nat] /\ left[Header] = pins[Header]
  BY <1>1, LeftTyped
<1>4. /\ UNCHANGED content /\ UNCHANGED <<running, dueMark>>
      /\ odd \subseteq odd' /\ ("relinked" \notin odd' => "relinked" \notin odd)
      /\ changed' \subseteq Pages
  BY Typed, OddGrows DEF ResetAway, Saved
<1>5. CASE /\ pins' = [left EXCEPT ![p] = @ + 1]
           /\ obj' = [obj EXCEPT ![c].curPage = p, ![c].curPageNo = p,
                        ![c].curRec = MarkedRec(o), ![c].curDirty = FALSE,
                        ![c].told = "nothing"]
           /\ given' = given \cup {c}
           /\ due' = [due EXCEPT ![c] = dueMark[c]]
  <2>1. n = [o EXCEPT !.curPage = p, !.curPageNo = p, !.curRec = o.mark.rec,
                      !.curDirty = FALSE, !.told = "nothing"]
    BY <1>5, Typed DEF MarkedRec
  <2>2. /\ n \in Objects /\ n.kind = "scan"
        /\ n.curPage = p /\ n.curPageNo = p
        /\ n.curRec = o.mark.rec /\ n.told = "nothing" /\ n.mark = o.mark
    BY <1>1, <1>2, <2>1 DEF Objects
  <2>3. pins' \in [Pages -> Nat] /\ pins'[Header] = pins[Header]
    <3> HIDE DEF left
    <3> QED
      BY <1>2, <1>3, <1>5, PinTyped
  <2>4. /\ obj' = [obj EXCEPT ![c] = n]
        /\ due'[c] = dueMark[c] /\ due' = [due EXCEPT ![c] = due'[c]]
    BY <1>1, <1>5, Typed
  <2>5. GoodObject(c)'
    BY <1>2, <1>4, <2>2, FileKept, Typed, UsedPages, Constants DEF GoodObject
  <2>6. "relinked" \notin odd' => GoodScan(c)'
    BY <1>1, <1>4, <2>2, <2>4, FileKept, Typed DEF GoodScan, Behind
  <2> HIDE DEF n
  <2> QED
    BY <1>1, <1>4, <1>5, <2>2, <2>3, <2>4, <2>5, <2>6, Typed, CallKeepsIInv
<1>6. CASE /\ pins' = left
           /\ obj' = [obj EXCEPT
                        ![c].curPage = IF @ = Null THEN Null ELSE Stale,
                        ![c].curPageNo = p, ![c].curRec = MarkedRec(o),
                        ![c].told = "broken"]
           /\ given' = given \ {c}
           /\ UNCHANGED due
  <2>1. n = [o EXCEPT !.curPage = IF @ = Null THEN Null ELSE Stale,
                      !.curPageNo = p, !.curRec = o.mark.rec,
                      !.told = "broken"]
    BY <1>6, Typed DEF MarkedRec
  <2>2. /\ n \in Objects /\ n.kind = "scan"
        /\ n.curPage \in {Null, Stale} /\ n.curPageNo = p
        /\ n.told = "broken" /\ n.mark = o.mark
    BY <1>1, <1>2, <2>1 DEF Objects
  <2>4. obj' = [obj EXCEPT ![c] = n]
    BY <1>6, Typed
  <2>5. GoodObject(c)'
    BY <1>2, <1>4, <1>6, <2>2, FileKept, Typed, UsedPages DEF GoodObject
  <2>6. "relinked" \notin odd' => GoodScan(c)'
    BY <1>1, <1>4, <1>6, <2>2, FileKept, Typed DEF GoodScan, Behind
  <2> HIDE DEF n
  <2> QED
    BY <1>1, <1>3, <1>4, <1>6, <2>2, <2>4, <2>5, <2>6, Typed, CallKeepsIInv
<1> QED
  BY <1>5, <1>6 DEF ResetAway

-----------------------------------------------------------------------------
LEMMA ScanReadsKeepsIInv ==
  ASSUME IInv, NEW c \in Clients, ScanReads(c)
  PROVE  IInv'
<1> DEFINE o == obj[c]
           n == obj'[c]
           p == o.curPageNo
<1>1. /\ o \in Objects /\ o # Nil /\ o.kind = "scan" /\ running \in {Nil, c}
      /\ o.told # "broken" /\ o.curPage = Null
      /\ p \in Used \cup {0, -1}
      /\ GoodObject(c) /\ ("relinked" \notin odd => GoodScan(c))
      /\ due \in [Clients -> SUBSET Wanted]
      /\ dueMark \in [Clients -> SUBSET Wanted]
  BY HasObject, Typed DEF ScanReads, Scanning
<1>2. /\ UNCHANGED <<changed, due, dueMark, odd>> /\ UNCHANGED content
  BY DEF ScanReads, dues
<1>3. CASE /\ p \in DataPages
           /\ obj' = [obj EXCEPT ![c].curPage = p]
           /\ pins' = [pins EXCEPT ![p] = @ + 1]
           /\ given' = given \cup {c}
           /\ running' = c
  <2>1. p \in Used
    BY <1>1, <1>3, Constants
  <2>2. n = [o EXCEPT !.curPage = p] /\ obj' = [obj EXCEPT ![c] = n]
    BY <1>3, Typed
  <2>3. /\ n \in Objects /\ n.kind = "scan" /\ n.curPage = p
        /\ n.curPageNo = p /\ n.curRec = o.curRec /\ n.told = o.told
        /\ n.mark = o.mark
    BY <1>1, <1>3, <2>2 DEF Objects
  <2>4. pins' \in [Pages -> Nat] /\ pins'[Header] = pins[Header]
    BY <1>3, PinTyped, Typed
  <2>5. GoodObject(c)'
    BY <1>1, <1>2, <1>3, <2>1, <2>3, FileKept, Typed, UsedPages DEF GoodObject
  <2>6. "relinked" \notin odd' => GoodScan(c)'
    BY <1>1, <1>2, <2>3, FileKept, Typed DEF GoodScan, Behind
  <2> HIDE DEF n
  <2> QED
    BY <1>1, <1>2, <1>3, <2>2, <2>3, <2>4, <2>5, <2>6, Typed, CallKeepsIInv
<1>4. CASE /\ obj' = [obj EXCEPT ![c].told = "failed"]
           /\ running' = Nil
           /\ UNCHANGED <<pins, given>>
  <2>2. n = [o EXCEPT !.told = "failed"] /\ obj' = [obj EXCEPT ![c] = n]
    BY <1>4, Typed
  <2>3. /\ n \in Objects /\ n.kind = "scan" /\ n.curPage = Null
        /\ n.curPageNo = p /\ n.curRec = o.curRec /\ n.told = "failed"
        /\ n.mark = o.mark
    BY <1>1, <2>2 DEF Objects
  <2>5. GoodObject(c)'
    BY <1>1, <1>2, <1>4, <2>3, FileKept, Typed, Constants DEF GoodObject
  <2>6. "relinked" \notin odd' => GoodScan(c)'
    BY <1>1, <1>2, <2>3, FileKept, Typed DEF GoodScan, Behind
  <2>7. given' \in {given \cup {c}, given \ {c}}
    BY <1>4
  <2> HIDE DEF n
  <2> QED
    BY <1>1, <1>2, <1>4, <2>2, <2>3, <2>5, <2>6, <2>7, Typed, CallKeepsIInv
<1> QED
  BY <1>3, <1>4 DEF ScanReads

\* A scan on a page.
LEMMA ScanOnPage ==
  ASSUME IInv, NEW c \in Clients, OnPage(c)
  PROVE  /\ obj[c] \in Objects /\ obj[c] # Nil /\ obj[c].kind = "scan"
         /\ Has(c, "scan") /\ running \in {Nil, c}
         /\ obj[c].told # "broken"
         /\ obj[c].curPage \in Used /\ obj[c].curPageNo = obj[c].curPage
         /\ obj[c].curPage \in Nat /\ obj[c].curPage \in DataPages
         /\ obj[c].curRec \in SlotNos /\ obj[c].curRec \in Int
         /\ GoodObject(c) /\ ("relinked" \notin odd => GoodScan(c))
         /\ due \in [Clients -> SUBSET Wanted]
         /\ dueMark \in [Clients -> SUBSET Wanted]
         /\ Ahead(c) \subseteq Slots
<1>1. /\ obj[c] \in Objects /\ obj[c] # Nil /\ obj[c].kind = "scan"
      /\ Has(c, "scan") /\ running \in {Nil, c}
      /\ obj[c].told # "broken"
      /\ obj[c].curPage \in Used /\ obj[c].curPageNo = obj[c].curPage
      /\ GoodObject(c) /\ ("relinked" \notin odd => GoodScan(c))
  BY HasObject DEF OnPage, Scanning
<1>2. obj[c].curRec \in SlotNos /\ obj[c].curRec \in Int
  BY <1>1, Constants DEF Objects, SlotNos
<1>3. Ahead(c) \subseteq Slots
  BY <1>1, Typed, UsedPage DEF Ahead
<1> QED
  BY <1>1, <1>2, <1>3, Typed, UsedPages

\* What a scan on a page has yet to find on it lies ahead and passes.
LEMMA DueIsAhead ==
  ASSUME IInv, "relinked" \notin odd, NEW c \in Clients, OnPage(c),
         NEW r \in due[c]
  PROVE  /\ r[1] \in Nat /\ r[2] \in Nat /\ r = <<r[1], r[2]>> /\ r \in Wanted
         /\ r[1] \in Used
         /\ \/ r[1] > obj[c].curPage
            \/ r[1] = obj[c].curPage /\ r[2] \in Ahead(c) /\ Passes(c, r[2])
<1>1. /\ obj[c].curPage \in Used /\ obj[c].curPageNo = obj[c].curPage
      /\ obj[c] # Nil /\ obj[c].kind = "scan" /\ obj[c].told # "broken"
      /\ GoodScan(c) /\ r \in Wanted
  BY ScanOnPage
<1>2. Behind(r, obj[c].curPage, obj[c].curRec)
  BY <1>1 DEF GoodScan
<1>3. /\ r[1] \in Nat /\ r[2] \in Nat /\ r = <<r[1], r[2]>>
      /\ r[1] \in Used /\ r[2] \in LiveOn(r[1])
      /\ file[r[1]].slot[r[2]] = "hit"
  BY <1>1, Typed, WantedRecord
<1> QED
  BY <1>1, <1>2, <1>3 DEF Behind, Ahead, Passes

LEMMA ScanFindsKeepsIInv ==
  ASSUME IInv, NEW c \in Clients, NEW s, ScanFinds(c, s)
  PROVE  IInv'
<1> DEFINE o == obj[c]
           n == obj'[c]
           p == o.curPage
<1>1. /\ o \in Objects /\ o # Nil /\ o.kind = "scan" /\ running \in {Nil, c}
      /\ p \in Used /\ o.curPageNo = p
      /\ GoodObject(c) /\ ("relinked" \notin odd => GoodScan(c))
      /\ due \in [Clients -> SUBSET Wanted]
      /\ dueMark \in [Clients -> SUBSET Wanted]
      /\ s \in Ahead(c) /\ s \in Slots /\ s \in Nat
  BY ScanOnPage, Constants DEF ScanFinds
<1>2. /\ n = [o EXCEPT !.curRec = s, !.told = "record"]
      /\ obj' = [obj EXCEPT ![c] = n]
  BY Typed DEF ScanFinds
<1>3. /\ n \in Objects /\ n.kind = "scan" /\ n.curPage = p /\ n.curPageNo = p
      /\ n.curRec = s /\ n.told = "record" /\ n.mark = o.mark
  BY <1>1, <1>2 DEF Objects, SlotNos
<1>4. /\ UNCHANGED content /\ running' = Nil
      /\ UNCHANGED <<pins, changed, dueMark, given, odd>>
      /\ due' = [due EXCEPT ![c] = @ \ {<<p, s>>}]
  BY DEF ScanFinds
<1>5. /\ due'[c] = due[c] \ {<<p, s>>} /\ due' = [due EXCEPT ![c] = due'[c]]
      /\ due'[c] \subseteq Wanted
  BY <1>1, <1>4
<1>6. GoodObject(c)'
  BY <1>1, <1>3, <1>4, FileKept, Typed, UsedPages DEF GoodObject
<1>7. ASSUME "relinked" \notin odd, NEW r \in due'[c]
      PROVE  Behind(r, p, s)
  <2>1. r \in due[c] /\ r # <<p, s>>
    BY <1>5
  <2>2. /\ r[1] \in Nat /\ r[2] \in Nat /\ r = <<r[1], r[2]>>
        /\ \/ r[1] > p
           \/ r[1] = p /\ r[2] \in Ahead(c) /\ Passes(c, r[2])
    BY <1>7, <2>1, DueIsAhead DEF ScanFinds
  <2>3. CASE r[1] = p /\ r[2] \in Ahead(c) /\ Passes(c, r[2])
    <3>1. ~(r[2] < s)
      BY <2>3 DEF ScanFinds
    <3>2. r[2] # s
      BY <2>1, <2>2, <2>3
    <3> QED
      BY <1>1, <2>2, <2>3, <3>1, <3>2 DEF Behind
  <2> QED
    BY <2>2, <2>3 DEF Behind
<1>8. "relinked" \notin odd' => GoodScan(c)'
  <2> HIDE DEF n, o, p
  <2>1. n.mark = o.mark /\ dueMark' = dueMark /\ odd' = odd
    BY <1>3, <1>4
  <2>2. "relinked" \notin odd =>
          (n.mark # Nil => \A r \in dueMark[c] : Behind(r, n.mark.pageNo, n.mark.rec))
    BY <1>1, <2>1 DEF GoodScan, o
  <2>3. "relinked" \notin odd => \A r \in due'[c] : Behind(r, n.curPageNo, n.curRec)
    BY <1>3, <1>7
  <2>4. n.told # "eof"
    BY <1>3
  <2> QED
    BY <2>1, <2>2, <2>3, <2>4 DEF GoodScan, Behind, n
<1>9. given' \in {given \cup {c}, given \ {c}}
  BY <1>4
<1> HIDE DEF n
<1> QED
  BY <1>1, <1>2, <1>3, <1>4, <1>5, <1>6, <1>8, <1>9, Typed, CallKeepsIInv

\* When no record of the page passes, all that is due lies on later pages.
LEMMA PageDoneFacts ==
  ASSUME IInv, NEW c \in Clients, NEW s, PageDone(c, s)
  PROVE  /\ s \in SlotNos
         /\ "relinked" \notin odd =>
              \A r \in due[c] : /\ r[1] > obj[c].curPage /\ r[1] \in Used
                                /\ r[1] \in Nat /\ r[2] \in Nat
<1>1. OnPage(c) /\ \A t \in Ahead(c) : ~Passes(c, t)
  BY DEF PageDone
<1>2. s \in SlotNos
  BY <1>1, ScanOnPage DEF PageDone, SlotNos
<1>3. ASSUME "relinked" \notin odd, NEW r \in due[c]
      PROVE  /\ r[1] > obj[c].curPage /\ r[1] \in Used
             /\ r[1] \in Nat /\ r[2] \in Nat
  BY <1>1, <1>3, DueIsAhead
<1> QED
  BY <1>2, <1>3

LEMMA ScanEndsKeepsIInv ==
  ASSUME IInv, NEW c \in Clients, NEW s, ScanEnds(c, s)
  PROVE  IInv'
<1> DEFINE o == obj[c]
           n == obj'[c]
           p == o.curPage
<1>1. /\ o \in Objects /\ o # Nil /\ o.kind = "scan" /\ running \in {Nil, c}
      /\ p \in Used /\ o.curPageNo = p /\ p # Header
      /\ GoodObject(c) /\ ("relinked" \notin odd => GoodScan(c))
      /\ due \in [Clients -> SUBSET Wanted]
      /\ dueMark \in [Clients -> SUBSET Wanted]
      /\ s \in SlotNos
  BY ScanOnPage, PageDoneFacts, Typed, UsedPages DEF ScanEnds, PageDone
<1>2. /\ n = [o EXCEPT !.curRec = s, !.told = "eof"]
      /\ obj' = [obj EXCEPT ![c] = n]
  BY Typed DEF ScanEnds
<1>3. /\ n \in Objects /\ n.kind = "scan" /\ n.curPage = p /\ n.curPageNo = p
      /\ n.curRec = s /\ n.told = "eof" /\ n.mark = o.mark
  BY <1>1, <1>2 DEF Objects
<1>4. /\ UNCHANGED content /\ running' = Nil
      /\ UNCHANGED <<due, dueMark>>
  BY DEF ScanEnds, dues
<1>5. /\ pins' \in [Pages -> Nat] /\ pins'[Header] = pins[Header]
      /\ changed' \subseteq Pages /\ given' = given \ {c} /\ odd \subseteq odd'
      /\ "relinked" \notin odd' => "relinked" \notin odd
  BY <1>1, LetsTyped DEF ScanEnds
<1>6. GoodObject(c)'
  BY <1>1, <1>3, <1>4, <1>5, FileKept, Typed, UsedPages DEF GoodObject
<1>7. ASSUME "relinked" \notin odd PROVE due[c] = {}
  <2>1. \A q \in Used : q <= p
    BY <1>1, <1>7, Typed DEF InOrder, ScanEnds
  <2>2. \A r \in due[c] : r[1] > p /\ r[1] \in Used /\ r[1] \in Nat
    BY <1>7, PageDoneFacts DEF ScanEnds
  <2>3. p \in Nat
    BY <1>1, Typed, UsedPages
  <2>4. ASSUME NEW r \in due[c] PROVE FALSE
    <3>1. r[1] <= p /\ r[1] > p /\ r[1] \in Nat
      BY <2>1, <2>2
    <3> QED
      BY <2>3, <3>1
  <2> QED
    BY <2>4
<1>8. "relinked" \notin odd' => GoodScan(c)'
  <2> HIDE DEF n, o, p
  <2>1. n.mark = o.mark /\ dueMark' = dueMark /\ due' = due
    BY <1>3, <1>4
  <2>2. "relinked" \notin odd =>
          (n.mark # Nil => \A r \in dueMark[c] : Behind(r, n.mark.pageNo, n.mark.rec))
    BY <1>1, <2>1 DEF GoodScan, o
  <2> QED
    BY <1>5, <1>7, <2>1, <2>2 DEF GoodScan, Behind, n
<1> HIDE DEF n
<1> QED
  BY <1>1, <1>2, <1>3, <1>4, <1>5, <1>6, <1>8, Typed, CallKeepsIInv

LEMMA ScanTurnsKeepsIInv ==
  ASSUME IInv, NEW c \in Clients, NEW s, ScanTurns(c, s)
  PROVE  IInv'
<1> DEFINE o == obj[c]
           n == obj'[c]
           p == o.curPage
           q == file[p].next
<1>1. /\ o \in Objects /\ o # Nil /\ o.kind = "scan" /\ running \in {Nil, c}
      /\ p \in Used /\ o.curPageNo = p /\ p # Header
      /\ GoodObject(c) /\ ("relinked" \notin odd => GoodScan(c))
      /\ due \in [Clients -> SUBSET Wanted]
      /\ dueMark \in [Clients -> SUBSET Wanted]
  BY ScanOnPage, Typed, UsedPages DEF ScanTurns, PageDone
<1>2. q \in Used /\ q # -1 /\ q \in DataPages /\ q \in Nat
  BY <1>1, Typed, UsedPages DEF ScanTurns, NextPage, ChainSound
<1>3. /\ n = [o EXCEPT !.curPage = Null, !.curPageNo = q, !.curRec = NoSlot]
      /\ obj' = [obj EXCEPT ![c] = n]
  BY Typed DEF ScanTurns, FirstOnNextPage, NextPage
<1>4. /\ n \in Objects /\ n.kind = "scan" /\ n.curPage = Null
      /\ n.curPageNo = q /\ n.curRec = -1 /\ n.told = o.told
      /\ n.mark = o.mark
  BY <1>1, <1>2, <1>3, Constants DEF Objects, SlotNos
<1>5. /\ UNCHANGED content /\ running' = c
      /\ UNCHANGED <<due, dueMark>>
  BY DEF ScanTurns, dues
<1>6. /\ pins' \in [Pages -> Nat] /\ pins'[Header] = pins[Header]
      /\ changed' \subseteq Pages /\ given' = given \ {c} /\ odd \subseteq odd'
      /\ "relinked" \notin odd' => "relinked" \notin odd
  BY <1>1, LetsTyped DEF ScanTurns
<1>7. GoodObject(c)'
  <2> HIDE DEF n, q, p
  <2>1. /\ Used' = Used /\ q \in Used' /\ Null \notin Used' /\ Null # Stale
    BY <1>2, <1>5, FileKept, Typed, Constants
  <2>2. /\ o.mark # Nil => o.mark.pageNo \in Used
        /\ o.told = "record" => o.kind = "scan"
    BY <1>1 DEF GoodObject
  <2> QED
    BY <1>1, <1>4, <1>5, <1>6, <2>1, <2>2 DEF GoodObject, n
<1>8. ASSUME "relinked" \notin odd, NEW r \in due[c]
      PROVE  Behind(r, q, -1)
  <2>1. r[1] > p /\ r[1] \in Used /\ r[1] \in Nat /\ r[2] \in Nat
    BY <1>8, PageDoneFacts DEF ScanTurns
  <2>2. \A u \in Used : u <= p \/ q <= u
    BY <1>1, <1>2, <1>8, Typed DEF InOrder
  <2>3. p \in Nat
    BY <1>1, Typed, UsedPages
  <2>4. r[1] <= p \/ q <= r[1]
    BY <2>1, <2>2
  <2> HIDE DEF p, q
  <2> QED
    BY <1>2, <2>1, <2>3, <2>4 DEF Behind
<1>9. "relinked" \notin odd' => GoodScan(c)'
  <2> HIDE DEF n, o, p, q
  <2>1. n.mark = o.mark /\ dueMark' = dueMark /\ due' = due
    BY <1>4, <1>5
  <2>2. "relinked" \notin odd =>
          /\ n.mark # Nil => \A r \in dueMark[c] : Behind(r, n.mark.pageNo, n.mark.rec)
          /\ n.told = "eof" => due[c] = {}
    BY <1>1, <1>4, <2>1 DEF GoodScan, o
  <2> QED
    BY <1>4, <1>6, <1>8, <2>1, <2>2 DEF GoodScan, Behind, n
<1> HIDE DEF n
<1> QED
  BY <1>1, <1>3, <1>4, <1>5, <1>6, <1>7, <1>9, Typed, CallKeepsIInv

-----------------------------------------------------------------------------
\* A reader that goes to page p from another.
LEMMA GetsPageFacts ==
  ASSUME IInv, NEW c \in Clients, NEW p, GetsPage(c, p)
  PROVE  /\ obj[c] \in Objects /\ obj[c] # Nil /\ obj[c].kind = "reader"
         /\ running = Nil /\ obj[c].told # "broken" /\ obj[c].told # "record"
         /\ GoodObject(c) /\ ("relinked" \notin odd => GoodScan(c))
         /\ UnPinned(Left(obj[c])) \in [Pages -> Nat]
         /\ UnPinned(Left(obj[c]))[Header] = pins[Header]
         /\ changed' \subseteq Pages
         /\ odd \subseteq odd' /\ ("relinked" \notin odd' => "relinked" \notin odd)
         /\ due \in [Clients -> SUBSET Wanted]
         /\ dueMark \in [Clients -> SUBSET Wanted]
<1>1. Has(c, "reader") /\ running = Nil
  BY DEF GetsPage, Calls
<1>2. /\ obj[c] \in Objects /\ obj[c] # Nil /\ obj[c].kind = "reader"
      /\ obj[c].told # "broken"
      /\ GoodObject(c) /\ ("relinked" \notin odd => GoodScan(c))
  BY <1>1, HasObject
<1>3. obj[c].told # "record"
  BY <1>2 DEF GoodObject
<1>4. changed' \subseteq Pages
  BY Typed DEF GetsPage, Saved
<1>5. odd \subseteq odd' /\ ("relinked" \notin odd' => "relinked" \notin odd)
  BY OddGrows DEF GetsPage
<1> QED
  BY <1>1, <1>2, <1>3, <1>4, <1>5, LeftTyped, Typed

\* A reader keeps the invariant wherever it goes.
LEMMA ReaderKeepsIInv ==
  ASSUME IInv, NEW c \in Clients, obj[c] # Nil, obj[c].kind = "reader",
         obj[c].told # "broken", obj[c].told # "record", running = Nil,
         obj' = [obj EXCEPT ![c] = obj'[c]], obj'[c] \in Objects,
         obj'[c].kind = "reader", obj'[c].told = obj[c].told,
         obj'[c].mark = obj[c].mark,
         obj'[c].curPage \in Used \cup {Null},
         obj'[c].curPage \in Used => obj'[c].curPageNo = obj'[c].curPage,
         obj'[c].curPageNo \in Used \cup {0, -1},
         given' \in {given \cup {c}, given \ {c}},
         c \in given' => obj'[c].curPage \in Used,
         pins' \in [Pages -> Nat], pins'[Header] = pins[Header],
         changed' \subseteq Pages, odd \subseteq odd',
         UNCHANGED content, UNCHANGED <<running, due, dueMark>>
  PROVE  IInv'
<1>1. /\ GoodObject(c) /\ ("relinked" \notin odd => GoodScan(c))
      /\ due \in [Clients -> SUBSET Wanted]
      /\ dueMark \in [Clients -> SUBSET Wanted]
  BY DEF IInv, TypeOK
<1>2. GoodObject(c)'
  BY <1>1, FileKept, Typed, UsedPages, Constants DEF GoodObject
<1>3. "relinked" \notin odd' => GoodScan(c)'
  BY <1>1, FileKept, Typed DEF GoodScan, Behind
<1> QED
  BY <1>1, <1>2, <1>3, CallKeepsIInv

LEMMA GetThereKeepsIInv ==
  ASSUME IInv, NEW c \in Clients, NEW p \in Used, NEW s, GetThere(c, p, s)
  PROVE  IInv'
<1> DEFINE o == obj[c]
           n == obj'[c]
           left == UnPinned(Left(o))
<1>1. /\ o \in Objects /\ o # Nil /\ o.kind = "reader" /\ running = Nil
      /\ o.told # "broken" /\ o.told # "record"
      /\ left \in [Pages -> Nat] /\ left[Header] = pins[Header]
      /\ changed' \subseteq Pages /\ odd \subseteq odd'
  BY GetsPageFacts DEF GetThere
<1>2. p \in DataPages
  BY Typed, UsedPages
<1>3. /\ n = [o EXCEPT !.curPage = p, !.curPageNo = p, !.curDirty = FALSE]
      /\ obj' = [obj EXCEPT ![c] = n]
  BY Typed DEF GetThere
<1>4. /\ n \in Objects /\ n.kind = "reader" /\ n.curPage = p /\ n.curPageNo = p
      /\ n.told = o.told /\ n.mark = o.mark
  BY <1>1, <1>2, <1>3 DEF Objects
<1>5. UNCHANGED content /\ UNCHANGED <<running, due, dueMark>>
  BY DEF GetThere, dues
<1>6. /\ pins' \in [Pages -> Nat] /\ pins'[Header] = pins[Header]
      /\ given' \in {given \cup {c}, given \ {c}}
  <2> HIDE DEF left
  <2>1. CASE s \in LiveOn(p)
    <3>1. pins' = [left EXCEPT ![p] = @ + 1] /\ given' = given \cup {c}
      BY <2>1 DEF GetThere, left
    <3> QED
      BY <1>1, <1>2, <3>1, PinTyped
  <2>2. CASE s \notin LiveOn(p)
    <3>1. pins' = left /\ given' = given \ {c}
      BY <2>2 DEF GetThere, left
    <3> QED
      BY <1>1, <3>1
  <2> QED
    BY <2>1, <2>2
<1> HIDE DEF n, o
<1> QED
  BY <1>1, <1>3, <1>4, <1>5, <1>6, ReaderKeepsIInv DEF n, o

LEMMA GetFailsKeepsIInv ==
  ASSUME IInv, NEW c \in Clients, NEW p \in Used, GetFails(c, p)
  PROVE  IInv'
<1> DEFINE o == obj[c]
           n == obj'[c]
           left == UnPinned(Left(o))
<1>1. /\ o \in Objects /\ o # Nil /\ o.kind = "reader" /\ running = Nil
      /\ o.told # "broken" /\ o.told # "record"
      /\ left \in [Pages -> Nat] /\ left[Header] = pins[Header]
      /\ changed' \subseteq Pages /\ odd \subseteq odd'
  BY GetsPageFacts DEF GetFails
<1>3. /\ n = [o EXCEPT !.curPage = Null, !.curPageNo = -1, !.curDirty = FALSE]
      /\ obj' = [obj EXCEPT ![c] = n]
  BY Typed DEF GetFails
<1>4. /\ n \in Objects /\ n.kind = "reader" /\ n.curPage = Null
      /\ n.curPageNo = -1 /\ n.told = o.told /\ n.mark = o.mark
  BY <1>1, <1>3 DEF Objects
<1>5. /\ UNCHANGED content /\ UNCHANGED <<running, due, dueMark>>
      /\ pins' = left /\ given' = given \ {c}
  BY DEF GetFails, dues
<1>6. Null \notin Used
  BY Typed, UsedPages
<1> HIDE DEF n, o, left
<1> QED
  BY <1>1, <1>3, <1>4, <1>5, <1>6, ReaderKeepsIInv DEF n, o

LEMMA GetHereKeepsIInv ==
  ASSUME IInv, NEW c \in Clients, NEW p \in Used, NEW s, GetHere(c, p, s)
  PROVE  IInv'
<1>1. /\ obj[c] \in Objects /\ obj[c] # Nil /\ obj[c].kind = "reader"
      /\ obj[c].told # "broken" /\ running = Nil /\ GoodObject(c)
      /\ obj[c].curPage = p /\ obj[c].curPageNo = p
  BY HasObject DEF GetHere, Calls
<1>2. obj[c].told # "record"
  BY <1>1 DEF GoodObject
<1>3. p # Header
  BY Typed, UsedPages
<1>4. /\ pins' \in [Pages -> Nat] /\ pins'[Header] = pins[Header]
      /\ changed' \subseteq Pages /\ given' = given \ {c} /\ odd \subseteq odd'
  BY <1>3, LetsTyped DEF GetHere
<1>5. /\ UNCHANGED content /\ UNCHANGED <<running, due, dueMark>>
      /\ obj' = obj
  BY DEF GetHere, dues
<1> QED
  BY <1>1, <1>2, <1>4, <1>5, Typed, ReaderKeepsIInv

-----------------------------------------------------------------------------
\* What a constructor makes.
LEMMA ObjectFields ==
  ASSUME NEW kind \in {"scan", "insert", "reader"}, NEW p \in DataPages, NEW m,
         m = [kind |-> kind, curPage |-> p, curPageNo |-> p, curRec |-> NoSlot,
              curDirty |-> FALSE, hdrDirty |-> FALSE, mark |-> Nil,
              told |-> "nothing"]
  PROVE  /\ m \in Objects /\ m.kind = kind /\ m.curPage = p /\ m.curPageNo = p
         /\ m.curRec = -1 /\ m.mark = Nil /\ m.told = "nothing"
BY Constants DEF Objects, SlotNos

LEMMA AllBehindStart ==
  ASSUME TypeOK
  PROVE  \A r \in Wanted : Behind(r, 2, -1)
<1>1. ASSUME NEW r \in Wanted PROVE Behind(r, 2, -1)
  <2>1. r[1] \in Used /\ r[1] \in Nat /\ r[2] \in Nat
    BY WantedRecord
  <2>2. r[1] >= 2
    BY <2>1, UsedPages
  <2> QED
    BY <2>1, <2>2 DEF Behind
<1> QED
  BY <1>1

LEMMA OpenKeepsIInv ==
  ASSUME IInv, NEW c \in Clients, NEW kind \in Uses[c], Open(c, kind)
  PROVE  IInv'
<1> DEFINE n == obj'[c]
<1>1. /\ obj[c] = Nil /\ running = Nil /\ hdr.firstPage = 2 /\ 2 \in Used
      /\ 2 \in DataPages /\ 2 # Header
      /\ kind \in {"scan", "insert", "reader"}
  BY ConstantsAssumption, Constants, Typed, UsedPages DEF Open, ChainSound
<1>2. /\ n = [kind |-> kind, curPage |-> 2, curPageNo |-> 2, curRec |-> NoSlot,
              curDirty |-> FALSE, hdrDirty |-> FALSE, mark |-> Nil,
              told |-> "nothing"]
      /\ obj' = [obj EXCEPT ![c] = n]
  BY <1>1, Typed DEF Open
<1> HIDE DEF n
<1>3. /\ n \in Objects /\ n.kind = kind /\ n.curPage = 2 /\ n.curPageNo = 2
      /\ n.curRec = -1 /\ n.mark = Nil /\ n.told = "nothing"
  BY <1>1, <1>2, ObjectFields
<1>4. /\ UNCHANGED content /\ UNCHANGED <<running, changed, dueMark, odd>>
      /\ given' = given \cup {c}
      /\ due' = [due EXCEPT ![c] = IF kind = "scan" THEN Wanted ELSE {}]
      /\ pins' = [pins EXCEPT ![Header] = @ + 1, ![2] = @ + 1]
  BY <1>1 DEF Open
<1>5. /\ due'[c] = (IF kind = "scan" THEN Wanted ELSE {})
      /\ due'[c] \subseteq Wanted /\ due' = [due EXCEPT ![c] = due'[c]]
      /\ dueMark' = [dueMark EXCEPT ![c] = dueMark'[c]]
      /\ dueMark'[c] \subseteq Wanted
  BY <1>4, Typed
<1>6. n # Nil
  BY <1>3, NilIsNothing
<1>7. pins' \in [Pages -> Nat] /\ HeaderPinned'
  <2>1. OpenObjects' = OpenObjects \cup {c} /\ c \notin OpenObjects
    BY <1>1, <1>2, <1>6, Typed DEF OpenObjects
  <2>2. IsFiniteSet(OpenObjects)
    BY ConstantsAssumption, FS_Subset DEF OpenObjects
  <2>3. Cardinality(OpenObjects \cup {c}) = Cardinality(OpenObjects) + 1
    BY <2>1, <2>2, FS_AddElement
  <2>4. pins' \in [Pages -> Nat] /\ pins'[Header] = pins[Header] + 1
    BY <1>1, <1>4, Typed, Constants
  <2> QED
    BY <2>1, <2>3, <2>4, Typed DEF HeaderPinned
<1>8. GoodObject(c)'
  BY <1>1, <1>3, <1>4, FileKept, Typed, UsedPages DEF GoodObject, n
<1>9. GoodScan(c)'
  <2>1. \A r \in due'[c] : Behind(r, 2, -1)
    BY <1>5, Typed, AllBehindStart
  <2> QED
    BY <1>3, <2>1 DEF GoodScan, Behind, n
<1> QED
  BY <1>1, <1>2, <1>3, <1>4, <1>5, <1>6, <1>7, <1>8, <1>9, Typed,
     OwnStepKeepsIInv DEF n

LEMMA CloseKeepsIInv ==
  ASSUME IInv, NEW c \in Clients, Close(c)
  PROVE  IInv'
<1> DEFINE o == obj[c]
           p == IF o.curPage = Null THEN Null ELSE o.curPageNo
<1>1. o # Nil /\ running = Nil /\ o \in Objects /\ GoodObject(c)
  BY Typed DEF Close
<1>2. p # Header
  BY <1>1, Typed, UsedPages, Constants DEF GoodObject
<1>3. UnPinned(p) \in [Pages -> Nat] /\ UnPinned(p)[Header] = pins[Header]
  BY <1>2, Typed, UnPinnedTyped
<1>4. /\ UNCHANGED content /\ UNCHANGED running
      /\ given' = given \ {c}
      /\ obj' = [obj EXCEPT ![c] = Nil] /\ obj'[c] = Nil
      /\ due' = [due EXCEPT ![c] = {}] /\ due'[c] = {}
      /\ dueMark' = [dueMark EXCEPT ![c] = {}] /\ dueMark'[c] = {}
      /\ pins' = [UnPinned(p) EXCEPT ![Header] = @ - 1]
      /\ changed' \subseteq Pages
  BY Typed DEF Close, Saved
<1>5. odd \subseteq odd'
  BY OddGrows DEF Close
<1>6. /\ OpenObjects' = OpenObjects \ {c} /\ c \in OpenObjects
      /\ IsFiniteSet(OpenObjects) /\ Cardinality(OpenObjects) \in Nat
      /\ Cardinality(OpenObjects') = Cardinality(OpenObjects) - 1
      /\ Cardinality(OpenObjects') \in Nat
  <2>1. OpenObjects' = OpenObjects \ {c} /\ c \in OpenObjects
    BY <1>1, <1>4, Typed DEF OpenObjects
  <2>2. IsFiniteSet(OpenObjects)
    BY ConstantsAssumption, FS_Subset DEF OpenObjects
  <2>3. IsFiniteSet(OpenObjects \ {c})
    BY <2>2, FS_Subset
  <2> QED
    BY <2>1, <2>2, <2>3, FS_RemoveElement, FS_CardinalityType
<1>7. pins' \in [Pages -> Nat] /\ HeaderPinned'
  <2> HIDE DEF p
  <2>1. UnPinned(p)[Header] = Cardinality(OpenObjects)
    BY <1>3, Typed DEF HeaderPinned
  <2> QED
    BY <1>3, <1>4, <1>6, <2>1, Constants DEF HeaderPinned
<1>8. GoodObject(c)' /\ GoodScan(c)'
  BY <1>4 DEF GoodObject, GoodScan
<1> QED
  BY <1>1, <1>4, <1>5, <1>7, <1>8, OwnStepKeepsIInv

-----------------------------------------------------------------------------
(***************************************************************************)
(* A step of c that changes the file: no page leaves it, and no record     *)
(* that is still due.                                                      *)
(***************************************************************************)
LEMMA FileStepKeepsIInv ==
  ASSUME IInv, NEW c \in Clients, running = Nil,
         file' \in [DataPages -> DataPageStates \cup {Nil}],
         hdr' \in [firstPage : DataPages, lastPage : DataPages, pageCnt : {2},
                   recCnt : Int],
         hdr'.firstPage = hdr.firstPage,
         Used \subseteq Used',
         \A p \in Used' : file'[p].next \in Used' \cup {-1},
         InOrder',
         obj[c] # Nil,
         obj' = [obj EXCEPT ![c] = obj'[c]], obj'[c] \in Objects,
         pins' \in [Pages -> Nat], pins'[Header] = pins[Header],
         changed' \subseteq Pages,
         due' \in [Clients -> SUBSET Wanted'],
         dueMark' \in [Clients -> SUBSET Wanted'],
         \A d \in Clients : /\ due'[d] \subseteq due[d]
                            /\ dueMark'[d] \subseteq dueMark[d],
         UNCHANGED <<running, given>>, odd \subseteq odd',
         GoodObject(c)',
         "relinked" \notin odd' => GoodScan(c)'
  PROVE  IInv'
<1>1. obj'[c] # Nil
  BY NilIsNothing
<1>2. OpenObjects' = OpenObjects /\ HeaderPinned'
  <2>1. OpenObjects' = OpenObjects
    BY <1>1 DEF OpenObjects, IInv, TypeOK
  <2> QED
    BY <2>1, Typed DEF HeaderPinned
<1>3. TypeOK'
  BY <1>2, Typed DEF TypeOK, OpenObjects
<1>4. ChainSound'
  BY Typed DEF ChainSound
<1>5. \A d \in Clients : GoodObject(d)'
  <2>1. ASSUME NEW d \in Clients, d # c PROVE GoodObject(d)'
    <3>1. obj'[d] = obj[d] /\ GoodObject(d)
      BY <2>1, Typed
    <3>2. Null \notin Used' /\ Stale \notin Used' /\ -1 \notin Used' /\ 0 \notin Used'
      BY <1>3, Constants DEF Used
    <3> QED
      BY <3>1, <3>2, Constants DEF GoodObject
  <2> QED
    BY <2>1
<1>6. ASSUME "relinked" \notin odd' PROVE \A d \in Clients : GoodScan(d)'
  <2>1. ASSUME NEW d \in Clients, d # c PROVE GoodScan(d)'
    <3>1. /\ obj'[d] = obj[d] /\ GoodScan(d) /\ GoodObject(d)
          /\ due'[d] \subseteq due[d] /\ dueMark'[d] \subseteq dueMark[d]
      BY <1>6, <2>1, Typed DEF IInv
    <3>2. 0 \notin Used' /\ -1 \notin Used'
      BY <1>3, Constants DEF Used
    <3> QED
      BY <3>1, <3>2 DEF GoodScan, GoodObject, Behind
  <2> QED
    BY <1>6, <2>1
<1> QED
  BY <1>2, <1>3, <1>4, <1>5, <1>6 DEF IInv

\* One slot of a page gets another content.
LEMMA SlotSet ==
  ASSUME TypeOK, NEW p \in Used, NEW s \in Slots, NEW r \in Records \cup {Free},
         file' = [file EXCEPT ![p].slot[s] = r]
  PROVE  /\ file' \in [DataPages -> DataPageStates \cup {Nil}]
         /\ Used' = Used
         /\ \A u \in Used : file'[u].next = file[u].next
         /\ \A w \in Wanted : w # <<p, s>> => w \in Wanted'
<1> DEFINE g == [file[p] EXCEPT !.slot = [file[p].slot EXCEPT ![s] = r]]
<1>1. /\ p \in DataPages /\ file[p] \in DataPageStates
      /\ file[p].slot \in [Slots -> Records \cup {Free}]
      /\ file \in [DataPages -> DataPageStates \cup {Nil}]
  BY UsedPage DEF TypeOK
<1>2. /\ g \in DataPageStates /\ g.next = file[p].next
      /\ g.slot = [file[p].slot EXCEPT ![s] = r]
  BY <1>1 DEF DataPageStates
<1>3. file' = [file EXCEPT ![p] = g]
  BY <1>1
<1> HIDE DEF g
<1>4. file' \in [DataPages -> DataPageStates \cup {Nil}]
  BY <1>1, <1>2, <1>3
<1>5. file'[p] = g /\ g # Nil /\ \A u \in DataPages : u # p => file'[u] = file[u]
  BY <1>1, <1>2, <1>3, NilIsNothing
<1>6. Used' = Used
  BY <1>5 DEF Used
<1>7. \A u \in Used : file'[u].next = file[u].next
  BY <1>2, <1>5, UsedPage
<1>8. ASSUME NEW w \in Wanted, w # <<p, s>>
      PROVE  w \in Wanted'
  <2>0. PICK u \in Used : \E t \in LiveOn(u) :
          w = <<u, t>> /\ file[u].slot[t] = "hit"
    BY WantedRecords
  <2>1. PICK t \in LiveOn(u) : w = <<u, t>> /\ file[u].slot[t] = "hit"
    BY <2>0
  <2>2. t \in Slots
    BY UsedPage
  <2>3. file'[u].slot[t] = "hit"
    <3>1. CASE u = p
      BY <1>1, <1>2, <1>5, <1>8, <2>1, <2>2, <3>1
    <3>2. CASE u # p
      BY <1>5, <2>1, <3>2, UsedPage
    <3> QED
      BY <3>1, <3>2
  <2>4. t \in LiveOn(u)'
    BY <2>2, <2>3, FreeIsNoRecord DEF LiveOn
  <2> QED
    BY <1>6, <2>1, <2>3, <2>4 DEF Wanted, Rids
<1> QED
  BY <1>4, <1>6, <1>7, <1>8

\* Where no link is set, the pages stay in order.
LEMMA LinksKept ==
  ASSUME IInv, Used' = Used, \A u \in Used : file'[u].next = file[u].next,
         odd \subseteq odd'
  PROVE  /\ \A u \in Used' : file'[u].next \in Used' \cup {-1}
         /\ InOrder'
BY Typed DEF ChainSound, InOrder

\* An object that stays where it is.
LEMMA StaysGood ==
  ASSUME IInv, NEW c \in Clients, obj[c] # Nil, obj'[c] \in Objects,
         obj'[c].kind = obj[c].kind, obj'[c].curPage = obj[c].curPage,
         obj'[c].curPageNo = obj[c].curPageNo, obj'[c].curRec = obj[c].curRec,
         obj'[c].mark = obj[c].mark, obj[c].told # "broken",
         obj'[c].told \in {"nothing", obj[c].told},
         Used \subseteq Used', obj[c].curPageNo \in Used,
         obj[c].curPage \in Used \cup {Null},
         due'[c] \subseteq due[c], dueMark'[c] \subseteq dueMark[c],
         UNCHANGED <<running, given>>, odd \subseteq odd'
  PROVE  GoodObject(c)' /\ ("relinked" \notin odd' => GoodScan(c)')
<1>1. GoodObject(c) /\ ("relinked" \notin odd => GoodScan(c))
  BY DEF IInv
<1>2. 0 \notin Used' /\ -1 \notin Used' /\ 0 # -1
  BY Constants DEF Used
<1>3. GoodObject(c)'
  BY <1>1, <1>2, Constants, NilIsNothing DEF GoodObject
<1>4. "relinked" \notin odd' => GoodScan(c)'
  BY <1>1, NilIsNothing DEF GoodScan, Behind
<1> QED
  BY <1>3, <1>4

LEMMA Undue ==
  ASSUME NEW d \in [Clients -> SUBSET Wanted], NEW w, NEW W,
         \A r \in Wanted : r # w => r \in W
  PROVE  /\ Without(d, w) \in [Clients -> SUBSET W]
         /\ \A c \in Clients : Without(d, w)[c] \subseteq d[c]
BY DEF Without

LEMMA DeleteKeepsIInv ==
  ASSUME IInv, NEW c \in Clients, DeleteRecord(c)
  PROVE  IInv'
<1> DEFINE o == obj[c]
           n == obj'[c]
           p == o.curPage
           s == o.curRec
<1>1. /\ o \in Objects /\ o # Nil /\ o.kind = "scan" /\ running = Nil
      /\ p \in Used /\ p \in Pages /\ o.curPageNo = p /\ o.told = "record"
      /\ o.told # "broken"
  BY HasObject, NilAssumption, Typed, UsedPages
  DEF DeleteRecord, Calls, GoodObject
<1>2. /\ n = [o EXCEPT !.curDirty = TRUE, !.hdrDirty = TRUE, !.told = "nothing"]
      /\ obj' = [obj EXCEPT ![c] = n]
  BY Typed DEF DeleteRecord, Deletes
<1>3. /\ n \in Objects /\ n.kind = "scan" /\ n.curPage = p /\ n.curPageNo = p
      /\ n.curRec = s /\ n.told = "nothing" /\ n.mark = o.mark
  BY <1>1, <1>2 DEF Objects
<1>4. /\ hdr' \in [firstPage : DataPages, lastPage : DataPages, pageCnt : {2},
                   recCnt : Int]
      /\ hdr'.firstPage = hdr.firstPage
      /\ UNCHANGED <<pins, running, given>>
  BY Typed DEF DeleteRecord, TypeOK
<1>5. /\ file' \in [DataPages -> DataPageStates \cup {Nil}]
      /\ Used' = Used
      /\ \A u \in Used : file'[u].next = file[u].next
      /\ changed' \subseteq Pages /\ odd \subseteq odd'
      /\ due' \in [Clients -> SUBSET Wanted']
      /\ dueMark' \in [Clients -> SUBSET Wanted']
      /\ \A d \in Clients : /\ due'[d] \subseteq due[d]
                            /\ dueMark'[d] \subseteq dueMark[d]
  <2>1. CASE s \in LiveOn(p)
    <3>1. /\ file' = [file EXCEPT ![p].slot[s] = Free]
          /\ changed' = changed \cup {p, Header} /\ odd' = odd
          /\ due' = Without(due, <<p, s>>)
          /\ dueMark' = Without(dueMark, <<p, s>>)
      BY <2>1 DEF DeleteRecord
    <3>2. s \in Slots
      BY <1>1, <2>1, Typed, UsedPage
    <3>3. /\ file' \in [DataPages -> DataPageStates \cup {Nil}]
          /\ Used' = Used
          /\ \A u \in Used : file'[u].next = file[u].next
          /\ \A w \in Wanted : w # <<p, s>> => w \in Wanted'
      BY <1>1, <3>1, <3>2, Typed, SlotSet
    <3>4. /\ due' \in [Clients -> SUBSET Wanted']
          /\ dueMark' \in [Clients -> SUBSET Wanted']
          /\ \A d \in Clients : /\ due'[d] \subseteq due[d]
                                /\ dueMark'[d] \subseteq dueMark[d]
      BY <3>1, <3>3, Typed, Undue
    <3> QED
      BY <1>1, <3>1, <3>3, <3>4, Typed, Constants
  <2>2. CASE s \notin LiveOn(p)
    <3>1. /\ file' = file /\ changed' = changed \cup {Header}
          /\ due' = due /\ dueMark' = dueMark
          /\ odd \subseteq odd'
      BY <2>2, OddGrows DEF DeleteRecord, dues
    <3>2. Used' = Used /\ Wanted' = Wanted
      BY <3>1 DEF Used, Wanted, Rids, LiveOn
    <3> QED
      BY <3>1, <3>2, Typed, Constants DEF TypeOK
  <2> QED
    BY <2>1, <2>2
<1>6. /\ \A u \in Used' : file'[u].next \in Used' \cup {-1}
      /\ InOrder'
  BY <1>5, LinksKept
<1> HIDE DEF n, o, p
<1>7. GoodObject(c)' /\ ("relinked" \notin odd' => GoodScan(c)')
  BY <1>1, <1>3, <1>4, <1>5, StaysGood DEF n, o, p
<1> QED
  BY <1>1, <1>2, <1>3, <1>4, <1>5, <1>6, <1>7, Typed, FileStepKeepsIInv
  DEF n, o

LEMMA Inserter ==
  ASSUME IInv, NEW c \in Clients, Calls(c, "insert")
  PROVE  /\ obj[c] \in Objects /\ obj[c] # Nil /\ obj[c].kind = "insert"
         /\ running = Nil /\ c \in given
         /\ obj[c].told # "broken" /\ obj[c].told # "record"
         /\ obj[c].curPage \in Used /\ obj[c].curPage \in Pages
         /\ obj[c].curPage \in DataPages
         /\ obj[c].curPageNo = obj[c].curPage
BY HasObject, Typed, UsedPages DEF Calls, GoodObject

\* The insertion goes into a slot of the page.
LEMMA InsertHereKeepsIInv ==
  ASSUME IInv, NEW c \in Clients, NEW r \in Records, NEW s \in Slots,
         InsertHere(c, r, s)
  PROVE  IInv'
<1> DEFINE o == obj[c]
           n == obj'[c]
           p == o.curPage
<1>1. /\ o \in Objects /\ o # Nil /\ running = Nil
      /\ p \in Used /\ p \in Pages /\ o.curPageNo = p
      /\ o.told # "broken"
  BY Inserter DEF InsertHere
<1>2. /\ n = [o EXCEPT !.curDirty = TRUE, !.hdrDirty = TRUE]
      /\ obj' = [obj EXCEPT ![c] = n]
  BY Typed DEF InsertHere
<1>3. /\ n \in Objects /\ n.kind = o.kind /\ n.curPage = p /\ n.curPageNo = p
      /\ n.curRec = o.curRec /\ n.told = o.told /\ n.mark = o.mark
  BY <1>1, <1>2 DEF Objects
<1>4. /\ hdr' \in [firstPage : DataPages, lastPage : DataPages, pageCnt : {2},
                   recCnt : Int]
      /\ hdr'.firstPage = hdr.firstPage
      /\ UNCHANGED <<pins, running, due, dueMark, given, odd>>
      /\ changed' = changed \cup {p, Header}
      /\ file' = [file EXCEPT ![p].slot[s] = r]
  BY Typed DEF InsertHere, TypeOK, dues
<1>5. /\ file' \in [DataPages -> DataPageStates \cup {Nil}]
      /\ Used' = Used
      /\ \A u \in Used : file'[u].next = file[u].next
      /\ \A w \in Wanted : w # <<p, s>> => w \in Wanted'
  BY <1>1, <1>4, Typed, SlotSet
<1>6. Wanted \subseteq Wanted'
  <2>1. <<p, s>> \notin Wanted
    <3>1. s \notin LiveOn(p)
      BY DEF InsertHere, FirstFree
    <3>2. <<p, s>> \in Wanted => s \in LiveOn(p)
      BY Typed, WantedRecord
    <3> QED
      BY <3>1, <3>2
  <2> QED
    BY <1>5, <2>1
<1>7. /\ due' \in [Clients -> SUBSET Wanted']
      /\ dueMark' \in [Clients -> SUBSET Wanted']
      /\ \A d \in Clients : /\ due'[d] \subseteq due[d]
                            /\ dueMark'[d] \subseteq dueMark[d]
  BY <1>4, <1>6, Typed
<1>8. /\ \A u \in Used' : file'[u].next \in Used' \cup {-1}
      /\ InOrder'
  BY <1>4, <1>5, LinksKept
<1>9. changed' \subseteq Pages
  BY <1>1, <1>4, Typed, Constants
<1> HIDE DEF n, o, p
<1>10. GoodObject(c)' /\ ("relinked" \notin odd' => GoodScan(c)')
  BY <1>1, <1>3, <1>4, <1>5, <1>7, StaysGood DEF n, o, p
<1> QED
  BY <1>1, <1>2, <1>3, <1>4, <1>5, <1>7, <1>8, <1>9, <1>10, Typed,
     FileStepKeepsIInv DEF n, o

\* Page q is added behind all others, and page p links to it.
LEMMA PageLinked ==
  ASSUME IInv, NEW p \in Used, NEW q \in DataPages, \A u \in Used : u < q,
         NEW g \in DataPageStates, g.next = -1,
         file' = Linked(p, q, g),
         odd \subseteq odd', "relinked" \notin odd' => file[p].next = -1
  PROVE  /\ file' \in [DataPages -> DataPageStates \cup {Nil}]
         /\ Used' = Used \cup {q} /\ q \notin Used
         /\ \A u \in Used' : file'[u].next \in Used' \cup {-1}
         /\ InOrder'
         /\ Wanted \subseteq Wanted'
<1> DEFINE l == [file[p] EXCEPT !.next = q]
<1>1. /\ TypeOK /\ ChainSound /\ InOrder
      /\ p \in DataPages /\ file[p] \in DataPageStates
      /\ file \in [DataPages -> DataPageStates \cup {Nil}]
      /\ Used \subseteq DataPages /\ Used \subseteq Nat /\ q \in Nat
      /\ p \in Nat /\ p < q /\ q # p /\ q # -1
  <2>1. TypeOK /\ ChainSound /\ InOrder
    BY Typed
  <2>2. file \in [DataPages -> DataPageStates \cup {Nil}]
    BY <2>1 DEF TypeOK
  <2>3. p \in DataPages /\ file[p] \in DataPageStates
    BY <2>1, UsedPage
  <2>4. Used \subseteq DataPages /\ Used \subseteq Nat
    BY <2>1, UsedPages
  <2>5. q \in Nat
    BY Constants
  <2>6. p \in Nat /\ p < q
    BY <2>4
  <2> QED
    BY <2>1, <2>2, <2>3, <2>4, <2>5, <2>6
<1>2. q \notin Used
  BY <1>1
<1>3. l \in DataPageStates /\ l.next = q /\ l.slot = file[p].slot
  BY <1>1 DEF DataPageStates
<1>4. file' = [[file EXCEPT ![p] = l] EXCEPT ![q] = g]
  BY <1>1 DEF Linked
<1> HIDE DEF l
<1>5. /\ file' \in [DataPages -> DataPageStates \cup {Nil}]
      /\ file'[p] = l /\ file'[q] = g
      /\ \A u \in DataPages : u # p /\ u # q => file'[u] = file[u]
  BY <1>1, <1>3, <1>4
<1>6. Used' = Used \cup {q}
  <2>1. l # Nil /\ g # Nil
    BY <1>3, NilIsNothing
  <2> QED
    BY <1>1, <1>5, <2>1 DEF Used
<1>7. \A u \in Used : u # p => file'[u] = file[u]
  BY <1>1, <1>2, <1>5
<1>8. \A u \in Used' : file'[u].next \in Used' \cup {-1}
  <2>1. ASSUME NEW u \in Used' PROVE file'[u].next \in Used' \cup {-1}
    <3>1. CASE u = q
      BY <1>5, <3>1
    <3>2. CASE u = p
      BY <1>3, <1>5, <1>6, <3>2
    <3>3. CASE u # p /\ u # q
      BY <1>1, <1>6, <1>7, <3>3 DEF ChainSound
    <3> QED
      BY <3>1, <3>2, <3>3
  <2> QED
    BY <2>1
<1>9. ASSUME "relinked" \notin odd', NEW u \in Used'
      PROVE  IF file'[u].next = -1
             THEN \A v \in Used' : v <= u
             ELSE u < file'[u].next /\ \A v \in Used' : v <= u \/ file'[u].next <= v
  <2>1. file[p].next = -1 /\ "relinked" \notin odd
    BY <1>9
  <2>2. \A v \in Used : v <= p
    BY <1>1, <2>1 DEF InOrder
  <2>3. CASE u = q
    <3>1. file'[u].next = -1
      BY <1>5, <2>3
    <3>2. \A v \in Used' : v <= q
      BY <1>1, <1>6
    <3> QED
      BY <2>3, <3>1, <3>2
  <2>4. CASE u = p
    <3>1. file'[u].next = q
      BY <1>3, <1>5, <2>4
    <3>2. \A v \in Used' : v <= p \/ q <= v
      BY <1>1, <1>6, <2>2
    <3> QED
      BY <1>1, <2>4, <3>1, <3>2
  <2>5. CASE u # p /\ u # q
    <3>1. u \in Used /\ file'[u] = file[u] /\ u \in Nat
      BY <1>1, <1>6, <1>7, <2>5
    <3>2. u <= p /\ u < p
      BY <1>1, <2>2, <2>5, <3>1
    <3>3. file[u].next # -1
      BY <1>1, <2>1, <3>1, <3>2 DEF InOrder
    <3>4. /\ u < file[u].next /\ file[u].next \in Used
          /\ \A v \in Used : v <= u \/ file[u].next <= v
      <4>1. file[u].next \in Used
        BY <1>1, <3>1, <3>3 DEF ChainSound
      <4>2. /\ u < file[u].next
            /\ \A v \in Used : v <= u \/ file[u].next <= v
        BY <1>1, <2>1, <3>1, <3>3 DEF InOrder
      <4> QED
        BY <4>1, <4>2
    <3>5. file[u].next <= q /\ file[u].next \in Nat
      <4> DEFINE v == file[u].next
      <4>1. v \in Used
        BY <3>4
      <4> HIDE DEF v
      <4>2. v \in Nat /\ v < q
        BY <1>1, <4>1
      <4>3. v <= q /\ v \in Nat
        BY <1>1, <4>2
      <4> QED
        BY <4>3 DEF v
    <3> QED
      BY <1>6, <3>1, <3>3, <3>4, <3>5
  <2> QED
    BY <2>3, <2>4, <2>5
<1>10. InOrder'
  BY <1>9 DEF InOrder
<1>11. Wanted \subseteq Wanted'
  <2>1. ASSUME NEW w \in Wanted PROVE w \in Wanted'
    <3>0. PICK u \in Used : \E t \in LiveOn(u) :
            w = <<u, t>> /\ file[u].slot[t] = "hit"
      BY WantedRecords
    <3>1. PICK t \in LiveOn(u) : w = <<u, t>> /\ file[u].slot[t] = "hit"
      BY <3>0
    <3>2. file'[u].slot = file[u].slot
      BY <1>3, <1>5, <1>7
    <3>3. t \in LiveOn(u)'
      BY <3>2 DEF LiveOn
    <3> QED
      BY <1>6, <3>1, <3>2, <3>3 DEF Wanted, Rids
  <2> QED
    BY <2>1
<1> QED
  BY <1>2, <1>5, <1>6, <1>8, <1>10, <1>11

LEMMA NewPageIsPage ==
  /\ NewPage \in DataPageStates /\ NewPage.next = -1
  /\ \A r \in Records : /\ [NewPage EXCEPT !.slot[0] = r] \in DataPageStates
                        /\ [NewPage EXCEPT !.slot[0] = r].next = -1
<1>1. NewPage.slot \in [Slots -> Records \cup {Free}] /\ NewPage.next = -1
  BY DEF NewPage
<1>2. NewPage \in DataPageStates
  BY <1>1 DEF NewPage, DataPageStates
<1>3. ASSUME NEW r \in Records
      PROVE  /\ [NewPage EXCEPT !.slot[0] = r] \in DataPageStates
             /\ [NewPage EXCEPT !.slot[0] = r].next = -1
  BY <1>2 DEF DataPageStates, NewPage
<1> QED
  BY <1>1, <1>2, <1>3

LEMMA NeedsPageFacts ==
  ASSUME IInv, NEW c \in Clients, NEW q, NeedsPage(c, q)
  PROVE  /\ Calls(c, "insert")
         /\ q \in DataPages /\ q # Header /\ q \in Pages /\ q \notin Used
         /\ \A u \in Used : u < q
BY Typed, UsedPages, Constants DEF NeedsPage

LEMMA Relinking ==
  ASSUME NEW p, NEW S, Odd(Relinks(p) \cup S)
  PROVE  /\ odd \subseteq odd'
         /\ "relinked" \notin odd' => file[p].next = -1
BY DEF Odd, Relinks

LEMMA HeaderTurns ==
  ASSUME NEW h \in [firstPage : DataPages, lastPage : DataPages, pageCnt : {2},
                    recCnt : Int], NEW q \in DataPages, NEW g,
         g = [h EXCEPT !.lastPage = q, !.recCnt = @ + 1]
  PROVE  /\ g \in [firstPage : DataPages, lastPage : DataPages, pageCnt : {2},
                   recCnt : Int]
         /\ g.firstPage = h.firstPage
<1> DEFINE k == [h EXCEPT !.lastPage = q]
<1>1. /\ k \in [firstPage : DataPages, lastPage : DataPages, pageCnt : {2},
               recCnt : Int]
      /\ k.firstPage = h.firstPage /\ k.recCnt = h.recCnt
  OBVIOUS
<1>2. g = [k EXCEPT !.recCnt = h.recCnt + 1]
  OBVIOUS
<1>3. h.recCnt + 1 \in Int
  OBVIOUS
<1> HIDE DEF k
<1> QED
  BY <1>1, <1>2, <1>3

LEMMA InsertNewPageKeepsIInv ==
  ASSUME IInv, NEW c \in Clients, NEW r \in Records, NEW q,
         InsertNewPage(c, r, q)
  PROVE  IInv'
<1> DEFINE o == obj[c]
           n == obj'[c]
           p == o.curPage
           g == [NewPage EXCEPT !.slot[0] = r]
<1>1. /\ q \in DataPages /\ q # Header /\ q \in Pages /\ q \notin Used
      /\ \A u \in Used : u < q
      /\ o \in Objects /\ o # Nil /\ o.kind = "insert" /\ running = Nil
      /\ o.told # "broken" /\ o.told # "record" /\ c \in given
      /\ p \in Used /\ p \in Pages /\ p # Header
      /\ GoodObject(c) /\ ("relinked" \notin odd => GoodScan(c))
  BY NeedsPageFacts, Inserter, Typed, UsedPages DEF InsertNewPage, IInv
<1>2. /\ n = [o EXCEPT !.curPage = q, !.curPageNo = q, !.curDirty = TRUE,
                       !.hdrDirty = TRUE]
      /\ obj' = [obj EXCEPT ![c] = n]
  BY Typed DEF InsertNewPage
<1>3. /\ n \in Objects /\ n.kind = "insert" /\ n.curPage = q /\ n.curPageNo = q
      /\ n.told = o.told /\ n.mark = o.mark
  BY <1>1, <1>2 DEF Objects
<1>4. /\ hdr' \in [firstPage : DataPages, lastPage : DataPages, pageCnt : {2},
                   recCnt : Int]
      /\ hdr'.firstPage = hdr.firstPage
  <2>1. hdr' = [hdr EXCEPT !.lastPage = q, !.recCnt = @ + 1]
    BY DEF InsertNewPage
  <2> QED
    BY <1>1, <2>1, Typed, HeaderTurns DEF TypeOK
<1>5. /\ UNCHANGED <<running, due, dueMark, given>>
      /\ file' = Linked(p, q, g)
      /\ odd \subseteq odd' /\ ("relinked" \notin odd' => file[p].next = -1)
      /\ pins' = [UnPinned(p) EXCEPT ![q] = 1]
  BY Relinking DEF InsertNewPage, dues
<1>6. changed' \subseteq Pages
  BY <1>1, Typed, Constants DEF InsertNewPage, Saved
<1>7. pins' \in [Pages -> Nat] /\ pins'[Header] = pins[Header]
  BY <1>1, <1>5, Typed, UnPinnedTyped
<1>8. /\ file' \in [DataPages -> DataPageStates \cup {Nil}]
      /\ Used' = Used \cup {q}
      /\ \A u \in Used' : file'[u].next \in Used' \cup {-1}
      /\ InOrder' /\ Wanted \subseteq Wanted'
  <2>1. g \in DataPageStates /\ g.next = -1
    BY NewPageIsPage
  <2> HIDE DEF g, o
  <2> QED
    BY <1>1, <1>5, <2>1, PageLinked
<1>9. /\ due' \in [Clients -> SUBSET Wanted']
      /\ dueMark' \in [Clients -> SUBSET Wanted']
      /\ \A d \in Clients : /\ due'[d] \subseteq due[d]
                            /\ dueMark'[d] \subseteq dueMark[d]
  BY <1>5, <1>8, Typed
<1> HIDE DEF n, o, p, g
<1>10. GoodObject(c)'
  <2>1. Null \notin Used' /\ Stale \notin Used'
    BY <1>1, <1>8, Typed, UsedPages, Constants
  <2> QED
    BY <1>1, <1>3, <1>5, <1>8, <2>1, Constants DEF GoodObject, n, o
<1>11. "relinked" \notin odd' => GoodScan(c)'
  <2>1. "relinked" \notin odd' => GoodScan(c)
    BY <1>1, <1>5
  <2>2. "relinked" \notin odd' =>
          /\ o.mark # Nil => \A w \in dueMark[c] : Behind(w, o.mark.pageNo, o.mark.rec)
          /\ o.told = "eof" => due[c] = {}
    BY <1>1, <2>1 DEF GoodScan, o
  <2> QED
    BY <1>3, <1>5, <2>2 DEF GoodScan, Behind, n
<1> QED
  BY <1>1, <1>2, <1>3, <1>4, <1>5, <1>6, <1>7, <1>8, <1>9, <1>10, <1>11,
     FileStepKeepsIInv DEF n, o

LEMMA InsertUnPinFailsKeepsIInv ==
  ASSUME IInv, NEW c \in Clients, NEW q, InsertUnPinFails(c, q)
  PROVE  IInv'
<1> DEFINE o == obj[c]
           n == obj'[c]
           p == o.curPage
<1>1. /\ q \in DataPages /\ q # Header /\ q \in Pages /\ q \notin Used
      /\ \A u \in Used : u < q
      /\ o \in Objects /\ o # Nil /\ running = Nil
      /\ o.told # "broken"
      /\ p \in Used /\ p \in Pages /\ o.curPageNo = p
  BY NeedsPageFacts, Inserter DEF InsertUnPinFails
<1>2. /\ n = [o EXCEPT !.hdrDirty = TRUE]
      /\ obj' = [obj EXCEPT ![c] = n]
  BY Typed DEF InsertUnPinFails
<1>3. /\ n \in Objects /\ n.kind = o.kind /\ n.curPage = p /\ n.curPageNo = p
      /\ n.curRec = o.curRec /\ n.told = o.told /\ n.mark = o.mark
  BY <1>1, <1>2 DEF Objects
<1>4. /\ hdr' \in [firstPage : DataPages, lastPage : DataPages, pageCnt : {2},
                   recCnt : Int]
      /\ hdr'.firstPage = hdr.firstPage
  BY <1>1, Typed DEF InsertUnPinFails, TypeOK
<1>5. /\ UNCHANGED <<running, due, dueMark, given>>
      /\ file' = Linked(p, q, NewPage)
      /\ odd \subseteq odd' /\ ("relinked" \notin odd' => file[p].next = -1)
      /\ pins' = [pins EXCEPT ![q] = 1]
      /\ changed' = changed \cup {p, q, Header}
  <2>1. Odd(Relinks(p) \cup {})
    BY DEF InsertUnPinFails
  <2> QED
    BY <2>1, Relinking DEF InsertUnPinFails, dues
<1>6. changed' \subseteq Pages
  BY <1>1, <1>5, Typed, Constants
<1>7. pins' \in [Pages -> Nat] /\ pins'[Header] = pins[Header]
  BY <1>1, <1>5, Typed
<1>8. /\ file' \in [DataPages -> DataPageStates \cup {Nil}]
      /\ Used' = Used \cup {q}
      /\ \A u \in Used' : file'[u].next \in Used' \cup {-1}
      /\ InOrder' /\ Wanted \subseteq Wanted'
  BY <1>1, <1>5, NewPageIsPage, PageLinked
<1>9. /\ due' \in [Clients -> SUBSET Wanted']
      /\ dueMark' \in [Clients -> SUBSET Wanted']
      /\ \A d \in Clients : /\ due'[d] \subseteq due[d]
                            /\ dueMark'[d] \subseteq dueMark[d]
  BY <1>5, <1>8, Typed
<1> HIDE DEF n, o, p
<1>10. GoodObject(c)' /\ ("relinked" \notin odd' => GoodScan(c)')
  BY <1>1, <1>3, <1>5, <1>8, <1>9, StaysGood DEF n, o, p
<1> QED
  BY <1>1, <1>2, <1>3, <1>4, <1>5, <1>6, <1>7, <1>8, <1>9, <1>10,
     FileStepKeepsIInv DEF n, o

-----------------------------------------------------------------------------
LEMMA InitHasIInv == Init => IInv
<1> SUFFICES ASSUME Init PROVE IInv
  OBVIOUS
<1>1. 2 \in DataPages
  BY Constants
<1>2. Used = {2} /\ file[2] = NewPage
  BY <1>1, NewPageIsPage, NilIsNothing DEF Init, Used
<1>3. file \in [DataPages -> DataPageStates \cup {Nil}]
  BY NewPageIsPage DEF Init
<1>4. TypeOK
  BY <1>1, <1>3, Constants DEF Init, TypeOK
<1>5. ChainSound
  BY <1>2, NewPageIsPage DEF Init, ChainSound
<1>6. InOrder
  BY <1>2, NewPageIsPage DEF InOrder
<1>7. HeaderPinned
  <2>1. OpenObjects = {}
    BY DEF Init, OpenObjects
  <2> QED
    BY <2>1, Constants, FS_EmptySet DEF Init, HeaderPinned
<1>8. \A c \in Clients : GoodObject(c) /\ GoodScan(c)
  BY DEF Init, GoodObject, GoodScan
<1> QED
  BY <1>4, <1>5, <1>6, <1>7, <1>8 DEF IInv

LEMMA NextKeepsIInv == IInv /\ [Next]_vars => IInv'
<1> SUFFICES ASSUME IInv, [Next]_vars PROVE IInv'
  OBVIOUS
<1>1. ASSUME NEW c \in Clients, ScanNext(c) PROVE IInv'
  <2>1. CASE ScanReads(c)
    BY <2>1, ScanReadsKeepsIInv
  <2>2. CASE \E s \in Slots \cup {NoSlot} :
               ScanFinds(c, s) \/ ScanEnds(c, s) \/ ScanTurns(c, s)
    BY <2>2, ScanFindsKeepsIInv, ScanEndsKeepsIInv, ScanTurnsKeepsIInv
  <2> QED
    BY <1>1, <2>1, <2>2 DEF ScanNext
<1>2. ASSUME NEW c \in Clients, Call(c) PROVE IInv'
  <2>1. CASE \E kind \in Uses[c] : Open(c, kind)
    BY <2>1, OpenKeepsIInv
  <2>2. CASE Close(c)
    BY <2>2, CloseKeepsIInv
  <2>3. CASE EndScan(c) \/ MarkScan(c) \/ ResetHere(c) \/ ResetAway(c)
    BY <2>3, EndScanKeepsIInv, MarkScanKeepsIInv, ResetHereKeepsIInv,
       ResetAwayKeepsIInv
  <2>4. CASE DeleteRecord(c)
    BY <2>4, DeleteKeepsIInv
  <2>5. CASE GetRecord(c)
    BY <2>5, GetFailsKeepsIInv, GetHereKeepsIInv, GetThereKeepsIInv
    DEF GetRecord
  <2>6. CASE InsertRecord(c)
    BY <2>6, InsertHereKeepsIInv, InsertNewPageKeepsIInv,
       InsertUnPinFailsKeepsIInv DEF InsertRecord
  <2> QED
    BY <1>2, <2>1, <2>2, <2>3, <2>4, <2>5, <2>6 DEF Call
<1>3. CASE UNCHANGED vars
  <2>1. UNCHANGED <<file, hdr, obj, pins, running, changed, due, dueMark, given,
                    odd>>
    BY <1>3 DEF vars
  <2>2. Used' = Used /\ Wanted' = Wanted
    BY <2>1 DEF Used, Wanted, Rids, LiveOn
  <2>3. TypeOK' /\ ChainSound' /\ InOrder'
    BY <2>1, <2>2 DEF IInv, TypeOK, ChainSound, InOrder
  <2>4. HeaderPinned'
    BY <2>1 DEF IInv, HeaderPinned, OpenObjects
  <2>5. \A c \in Clients : GoodObject(c)'
    BY <2>1, <2>2 DEF IInv, GoodObject
  <2>6. "relinked" \notin odd' => \A c \in Clients : GoodScan(c)'
    BY <2>1, <2>2 DEF IInv, GoodScan, Behind
  <2> QED
    BY <2>3, <2>4, <2>5, <2>6 DEF IInv
<1> QED
  BY <1>1, <1>2, <1>3 DEF Next

\* The invariant holds from the file that createHeapFile makes on.
THEOREM Invariance == Spec => []IInv
<1> QED
  BY InitHasIInv, NextKeepsIInv, PTL DEF Spec

\* Objects, pages and counters are what their types say.
THEOREM TypesAlways == Spec => []TypeOK
<1>1. IInv => TypeOK
  BY DEF IInv
<1> QED
  BY <1>1, Invariance, PTL

\* A scan of stage P5 that comes to the end of the file has found every record
\* it had to find, as long as no insertion has linked a page anew.
THEOREM ScansAlwaysFindAll == Spec => []ScanFindsAll
<1>1. IInv => ScanFindsAll
  BY DEF IInv, ScanFindsAll, GoodScan
<1> QED
  BY <1>1, Invariance, PTL

-----------------------------------------------------------------------------
(***************************************************************************)
(* The pins and the changed pages.                                         *)
(***************************************************************************)
Holders(p) == {c \in given : obj[c].curPageNo = p}
Holds(c, p) == c \in given /\ obj[c].curPageNo = p

Tells(c, p) ==
  /\ obj[c] # Nil
  /\ IF p = Header THEN obj[c].hdrDirty
                   ELSE obj[c].curPage = p /\ SaysDirty(obj[c])

Booked == PinsKept /\ ChangesSaved

LEMMA HoldersFinite ==
  ASSUME IInv, NEW p
  PROVE  IsFiniteSet(Holders(p)) /\ Cardinality(Holders(p)) \in Nat
<1>1. Holders(p) \subseteq Clients
  BY Typed DEF Holders, OpenObjects
<1> QED
  BY <1>1, ConstantsAssumption, FS_Subset, FS_CardinalityType

\* Who has a page has a pin of it.
LEMMA HolderPins ==
  ASSUME IInv, PinsKept, "robbed" \notin odd, NEW c \in given
  PROVE  /\ obj[c].curPageNo \in Used /\ obj[c].curPageNo \in DataPages
         /\ obj[c].curPageNo \in Pages
         /\ pins[obj[c].curPageNo] > 0 /\ ~NotPinned(obj[c].curPageNo)
<1> DEFINE p == obj[c].curPageNo
<1>1. c \in Clients /\ obj[c] # Nil /\ GoodObject(c)
  BY Typed DEF OpenObjects
<1>2. p \in Used /\ p \in DataPages /\ p \in Pages
  BY <1>1, Typed, UsedPages DEF GoodObject
<1>3. c \in Holders(p) /\ IsFiniteSet(Holders(p))
  BY HoldersFinite DEF Holders
<1>4. Cardinality(Holders(p)) # 0 /\ Cardinality(Holders(p)) \in Nat
  BY <1>3, HoldersFinite, FS_EmptySet
<1>5. pins[p] = Cardinality(Holders(p))
  BY <1>2 DEF PinsKept, Holders
<1> HIDE DEF p
<1>6. pins[p] > 0 /\ pins[p] # 0
  BY <1>4, <1>5
<1> QED
  BY <1>2, <1>6 DEF NotPinned, p

\* A step of c changes the holders of a page by c.
LEMMA HoldersChange ==
  ASSUME IInv, NEW c \in Clients, obj' = [obj EXCEPT ![c] = obj'[c]],
         given' \in {given, given \cup {c}, given \ {c}}, NEW p
  PROVE  Cardinality(Holders(p)') =
           Cardinality(Holders(p)) + (IF Holds(c, p)' THEN 1 ELSE 0)
                                   - (IF Holds(c, p) THEN 1 ELSE 0)
<1>1. \A d \in Clients : d # c => obj'[d] = obj[d]
  BY Typed
<1>2. given \subseteq Clients
  BY Typed DEF OpenObjects
<1>3. IsFiniteSet(Holders(p)) /\ Cardinality(Holders(p)) \in Nat
  BY HoldersFinite
<1>4. CASE Holds(c, p)' /\ Holds(c, p)
  <2>1. Holders(p)' = Holders(p)
    BY <1>1, <1>2, <1>4 DEF Holders, Holds
  <2> QED
    BY <1>3, <1>4, <2>1
<1>5. CASE ~Holds(c, p)' /\ ~Holds(c, p)
  <2>1. Holders(p)' = Holders(p)
    BY <1>1, <1>2, <1>5 DEF Holders, Holds
  <2> QED
    BY <1>3, <1>5, <2>1
<1>6. CASE Holds(c, p)' /\ ~Holds(c, p)
  <2>1. Holders(p)' = Holders(p) \cup {c} /\ c \notin Holders(p)
    BY <1>1, <1>2, <1>6 DEF Holders, Holds
  <2>2. Cardinality(Holders(p) \cup {c}) = Cardinality(Holders(p)) + 1
    BY <1>3, <2>1, FS_AddElement
  <2> QED
    BY <1>3, <1>6, <2>1, <2>2
<1>7. CASE ~Holds(c, p)' /\ Holds(c, p)
  <2>1. Holders(p)' = Holders(p) \ {c} /\ c \in Holders(p)
    BY <1>1, <1>2, <1>7 DEF Holders, Holds
  <2>2. Cardinality(Holders(p) \ {c}) = Cardinality(Holders(p)) - 1
    BY <1>3, <2>1, FS_RemoveElement
  <2> QED
    BY <1>3, <1>7, <2>1, <2>2
<1> QED
  BY <1>4, <1>5, <1>6, <1>7

LEMMA StepKeepsPins ==
  ASSUME IInv, PinsKept, NEW c \in Clients,
         obj' = [obj EXCEPT ![c] = obj'[c]],
         given' \in {given, given \cup {c}, given \ {c}},
         odd \subseteq odd',
         "robbed" \notin odd' =>
           \A p \in DataPages :
             pins'[p] = pins[p] + (IF Holds(c, p)' THEN 1 ELSE 0)
                                - (IF Holds(c, p) THEN 1 ELSE 0)
  PROVE  PinsKept'
<1>1. ASSUME "robbed" \notin odd', NEW p \in DataPages
      PROVE  pins'[p] = Cardinality(Holders(p)')
  <2>1. pins[p] = Cardinality(Holders(p))
    BY <1>1 DEF PinsKept, Holders
  <2> QED
    BY <1>1, <2>1, HoldersChange
<1> QED
  BY <1>1 DEF PinsKept, Holders

LEMMA StepKeepsChanges ==
  ASSUME IInv, ChangesSaved, NEW c \in Clients,
         obj' = [obj EXCEPT ![c] = obj'[c]],
         odd \subseteq odd',
         odd' \cap {"unsaid", "robbed"} = {} =>
           \A p \in changed' : \/ Tells(c, p)'
                               \/ p \in changed /\ ~Tells(c, p)
  PROVE  ChangesSaved'
<1>1. ASSUME odd' \cap {"unsaid", "robbed"} = {}, NEW p \in changed'
      PROVE  \E d \in Clients : Tells(d, p)'
  <2>1. CASE Tells(c, p)'
    BY <2>1
  <2>2. CASE p \in changed /\ ~Tells(c, p)
    <3>1. odd \cap {"unsaid", "robbed"} = {}
      BY <1>1
    <3>2. PICK d \in Clients : Tells(d, p)
      BY <2>2, <3>1 DEF ChangesSaved, Tells
    <3>3. d # c
      BY <2>2, <3>2
    <3>4. obj'[d] = obj[d]
      BY <3>3, Typed
    <3>5. Tells(d, p)'
      BY <3>2, <3>4 DEF Tells
    <3> QED
      BY <3>5
  <2> QED
    BY <1>1, <2>1, <2>2
<1> QED
  BY <1>1 DEF ChangesSaved, Tells

\* A step in which c stays where it is.
LEMMA StaysBooked ==
  ASSUME IInv, Booked, NEW c \in Clients,
         obj' = [obj EXCEPT ![c] = obj'[c]],
         obj[c] \in Objects, obj'[c] \in Objects,
         obj'[c].kind = obj[c].kind, obj'[c].curPage = obj[c].curPage,
         obj'[c].curPageNo = obj[c].curPageNo,
         obj[c].curDirty => obj'[c].curDirty,
         obj[c].hdrDirty => obj'[c].hdrDirty,
         UNCHANGED <<pins, given>>, odd \subseteq odd',
         \A p \in changed' : p \in changed \/ Tells(c, p)'
  PROVE  Booked'
<1>1. \A p : Holds(c, p)' <=> Holds(c, p)
  BY DEF Holds
<1>2. PinsKept'
  <2>1. ASSUME NEW p \in DataPages
        PROVE  pins'[p] = pins[p] + (IF Holds(c, p)' THEN 1 ELSE 0)
                                  - (IF Holds(c, p) THEN 1 ELSE 0)
    <3>1. pins[p] \in Nat /\ pins'[p] = pins[p]
      BY Typed, Constants
    <3> QED
      BY <1>1, <3>1
  <2> QED
    BY <2>1, StepKeepsPins DEF Booked
<1>3. \A p : Tells(c, p) => Tells(c, p)'
  BY NilIsNothing DEF Tells, SaysDirty
<1>4. ChangesSaved'
  BY <1>3, StepKeepsChanges DEF Booked
<1> QED
  BY <1>2, <1>4 DEF Booked

\* What c unpins is what it has, or nothing, unless it robs another.
LEMMA UnPinsItsOwn ==
  ASSUME IInv, PinsKept, NEW c \in Clients, NEW x, Odd(Robs(c, x)),
         "robbed" \notin odd', c \in given => x = obj[c].curPageNo,
         NEW p \in DataPages
  PROVE  /\ UnPinned(x)[p] = pins[p] - (IF Holds(c, p) THEN 1 ELSE 0)
         /\ UnPinned(x)[p] \in Nat /\ pins[p] \in Nat
<1>1. "robbed" \notin odd /\ (c \in given \/ NotPinned(x))
  BY DEF Odd, Robs
<1>2. pins \in [Pages -> Nat] /\ p \in Pages /\ pins[p] \in Nat
  BY Typed, Constants
<1>3. CASE c \in given
  <2>1. /\ x = obj[c].curPageNo /\ x \in Pages /\ pins[x] > 0
        /\ ~NotPinned(x)
    BY <1>1, <1>3, HolderPins
  <2>2. UnPinned(x) = [pins EXCEPT ![x] = @ - 1]
    BY <2>1 DEF UnPinned
  <2>3. Holds(c, p) <=> p = x
    BY <1>3, <2>1 DEF Holds
  <2> QED
    BY <1>2, <2>1, <2>2, <2>3
<1>4. CASE c \notin given
  <2>1. UnPinned(x) = pins
    BY <1>1, <1>4 DEF UnPinned
  <2>2. ~Holds(c, p)
    BY <1>4 DEF Holds
  <2> QED
    BY <1>2, <2>1, <2>2
<1> QED
  BY <1>3, <1>4

\* A step in which c lets go of page x, if it has it, ...
LEMMA LetsGoPins ==
  ASSUME IInv, PinsKept, NEW c \in Clients,
         obj' = [obj EXCEPT ![c] = obj'[c]],
         NEW x, Odd(Robs(c, x)), c \in given => x = obj[c].curPageNo,
         given' = given \ {c},
         \A p \in DataPages : pins'[p] = UnPinned(x)[p]
  PROVE  PinsKept'
<1>1. ASSUME "robbed" \notin odd', NEW p \in DataPages
      PROVE  pins'[p] = pins[p] + (IF Holds(c, p)' THEN 1 ELSE 0)
                                - (IF Holds(c, p) THEN 1 ELSE 0)
  <2>1. ~Holds(c, p)'
    BY DEF Holds
  <2>2. /\ UnPinned(x)[p] = pins[p] - (IF Holds(c, p) THEN 1 ELSE 0)
        /\ pins[p] \in Nat
    BY <1>1, UnPinsItsOwn
  <2> QED
    BY <2>1, <2>2
<1>2. odd \subseteq odd'
  BY OddGrows
<1> QED
  BY <1>1, <1>2, StepKeepsPins

\* ... and goes to page q.
LEMMA GoesPins ==
  ASSUME IInv, PinsKept, NEW c \in Clients,
         obj' = [obj EXCEPT ![c] = obj'[c]],
         NEW x, Odd(Robs(c, x)), c \in given => x = obj[c].curPageNo,
         given' = given \cup {c},
         NEW q \in DataPages, obj'[c].curPageNo = q,
         pins' = [UnPinned(x) EXCEPT ![q] = @ + 1],
         UnPinned(x) \in [Pages -> Nat]
  PROVE  PinsKept'
<1>1. ASSUME "robbed" \notin odd', NEW p \in DataPages
      PROVE  pins'[p] = pins[p] + (IF Holds(c, p)' THEN 1 ELSE 0)
                                - (IF Holds(c, p) THEN 1 ELSE 0)
  <2>1. Holds(c, p)' <=> p = q
    BY DEF Holds
  <2>2. /\ UnPinned(x)[p] = pins[p] - (IF Holds(c, p) THEN 1 ELSE 0)
        /\ UnPinned(x)[p] \in Nat /\ pins[p] \in Nat
    BY <1>1, UnPinsItsOwn
  <2>3. pins'[p] = IF p = q THEN UnPinned(x)[p] + 1 ELSE UnPinned(x)[p]
    BY Constants
  <2> QED
    BY <2>1, <2>2, <2>3
<1>2. odd \subseteq odd'
  BY OddGrows
<1> QED
  BY <1>1, <1>2, StepKeepsPins

\* An object other than an InsertFileScan unpins its page dirty if it changed it.
LEMMA LetsGoChanges ==
  ASSUME IInv, ChangesSaved, NEW c \in Clients,
         obj' = [obj EXCEPT ![c] = obj'[c]],
         obj[c] # Nil, obj[c].kind # "insert",
         obj'[c] \in Objects, obj'[c].hdrDirty = obj[c].hdrDirty,
         NEW x, obj[c].curPage \in Used => x = obj[c].curPage,
         changed' = Saved(x, obj[c].curDirty),
         odd \subseteq odd'
  PROVE  ChangesSaved'
<1>1. ASSUME NEW p \in changed'
      PROVE  p \in changed /\ (~Tells(c, p) \/ Tells(c, p)')
  <2>1. p \in changed /\ p \in Pages
    BY Typed DEF Saved
  <2>2. CASE p = Header
    BY <2>1, <2>2, NilIsNothing DEF Tells
  <2>3. CASE p # Header
    <3>1. SUFFICES ASSUME obj[c].curPage = p, SaysDirty(obj[c]) PROVE FALSE
      BY <2>1, <2>3 DEF Tells
    <3>2. obj[c].curPage \in Used
      BY <2>1, <3>1, Typed, Constants DEF GoodObject
    <3>3. changed' = changed \ {x}
      BY <3>1 DEF Saved, SaysDirty
    <3> QED
      BY <3>1, <3>2, <3>3
  <2> QED
    BY <2>2, <2>3
<1> QED
  BY <1>1, StepKeepsChanges

-----------------------------------------------------------------------------
\* An object that is called has the page it is on, if it has any.
LEMMA HasItsPage ==
  ASSUME IInv, NEW c \in Clients, NEW kind, Has(c, kind)
  PROVE  /\ c \in given => obj[c].curPage \in Used
         /\ c \in given => obj[c].curPage = obj[c].curPageNo
         /\ c \in given => Left(obj[c]) = obj[c].curPageNo
         /\ obj[c].curPage \in Used => Left(obj[c]) = obj[c].curPage
         /\ obj[c].curPage = Null => c \notin given
BY HasObject, Typed, UsedPages DEF GoodObject, Left

\* A scan that lets go of its page.
LEMMA LetsGoBooked ==
  ASSUME IInv, Booked, NEW c \in Clients, NEW kind, Has(c, kind),
         kind # "insert", Lets(c, obj[c].curPageNo, obj[c].curDirty),
         obj' = [obj EXCEPT ![c] = obj'[c]],
         obj'[c] \in Objects, obj'[c].hdrDirty = obj[c].hdrDirty
  PROVE  Booked'
<1> DEFINE x == obj[c].curPageNo
<1>1. /\ obj[c] # Nil /\ obj[c].kind # "insert"
      /\ obj[c].curPage \in Used => x = obj[c].curPage
  BY HasObject
<1>2. /\ pins' = UnPinned(x) /\ given' = given \ {c} /\ Odd(Robs(c, x))
      /\ changed' = Saved(x, obj[c].curDirty)
  BY DEF Lets
<1>3. PinsKept /\ ChangesSaved /\ odd \subseteq odd'
  BY <1>2, OddGrows DEF Booked
<1>4. PinsKept'
  BY <1>2, <1>3, LetsGoPins
<1>5. ChangesSaved'
  <2> HIDE DEF x
  <2> QED
    BY <1>1, <1>2, <1>3, LetsGoChanges
<1> QED
  BY <1>4, <1>5 DEF Booked

LEMMA EndScanBooked ==
  ASSUME IInv, Booked, NEW c \in Clients, EndScan(c)
  PROVE  Booked'
<1> DEFINE o == obj[c]
           n == obj'[c]
<1>1. o \in Objects /\ Has(c, "scan")
  BY HasObject DEF EndScan, Calls
<1>2. /\ n = [o EXCEPT !.curPage = Null, !.curPageNo = 0, !.curDirty = FALSE,
                       !.told = "nothing"]
      /\ obj' = [obj EXCEPT ![c] = n]
  BY Typed DEF EndScan
<1>3. n \in Objects /\ n.hdrDirty = o.hdrDirty
  BY <1>1, <1>2 DEF Objects
<1> HIDE DEF n
<1> QED
  BY <1>1, <1>2, <1>3, LetsGoBooked DEF EndScan, n

LEMMA MarkScanBooked ==
  ASSUME IInv, Booked, NEW c \in Clients, MarkScan(c)
  PROVE  Booked'
<1> DEFINE o == obj[c]
           n == obj'[c]
<1>1. o \in Objects /\ o.curPageNo \in DataPages /\ o.curRec \in SlotNos
  <2>1. o \in Objects /\ o.curPageNo \in Used
    BY HasObject DEF MarkScan, Calls
  <2> QED
    BY <2>1, Typed, UsedPages DEF Objects
<1>2. /\ n = [o EXCEPT !.mark = [pageNo |-> o.curPageNo, rec |-> o.curRec]]
      /\ obj' = [obj EXCEPT ![c] = n]
  BY Typed DEF MarkScan
<1>3. /\ n \in Objects /\ n.kind = o.kind /\ n.curPage = o.curPage
      /\ n.curPageNo = o.curPageNo /\ n.curDirty = o.curDirty
      /\ n.hdrDirty = o.hdrDirty
  BY <1>1, <1>2 DEF Objects
<1>4. UNCHANGED <<pins, changed, given, odd>>
  BY DEF MarkScan
<1> HIDE DEF n
<1> QED
  BY <1>1, <1>2, <1>3, <1>4, StaysBooked DEF n

LEMMA ResetHereBooked ==
  ASSUME IInv, Booked, NEW c \in Clients, ResetHere(c)
  PROVE  Booked'
<1> DEFINE o == obj[c]
           n == obj'[c]
<1>1. o \in Objects /\ o.mark # Nil /\ o.mark.rec \in SlotNos
  <2>1. o \in Objects /\ o.mark # Nil
    BY HasObject DEF ResetHere, Calls
  <2> QED
    BY <2>1 DEF Objects
<1>2. /\ n = [o EXCEPT !.curRec = o.mark.rec, !.told = "nothing"]
      /\ obj' = [obj EXCEPT ![c] = n]
  BY Typed DEF ResetHere, MarkedRec
<1>3. /\ n \in Objects /\ n.kind = o.kind /\ n.curPage = o.curPage
      /\ n.curPageNo = o.curPageNo /\ n.curDirty = o.curDirty
      /\ n.hdrDirty = o.hdrDirty
  BY <1>1, <1>2 DEF Objects
<1>4. UNCHANGED <<pins, changed, given, odd>>
  BY DEF ResetHere
<1> HIDE DEF n
<1> QED
  BY <1>1, <1>2, <1>3, <1>4, StaysBooked DEF n

LEMMA ResetAwayBooked ==
  ASSUME IInv, Booked, NEW c \in Clients, ResetAway(c)
  PROVE  Booked'
<1> DEFINE o == obj[c]
           n == obj'[c]
           p == o.mark.pageNo
           x == Left(o)
<1>1. /\ o \in Objects /\ o # Nil /\ o.kind = "scan" /\ Has(c, "scan")
      /\ o.mark # Nil /\ GoodObject(c)
  BY HasObject DEF ResetAway, Calls
<1>2. p \in DataPages /\ o.mark.rec \in SlotNos
  BY <1>1, Typed, UsedPages DEF Objects, GoodObject
<1>3. /\ c \in given => x = o.curPageNo
      /\ o.curPage \in Used => x = o.curPage
      /\ UnPinned(x) \in [Pages -> Nat]
  BY <1>1, HasItsPage, LeftTyped
<1>4. /\ changed' = Saved(x, o.curDirty) /\ Odd(Robs(c, x))
      /\ odd \subseteq odd'
  BY OddGrows DEF ResetAway
<1>5. CASE /\ pins' = [UnPinned(x) EXCEPT ![p] = @ + 1]
           /\ obj' = [obj EXCEPT ![c].curPage = p, ![c].curPageNo = p,
                        ![c].curRec = MarkedRec(o), ![c].curDirty = FALSE,
                        ![c].told = "nothing"]
           /\ given' = given \cup {c}
  <2>1. /\ n = [o EXCEPT !.curPage = p, !.curPageNo = p, !.curRec = o.mark.rec,
                         !.curDirty = FALSE, !.told = "nothing"]
        /\ obj' = [obj EXCEPT ![c] = n]
    BY <1>5, Typed DEF MarkedRec
  <2>2. n \in Objects /\ n.curPageNo = p /\ n.hdrDirty = o.hdrDirty
    BY <1>1, <1>2, <2>1 DEF Objects
  <2> HIDE DEF x, n, o, p
  <2>3. PinsKept'
    BY <1>2, <1>3, <1>4, <1>5, <2>1, <2>2, GoesPins DEF Booked, n, o
  <2>4. ChangesSaved'
    BY <1>1, <1>3, <1>4, <2>1, <2>2, LetsGoChanges DEF Booked, n, o
  <2> QED
    BY <2>3, <2>4 DEF Booked
<1>6. CASE /\ pins' = UnPinned(x)
           /\ obj' = [obj EXCEPT
                        ![c].curPage = IF @ = Null THEN Null ELSE Stale,
                        ![c].curPageNo = p, ![c].curRec = MarkedRec(o),
                        ![c].told = "broken"]
           /\ given' = given \ {c}
  <2>1. /\ n = [o EXCEPT !.curPage = IF @ = Null THEN Null ELSE Stale,
                         !.curPageNo = p, !.curRec = o.mark.rec,
                         !.told = "broken"]
        /\ obj' = [obj EXCEPT ![c] = n]
    BY <1>6, Typed DEF MarkedRec
  <2>2. n \in Objects /\ n.hdrDirty = o.hdrDirty
    BY <1>1, <1>2, <2>1 DEF Objects
  <2> HIDE DEF x, n, o, p
  <2>3. PinsKept'
    BY <1>3, <1>4, <1>6, <2>1, LetsGoPins DEF Booked, n, o
  <2>4. ChangesSaved'
    BY <1>1, <1>3, <1>4, <2>1, <2>2, LetsGoChanges DEF Booked, n, o
  <2> QED
    BY <2>3, <2>4 DEF Booked
<1> QED
  BY <1>5, <1>6 DEF ResetAway

LEMMA ScanReadsBooked ==
  ASSUME IInv, Booked, NEW c \in Clients, ScanReads(c)
  PROVE  Booked'
<1> DEFINE o == obj[c]
           n == obj'[c]
           p == o.curPageNo
<1>1. /\ o \in Objects /\ o # Nil /\ o.curPage = Null /\ c \notin given
  BY HasObject, HasItsPage DEF ScanReads, Scanning
<1>2. changed' = changed /\ odd' = odd
  BY DEF ScanReads
<1>3. CASE /\ p \in DataPages
           /\ obj' = [obj EXCEPT ![c].curPage = p]
           /\ pins' = [pins EXCEPT ![p] = @ + 1]
           /\ given' = given \cup {c}
  <2>1. n = [o EXCEPT !.curPage = p] /\ obj' = [obj EXCEPT ![c] = n]
    BY <1>3, Typed
  <2>2. n \in Objects /\ n.curPageNo = p /\ n.hdrDirty = o.hdrDirty
    BY <1>1, <1>3, <2>1 DEF Objects
  <2>3. ASSUME NEW u \in DataPages
        PROVE  pins'[u] = pins[u] + (IF Holds(c, u)' THEN 1 ELSE 0)
                                  - (IF Holds(c, u) THEN 1 ELSE 0)
    <3>1. ~Holds(c, u) /\ (Holds(c, u)' <=> u = p)
      BY <1>1, <1>3, <2>2 DEF Holds
    <3>2. /\ pins[u] \in Nat
          /\ pins'[u] = IF u = p THEN pins[u] + 1 ELSE pins[u]
      BY <1>3, Typed, Constants
    <3> QED
      BY <3>1, <3>2
  <2>4. ASSUME NEW u \in changed'
        PROVE  Tells(c, u)' \/ (u \in changed /\ ~Tells(c, u))
    <3>1. u \in changed /\ u # Null
      BY <1>2, Typed, Constants
    <3> QED
      BY <1>1, <2>2, <3>1, NilIsNothing DEF Tells
  <2> HIDE DEF n
  <2>5. PinsKept'
    BY <1>2, <1>3, <2>1, <2>3, StepKeepsPins DEF Booked, n
  <2>6. ChangesSaved'
    BY <1>2, <2>1, <2>4, StepKeepsChanges DEF Booked, n
  <2> QED
    BY <2>5, <2>6 DEF Booked
<1>4. CASE /\ obj' = [obj EXCEPT ![c].told = "failed"]
           /\ UNCHANGED <<pins, given>>
  <2>1. n = [o EXCEPT !.told = "failed"] /\ obj' = [obj EXCEPT ![c] = n]
    BY <1>4, Typed
  <2>2. /\ n \in Objects /\ n.kind = o.kind /\ n.curPage = o.curPage
        /\ n.curPageNo = o.curPageNo /\ n.curDirty = o.curDirty
        /\ n.hdrDirty = o.hdrDirty
    BY <1>1, <2>1 DEF Objects
  <2> HIDE DEF n
  <2> QED
    BY <1>1, <1>2, <1>4, <2>1, <2>2, StaysBooked DEF n
<1> QED
  BY <1>3, <1>4 DEF ScanReads

LEMMA ScanFindsBooked ==
  ASSUME IInv, Booked, NEW c \in Clients, NEW s, ScanFinds(c, s)
  PROVE  Booked'
<1> DEFINE o == obj[c]
           n == obj'[c]
<1>1. o \in Objects /\ s \in SlotNos
  BY ScanOnPage DEF ScanFinds, SlotNos
<1>2. /\ n = [o EXCEPT !.curRec = s, !.told = "record"]
      /\ obj' = [obj EXCEPT ![c] = n]
  BY Typed DEF ScanFinds
<1>3. /\ n \in Objects /\ n.kind = o.kind /\ n.curPage = o.curPage
      /\ n.curPageNo = o.curPageNo /\ n.curDirty = o.curDirty
      /\ n.hdrDirty = o.hdrDirty
  BY <1>1, <1>2 DEF Objects
<1>4. UNCHANGED <<pins, changed, given, odd>>
  BY DEF ScanFinds
<1> HIDE DEF n
<1> QED
  BY <1>1, <1>2, <1>3, <1>4, StaysBooked DEF n

LEMMA ScanEndsBooked ==
  ASSUME IInv, Booked, NEW c \in Clients, NEW s, ScanEnds(c, s)
  PROVE  Booked'
<1> DEFINE o == obj[c]
           n == obj'[c]
<1>1. o \in Objects /\ Has(c, "scan") /\ s \in SlotNos
  BY ScanOnPage, PageDoneFacts DEF ScanEnds, PageDone
<1>2. /\ n = [o EXCEPT !.curRec = s, !.told = "eof"]
      /\ obj' = [obj EXCEPT ![c] = n]
  BY Typed DEF ScanEnds
<1>3. n \in Objects /\ n.hdrDirty = o.hdrDirty
  BY <1>1, <1>2 DEF Objects
<1> HIDE DEF n
<1> QED
  BY <1>1, <1>2, <1>3, LetsGoBooked DEF ScanEnds, n

LEMMA ScanTurnsBooked ==
  ASSUME IInv, Booked, NEW c \in Clients, NEW s, ScanTurns(c, s)
  PROVE  Booked'
<1> DEFINE o == obj[c]
           n == obj'[c]
           q == file[o.curPage].next
<1>1. o \in Objects /\ Has(c, "scan") /\ o.curPage \in Used
  BY ScanOnPage DEF ScanTurns, PageDone
<1>2. q \in DataPages
  BY <1>1, Typed, UsedPages DEF ScanTurns, NextPage, ChainSound
<1>3. /\ n = [o EXCEPT !.curPage = Null, !.curPageNo = q, !.curRec = NoSlot]
      /\ obj' = [obj EXCEPT ![c] = n]
  BY Typed DEF ScanTurns, FirstOnNextPage, NextPage
<1>4. n \in Objects /\ n.hdrDirty = o.hdrDirty
  BY <1>1, <1>2, <1>3 DEF Objects, SlotNos
<1> HIDE DEF n
<1> QED
  BY <1>1, <1>3, <1>4, LetsGoBooked DEF ScanTurns, n

-----------------------------------------------------------------------------
LEMMA DeleteBooked ==
  ASSUME IInv, Booked, NEW c \in Clients, DeleteRecord(c)
  PROVE  Booked'
<1> DEFINE o == obj[c]
           n == obj'[c]
           p == o.curPage
<1>1. /\ o \in Objects /\ o.kind = "scan"
      /\ o.curPage \in Used \/ running = c
  BY HasObject DEF DeleteRecord, Calls, GoodObject
<1>2. /\ n = [o EXCEPT !.curDirty = TRUE, !.hdrDirty = TRUE, !.told = "nothing"]
      /\ obj' = [obj EXCEPT ![c] = n]
  BY Typed DEF DeleteRecord, Deletes
<1>3. /\ n \in Objects /\ n.kind = o.kind /\ n.curPage = p
      /\ n.curPageNo = o.curPageNo /\ n.curDirty /\ n.hdrDirty
  BY <1>1, <1>2 DEF Objects
<1>4. UNCHANGED <<pins, given>>
  BY DEF DeleteRecord
<1>5. odd \subseteq odd' /\ changed' \subseteq changed \cup {p, Header}
  BY OddGrows DEF DeleteRecord
<1>6. ASSUME NEW u \in changed' PROVE u \in changed \/ Tells(c, u)'
  BY <1>3, <1>5, NilIsNothing DEF Tells, SaysDirty
<1> HIDE DEF n
<1> QED
  BY <1>1, <1>2, <1>3, <1>4, <1>5, <1>6, StaysBooked DEF n

LEMMA InsertHereBooked ==
  ASSUME IInv, Booked, NEW c \in Clients, NEW r, NEW s, InsertHere(c, r, s)
  PROVE  Booked'
<1> DEFINE o == obj[c]
           n == obj'[c]
           p == o.curPage
<1>1. o \in Objects
  BY Inserter DEF InsertHere
<1>2. /\ n = [o EXCEPT !.curDirty = TRUE, !.hdrDirty = TRUE]
      /\ obj' = [obj EXCEPT ![c] = n]
  BY Typed DEF InsertHere
<1>3. /\ n \in Objects /\ n.kind = o.kind /\ n.curPage = p
      /\ n.curPageNo = o.curPageNo /\ n.curDirty /\ n.hdrDirty
  BY <1>1, <1>2 DEF Objects
<1>4. UNCHANGED <<pins, given, odd>> /\ changed' = changed \cup {p, Header}
  BY DEF InsertHere
<1>5. ASSUME NEW u \in changed' PROVE u \in changed \/ Tells(c, u)'
  BY <1>3, <1>4, NilIsNothing DEF Tells, SaysDirty
<1> HIDE DEF n
<1> QED
  BY <1>1, <1>2, <1>3, <1>4, <1>5, StaysBooked DEF n

\* Nobody has a page that is not in the file.
LEMMA NoHolder ==
  ASSUME IInv, NEW q \in DataPages, q \notin Used
  PROVE  /\ \A c \in Clients : ~Holds(c, q)
         /\ PinsKept => ("robbed" \notin odd => pins[q] = 0)
<1>1. \A c \in given : c \in Clients /\ obj[c] # Nil /\ GoodObject(c)
  BY Typed DEF OpenObjects
<1>2. \A c \in given : obj[c].curPageNo # q
  BY <1>1, Typed, UsedPages DEF GoodObject
<1>3. Holders(q) = {}
  BY <1>2 DEF Holders
<1>4. PinsKept => ("robbed" \notin odd => pins[q] = 0)
  BY <1>3, FS_EmptySet DEF PinsKept, Holders
<1> QED
  BY <1>2, <1>4 DEF Holds

LEMMA InsertNewPageBooked ==
  ASSUME IInv, Booked, NEW c \in Clients, NEW r, NEW q, InsertNewPage(c, r, q)
  PROVE  Booked'
<1> DEFINE o == obj[c]
           n == obj'[c]
           p == o.curPage
<1>1. /\ q \in DataPages /\ q # Header /\ q \in Pages /\ q \notin Used
      /\ o \in Objects /\ o # Nil /\ o.kind = "insert" /\ c \in given
      /\ p \in Used /\ p \in Pages /\ o.curPageNo = p
  BY NeedsPageFacts, Inserter DEF InsertNewPage
<1>2. /\ n = [o EXCEPT !.curPage = q, !.curPageNo = q, !.curDirty = TRUE,
                       !.hdrDirty = TRUE]
      /\ obj' = [obj EXCEPT ![c] = n]
  BY Typed DEF InsertNewPage
<1>3. /\ n \in Objects /\ n.kind = "insert" /\ n.curPage = q /\ n.curPageNo = q
      /\ n.curDirty /\ n.hdrDirty
  BY <1>1, <1>2 DEF Objects
<1>4. /\ pins' = [UnPinned(p) EXCEPT ![q] = 1] /\ given' = given
      /\ odd \subseteq odd'
      /\ changed' = Saved(p, o.curDirty)
                      \cup (IF o.curDirty THEN {} ELSE {p}) \cup {q, Header}
      /\ "unsaid" \notin odd' => o.curDirty
  BY DEF InsertNewPage, Odd, Unsaid
<1>5. ASSUME "robbed" \notin odd', NEW u \in DataPages
      PROVE  pins'[u] = pins[u] + (IF Holds(c, u)' THEN 1 ELSE 0)
                                - (IF Holds(c, u) THEN 1 ELSE 0)
  <2>1. "robbed" \notin odd /\ PinsKept
    BY <1>4, <1>5 DEF Booked
  <2>2. (Holds(c, u) <=> u = p) /\ (Holds(c, u)' <=> u = q) /\ p # q
    BY <1>1, <1>3, <1>4 DEF Holds
  <2>3. pins[q] = 0
    BY <1>1, <2>1, NoHolder
  <2>4. ~NotPinned(p)
    BY <1>1, <2>1, HolderPins
  <2>5. UnPinned(p) = [pins EXCEPT ![p] = @ - 1]
    BY <2>4 DEF UnPinned
  <2>6. pins \in [Pages -> Nat] /\ u \in Pages /\ pins[u] \in Nat
    BY Typed, Constants
  <2>7. pins'[u] = IF u = q THEN 1 ELSE IF u = p THEN pins[u] - 1 ELSE pins[u]
    BY <1>1, <1>4, <2>5, <2>6
  <2> QED
    BY <2>2, <2>3, <2>6, <2>7
<1>6. ASSUME odd' \cap {"unsaid", "robbed"} = {}, NEW u \in changed'
      PROVE  Tells(c, u)' \/ (u \in changed /\ ~Tells(c, u))
  <2>1. o.curDirty
    BY <1>4, <1>6
  <2>2. changed' = (changed \ {p}) \cup {q, Header}
    BY <1>4, <2>1 DEF Saved
  <2>3. Tells(c, q)' /\ Tells(c, Header)'
    BY <1>1, <1>3, NilIsNothing DEF Tells, SaysDirty
  <2>4. CASE u \in {q, Header}
    BY <2>3, <2>4
  <2>5. CASE u \notin {q, Header}
    <3>1. u \in changed /\ u # p /\ u # Header
      BY <1>6, <2>2, <2>5
    <3> QED
      BY <3>1 DEF Tells
  <2> QED
    BY <2>4, <2>5
<1> HIDE DEF n
<1>7. PinsKept'
  BY <1>2, <1>4, <1>5, StepKeepsPins DEF Booked, n
<1>8. ChangesSaved'
  BY <1>2, <1>4, <1>6, StepKeepsChanges DEF Booked, n
<1> QED
  BY <1>7, <1>8 DEF Booked

\* Its unpin fails only if its pin was taken.
LEMMA InsertUnPinFailsBooked ==
  ASSUME IInv, Booked, NEW c \in Clients, NEW q, InsertUnPinFails(c, q)
  PROVE  Booked'
<1>1. c \in given /\ obj[c].curPageNo = obj[c].curPage
  BY NeedsPageFacts, Inserter DEF InsertUnPinFails
<1>2. NotPinned(obj[c].curPage) /\ odd \subseteq odd'
  BY OddGrows DEF InsertUnPinFails
<1>3. "robbed" \in odd
  BY <1>1, <1>2, HolderPins DEF Booked
<1> QED
  BY <1>2, <1>3 DEF Booked, PinsKept, ChangesSaved

-----------------------------------------------------------------------------
\* A reader that goes to a page, or fails to.
LEMMA GetsPageBooked ==
  ASSUME IInv, Booked, NEW c \in Clients, NEW p, GetsPage(c, p),
         obj' = [obj EXCEPT ![c] = obj'[c]],
         obj'[c] \in Objects, obj'[c].hdrDirty = obj[c].hdrDirty,
         \/ /\ given' = given \ {c}
            /\ pins' = UnPinned(Left(obj[c]))
         \/ /\ given' = given \cup {c}
            /\ p \in DataPages /\ obj'[c].curPageNo = p
            /\ pins' = [UnPinned(Left(obj[c])) EXCEPT ![p] = @ + 1]
  PROVE  Booked'
<1> DEFINE x == Left(obj[c])
<1>1. Has(c, "reader")
  BY DEF GetsPage, Calls
<1>2. obj[c] # Nil /\ obj[c].kind # "insert"
  BY <1>1, HasObject
<1>3. /\ c \in given => x = obj[c].curPageNo
      /\ obj[c].curPage \in Used => x = obj[c].curPage
      /\ UnPinned(x) \in [Pages -> Nat]
  BY <1>1, HasItsPage, LeftTyped
<1>4. /\ changed' = Saved(x, obj[c].curDirty) /\ Odd(Robs(c, x))
      /\ odd \subseteq odd'
  BY OddGrows DEF GetsPage
<1> HIDE DEF x
<1>5. ChangesSaved'
  BY <1>2, <1>3, <1>4, LetsGoChanges DEF Booked
<1>6. CASE given' = given \ {c} /\ pins' = UnPinned(x)
  <2>1. PinsKept'
    BY <1>3, <1>4, <1>6, LetsGoPins DEF Booked
  <2> QED
    BY <1>5, <2>1 DEF Booked
<1>7. CASE /\ given' = given \cup {c}
           /\ p \in DataPages /\ obj'[c].curPageNo = p
           /\ pins' = [UnPinned(x) EXCEPT ![p] = @ + 1]
  <2>1. PinsKept'
    BY <1>3, <1>4, <1>7, GoesPins DEF Booked
  <2> QED
    BY <1>5, <2>1 DEF Booked
<1> QED
  BY <1>6, <1>7 DEF x

LEMMA GetThereBooked ==
  ASSUME IInv, Booked, NEW c \in Clients, NEW p \in Used, NEW s,
         GetThere(c, p, s)
  PROVE  Booked'
<1> DEFINE o == obj[c]
           n == obj'[c]
           left == UnPinned(Left(o))
<1>1. o \in Objects /\ p \in DataPages /\ GetsPage(c, p)
  BY GetsPageFacts, Typed, UsedPages DEF GetThere
<1>2. /\ n = [o EXCEPT !.curPage = p, !.curPageNo = p, !.curDirty = FALSE]
      /\ obj' = [obj EXCEPT ![c] = n]
  BY Typed DEF GetThere
<1>3. n \in Objects /\ n.hdrDirty = o.hdrDirty /\ n.curPageNo = p
  BY <1>1, <1>2 DEF Objects
<1>4. \/ given' = given \ {c} /\ pins' = left
      \/ given' = given \cup {c} /\ pins' = [left EXCEPT ![p] = @ + 1]
  BY DEF GetThere
<1> HIDE DEF n, o
<1> QED
  BY <1>1, <1>2, <1>3, <1>4, GetsPageBooked DEF n, o

LEMMA GetFailsBooked ==
  ASSUME IInv, Booked, NEW c \in Clients, NEW p \in Used, GetFails(c, p)
  PROVE  Booked'
<1> DEFINE o == obj[c]
           n == obj'[c]
<1>1. o \in Objects /\ GetsPage(c, p)
  BY GetsPageFacts DEF GetFails
<1>2. /\ n = [o EXCEPT !.curPage = Null, !.curPageNo = -1, !.curDirty = FALSE]
      /\ obj' = [obj EXCEPT ![c] = n]
  BY Typed DEF GetFails
<1>3. n \in Objects /\ n.hdrDirty = o.hdrDirty
  BY <1>1, <1>2 DEF Objects
<1>4. given' = given \ {c} /\ pins' = UnPinned(Left(o))
  BY DEF GetFails
<1> HIDE DEF n, o
<1> QED
  BY <1>1, <1>2, <1>3, <1>4, GetsPageBooked DEF n, o

LEMMA GetHereBooked ==
  ASSUME IInv, Booked, NEW c \in Clients, NEW p \in Used, NEW s,
         GetHere(c, p, s)
  PROVE  Booked'
<1>1. /\ obj[c].curPage = p /\ obj[c].curPageNo = p
      /\ obj[c] \in Objects /\ obj[c] # Nil
  BY HasObject DEF GetHere, Calls
<1>2. /\ obj' = obj /\ pins' = UnPinned(p) /\ given' = given \ {c}
      /\ changed' = changed /\ Odd(Robs(c, p)) /\ odd \subseteq odd'
  BY OddGrows DEF GetHere, Lets, Saved
<1>3. obj' = [obj EXCEPT ![c] = obj'[c]]
  BY <1>2, Typed
<1>4. PinsKept'
  BY <1>1, <1>2, <1>3, LetsGoPins DEF Booked
<1>5. \A u : Tells(c, u)' <=> Tells(c, u)
  BY <1>2 DEF Tells
<1>6. ChangesSaved'
  BY <1>2, <1>3, <1>5, StepKeepsChanges DEF Booked
<1> QED
  BY <1>4, <1>6 DEF Booked

LEMMA OpenBooked ==
  ASSUME IInv, Booked, NEW c \in Clients, NEW kind \in Uses[c], Open(c, kind)
  PROVE  Booked'
<1> DEFINE n == obj'[c]
<1>1. /\ obj[c] = Nil /\ c \notin given /\ hdr.firstPage = 2
      /\ 2 \in DataPages /\ 2 # Header /\ 2 \in Pages
      /\ kind \in {"scan", "insert", "reader"}
  BY ConstantsAssumption, Constants, Typed DEF Open, ChainSound, OpenObjects
<1>2. /\ n = [kind |-> kind, curPage |-> 2, curPageNo |-> 2, curRec |-> NoSlot,
              curDirty |-> FALSE, hdrDirty |-> FALSE, mark |-> Nil,
              told |-> "nothing"]
      /\ obj' = [obj EXCEPT ![c] = n]
  BY <1>1, Typed DEF Open
<1>3. n.curPageNo = 2
  BY <1>2
<1>4. /\ changed' = changed /\ odd' = odd /\ given' = given \cup {c}
      /\ pins' = [pins EXCEPT ![Header] = @ + 1, ![2] = @ + 1]
  BY <1>1 DEF Open
<1>5. ASSUME NEW u \in DataPages
      PROVE  pins'[u] = pins[u] + (IF Holds(c, u)' THEN 1 ELSE 0)
                                - (IF Holds(c, u) THEN 1 ELSE 0)
  <2>1. ~Holds(c, u) /\ (Holds(c, u)' <=> u = 2)
    BY <1>1, <1>3, <1>4 DEF Holds
  <2>2. /\ pins[u] \in Nat
        /\ pins'[u] = IF u = 2 THEN pins[u] + 1 ELSE pins[u]
    BY <1>1, <1>4, Typed, Constants
  <2> QED
    BY <2>1, <2>2
<1>6. \A u : ~Tells(c, u)
  BY <1>1 DEF Tells
<1> HIDE DEF n
<1>7. PinsKept'
  BY <1>2, <1>4, <1>5, StepKeepsPins DEF Booked, n
<1>8. ChangesSaved'
  BY <1>2, <1>4, <1>6, StepKeepsChanges DEF Booked, n
<1> QED
  BY <1>7, <1>8 DEF Booked

LEMMA CloseBooked ==
  ASSUME IInv, Booked, NEW c \in Clients, Close(c)
  PROVE  Booked'
<1> DEFINE o == obj[c]
           p == IF o.curPage = Null THEN Null ELSE o.curPageNo
<1>1. o # Nil /\ o \in Objects /\ GoodObject(c) /\ Null \notin Used
  BY Typed, UsedPages DEF Close
<1>2. /\ c \in given => p = o.curPageNo
      /\ o.curPage \in Used => p = o.curPage
  BY <1>1 DEF GoodObject
<1>3. /\ obj' = [obj EXCEPT ![c] = Nil] /\ obj'[c] = Nil
      /\ given' = given \ {c}
      /\ pins' = [UnPinned(p) EXCEPT ![Header] = @ - 1]
      /\ changed' = Saved(p, SaysDirty(o)) \ (IF o.hdrDirty THEN {Header} ELSE {})
      /\ Odd(Robs(c, p))
  BY Typed DEF Close
<1>4. odd \subseteq odd'
  BY <1>3, OddGrows
<1>5. \A u \in DataPages : pins'[u] = UnPinned(p)[u]
  <2>1. p # Header
    BY <1>1, Typed, UsedPages, Constants DEF GoodObject
  <2> HIDE DEF p
  <2>2. UnPinned(p) \in [Pages -> Nat]
    BY <2>1, Typed, UnPinnedTyped
  <2> QED
    BY <1>3, <2>2, Constants
<1>6. ASSUME NEW u \in changed' PROVE u \in changed /\ ~Tells(c, u)
  <2>1. u \in changed /\ u \in Pages
    BY <1>3, Typed DEF Saved
  <2>2. CASE u = Header
    <3>1. ~o.hdrDirty
      BY <1>3, <2>2
    <3> QED
      BY <2>1, <2>2, <3>1 DEF Tells
  <2>3. CASE u # Header
    <3>1. SUFFICES ASSUME o.curPage = u, SaysDirty(o) PROVE FALSE
      BY <2>1, <2>3 DEF Tells
    <3>2. u \in Used /\ p = u
      BY <1>1, <1>2, <2>1, <3>1, Constants DEF GoodObject
    <3>3. u \notin Saved(p, SaysDirty(o))
      BY <3>1, <3>2 DEF Saved
    <3> QED
      BY <1>3, <3>3
  <2> QED
    BY <2>2, <2>3
<1> HIDE DEF p
<1>7. PinsKept'
  BY <1>2, <1>3, <1>5, LetsGoPins DEF Booked
<1>8. ChangesSaved'
  BY <1>3, <1>4, <1>6, StepKeepsChanges DEF Booked
<1> QED
  BY <1>7, <1>8 DEF Booked

LEMMA NextKeepsBooked == IInv /\ Booked /\ [Next]_vars => Booked'
<1> SUFFICES ASSUME IInv, Booked, [Next]_vars PROVE Booked'
  OBVIOUS
<1>1. ASSUME NEW c \in Clients, ScanNext(c) PROVE Booked'
  <2>1. CASE ScanReads(c)
    BY <2>1, ScanReadsBooked
  <2>2. CASE \E s \in Slots \cup {NoSlot} :
               ScanFinds(c, s) \/ ScanEnds(c, s) \/ ScanTurns(c, s)
    BY <2>2, ScanFindsBooked, ScanEndsBooked, ScanTurnsBooked
  <2> QED
    BY <1>1, <2>1, <2>2 DEF ScanNext
<1>2. ASSUME NEW c \in Clients, Call(c) PROVE Booked'
  <2>1. CASE \E kind \in Uses[c] : Open(c, kind)
    BY <2>1, OpenBooked
  <2>2. CASE Close(c)
    BY <2>2, CloseBooked
  <2>3. CASE EndScan(c) \/ MarkScan(c) \/ ResetHere(c) \/ ResetAway(c)
    BY <2>3, EndScanBooked, MarkScanBooked, ResetHereBooked, ResetAwayBooked
  <2>4. CASE DeleteRecord(c)
    BY <2>4, DeleteBooked
  <2>5. CASE GetRecord(c)
    BY <2>5, GetFailsBooked, GetHereBooked, GetThereBooked DEF GetRecord
  <2>6. CASE InsertRecord(c)
    BY <2>6, InsertHereBooked, InsertNewPageBooked, InsertUnPinFailsBooked
    DEF InsertRecord
  <2> QED
    BY <1>2, <2>1, <2>2, <2>3, <2>4, <2>5, <2>6 DEF Call
<1>3. CASE UNCHANGED vars
  BY <1>3 DEF vars, Booked, PinsKept, ChangesSaved, SaysDirty
<1> QED
  BY <1>1, <1>2, <1>3 DEF Next

LEMMA InitBooked == Init => Booked
<1> SUFFICES ASSUME Init PROVE Booked
  OBVIOUS
<1>1. ASSUME NEW p \in DataPages PROVE pins[p] = Cardinality(Holders(p))
  <2>1. Holders(p) = {}
    BY DEF Init, Holders
  <2> QED
    BY <2>1, Constants, FS_EmptySet DEF Init
<1>2. PinsKept
  BY <1>1 DEF PinsKept, Holders
<1>3. ChangesSaved
  BY DEF Init, ChangesSaved
<1> QED
  BY <1>2, <1>3 DEF Booked

LEMMA BookedAlways == Spec => []Booked
<1> QED
  BY InitBooked, NextKeepsBooked, Invariance, PTL DEF Spec

\* A data page of a file of stage P5 has the pins of the objects that have not
\* let go of it, as long as none of the others has let go of one twice.
THEOREM PinsAlwaysKept == Spec => []PinsKept
<1>1. Booked => PinsKept
  BY DEF Booked
<1> QED
  BY <1>1, BookedAlways, PTL

\* Some object will tell the pool of every page that is changed, as long as no
\* page was unpinned before its new link was told, and no pin was taken.
THEOREM ChangesAlwaysSaved == Spec => []ChangesSaved
<1>1. Booked => ChangesSaved
  BY DEF Booked
<1> QED
  BY <1>1, BookedAlways, PTL

=============================================================================
