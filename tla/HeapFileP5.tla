----------------------------- MODULE HeapFileP5 -----------------------------
(***************************************************************************)
(* A heap file and the objects that are open on it as stage P5 has them    *)
(* (heapfile.C of P5), before the course's own version, which HeapFile     *)
(* specifies, took its place.  Here a scan lets go of its page at the end  *)
(* of the file and goes on from a read that failed; a reader lets go of a  *)
(* page that has not the record; and an insertion begins on the first page *)
(* and links a new page behind whatever page it is on.                     *)
(*                                                                         *)
(* All records have one length and a page has room for PageRecords of them *)
(* (and for one slot more), so that a page is which slot holds which       *)
(* record.  The buffer pool is what PageStore promises: a page that is     *)
(* pinned can be read, any other call may fail.                            *)
(*                                                                         *)
(* Guards stand for what testfile.C keeps to: one InsertFileScan at a      *)
(* time; startScan right after the constructor, with one filter; a mark is *)
(* set on a page; a scan deletes the record that scanNext has just given   *)
(* it; an object whose constructor, endScan or resetScan has failed is not *)
(* used.  The pool keeps the pages nobody has pinned, but need not: what   *)
(* an object does on such a page is undefined if it does not.              *)
(***************************************************************************)
EXTENDS Integers, FiniteSets

CONSTANTS
  Clients,      \* who can have an object open
  Uses,         \* Uses[c]: the kinds of object c opens,
  Markers,      \* and who marks and resets its scans (bounds)
  Records,      \* a "hit" is a record that the filter lets pass, a "miss" not
  PageRecords,  \* how many fit on a page
  MaxPage,      \* the pages the file can have, header included
  MaxOdd        \* a bound: how many kinds of odd things a behaviour has

ASSUME ConstantsAssumption ==
  /\ IsFiniteSet(Clients)
  /\ Uses \in [Clients -> SUBSET {"scan", "insert", "reader"}]
  /\ Markers \subseteq Clients
  /\ Records \subseteq {"hit", "miss"}
  /\ PageRecords \in Nat \ {0}
  /\ MaxPage \in Nat /\ MaxPage > 1
  /\ MaxOdd \in Nat

Header == 1
Pages == Header..MaxPage
DataPages == Pages \ {Header}
Slots == 0..(PageRecords - 1)

Nil == [nil |-> TRUE]   \* no page, no object, no mark, no scan
ASSUME NilAssumption == Nil \notin Clients

Free == "free"          \* what a slot not in use holds
NoSlot == -1            \* that of NULLRID
Null == 0               \* curPage == nullptr
Stale == -1             \* curPage leads to another page than curPageNo says

VARIABLES
  file,       \* file[p]: the data page p, Nil if it is not in the file
  hdr,        \* the header page
  obj,        \* obj[c]: the object c has open
  pins,       \* pins[p]: the pins of page p
  running,    \* whose scanNext runs
  changed,    \* history: the pages changed since they were last unpinned dirty
  due,        \* history: what scan c has yet to find of the records that ...
  dueMark,    \* ... were in the file when it began; and at its mark
  given,      \* history: the objects that have their page, and its pin
  odd         \* history: what has happened that the code has no remedy for

vars == <<file, hdr, obj, pins, running, changed, due, dueMark, given, odd>>
content == <<file, hdr>>
dues == <<due, dueMark>>

NewPage == [slot |-> [s \in Slots |-> Free], next |-> -1]

\* What createHeapFile leaves behind; the header counts itself as a page.
Init ==
  /\ file = [p \in DataPages |-> IF p = 2 THEN NewPage ELSE Nil]
  /\ hdr = [firstPage |-> 2, lastPage |-> 2, pageCnt |-> 2, recCnt |-> 0]
  /\ obj = [c \in Clients |-> Nil]
  /\ pins = [p \in Pages |-> 0]
  /\ running = Nil
  /\ changed = {}
  /\ due = [c \in Clients |-> {}]
  /\ dueMark = [c \in Clients |-> {}]
  /\ given = {}
  /\ odd = {}

-----------------------------------------------------------------------------
Used == {p \in DataPages : file[p] # Nil}
LiveOn(p) == {s \in Slots : file[p].slot[s] # Free}
Rids == UNION {{<<p, s>> : s \in LiveOn(p)} : p \in Used}
Wanted == {r \in Rids : file[r[1]].slot[r[2]] = "hit"}

\* BufMgr::unPinPage refuses a page nobody has pinned, but marks it first.
NotPinned(p) == p \in Pages => pins[p] = 0

UnPinned(p) == IF NotPinned(p) THEN pins ELSE [pins EXCEPT ![p] = @ - 1]
Saved(p, dirty) == IF dirty THEN changed \ {p} ELSE changed

Odd(S) ==
  /\ odd' = odd \cup S
  /\ Cardinality(odd') <= MaxOdd

\* c unpins page p.  If it no longer has the pin, it takes that of another.
Robs(c, p) ==
  IF c \in given \/ NotPinned(p) THEN {} ELSE {"robbed"}

\* Broken: the page is left as it is.
LeavesIt(c, p, dirty) ==
  /\ given' = given \ {c}
  /\ UNCHANGED <<pins, changed, odd>>

Lets(c, p, dirty) ==
  /\ pins' = UnPinned(p)
  /\ changed' = Saved(p, dirty)
  /\ Odd(Robs(c, p))
  /\ given' = given \ {c}

Has(c, kind) ==
  /\ obj[c] # Nil
  /\ obj[c].kind = kind
  /\ obj[c].told # "broken"

Calls(c, kind) == running = Nil /\ Has(c, kind)

-----------------------------------------------------------------------------
(***************************************************************************)
(* The constructors read the header page and the first data page, or undo  *)
(* what they have done; so does that of InsertFileScan.                    *)
(***************************************************************************)
Open(c, kind) ==
  LET p == hdr.firstPage IN
  /\ running = Nil /\ obj[c] = Nil /\ kind \in Uses[c]
  /\ kind = "insert" =>
       \A d \in Clients : obj[d] # Nil => obj[d].kind # "insert"
  /\ obj' = [obj EXCEPT ![c] =
       [kind |-> kind, curPage |-> p, curPageNo |-> p, curRec |-> NoSlot,
        curDirty |-> FALSE, hdrDirty |-> FALSE, mark |-> Nil,
        told |-> "nothing"]]
  /\ pins' = [pins EXCEPT ![Header] = @ + 1, ![p] = @ + 1]
  /\ given' = given \cup {c}
  /\ due' = [due EXCEPT ![c] = IF kind = "scan" THEN Wanted ELSE {}]
  /\ UNCHANGED <<content, running, changed, dueMark, odd>>

\* The destructors; that of InsertFileScan always says that its page is dirty.
SaysDirty(o) == o.kind = "insert" \/ o.curDirty

Close(c) ==
  LET o == obj[c]
      p == IF o.curPage = Null THEN Null ELSE o.curPageNo IN
  /\ running = Nil
  /\ o # Nil
  /\ pins' = [UnPinned(p) EXCEPT ![Header] = @ - 1]
  /\ changed' = Saved(p, SaysDirty(o)) \ (IF o.hdrDirty THEN {Header} ELSE {})
  /\ Odd(Robs(c, p))
  /\ given' = given \ {c}
  /\ obj' = [obj EXCEPT ![c] = Nil]
  /\ due' = [due EXCEPT ![c] = {}]
  /\ dueMark' = [dueMark EXCEPT ![c] = {}]
  /\ UNCHANGED <<content, running>>

\* endScan leaves curPageNo 0, which scanNext will try to read.
EndScan(c) ==
  LET o == obj[c] IN
  /\ Calls(c, "scan")
  /\ o.curPage # Null   \* otherwise it does nothing
  /\ Lets(c, o.curPageNo, o.curDirty)
  /\ obj' = [obj EXCEPT ![c].curPage = Null, ![c].curPageNo = 0,
               ![c].curDirty = FALSE, ![c].told = "nothing"]
  /\ UNCHANGED <<content, running, dues>>

MarkScan(c) ==
  /\ c \in Markers
  /\ Calls(c, "scan")
  /\ obj[c].curPage # Null
  /\ obj' = [obj EXCEPT ![c].mark = [pageNo |-> obj[c].curPageNo,
                                     rec |-> obj[c].curRec]]
  /\ dueMark' = [dueMark EXCEPT ![c] = due[c]]
  /\ UNCHANGED <<content, pins, running, changed, due, given, odd>>

MarkedRec(o) == o.mark.rec

\* resetScan to a mark on this page, which it may no longer have pinned.
ResetHere(c) ==
  /\ Calls(c, "scan")
  /\ obj[c].mark # Nil /\ obj[c].mark.pageNo = obj[c].curPageNo
  /\ obj' = [obj EXCEPT ![c].curRec = MarkedRec(obj[c]), ![c].told = "nothing"]
  /\ due' = [due EXCEPT ![c] = dueMark[c]]
  /\ UNCHANGED <<content, pins, running, changed, dueMark, given, odd>>

\* The page an object unpins, if it has any.
Left(o) == IF o.curPage = Null THEN Null ELSE o.curPageNo

\* ... to one on another page: when the unpin is refused, as it is at the end of
\* the file, nothing happens.
ResetAway(c) ==
  LET o == obj[c]
      p == o.mark.pageNo IN
  /\ Calls(c, "scan")
  /\ o.mark # Nil /\ p # o.curPageNo
  /\ o.curPage # Null => ~NotPinned(o.curPageNo)
  /\ changed' = Saved(Left(o), o.curDirty)
  /\ Odd(Robs(c, Left(o)))
  /\ \/ /\ pins' = [UnPinned(Left(o)) EXCEPT ![p] = @ + 1]
        /\ obj' = [obj EXCEPT ![c].curPage = p, ![c].curPageNo = p,
                     ![c].curRec = MarkedRec(o), ![c].curDirty = FALSE,
                     ![c].told = "nothing"]
        /\ given' = given \cup {c}
        /\ due' = [due EXCEPT ![c] = dueMark[c]]
     \/ /\ NotPinned(p)
        /\ pins' = UnPinned(Left(o))
        /\ obj' = [obj EXCEPT ![c].curPage = IF @ = Null THEN Null ELSE Stale,
                     ![c].curPageNo = p, ![c].curRec = MarkedRec(o),
                     ![c].told = "broken"]
        /\ given' = given \ {c}
        /\ UNCHANGED due
  /\ UNCHANGED <<content, running, dueMark>>

-----------------------------------------------------------------------------
(***************************************************************************)
(* scanNext, one page a step; nobody else runs before it returns.          *)
(***************************************************************************)
Scanning(c) == Has(c, "scan") /\ running \in {Nil, c}

\* It reads the page it has come to, or tries again one it could not read.  The
\* page 0 of endScan is none.
ScanReads(c) ==
  LET p == obj[c].curPageNo IN
  /\ Scanning(c)
  /\ obj[c].curPage = Null
  /\ \/ /\ p \in DataPages
        /\ obj' = [obj EXCEPT ![c].curPage = p]
        /\ pins' = [pins EXCEPT ![p] = @ + 1]
        /\ given' = given \cup {c}
        /\ running' = c
     \/ /\ NotPinned(p)
        /\ obj' = [obj EXCEPT ![c].told = "failed"]
        /\ running' = Nil
        /\ UNCHANGED <<pins, given>>
  /\ UNCHANGED <<content, changed, dues, odd>>

OnPage(c) == Scanning(c) /\ obj[c].curPage # Null

Ahead(c) == {s \in LiveOn(obj[c].curPage) : s > obj[c].curRec}
Passes(c, s) == file[obj[c].curPage].slot[s] = "hit"

ScanFinds(c, s) ==
  /\ OnPage(c)
  /\ s \in Ahead(c) /\ Passes(c, s)
  /\ \A t \in Ahead(c) : t < s => ~Passes(c, t)
  /\ obj' = [obj EXCEPT ![c].curRec = s, ![c].told = "record"]
  /\ due' = [due EXCEPT ![c] = @ \ {<<obj[c].curPage, s>>}]
  /\ running' = Nil
  /\ UNCHANGED <<content, pins, changed, dueMark, given, odd>>

\* No record of the page passes: curRec goes to s, the last of them, if any.
PageDone(c, s) ==
  /\ OnPage(c)
  /\ \A t \in Ahead(c) : ~Passes(c, t)
  /\ IF Ahead(c) = {} THEN s = obj[c].curRec
     ELSE s \in Ahead(c) /\ \A t \in Ahead(c) : t <= s

\* The end of the file: the page is unpinned, and curPage stays.
ScanEnds(c, s) ==
  /\ PageDone(c, s)
  /\ file[obj[c].curPage].next = -1
  /\ Lets(c, obj[c].curPageNo, obj[c].curDirty)
  /\ obj' = [obj EXCEPT ![c].curRec = s, ![c].told = "eof"]
  /\ running' = Nil
  /\ UNCHANGED <<content, dues>>

\* Broken: the position on the old page is kept.
RecOnNextPage(s) == s

FirstOnNextPage(s) == NoSlot

NextPage(p) == file[p].next

ScanTurns(c, s) ==
  /\ PageDone(c, s)
  /\ NextPage(obj[c].curPage) # -1
  /\ Lets(c, obj[c].curPageNo, obj[c].curDirty)
  /\ obj' = [obj EXCEPT ![c].curPage = Null,
               ![c].curPageNo = NextPage(obj[c].curPage),
               ![c].curRec = FirstOnNextPage(s)]
  /\ running' = c
  /\ UNCHANGED <<content, dues>>

-----------------------------------------------------------------------------
\* deleteRecord counts one record less whatever the page answers.
Without(d, r) == [c \in Clients |-> d[c] \ {r}]

\* Broken: the page is not marked.
DeletesClean(o) == [o EXCEPT !.hdrDirty = TRUE, !.told = "nothing"]

Deletes(o) ==
  [o EXCEPT !.curDirty = TRUE, !.hdrDirty = TRUE, !.told = "nothing"]

DeleteRecord(c) ==
  LET p == obj[c].curPage
      s == obj[c].curRec IN
  /\ Calls(c, "scan")
  /\ obj[c].told = "record"
  /\ obj' = [obj EXCEPT ![c] = Deletes(@)]
  /\ hdr' = [hdr EXCEPT !.recCnt = @ - 1]
  /\ \/ /\ s \in LiveOn(p)
        /\ file' = [file EXCEPT ![p].slot[s] = Free]
        /\ changed' = changed \cup {p, Header}
        /\ due' = Without(due, <<p, s>>)
        /\ dueMark' = Without(dueMark, <<p, s>>)
        /\ UNCHANGED odd
     \/ /\ s \notin LiveOn(p)
        /\ "refused" \notin odd   \* a bound: recCnt has no other
        /\ Odd({"refused"})
        /\ changed' = changed \cup {Header}
        /\ UNCHANGED <<file, dues>>
  /\ UNCHANGED <<pins, running, given>>

(***************************************************************************)
(* HeapFile::getRecord of a plain HeapFile, of slot s of page p.  If the   *)
(* page has no such record it is unpinned, and curPage stays.              *)
(***************************************************************************)
GetsPage(c, p) ==
  LET o == obj[c] IN
  /\ Calls(c, "reader")
  /\ o.curPage # p
  /\ o.curPage # Null => ~NotPinned(o.curPageNo)   \* or it gives up
  /\ changed' = Saved(Left(o), o.curDirty)
  /\ Odd(Robs(c, Left(o)))

GetThere(c, p, s) ==
  /\ GetsPage(c, p)
  /\ obj' = [obj EXCEPT ![c].curPage = p, ![c].curPageNo = p,
               ![c].curDirty = FALSE]
  /\ IF s \in LiveOn(p)
     THEN /\ pins' = [UnPinned(Left(obj[c])) EXCEPT ![p] = @ + 1]
          /\ given' = given \cup {c}
     ELSE /\ pins' = UnPinned(Left(obj[c]))
          /\ given' = given \ {c}
  /\ UNCHANGED <<content, running, dues>>

GetFails(c, p) ==
  /\ GetsPage(c, p)
  /\ NotPinned(p)
  /\ obj' = [obj EXCEPT ![c].curPage = Null, ![c].curPageNo = -1,
               ![c].curDirty = FALSE]
  /\ pins' = UnPinned(Left(obj[c]))
  /\ given' = given \ {c}
  /\ UNCHANGED <<content, running, dues>>

\* (A record that is there changes nothing.)
GetHere(c, p, s) ==
  /\ Calls(c, "reader")
  /\ obj[c].curPage = p
  /\ s \notin LiveOn(p)
  /\ Lets(c, p, FALSE)
  /\ UNCHANGED <<content, obj, running, dues>>

-----------------------------------------------------------------------------
\* insertRecord.  The constructor has given it a page, and it always has one.
FirstFree(p, s) ==
  /\ s \in Slots \ LiveOn(p)
  /\ \A t \in 0..(s - 1) : t \in LiveOn(p)

InsertHere(c, r, s) ==
  LET p == obj[c].curPage IN
  /\ Calls(c, "insert")
  /\ FirstFree(p, s)
  /\ file' = [file EXCEPT ![p].slot[s] = r]
  /\ hdr' = [hdr EXCEPT !.recCnt = @ + 1]
  /\ obj' = [obj EXCEPT ![c].curDirty = TRUE, ![c].hdrDirty = TRUE]
  /\ changed' = changed \cup {p, Header}
  /\ UNCHANGED <<pins, running, dues, given, odd>>

\* The page is full: allocPage, unless it fails, gives a new page q, which lies
\* behind all others, and which this page, be it the last or not, links to.
NeedsPage(c, q) ==
  /\ Calls(c, "insert")
  /\ LiveOn(obj[c].curPage) = Slots
  /\ q \in DataPages
  /\ \A p \in Used : p < q

Linked(p, q, g) == [file EXCEPT ![p].next = q, ![q] = g]

Relinks(p) == IF file[p].next = -1 THEN {} ELSE {"relinked"}

\* The old page is unpinned with its flag as it was before the link was set.
Unsaid(c) == IF obj[c].curDirty THEN {} ELSE {"unsaid"}

InsertNewPage(c, r, q) ==
  LET p == obj[c].curPage IN
  /\ NeedsPage(c, q)
  /\ ~NotPinned(p)
  /\ file' = Linked(p, q, [NewPage EXCEPT !.slot[0] = r])
  /\ hdr' = [hdr EXCEPT !.lastPage = q, !.recCnt = @ + 1]
  /\ obj' = [obj EXCEPT ![c].curPage = q, ![c].curPageNo = q,
               ![c].curDirty = TRUE, ![c].hdrDirty = TRUE]
  /\ pins' = [UnPinned(p) EXCEPT ![q] = 1]
  /\ changed' = Saved(p, obj[c].curDirty)
                  \cup (IF obj[c].curDirty THEN {} ELSE {p}) \cup {q, Header}
  /\ Odd(Relinks(p) \cup Unsaid(c))
  /\ UNCHANGED <<running, dues, given>>

\* Its pin is gone: it stays, and the new page is left pinned.
InsertUnPinFails(c, q) ==
  LET p == obj[c].curPage IN
  /\ NeedsPage(c, q)
  /\ NotPinned(p)
  /\ file' = Linked(p, q, NewPage)
  /\ hdr' = [hdr EXCEPT !.lastPage = q]
  /\ obj' = [obj EXCEPT ![c].hdrDirty = TRUE]
  /\ pins' = [pins EXCEPT ![q] = 1]
  /\ changed' = changed \cup {p, q, Header}
  /\ Odd(Relinks(p))
  /\ UNCHANGED <<running, dues, given>>

-----------------------------------------------------------------------------
ScanNext(c) ==
  \/ ScanReads(c)
  \/ /\ OnPage(c)
     /\ \E s \in Slots \cup {NoSlot} :
          ScanFinds(c, s) \/ ScanEnds(c, s) \/ ScanTurns(c, s)

GetRecord(c) ==
  \E p \in Used : \/ GetFails(c, p)
                  \/ \E s \in Slots : GetHere(c, p, s) \/ GetThere(c, p, s)

InsertRecord(c) ==
  /\ Calls(c, "insert")
  /\ \/ \E r \in Records :
          \/ \E s \in Slots : InsertHere(c, r, s)
          \/ \E q \in DataPages : InsertNewPage(c, r, q)
     \/ \E q \in DataPages : InsertUnPinFails(c, q)

Call(c) ==
  \/ \E kind \in Uses[c] : Open(c, kind)
  \/ Close(c)
  \/ EndScan(c) \/ MarkScan(c) \/ ResetHere(c) \/ ResetAway(c)
  \/ DeleteRecord(c) \/ GetRecord(c) \/ InsertRecord(c)

Next == \E c \in Clients : ScanNext(c) \/ Call(c)

Spec == Init /\ [][Next]_vars

-----------------------------------------------------------------------------
DataPageStates ==
  [slot : [Slots -> Records \cup {Free}], next : DataPages \cup {-1}]

SlotNos == Slots \cup {NoSlot}

Objects ==
  [kind : {"scan", "insert", "reader"},
   curPage : DataPages \cup {Null, Stale}, curPageNo : DataPages \cup {0, -1},
   curRec : SlotNos, curDirty : BOOLEAN, hdrDirty : BOOLEAN,
   mark : [pageNo : DataPages, rec : SlotNos] \cup {Nil},
   told : {"nothing", "record", "eof", "failed", "broken"}]

TypeOK ==
  /\ file \in [DataPages -> DataPageStates \cup {Nil}]
  /\ hdr \in [firstPage : DataPages, lastPage : DataPages, pageCnt : {2},
              recCnt : Int]
  /\ obj \in [Clients -> Objects \cup {Nil}]
  /\ pins \in [Pages -> Nat]
  /\ running \in Clients \cup {Nil}
  /\ changed \subseteq Pages
  /\ due \in [Clients -> SUBSET Wanted]
  /\ dueMark \in [Clients -> SUBSET Wanted]
  /\ given \subseteq {c \in Clients : obj[c] # Nil}

\* As long as no insertion has linked a page anew that was not the last, a scan
\* that comes to the end of the file has
\* found every record that passes its filter and was there since it began (or
\* since its mark), also if reads have failed and it was called again.
ScanFindsAll ==
  "relinked" \notin odd =>
    \A c \in Clients : obj[c] # Nil => (obj[c].told = "eof" => due[c] = {})

\* A data page has the pins of the objects that have not let go of it, as long
\* as none of the others has let go of one a second time.
PinsKept ==
  "robbed" \notin odd =>
    \A p \in DataPages :
      pins[p] = Cardinality({c \in given : obj[c].curPageNo = p})

\* Of a page that is changed some object will tell the pool, as long as no page
\* was unpinned before its new link was told, and no pin was taken.
ChangesSaved ==
  odd \cap {"unsaid", "robbed"} = {} =>
    \A p \in changed : \E c \in Clients :
      /\ obj[c] # Nil
      /\ IF p = Header THEN obj[c].hdrDirty
                       ELSE obj[c].curPage = p /\ SaysDirty(obj[c])
=============================================================================
