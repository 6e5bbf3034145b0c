------------------------------- MODULE BufMgr -------------------------------
(***************************************************************************)
(* The Minirel buffer manager (class BufMgr, buf.C of stage P4) over the   *)
(* database files of the DB layer (db.C), with the clients that pin,       *)
(* change and unpin its pages.                                             *)
(*                                                                         *)
(* Every public call of BufMgr is one step: the program is sequential, so  *)
(* nothing runs between the start and the end of a call.  What makes the   *)
(* calls hard is their order, the limit of the pool, and the Unix I/O they *)
(* do in the middle, which may fail at any point.                          *)
(*                                                                         *)
(* What the code leaves to its callers is a guard of the client's actions: *)
(* a client unpins a page it has pinned, changes only a page that was      *)
(* allocated to it and that it has pinned, says dirty when it unpins what  *)
(* it changed (a page fresh from allocPage included, whose frame holds the *)
(* bytes of whatever page was there before), and disposes of a page nobody *)
(* has pinned.  A client may read any page of a file, a free one included: *)
(* nothing in readPage refuses it.                                         *)
(***************************************************************************)
EXTENDS DBFile, Clock

CONSTANTS Files,   \* the open files
          MaxPins  \* how often a page is pinned at a time (bounds pinCnt)

ASSUME MaxPinsAssumption == MaxPins \in Nat \ {0}
ASSUME FilesAssumption == "NULL" \notin Files

Keys == Files \X Pages       \* what the hash table is keyed by
NoKey == <<"NULL", NoPage>>  \* the (file, pageNo) of a cleared frame
NoFrame == -1

VARIABLES
  file,       \* file[f]: the state of the database file f
  \* the pool: the fields of the frame descriptors, and the frames
  clockHand,
  tag,        \* tag[i] = <<file, pageNo>> of frame i
  pinCnt, dirty, valid, refbit,
  bufPool,
  hashTable,  \* hashTable[k]: the frame of page k, or NoFrame
  \* the clients
  live,       \* the pages allocPage gave them and they have not disposed of
  held,       \* held[k]: the pins they have on page k
  ptr,        \* ptr[k]: the frame readPage or allocPage gave them for k
  changed,    \* pages changed in the pool and not yet unpinned as dirty
  status      \* what the last call returned

pool == <<clockHand, tag, pinCnt, dirty, valid, refbit, bufPool, hashTable>>
clients == <<live, held, ptr, changed>>
vars == <<file, pool, clients, status>>

Statuses == {"OK", "UNIXERR", "BADPAGENO", "BUFFEREXCEEDED", "HASHNOTFOUND",
             "PAGENOTPINNED", "PAGEPINNED", "HASHTBLERROR", "BADBUFFER"}

LivePages(f) == {p \in Pages : <<f, p>> \in live}

-----------------------------------------------------------------------------
\* BufMgr::BufMgr: every frame invalid, the hand at the last one.
EmptyPool(hand, tags, pins, dirtyBits, validBits, refbits, frames, table) ==
  /\ hand = NumBufs - 1
  /\ tags = [i \in Frames |-> NoKey]
  /\ pins = [i \in Frames |-> 0]
  /\ dirtyBits = [i \in Frames |-> FALSE]
  /\ validBits = [i \in Frames |-> FALSE]
  /\ refbits = [i \in Frames |-> FALSE]
  /\ frames = [i \in Frames |-> ZeroPage]
  /\ table = [k \in Keys |-> NoFrame]

Init ==
  /\ file = [f \in Files |-> Created]
  /\ EmptyPool(clockHand, tag, pinCnt, dirty, valid, refbit, bufPool, hashTable)
  /\ live = {}
  /\ held = [k \in Keys |-> 0]
  /\ ptr = [k \in Keys |-> NoFrame]
  /\ changed = {}
  /\ status = "OK"

-----------------------------------------------------------------------------
(***************************************************************************)
(* allocBuf.  The call stops at a frame i (or gives up, all being pinned). *)
(* A page found there is written back if it is dirty, leaves the hash      *)
(* table, and the frame is cleared.  The hand stays at i, and the          *)
(* reference bits it passed are clear, also when the write back fails.     *)
(***************************************************************************)
MustWrite(i) == valid[i] /\ dirty[i]

\* Broken: the dirty page is dropped.
NotWrittenBack(fs, i) == fs

\* The files fs after the write back of frame i.
WrittenBack(fs, i) ==
  IF MustWrite(i)
    THEN [fs EXCEPT ![tag[i][1]] = Written(@, tag[i][2], bufPool[i])]
    ELSE fs

\* Broken: the entry of the page stays.
HashKept(i) == hashTable

\* hashTable->remove of the page in frame i.
HashWithout(i) ==
  IF valid[i] THEN [hashTable EXCEPT ![tag[i]] = NoFrame] ELSE hashTable

AllocBufGivesUp == GivesUp(valid, pinCnt, refbit)

\* Broken: pinned frames are taken like the others.
AllocBufTakesPinned(i) ==
  StopsAt(clockHand, valid, [j \in Frames |-> 0], refbit, i)

AllocBufStops(i) == StopsAt(clockHand, valid, pinCnt, refbit, i)

HandAt(i) ==
  /\ clockHand' = i
  /\ refbit' = RefbitAfter(clockHand, valid, pinCnt, refbit, i)

\* allocBuf stopped at i and could not write the page there.
AllocBufFails(i) ==
  /\ AllocBufStops(i)
  /\ MustWrite(i)
  /\ HandAt(i)
  /\ UNCHANGED <<tag, pinCnt, dirty, valid, bufPool, hashTable>>

\* Frame i after BufDesc::Clear, which leaves the reference bit alone.
Cleared(i) ==
  /\ tag' = [tag EXCEPT ![i] = NoKey]
  /\ pinCnt' = [pinCnt EXCEPT ![i] = 0]
  /\ dirty' = [dirty EXCEPT ![i] = FALSE]
  /\ valid' = [valid EXCEPT ![i] = FALSE]

\* Frame i after BufDesc::Set.
SetTo(i, k) ==
  /\ tag' = [tag EXCEPT ![i] = k]
  /\ pinCnt' = [pinCnt EXCEPT ![i] = 1]
  /\ dirty' = [dirty EXCEPT ![i] = FALSE]
  /\ valid' = [valid EXCEPT ![i] = TRUE]
  /\ refbit' = [RefbitAfter(clockHand, valid, pinCnt, refbit, i)
                  EXCEPT ![i] = TRUE]

-----------------------------------------------------------------------------
\* The client has one more pin on k, whose frame is i.
Pinned(k, i) ==
  /\ held' = [held EXCEPT ![k] = @ + 1]
  /\ ptr' = [ptr EXCEPT ![k] = i]

(***************************************************************************)
(* readPage(k): found in the hash table, or read from disk into the frame  *)
(* allocBuf frees.  (hashTable->insert cannot fail: lookup has just missed *)
(* k, and allocBuf only removes.)                                          *)
(***************************************************************************)
ReadPageHit(k) ==
  LET i == hashTable[k] IN
  /\ i # NoFrame
  /\ held[k] < MaxPins
  /\ refbit' = [refbit EXCEPT ![i] = TRUE]
  /\ pinCnt' = [pinCnt EXCEPT ![i] = @ + 1]
  /\ Pinned(k, i)
  /\ status' = "OK"
  /\ UNCHANGED <<file, clockHand, tag, dirty, valid, bufPool, hashTable,
                 live, changed>>

ReadPageExceeded(k) ==
  /\ hashTable[k] = NoFrame
  /\ AllocBufGivesUp
  /\ status' = "BUFFEREXCEEDED"
  /\ UNCHANGED <<file, pool, clients>>

ReadPageWriteFails(k, i) ==
  /\ hashTable[k] = NoFrame
  /\ AllocBufFails(i)
  /\ status' = "UNIXERR"
  /\ UNCHANGED <<file, clients>>

\* The frame has been freed, and the page of k cannot be read.
ReadPageReadFails(k, i) ==
  /\ hashTable[k] = NoFrame
  /\ AllocBufStops(i)
  /\ HandAt(i)
  /\ Cleared(i)
  /\ file' = WrittenBack(file, i)
  /\ hashTable' = HashWithout(i)
  /\ status' = "UNIXERR"
  /\ UNCHANGED <<bufPool, clients>>

ReadPageMiss(k, i) ==
  /\ hashTable[k] = NoFrame
  /\ Readable(file[k[1]], k[2])
  /\ AllocBufStops(i)
  /\ clockHand' = i
  /\ SetTo(i, k)
  /\ file' = WrittenBack(file, i)
  /\ bufPool' = [bufPool EXCEPT ![i] = file'[k[1]].page[k[2]]]
  /\ hashTable' = [HashWithout(i) EXCEPT ![k] = i]
  /\ Pinned(k, i)
  /\ status' = "OK"
  /\ UNCHANGED <<live, changed>>

ReadPage(k) ==
  \/ ReadPageHit(k)
  \/ ReadPageExceeded(k)
  \/ \E i \in Frames : \/ ReadPageWriteFails(k, i)
                       \/ ReadPageReadFails(k, i)
                       \/ ReadPageMiss(k, i)

-----------------------------------------------------------------------------
(***************************************************************************)
(* unPinPage(k, d), the last pin of a changed page being given back as     *)
(* dirty; and the two errors, for a page the client has no pin on.         *)
(***************************************************************************)
\* Broken: the bit is what the last client said.
DirtyAsSaid(i, d) == d

DirtyAfter(i, d) == dirty[i] \/ d

UnPinPage(k, d) ==
  LET i == hashTable[k] IN
  /\ held[k] > 0
  /\ d => k \in live
  /\ k \in changed => d \/ held[k] > 1
  /\ i # NoFrame
  /\ pinCnt[i] > 0
  /\ pinCnt' = [pinCnt EXCEPT ![i] = @ - 1]
  /\ dirty' = [dirty EXCEPT ![i] = DirtyAfter(i, d)]
  /\ held' = [held EXCEPT ![k] = @ - 1]
  /\ ptr' = [ptr EXCEPT ![k] = IF held[k] = 1 THEN NoFrame ELSE @]
  /\ changed' = IF d THEN changed \ {k} ELSE changed
  /\ status' = "OK"
  /\ UNCHANGED <<file, clockHand, tag, valid, refbit, bufPool, hashTable, live>>

UnPinPageFails(k) ==
  LET i == hashTable[k] IN
  /\ \/ i = NoFrame /\ status' = "HASHNOTFOUND"
     \/ i # NoFrame /\ pinCnt[i] <= 0 /\ status' = "PAGENOTPINNED"
  /\ UNCHANGED <<file, pool, clients>>

\* A client writes d into the page it has pinned, through its pointer.
WriteFrame(k, d) ==
  /\ k \in live
  /\ held[k] > 0
  /\ bufPool' = [bufPool EXCEPT ![ptr[k]] = d]
  /\ changed' = changed \cup {k}
  /\ UNCHANGED <<file, clockHand, tag, pinCnt, dirty, valid, refbit, hashTable,
                 live, held, ptr, status>>

-----------------------------------------------------------------------------
(***************************************************************************)
(* allocPage(f): a page of the file, then a frame for it, then its entry   *)
(* in the hash table.  When the second or the third fails, the page goes   *)
(* back to the file, whose answer is ignored.                              *)
(***************************************************************************)
AllocPageNoPage(f) ==
  \E a \in Allocations(file[f]) :
    /\ a.status # "OK"
    /\ file' = [file EXCEPT ![f] = a.file]
    /\ status' = a.status
    /\ UNCHANGED <<pool, clients>>

\* fs after file->disposePage of the page that was just allocated.
GivenBack(fs, f, p) ==
  {[fs EXCEPT ![f] = d.file] : d \in Disposals(fs[f], p)}

AllocPageNoFrame(f) ==
  \E a \in Allocations(file[f]) :
    /\ a.status = "OK"
    /\ file' \in GivenBack([file EXCEPT ![f] = a.file], f, a.pageNo)
    /\ \/ /\ AllocBufGivesUp
          /\ status' = "BUFFEREXCEEDED"
          /\ UNCHANGED pool
       \/ /\ \E i \in Frames : AllocBufFails(i)
          /\ status' = "UNIXERR"
    /\ UNCHANGED clients

AllocPageOK(f, i) ==
  \E a \in Allocations(file[f]) : LET k == <<f, a.pageNo>> IN
    /\ a.status = "OK"
    /\ AllocBufStops(i)
    /\ clockHand' = i
    /\ SetTo(i, k)
    /\ file' = WrittenBack([file EXCEPT ![f] = a.file], i)
    /\ HashWithout(i)[k] = NoFrame
    /\ hashTable' = [HashWithout(i) EXCEPT ![k] = i]
    /\ Pinned(k, i)
    /\ live' = live \cup {k}
    /\ changed' = changed \cup {k}
    /\ status' = "OK"
    /\ UNCHANGED bufPool

\* Somebody has read the page while it was free: the insert is refused.
AllocPageInsertFails(f, i) ==
  \E a \in Allocations(file[f]) :
    /\ a.status = "OK"
    /\ AllocBufStops(i)
    /\ HashWithout(i)[<<f, a.pageNo>>] # NoFrame
    /\ Cleared(i)
    /\ clockHand' = i
    /\ refbit' = [RefbitAfter(clockHand, valid, pinCnt, refbit, i)
                    EXCEPT ![i] = TRUE]
    /\ file' \in GivenBack(WrittenBack([file EXCEPT ![f] = a.file], i),
                           f, a.pageNo)
    /\ hashTable' = HashWithout(i)
    /\ status' = "HASHTBLERROR"
    /\ UNCHANGED <<bufPool, clients>>

AllocPage(f) ==
  \/ AllocPageNoPage(f)
  \/ AllocPageNoFrame(f)
  \/ \E i \in Frames : AllocPageOK(f, i) \/ AllocPageInsertFails(f, i)

-----------------------------------------------------------------------------
(***************************************************************************)
(* disposePage(k): the page leaves the pool whether or not the file then   *)
(* accepts to dispose of it.                                               *)
(***************************************************************************)
DisposePage(k) ==
  LET i == hashTable[k] IN
  /\ k \in live
  /\ held[k] = 0
  /\ IF i = NoFrame THEN UNCHANGED <<tag, pinCnt, dirty, valid>>
                    ELSE Cleared(i)
  /\ hashTable' = [hashTable EXCEPT ![k] = NoFrame]
  /\ \E d \in Disposals(file[k[1]], k[2]) :
       /\ file' = [file EXCEPT ![k[1]] = d.file]
       /\ status' = d.status
       /\ live' = IF d.status = "OK" THEN live \ {k} ELSE live
  /\ UNCHANGED <<clockHand, refbit, bufPool, held, ptr, changed>>

-----------------------------------------------------------------------------
(***************************************************************************)
(* flushFile(f) visits the frames in order and stops at frame n, or goes   *)
(* through all of them (n = NumBufs): every frame of f before n is written *)
(* if it is dirty and becomes invalid.                                     *)
(***************************************************************************)
FramesOf(f) == {i \in Frames : tag[i][1] = f}

\* Broken: the frames are dropped without a write.
FlushedNothing(s, f, S) == s

\* The file s after the writes of the frames in S, in the order of frames.
Flushed(s, f, S) ==
  LET writing(p) == {i \in S : dirty[i] /\ tag[i] = <<f, p>>}
      last(p) == CHOOSE i \in writing(p) : \A j \in writing(p) : j <= i
  IN  [s EXCEPT !.page = [p \in Pages |-> IF writing(p) = {} THEN s.page[p]
                                          ELSE bufPool[last(p)]]]

FlushTo(f, n) ==
  LET S == {i \in FramesOf(f) : i < n} IN
  /\ \A i \in S : valid[i] /\ pinCnt[i] <= 0
  /\ file' = [file EXCEPT ![f] = Flushed(@, f, S)]
  /\ hashTable' = [k \in Keys |-> IF \E i \in S : tag[i] = k
                                    THEN NoFrame ELSE hashTable[k]]
  /\ tag' = [i \in Frames |-> IF i \in S THEN NoKey ELSE tag[i]]
  /\ dirty' = [i \in Frames |-> dirty[i] /\ i \notin S]
  /\ valid' = [i \in Frames |-> valid[i] /\ i \notin S]
  /\ UNCHANGED <<clockHand, pinCnt, refbit, bufPool, clients>>

FlushFile(f) ==
  \/ FlushTo(f, NumBufs) /\ status' = "OK"
  \/ \E n \in FramesOf(f) :
       /\ FlushTo(f, n)
       /\ ~valid[n] \/ pinCnt[n] > 0 \/ dirty[n]
       /\ status' = IF ~valid[n] THEN "BADBUFFER"
                    ELSE IF pinCnt[n] > 0 THEN "PAGEPINNED" ELSE "UNIXERR"

-----------------------------------------------------------------------------
(***************************************************************************)
(* The program ends and starts again: the destructor writes the dirty      *)
(* pages and cannot tell anybody about the writes that fail (the status    *)
(* here only records that there were some); the next run has an empty pool *)
(* over the same files.  The clients have no pin left by then.             *)
(***************************************************************************)
Restart ==
  \E failed \in SUBSET {i \in Frames : MustWrite(i)} :
    LET S == {i \in Frames : MustWrite(i)} \ failed IN
    /\ \A k \in Keys : held[k] = 0
    /\ file' = [f \in Files |->
                  Flushed(file[f], f, {i \in S : tag[i][1] = f})]
    /\ EmptyPool(clockHand', tag', pinCnt', dirty', valid', refbit', bufPool',
                 hashTable')
    /\ status' = IF failed = {} THEN "OK" ELSE "UNIXERR"
    /\ UNCHANGED clients

-----------------------------------------------------------------------------
Next ==
  \/ \E k \in Keys : \/ ReadPage(k)
                     \/ \E d \in BOOLEAN : UnPinPage(k, d)
                     \/ UnPinPageFails(k)
                     \/ \E d \in Data : WriteFrame(k, d)
                     \/ DisposePage(k)
  \/ \E f \in Files : AllocPage(f) \/ FlushFile(f)
  \/ Restart

Spec == Init /\ [][Next]_vars

-----------------------------------------------------------------------------
(***************************************************************************)
(* Properties                                                              *)
(***************************************************************************)

\* Every variable has its type; a pin count is bounded by MaxPins.
TypeOK ==
  /\ file \in [Files -> FileStates]
  /\ clockHand \in Frames
  /\ tag \in [Frames -> Keys \cup {NoKey}]
  /\ pinCnt \in [Frames -> 0..MaxPins]
  /\ dirty \in [Frames -> BOOLEAN]
  /\ valid \in [Frames -> BOOLEAN]
  /\ refbit \in [Frames -> BOOLEAN]
  /\ bufPool \in [Frames -> Contents]
  /\ hashTable \in [Keys -> Frames \cup {NoFrame}]
  /\ live \in SUBSET Keys
  /\ held \in [Keys -> 0..MaxPins]
  /\ ptr \in [Keys -> Frames \cup {NoFrame}]
  /\ changed \in SUBSET Keys
  /\ status \in Statuses

\* The hash table and the frame descriptors describe the same pool: an entry
\* leads to a valid frame of its page, and a valid frame has an entry, so no
\* page is ever in two frames and none in the pool is out of reach.
HashMatchesFrames ==
  /\ \A k \in Keys : hashTable[k] # NoFrame =>
       valid[hashTable[k]] /\ tag[hashTable[k]] = k
  /\ \A i \in Frames : valid[i] => tag[i] \in Keys /\ hashTable[tag[i]] = i

\* A page the clients have pinned stays in the frame their pointer leads to,
\* with as many pins as they have; a page they have not pinned has none, so
\* that no pin is leaked by a call that fails half way.
PinsKept ==
  \A k \in Keys :
    IF held[k] > 0
      THEN /\ ptr[k] # NoFrame
           /\ hashTable[k] = ptr[k]
           /\ pinCnt[ptr[k]] = held[k]
      ELSE hashTable[k] # NoFrame => pinCnt[hashTable[k]] = 0

\* A page of the pool that nobody is changing and that is not dirty has the
\* same content on disk: dropping a clean frame loses nothing.
CleanIsOnDisk ==
  \A i \in Frames :
    valid[i] /\ ~dirty[i] /\ tag[i] \in live \ changed =>
      bufPool[i] = file[tag[i][1]].page[tag[i][2]]

\* Only a page in use is ever dirty: no write back lands on a page that was
\* disposed of, whose first word is by then a link of the free list.
DirtyIsLive ==
  \A i \in Frames : dirty[i] => valid[i] /\ tag[i] \in live

\* The files are sound whatever write failed: their headers describe them and
\* no free list reaches a page in use.
FilesSound == \A f \in Files : FileSound(file[f], LivePages(f))

\* flushFile never meets an invalid frame that still names the file.
NeverBadBuffer == status # "BADBUFFER"

\* What the clients see of a page: its frame, or the disk.
PageContent(k) ==
  IF hashTable[k] # NoFrame THEN bufPool[hashTable[k]]
                            ELSE file[k[1]].page[k[2]]

Store == INSTANCE PageStore WITH
  Page <- Keys, Content <- Contents,
  inUse <- live, content <- [k \in Keys |-> PageContent(k)],
  pins <- held, answer <- status

\* The buffer manager over its files is a page store: evictions, write backs,
\* flushes and failed calls never change, lose or revive what a page holds.
IsPageStore == Store!StoreSpec

\* When flushFile(f) answers OK, every page of f in use is on disk and none is
\* in the pool.
FlushIsDurable ==
  [][\A f \in Files : FlushFile(f) /\ status' = "OK" =>
       \A p \in LivePages(f) :
         /\ hashTable'[<<f, p>>] = NoFrame
         /\ file'[f].page[p] = PageContent(<<f, p>>)]_vars
=============================================================================
