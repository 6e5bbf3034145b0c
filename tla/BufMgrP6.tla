------------------------------ MODULE BufMgrP6 ------------------------------
(***************************************************************************)
(* The buffer manager that stages P5 and P6 are built on (class BufMgr,    *)
(* buf.C of stage P6).  It has the data structures and the calls of the    *)
(* module BufMgr, and where their code does the same the actions are the   *)
(* same.  It differs in the frame it finds and in what a failure leaves:   *)
(* allocBuf takes the page out of the hash table before it writes it, and  *)
(* never clears the frame, and allocPage undoes nothing.                   *)
(*                                                                         *)
(* The actions reused are ReadPageHit, AllocPageNoPage, UnPinPage,         *)
(* WriteFrame, DisposePage, FlushFile and Restart.  In flushFile the pin   *)
(* count and the reference bit are not touched here, but a frame it drops  *)
(* has no pin.                                                             *)
(***************************************************************************)
EXTENDS BufMgr

VARIABLE faulty   \* history: a call has left a frame and no entry for it

varsP6 == <<vars, faulty>>

InitP6 == Init /\ faulty = FALSE

-----------------------------------------------------------------------------
(***************************************************************************)
(* allocBuf.  The hand moves before it looks, so the search begins behind  *)
(* it.  Up to two turns end at the frame the module Clock names; on the    *)
(* way every reference bit is cleared, also those of pinned frames.        *)
(***************************************************************************)
SearchFrom == (clockHand + 1) % NumBufs

\* Broken: the search begins at a frame that was just taken, and takes it.
StopsWhereItIs(i) == i = clockHand

FrameFound(i) == StopsAt(SearchFrom, valid, pinCnt, refbit, i)

TwoTurns == TakableFrames(valid, pinCnt, refbit) = {}

RefbitsPassed(i) ==
  [j \in Frames |-> refbit[j] /\ ~TwoTurns
                              /\ Turn(SearchFrom, j) >= Turn(SearchFrom, i)]

\* Both turns have found nothing: every frame is pinned.
BufferExceeded ==
  /\ AllocBufGivesUp
  /\ refbit' = [i \in Frames |-> FALSE]
  /\ status' = "BUFFEREXCEEDED"
  /\ UNCHANGED <<clockHand, tag, pinCnt, dirty, valid, bufPool, hashTable,
                 clients, faulty>>

\* Broken: the entry stays in the hash table.
EntryKept(i) == hashTable

\* The entry of the page in frame i goes, also when it leads to another frame.
EntryRemoved(i) == HashWithout(i)

\* The call ends with frame i found and nothing put into it: the page there has
\* lost its entry, but the frame keeps it, with its dirty bit.
FrameLeft(i) ==
  /\ clockHand' = i
  /\ refbit' = RefbitsPassed(i)
  /\ hashTable' = EntryRemoved(i)
  /\ faulty' = (faulty \/ valid[i])
  /\ UNCHANGED <<tag, pinCnt, dirty, valid, bufPool>>

WriteBackFails(i) == FrameFound(i) /\ MustWrite(i) /\ FrameLeft(i)

\* Frame i is set to page k, which hashTable->insert accepts or refuses.
FrameSet(i, k) ==
  /\ FrameFound(i)
  /\ clockHand' = i
  /\ tag' = [tag EXCEPT ![i] = k]
  /\ pinCnt' = [pinCnt EXCEPT ![i] = 1]
  /\ dirty' = [dirty EXCEPT ![i] = FALSE]
  /\ valid' = [valid EXCEPT ![i] = TRUE]
  /\ refbit' = [RefbitsPassed(i) EXCEPT ![i] = TRUE]

-----------------------------------------------------------------------------
\* readPage(k) of a page that the hash table does not have.
ReadFails(k) ==
  /\ hashTable[k] = NoFrame
  /\ \/ BufferExceeded /\ UNCHANGED file
     \/ /\ \E i \in Frames :
             \/ WriteBackFails(i) /\ UNCHANGED file
             \/ FrameFound(i) /\ FrameLeft(i) /\ file' = WrittenBack(file, i)
        /\ status' = "UNIXERR"
        /\ UNCHANGED clients

ReadMiss(k, i) ==
  /\ hashTable[k] = NoFrame
  /\ held[k] < MaxPins
  /\ Readable(file[k[1]], k[2])
  /\ FrameSet(i, k)
  /\ file' = WrittenBack(file, i)
  /\ bufPool' = [bufPool EXCEPT ![i] = file'[k[1]].page[k[2]]]
  /\ hashTable' = [EntryRemoved(i) EXCEPT ![k] = i]
  /\ Pinned(k, i)
  /\ status' = "OK"
  /\ UNCHANGED <<live, changed, faulty>>

-----------------------------------------------------------------------------
\* unPinPage(k, d) is refused, and has set the dirty bit by then.
UnPinRefused(k, d) ==
  LET i == hashTable[k] IN
  /\ d => k \in live
  /\ \/ i = NoFrame /\ status' = "HASHNOTFOUND" /\ UNCHANGED dirty
     \/ /\ i # NoFrame /\ pinCnt[i] = 0
        /\ dirty' = [dirty EXCEPT ![i] = DirtyAfter(i, d)]
        /\ status' = "PAGENOTPINNED"
  /\ UNCHANGED <<file, clockHand, tag, pinCnt, valid, refbit, bufPool,
                 hashTable, clients, faulty>>

-----------------------------------------------------------------------------
\* allocPage(f): the file has given a page and there is no frame for it; the
\* page stays allocated.
AllocNoFrame(f) ==
  \E a \in Allocations(file[f]) :
    /\ a.status = "OK"
    /\ file' = [file EXCEPT ![f] = a.file]
    /\ \/ BufferExceeded
       \/ /\ \E i \in Frames : WriteBackFails(i)
          /\ status' = "UNIXERR"
          /\ UNCHANGED clients

AllocOK(f, i) ==
  \E a \in Allocations(file[f]) : LET k == <<f, a.pageNo>> IN
    /\ a.status = "OK"
    /\ FrameSet(i, k)
    /\ file' = WrittenBack([file EXCEPT ![f] = a.file], i)
    /\ EntryRemoved(i)[k] = NoFrame
    /\ hashTable' = [EntryRemoved(i) EXCEPT ![k] = i]
    /\ Pinned(k, i)
    /\ live' = live \cup {k}
    /\ changed' = changed \cup {k}
    /\ status' = "OK"
    /\ UNCHANGED <<bufPool, faulty>>

\* Somebody has read the page while it was free: the frame stays pinned under
\* its name, and the entry leads to the other frame.
AllocRefused(f, i) ==
  \E a \in Allocations(file[f]) : LET k == <<f, a.pageNo>> IN
    /\ a.status = "OK"
    /\ FrameSet(i, k)
    /\ file' = WrittenBack([file EXCEPT ![f] = a.file], i)
    /\ EntryRemoved(i)[k] # NoFrame
    /\ hashTable' = EntryRemoved(i)
    /\ faulty' = TRUE
    /\ status' = "HASHTBLERROR"
    /\ UNCHANGED <<bufPool, clients>>

-----------------------------------------------------------------------------
AsInP4 ==
  /\ \/ \E k \in Keys : \/ ReadPageHit(k)
                        \/ \E d \in BOOLEAN : UnPinPage(k, d)
                        \/ \E d \in Data : WriteFrame(k, d)
                        \/ DisposePage(k)
     \/ \E f \in Files : AllocPageNoPage(f) \/ FlushFile(f)
     \/ Restart
  /\ UNCHANGED faulty

NextP6 ==
  \/ AsInP4
  \/ \E k \in Keys : \/ ReadFails(k)
                     \/ \E i \in Frames : ReadMiss(k, i)
                     \/ \E d \in BOOLEAN : UnPinRefused(k, d)
  \/ \E f \in Files : \/ AllocNoFrame(f)
                      \/ \E i \in Frames : AllocOK(f, i) \/ AllocRefused(f, i)

SpecP6 == InitP6 /\ [][NextP6]_varsP6

-----------------------------------------------------------------------------
(***************************************************************************)
(* Properties                                                              *)
(***************************************************************************)

\* Whatever fails, an entry of the hash table leads to a valid frame of its page.
EntriesLead ==
  \A k \in Keys : hashTable[k] # NoFrame =>
    valid[hashTable[k]] /\ tag[hashTable[k]] = k

\* Until a call has left a frame without an entry, the pool is as sound as that
\* of P4: one frame a page, pins kept, clean frames as on disk, sound files.
SoundUntilFaulty ==
  ~faulty => HashMatchesFrames /\ PinsKept /\ CleanIsOnDisk /\ FilesSound

\* ... and it is the page store that heap files and catalogs take it for.
StoreUntilFaulty ==
  Store!StoreInit /\ [][~faulty' => [Store!StoreNext]_(Store!storeVars)]_varsP6
=============================================================================
