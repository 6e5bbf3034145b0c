---------------------------- MODULE BufMgrProofs ----------------------------
(***************************************************************************)
(* The safety of the buffer manager, for every number of frames, files and *)
(* pages and every content of the pages, whatever I/O fails.               *)
(***************************************************************************)
EXTENDS BufMgrP6, DBFileProofs

(***************************************************************************)
(* The inductive invariant: the properties of BufMgr, and two facts that   *)
(* make them inductive.  A frame that is not valid has been cleared, and a *)
(* page being changed is in use and pinned.                                *)
(***************************************************************************)
InvalidIsCleared ==
  \A i \in Frames : ~valid[i] => tag[i] = NoKey /\ pinCnt[i] = 0

ChangedIsPinned == \A k \in changed : k \in live /\ held[k] > 0

PoolOK ==
  /\ HashMatchesFrames
  /\ InvalidIsCleared
  /\ PinsKept
  /\ DirtyIsLive
  /\ ChangedIsPinned

IInv == TypeOK /\ PoolOK /\ FilesSound /\ CleanIsOnDisk

(***************************************************************************)
(* The files fs are sound with the pages L in use; and gs has the pages of *)
(* L as fs has them.                                                       *)
(***************************************************************************)
PagesIn(L, f) == {p \in Pages : <<f, p>> \in L}

FilesOK(fs, L) ==
  /\ fs \in [Files -> FileStates]
  /\ \A f \in Files : FileSound(fs[f], PagesIn(L, f))

OnDisk(fs, k) == fs[k[1]].page[k[2]]

SamePages(fs, gs, L) == \A k \in L : OnDisk(gs, k) = OnDisk(fs, k)

-----------------------------------------------------------------------------
\* A key is a pair of a file and a page.
LEMMA KeyParts ==
  ASSUME NEW k \in Keys
  PROVE  /\ k[1] \in Files /\ k[2] \in Pages /\ k = <<k[1], k[2]>>
         /\ k # NoKey
         /\ \A f \in Files, p \in Pages :
              /\ <<f, p>> \in Keys
              /\ <<f, p>>[1] = f /\ <<f, p>>[2] = p
              /\ k = <<f, p>> <=> k[1] = f /\ k[2] = p
BY FilesAssumption DEF Keys, NoKey

\* A free frame keeps the files sound: the page it held is written back to a
\* page in use.
LEMMA WriteBackOK ==
  ASSUME NEW fs, NEW L \in SUBSET Keys, FilesOK(fs, L), NEW i \in Frames,
         bufPool[i] \in Contents, MustWrite(i) => tag[i] \in L
  PROVE  /\ FilesOK(WrittenBack(fs, i), L)
         /\ \A k \in Keys : OnDisk(WrittenBack(fs, i), k) =
              IF MustWrite(i) /\ k = tag[i] THEN bufPool[i] ELSE OnDisk(fs, k)
<1> DEFINE gs == WrittenBack(fs, i)
           f == tag[i][1]
           p == tag[i][2]
           t == Written(fs[f], p, bufPool[i])
<1>1. CASE ~MustWrite(i)
  BY <1>1 DEF WrittenBack
<1>2. CASE MustWrite(i)
  <2>1. /\ tag[i] \in L /\ tag[i] \in Keys
        /\ f \in Files /\ p \in Pages /\ tag[i] = <<f, p>>
    BY <1>2, KeyParts
  <2>2. gs = [fs EXCEPT ![f] = t]
    BY <1>2 DEF WrittenBack
  <2>3. fs[f] \in FileStates /\ FileSound(fs[f], PagesIn(L, f)) /\ p \in PagesIn(L, f)
    BY <2>1 DEF FilesOK, PagesIn
  <2>4. /\ t \in FileStates /\ FileSound(t, PagesIn(L, f))
        /\ t.page = [fs[f].page EXCEPT ![p] = bufPool[i]]
    BY <2>3, WriteSound
  <2>5. /\ gs \in [Files -> FileStates] /\ gs[f] = t
        /\ \A g \in Files : g # f => gs[g] = fs[g]
    <3> HIDE DEF t, gs
    <3> QED  BY <2>1, <2>2, <2>4 DEF FilesOK
  <2>6. FilesOK(gs, L)
    <3> HIDE DEF t, gs
    <3> QED  BY <2>4, <2>5 DEF FilesOK
  <2>7. ASSUME NEW k \in Keys
        PROVE  OnDisk(gs, k) = IF k = tag[i] THEN bufPool[i] ELSE OnDisk(fs, k)
    <3>1. k[1] \in Files /\ k[2] \in Pages /\ (k = tag[i] <=> k[1] = f /\ k[2] = p)
      BY <2>1, KeyParts
    <3>2. fs[f].page \in [Pages -> Contents]
      BY <2>3 DEF FileStates
    <3> HIDE DEF t, gs, f, p
    <3>3. CASE k[1] = f
      BY <2>4, <2>5, <3>1, <3>2, <3>3 DEF OnDisk
    <3>4. CASE k[1] # f
      BY <2>5, <3>1, <3>4 DEF OnDisk
    <3> QED  BY <3>3, <3>4
  <2> QED  BY <1>2, <2>6, <2>7
<1> QED
  BY <1>1, <1>2

\* Replacing the state of one file concerns the pages of that file.
LEMMA ReplaceFile ==
  ASSUME NEW fs \in [Files -> FileStates], NEW L \in SUBSET Keys,
         NEW M \in SUBSET Keys, NEW f \in Files, NEW t \in FileStates,
         FilesOK(fs, L),
         FileSound(t, PagesIn(M, f)),
         \A g \in Files : g # f => PagesIn(M, g) = PagesIn(L, g)
  PROVE  /\ FilesOK([fs EXCEPT ![f] = t], M)
         /\ \A K \in SUBSET Keys :
              (\A p \in PagesIn(K, f) : t.page[p] = fs[f].page[p])
              => SamePages(fs, [fs EXCEPT ![f] = t], K)
<1> DEFINE gs == [fs EXCEPT ![f] = t]
<1>1. /\ gs \in [Files -> FileStates] /\ gs[f] = t
      /\ \A g \in Files : g # f => gs[g] = fs[g]
  OBVIOUS
<1>2. FilesOK(gs, M)
  <2> HIDE DEF gs
  <2> QED  BY <1>1 DEF FilesOK
<1>3. ASSUME NEW K \in SUBSET Keys,
             \A p \in PagesIn(K, f) : t.page[p] = fs[f].page[p],
             NEW k \in K
      PROVE  OnDisk(gs, k) = OnDisk(fs, k)
  <2>1. k[1] \in Files /\ k[2] \in PagesIn(K, k[1])
    BY KeyParts DEF PagesIn
  <2> HIDE DEF gs
  <2> QED  BY <1>1, <1>3, <2>1 DEF OnDisk
<1> QED
  BY <1>2, <1>3 DEF SamePages

\* file->allocatePage in one of the files.
LEMMA AllocateOK ==
  ASSUME NEW fs, NEW L \in SUBSET Keys, FilesOK(fs, L),
         NEW f \in Files, NEW a \in Allocations(fs[f])
  PROVE  LET gs == [fs EXCEPT ![f] = a.file]
             k  == <<f, a.pageNo>> IN
         /\ FilesOK(gs, L)
         /\ SamePages(fs, gs, L)
         /\ a.status \in {"OK", "UNIXERR"}
         /\ a.status = "OK" => /\ a.pageNo \in Pages
                               /\ k \in Keys \ L
                               /\ FilesOK(gs, L \cup {k})
<1> DEFINE gs == [fs EXCEPT ![f] = a.file]
           k  == <<f, a.pageNo>>
           s  == fs[f]
           P  == PagesIn(L, f)
<1>1. fs \in [Files -> FileStates] /\ s \in FileStates /\ FileSound(s, P)
  BY DEF FilesOK
<1>2. /\ a.status \in {"OK", "UNIXERR"}
      /\ a.file \in FileStates
      /\ FileSound(a.file, P)
      /\ \A p \in P : a.file.page[p] = s.page[p]
      /\ a.status = "OK" => /\ a.pageNo \in Pages \ P
                            /\ FileSound(a.file, P \cup {a.pageNo})
  <2>1. a \in Allocations(s)
    OBVIOUS
  <2> HIDE DEF s, P
  <2> QED  BY <1>1, <2>1, AllocationSound
<1>3. FilesOK(gs, L) /\ SamePages(fs, gs, L)
  BY <1>1, <1>2, ReplaceFile
<1>4. ASSUME a.status = "OK"
      PROVE  a.pageNo \in Pages /\ k \in Keys \ L /\ FilesOK(gs, L \cup {k})
  <2>1. a.pageNo \in Pages /\ k \in Keys /\ k \notin L
    BY <1>2, <1>4 DEF PagesIn, Keys
  <2>2. PagesIn(L \cup {k}, f) = P \cup {a.pageNo}
    BY <2>1 DEF PagesIn
  <2>3. FileSound(a.file, PagesIn(L \cup {k}, f))
    BY <1>2, <1>4, <2>2
  <2>4. \A g \in Files : g # f => PagesIn(L \cup {k}, g) = PagesIn(L, g)
    BY <2>1 DEF PagesIn
  <2>5. L \cup {k} \in SUBSET Keys
    BY <2>1
  <2> HIDE DEF k
  <2> QED  BY <1>1, <1>2, <2>1, <2>3, <2>4, <2>5, ReplaceFile
<1> QED
  BY <1>2, <1>3, <1>4

\* file->disposePage in one of the files, of a page p in use.
LEMMA DisposeOK ==
  ASSUME NEW fs, NEW L \in SUBSET Keys, FilesOK(fs, L),
         NEW f \in Files, NEW p \in Pages, <<f, p>> \in L,
         NEW d \in Disposals(fs[f], p)
  PROVE  LET gs == [fs EXCEPT ![f] = d.file]
             k  == <<f, p>> IN
         /\ d.status \in {"OK", "UNIXERR", "BADPAGENO"}
         /\ FilesOK(gs, L \ {k})
         /\ d.status # "OK" => FilesOK(gs, L)
         /\ SamePages(fs, gs, L \ {k})
<1> DEFINE gs == [fs EXCEPT ![f] = d.file]
           k  == <<f, p>>
           s  == fs[f]
           P  == PagesIn(L, f)
           N  == L \ {k}
<1>1. /\ k \in Keys /\ N \in SUBSET Keys /\ p \in P
      /\ PagesIn(N, f) = P \ {p}
      /\ \A g \in Files : g # f => PagesIn(N, g) = PagesIn(L, g)
  BY DEF Keys, PagesIn
<1>2. /\ fs \in [Files -> FileStates] /\ s \in FileStates
      /\ FileSound(s, P)
  BY DEF FilesOK
<1>3. /\ d.status \in {"OK", "UNIXERR", "BADPAGENO"}
      /\ d.file \in FileStates
      /\ FileSound(d.file, P \ {p})
      /\ d.status # "OK" => FileSound(d.file, P)
      /\ \A q \in P \ {p} : d.file.page[q] = s.page[q]
  <2>1. d \in Disposals(s, p)
    OBVIOUS
  <2> HIDE DEF gs, k, s, P, N
  <2> QED  BY SMTT(30), <1>1, <1>2, <2>1, DisposalSound
<1>4. /\ FileSound(d.file, PagesIn(N, f))
      /\ \A q \in PagesIn(N, f) : d.file.page[q] = fs[f].page[q]
  BY <1>1, <1>3
<1>5. d.status # "OK" => FilesOK(gs, L)
  <2> HIDE DEF k, N
  <2> QED  BY <1>2, <1>3, ReplaceFile
<1> HIDE DEF k, N, P
<1>6. FilesOK(gs, N) /\ SamePages(fs, gs, N)
  BY <1>1, <1>2, <1>3, <1>4, ReplaceFile
<1> QED
  BY <1>3, <1>5, <1>6 DEF k, N

\* allocPage giving a page that the clients do not have back to its file.
LEMMA GiveBackOK ==
  ASSUME NEW fs, NEW L \in SUBSET Keys, NEW f \in Files, NEW p \in Pages,
         <<f, p>> \notin L, FilesOK(fs, L \cup {<<f, p>>}),
         NEW gs \in GivenBack(fs, f, p)
  PROVE  FilesOK(gs, L) /\ SamePages(fs, gs, L)
<1> DEFINE k == <<f, p>>
           M == L \cup {k}
<1>1. PICK d \in Disposals(fs[f], p) : gs = [fs EXCEPT ![f] = d.file]
  BY DEF GivenBack
<1>2. M \in SUBSET Keys /\ k \in M /\ M \ {k} = L
  BY DEF Keys
<1>3. FilesOK(fs, M)
  OBVIOUS
<1> HIDE DEF M
<1>4. FilesOK(gs, M \ {k}) /\ SamePages(fs, gs, M \ {k})
  BY <1>1, <1>2, <1>3, DisposeOK
<1> QED
  BY <1>2, <1>4

-----------------------------------------------------------------------------
(***************************************************************************)
(* What allocBuf does to the pool: it stops at a frame that nobody has     *)
(* pinned, and what it did to the reference bits is of no consequence.     *)
(***************************************************************************)
LEMMA VictimIsFree ==
  ASSUME TypeOK, InvalidIsCleared, NEW i \in Frames, AllocBufStops(i)
  PROVE  pinCnt[i] = 0
BY DEF AllocBufStops, StopsAt, FirstOf, TakableFrames, SecondChanceFrames,
       Takable, SecondChance, InvalidIsCleared

LEMMA RefbitsType ==
  ASSUME NEW i \in Frames
  PROVE  RefbitAfter(clockHand, valid, pinCnt, refbit, i) \in [Frames -> BOOLEAN]
BY DEF RefbitAfter

\* Frame i is given to page k, whatever becomes of the reference bits.
GivenTo(i, k) ==
  /\ tag' = [tag EXCEPT ![i] = k]
  /\ pinCnt' = [pinCnt EXCEPT ![i] = 1]
  /\ dirty' = [dirty EXCEPT ![i] = FALSE]
  /\ valid' = [valid EXCEPT ![i] = TRUE]
  /\ refbit' \in [Frames -> BOOLEAN]

LEMMA SetGives ==
  ASSUME NEW i \in Frames, NEW k, SetTo(i, k)
  PROVE  GivenTo(i, k)
BY RefbitsType DEF SetTo, GivenTo

\* A page that is not in the hash table is not pinned.
LEMMA MissedIsUnpinned ==
  ASSUME TypeOK, PinsKept, NEW k \in Keys, hashTable[k] = NoFrame
  PROVE  held[k] = 0
BY DEF TypeOK, PinsKept, NoFrame, Frames

\* The hash table without the page of frame i.
LEMMA HashWithoutIs ==
  ASSUME TypeOK, HashMatchesFrames, NEW i \in Frames
  PROVE  /\ HashWithout(i) \in [Keys -> Frames \cup {NoFrame}]
         /\ \A k \in Keys : HashWithout(i)[k] =
              IF hashTable[k] = i THEN NoFrame ELSE hashTable[k]
         /\ \A k \in Keys : HashWithout(i)[k] # i
<1>1. NoFrame \notin Frames
  BY NumBufsAssumption DEF NoFrame, Frames
<1> QED
  BY <1>1 DEF HashWithout, TypeOK, HashMatchesFrames

\* Clearing a frame nobody has pinned keeps the pool consistent.
LEMMA ClearingOK ==
  ASSUME TypeOK, PoolOK, NEW i \in Frames, pinCnt[i] = 0,
         Cleared(i), hashTable' = HashWithout(i), UNCHANGED clients
  PROVE  PoolOK'
<1> USE DEF TypeOK, PoolOK
<1>0. NoFrame \notin Frames /\ live' = live /\ held' = held /\ ptr' = ptr
      /\ changed' = changed
  BY NumBufsAssumption DEF NoFrame, Frames, clients
<1>1. /\ \A j \in Frames : j # i => /\ tag'[j] = tag[j] /\ valid'[j] = valid[j]
                                    /\ pinCnt'[j] = pinCnt[j] /\ dirty'[j] = dirty[j]
      /\ tag'[i] = NoKey /\ valid'[i] = FALSE /\ pinCnt'[i] = 0 /\ dirty'[i] = FALSE
  BY DEF Cleared
<1>2. \A k \in Keys : /\ hashTable'[k] = IF hashTable[k] = i THEN NoFrame
                                                              ELSE hashTable[k]
                      /\ hashTable[k] \in Frames \cup {NoFrame}
  BY HashWithoutIs
<1>3. HashMatchesFrames'
  BY <1>0, <1>1, <1>2 DEF HashMatchesFrames
<1>4. InvalidIsCleared'
  BY <1>1 DEF InvalidIsCleared
<1>5. PinsKept'
  BY <1>0, <1>1, <1>2 DEF PinsKept
<1>6. DirtyIsLive'
  BY <1>0, <1>1 DEF DirtyIsLive
<1>7. ChangedIsPinned'
  BY <1>0 DEF ChangedIsPinned
<1> QED
  BY <1>3, <1>4, <1>5, <1>6, <1>7

\* Putting a page that is not in the pool into a frame that nobody has pinned
\* keeps the pool consistent; the page may be new to the clients.
LEMMA SettingOK ==
  ASSUME TypeOK, PoolOK, NEW i \in Frames, pinCnt[i] = 0,
         NEW k \in Keys, HashWithout(i)[k] = NoFrame,
         GivenTo(i, k), hashTable' = [HashWithout(i) EXCEPT ![k] = i],
         Pinned(k, i),
         live \subseteq live',
         changed' = changed \/ (changed' = changed \cup {k} /\ k \in live')
  PROVE  PoolOK' /\ held[k] = 0
<1> USE DEF TypeOK, PoolOK
<1>0. NoFrame \notin Frames
  BY NumBufsAssumption DEF NoFrame, Frames
<1>1. /\ \A j \in Frames : j # i => /\ tag'[j] = tag[j] /\ valid'[j] = valid[j]
                                    /\ pinCnt'[j] = pinCnt[j] /\ dirty'[j] = dirty[j]
      /\ tag'[i] = k /\ valid'[i] = TRUE /\ pinCnt'[i] = 1 /\ dirty'[i] = FALSE
  BY DEF GivenTo
<1>2. \A m \in Keys : hashTable[m] \in Frames \cup {NoFrame} /\ HashWithout(i)[m] # i
  BY HashWithoutIs
<1>3. \A m \in Keys : hashTable'[m] = IF m = k THEN i
                        ELSE IF hashTable[m] = i THEN NoFrame ELSE hashTable[m]
  BY HashWithoutIs
<1>4. hashTable[k] = NoFrame \/ hashTable[k] = i
  BY HashWithoutIs
<1>5. held[k] = 0
  BY <1>0, <1>4 DEF PinsKept
<1>6. /\ held' \in [Keys -> Int] /\ held'[k] = 1 /\ ptr'[k] = i
      /\ \A m \in Keys : m # k => held'[m] = held[m] /\ ptr'[m] = ptr[m]
  BY <1>5 DEF Pinned
<1>7. HashMatchesFrames'
  BY <1>0, <1>1, <1>3, <1>4 DEF HashMatchesFrames
<1>8. InvalidIsCleared'
  BY <1>1 DEF InvalidIsCleared
<1>9. PinsKept'
  BY <1>0, <1>1, <1>3, <1>4, <1>6 DEF PinsKept
<1>10. DirtyIsLive'
  BY <1>1 DEF DirtyIsLive
<1>11. ChangedIsPinned'
  BY <1>6 DEF ChangedIsPinned
<1> QED
  BY <1>5, <1>7, <1>8, <1>9, <1>10, <1>11

-----------------------------------------------------------------------------
\* FilesSound in the terms of the lemmas about the files.
LEMMA SoundIsOK == TypeOK => (FilesSound <=> FilesOK(file, live))
BY DEF TypeOK, FilesSound, FilesOK, PagesIn, LivePages

LEMMA SoundIsOKPrime == TypeOK' => (FilesSound' <=> FilesOK(file', live'))
BY DEF TypeOK, FilesSound, FilesOK, PagesIn, LivePages

\* The writes of flushFile, and of the destructor, to one file: each frame of
\* S that is dirty is written to its page, and nothing else.
LEMMA FlushedOK ==
  ASSUME IInv, NEW f \in Files, NEW S \in SUBSET Frames,
         \A i \in S : valid[i] /\ tag[i][1] = f
  PROVE  /\ Flushed(file[f], f, S) \in FileStates
         /\ FileSound(Flushed(file[f], f, S), LivePages(f))
         /\ \A p \in Pages :
              Flushed(file[f], f, S).page[p] =
                IF \E i \in S : dirty[i] /\ tag[i] = <<f, p>>
                  THEN bufPool[hashTable[<<f, p>>]] ELSE file[f].page[p]
<1> DEFINE s == file[f]
           writing(p) == {i \in S : dirty[i] /\ tag[i] = <<f, p>>}
           last(p) == CHOOSE i \in writing(p) : \A j \in writing(p) : j <= i
           content == [p \in Pages |-> IF writing(p) = {} THEN s.page[p]
                                       ELSE bufPool[last(p)]]
<1> USE DEF IInv
<1>1. ASSUME NEW p \in Pages, writing(p) # {}
      PROVE  last(p) \in S /\ dirty[last(p)] /\ tag[last(p)] = <<f, p>>
             /\ last(p) = hashTable[<<f, p>>]
  <2>1. \A i \in writing(p) : i \in Frames /\ i = hashTable[<<f, p>>]
    BY DEF PoolOK, HashMatchesFrames
  <2>2. \A i, j \in writing(p) : j <= i
    BY <2>1 DEF Frames
  <2>3. last(p) \in writing(p)
    BY <1>1, <2>2
  <2> QED  BY <2>1, <2>3
<1>2. s \in FileStates /\ s.page \in [Pages -> Contents]
  BY DEF TypeOK, FileStates
<1>3. content \in [Pages -> Contents]
  <2>1. ASSUME NEW p \in Pages
        PROVE  (IF writing(p) = {} THEN s.page[p] ELSE bufPool[last(p)]) \in Contents
    BY <1>1, <1>2 DEF TypeOK
  <2> QED  BY <2>1
<1>4. \A p \in Pages \ LivePages(f) : content[p] = s.page[p]
  <2>1. ASSUME NEW p \in Pages, writing(p) # {}
        PROVE  p \in LivePages(f)
    BY <1>1, <2>1 DEF PoolOK, DirtyIsLive, LivePages
  <2> QED  BY <2>1
<1>5. FileSound(s, LivePages(f))
  BY DEF FilesSound
<1>6. Flushed(s, f, S) = [s EXCEPT !.page = content]
  BY DEF Flushed
<1>7. \A p \in Pages : content[p] =
        IF \E i \in S : dirty[i] /\ tag[i] = <<f, p>>
          THEN bufPool[hashTable[<<f, p>>]] ELSE s.page[p]
  <2> SUFFICES ASSUME NEW p \in Pages
               PROVE  content[p] =
                        IF \E i \in S : dirty[i] /\ tag[i] = <<f, p>>
                          THEN bufPool[hashTable[<<f, p>>]] ELSE s.page[p]
    OBVIOUS
  <2>1. writing(p) = {} <=> ~ \E i \in S : dirty[i] /\ tag[i] = <<f, p>>
    OBVIOUS
  <2>2. content[p] = IF writing(p) = {} THEN s.page[p] ELSE bufPool[last(p)]
    OBVIOUS
  <2>3. writing(p) # {} => last(p) = hashTable[<<f, p>>]
    BY <1>1
  <2> HIDE DEF content, writing, last, s
  <2> QED  BY <2>1, <2>2, <2>3
<1> HIDE DEF content, s
<1>8. LET t == [s EXCEPT !.page = content] IN
      t \in FileStates /\ t.page = content /\ FileSound(t, LivePages(f))
  BY <1>2, <1>3, <1>4, <1>5, LiveWritesSound
<1> QED
  BY <1>6, <1>7, <1>8 DEF s

-----------------------------------------------------------------------------
\* A pool that has just been made, and files that have just been created.
LEMMA InitIInv == Init => IInv
<1> SUFFICES ASSUME Init PROVE IInv
  OBVIOUS
<1>1. ZeroPage \in Contents
  BY DBPageType DEF ZeroPage
<1>2. Created \in FileStates
  BY <1>1 DEF Created, FileStates, NoPage
<1>3. FileSound(Created, {})
  <2>1. HeaderSound(Created) /\ FreeListIs(Created, {})
    BY MaxPageAssumption DEF HeaderSound, FreeListIs, Created
  <2> QED  BY <2>1 DEF FileSound
<1>4. TypeOK
  BY <1>1, <1>2, NumBufsAssumption, MaxPinsAssumption
  DEF Init, EmptyPool, TypeOK, Frames, Statuses
<1>5. PoolOK
  BY NumBufsAssumption DEF Init, EmptyPool, PoolOK, HashMatchesFrames,
     InvalidIsCleared, PinsKept, DirtyIsLive, ChangedIsPinned
<1>6. FilesSound
  <2>1. \A f \in Files : LivePages(f) = {}
    BY DEF Init, LivePages
  <2> QED  BY <1>3, <2>1 DEF Init, FilesSound
<1>7. CleanIsOnDisk
  BY DEF Init, EmptyPool, CleanIsOnDisk
<1> QED
  BY <1>4, <1>5, <1>6, <1>7 DEF IInv

\* When allocBuf fails, the pool is as it was but for the hand and the
\* reference bits.
PoolStays ==
  /\ UNCHANGED <<tag, pinCnt, dirty, valid, bufPool, hashTable>>
  /\ clockHand' \in Frames /\ refbit' \in [Frames -> BOOLEAN]

LEMMA AllocBufFailsOK ==
  ASSUME TypeOK, UNCHANGED pool \/ \E i \in Frames : AllocBufFails(i)
  PROVE  PoolStays
<1>1. UNCHANGED <<tag, pinCnt, dirty, valid, bufPool, hashTable>>
  BY DEF pool, AllocBufFails
<1>2. clockHand' \in Frames /\ refbit' \in [Frames -> BOOLEAN]
  BY RefbitsType DEF pool, AllocBufFails, HandAt, TypeOK
<1> QED
  BY <1>1, <1>2 DEF PoolStays

\* The files are as they were where the clients can see them, and so is the
\* pool: the clean frames still agree with the disk.
LEMMA CleanStays ==
  ASSUME TypeOK, CleanIsOnDisk, SamePages(file, file', live),
         UNCHANGED <<tag, dirty, valid, bufPool, live, changed>>
  PROVE  CleanIsOnDisk'
BY DEF CleanIsOnDisk, SamePages, OnDisk

\* A frame that has been freed, whose page was written back if it was dirty:
\* the frames that stay clean agree with the disk.
LEMMA CleanAfterFree ==
  ASSUME TypeOK, PoolOK, CleanIsOnDisk, NEW i \in Frames,
         NEW fs, SamePages(file, fs, live), SamePages(WrittenBack(fs, i), file', live),
         \A k \in Keys : OnDisk(WrittenBack(fs, i), k) =
            IF MustWrite(i) /\ k = tag[i] THEN bufPool[i] ELSE OnDisk(fs, k),
         \A j \in Frames : j # i =>
            /\ tag'[j] = tag[j] /\ dirty'[j] = dirty[j] /\ valid'[j] = valid[j]
            /\ bufPool'[j] = bufPool[j],
         \A k \in live' \ changed' : k \in live \ changed \/ \A j \in Frames \ {i} :
            valid[j] => tag[j] # k,
         valid'[i] /\ tag'[i] \in live' \ changed' =>
            bufPool'[i] = OnDisk(file', tag'[i])
  PROVE  CleanIsOnDisk'
<1> SUFFICES ASSUME NEW j \in Frames, valid'[j], ~dirty'[j],
                    tag'[j] \in live' \ changed'
             PROVE  bufPool'[j] = OnDisk(file', tag'[j])
  BY DEF CleanIsOnDisk, OnDisk
<1>1. CASE j = i
  BY <1>1
<1>2. CASE j # i
  <2>1. /\ valid[j] /\ ~dirty[j] /\ tag'[j] = tag[j] /\ bufPool'[j] = bufPool[j]
        /\ tag[j] \in live \ changed
    BY <1>2
  <2>2. bufPool[j] = OnDisk(file, tag[j])
    BY <2>1 DEF CleanIsOnDisk, OnDisk
  <2>3. tag[j] \in Keys /\ (MustWrite(i) => tag[j] # tag[i])
    BY <1>2, <2>1 DEF PoolOK, HashMatchesFrames, MustWrite
  <2>4. OnDisk(WrittenBack(fs, i), tag[j]) = OnDisk(fs, tag[j])
    BY <2>3
  <2>5. OnDisk(file', tag[j]) = OnDisk(file, tag[j])
    BY <2>1, <2>4 DEF SamePages
  <2> QED  BY <2>1, <2>2, <2>5
<1> QED
  BY <1>1, <1>2

-----------------------------------------------------------------------------
(***************************************************************************)
(* Every call keeps the inductive invariant.                               *)
(***************************************************************************)
\* The entry of a page in the hash table, and the frame it leads to.
LEMMA EntryIs ==
  ASSUME TypeOK, PoolOK, NEW k \in Keys, hashTable[k] # NoFrame
  PROVE  /\ hashTable[k] \in Frames
         /\ valid[hashTable[k]] /\ tag[hashTable[k]] = k
         /\ pinCnt[hashTable[k]] = held[k]
         /\ \A m \in Keys : m # k => hashTable[m] # hashTable[k]
BY DEF TypeOK, PoolOK, HashMatchesFrames, PinsKept

\* A call that changes nothing but the status.
LEMMA StatusOnly ==
  ASSUME IInv, UNCHANGED <<file, pool, clients>>, status' \in Statuses
  PROVE  IInv'
BY DEF IInv, TypeOK, PoolOK, HashMatchesFrames, InvalidIsCleared, PinsKept,
       DirtyIsLive, ChangedIsPinned, FilesSound, LivePages, CleanIsOnDisk,
       pool, clients

LEMMA ReadPageHitIInv ==
  ASSUME IInv, NEW k \in Keys, ReadPageHit(k)
  PROVE  IInv'
<1> DEFINE i == hashTable[k]
<1> USE DEF IInv
<1>1. /\ i \in Frames /\ valid[i] /\ tag[i] = k /\ pinCnt[i] = held[k]
      /\ \A m \in Keys : m # k => hashTable[m] # i
  BY EntryIs DEF ReadPageHit
<1>2. /\ held' = [held EXCEPT ![k] = @ + 1] /\ ptr' = [ptr EXCEPT ![k] = i]
      /\ pinCnt' = [pinCnt EXCEPT ![i] = @ + 1] /\ held[k] < MaxPins
      /\ refbit' = [refbit EXCEPT ![i] = TRUE] /\ status' = "OK" /\ i # NoFrame
      /\ UNCHANGED <<file, clockHand, tag, dirty, valid, bufPool, hashTable,
                     live, changed>>
  BY DEF ReadPageHit, Pinned
<1>3. TypeOK'
  BY <1>1, <1>2, MaxPinsAssumption DEF TypeOK, Statuses
<1>4. PoolOK'
  <2>1. HashMatchesFrames' /\ InvalidIsCleared' /\ DirtyIsLive'
    BY <1>1, <1>2 DEF TypeOK, PoolOK, HashMatchesFrames, InvalidIsCleared,
       DirtyIsLive
  <2>2. PinsKept'
    BY <1>1, <1>2 DEF TypeOK, PoolOK, PinsKept
  <2>3. ChangedIsPinned'
    BY <1>2 DEF TypeOK, PoolOK, ChangedIsPinned
  <2> QED  BY <2>1, <2>2, <2>3 DEF PoolOK
<1>5. FilesSound' /\ CleanIsOnDisk'
  BY <1>2 DEF FilesSound, LivePages, CleanIsOnDisk
<1> QED
  BY <1>3, <1>4, <1>5

\* allocBuf fails in a call that has changed the files where no page in use is.
LEMMA NoFrameIInv ==
  ASSUME IInv, UNCHANGED clients, PoolStays,
         FilesOK(file', live), SamePages(file, file', live), status' \in Statuses
  PROVE  IInv'
<1> USE DEF IInv
<1>1. /\ UNCHANGED <<tag, pinCnt, dirty, valid, bufPool, hashTable>>
      /\ clockHand' \in Frames /\ refbit' \in [Frames -> BOOLEAN]
  BY DEF PoolStays
<1>2. UNCHANGED <<live, held, ptr, changed>>
  BY DEF clients
<1>3. TypeOK'
  BY <1>1, <1>2 DEF TypeOK, FilesOK
<1>4. PoolOK'
  BY <1>1, <1>2 DEF PoolOK, HashMatchesFrames, InvalidIsCleared, PinsKept,
     DirtyIsLive, ChangedIsPinned
<1>5. FilesSound'
  BY <1>2, <1>3, SoundIsOKPrime
<1>6. CleanIsOnDisk'
  BY <1>1, <1>2, CleanStays
<1> QED
  BY <1>3, <1>4, <1>5, <1>6

\* The files as they are.
LEMMA FilesAreOK ==
  ASSUME IInv
  PROVE  FilesOK(file, live) /\ live \in SUBSET Keys /\ file \in [Files -> FileStates]
BY SoundIsOK DEF IInv, TypeOK

\* A frame that is written back holds a page in use.
LEMMA WrittenBackIsLive ==
  ASSUME IInv, NEW i \in Frames
  PROVE  bufPool[i] \in Contents /\ (MustWrite(i) => tag[i] \in live)
BY DEF IInv, TypeOK, PoolOK, DirtyIsLive, MustWrite

\* A call that frees a frame and leaves it empty.
LEMMA FreedIInv ==
  ASSUME IInv, NEW i \in Frames, pinCnt[i] = 0, Cleared(i),
         hashTable' = HashWithout(i), clockHand' = i,
         refbit' \in [Frames -> BOOLEAN], UNCHANGED <<bufPool, clients>>,
         NEW fs, SamePages(file, fs, live), SamePages(WrittenBack(fs, i), file', live),
         \A k \in Keys : OnDisk(WrittenBack(fs, i), k) =
            IF MustWrite(i) /\ k = tag[i] THEN bufPool[i] ELSE OnDisk(fs, k),
         FilesOK(file', live), status' \in Statuses
  PROVE  IInv'
<1>0. TypeOK /\ PoolOK /\ FilesSound /\ CleanIsOnDisk
  BY DEF IInv
<1>1. UNCHANGED <<live, held, ptr, changed>>
  BY DEF clients
<1>3. PoolOK'
  BY <1>0, ClearingOK
<1>4. TypeOK'
  <2>1. hashTable' \in [Keys -> Frames \cup {NoFrame}]
    BY <1>0, HashWithoutIs DEF PoolOK
  <2>2. /\ tag' \in [Frames -> Keys \cup {NoKey}]
        /\ pinCnt' \in [Frames -> 0..MaxPins]
        /\ dirty' \in [Frames -> BOOLEAN] /\ valid' \in [Frames -> BOOLEAN]
    BY <1>0, MaxPinsAssumption DEF TypeOK, Cleared
  <2> QED  BY <1>0, <1>1, <2>1, <2>2 DEF TypeOK, FilesOK
<1>5. FilesSound'
  BY <1>1, <1>4, SoundIsOKPrime
<1>6. /\ \A j \in Frames : j # i =>
            /\ tag'[j] = tag[j] /\ dirty'[j] = dirty[j] /\ valid'[j] = valid[j]
            /\ bufPool'[j] = bufPool[j]
      /\ ~valid'[i]
  BY <1>0 DEF Cleared, TypeOK
<1>7. \A k \in live' \ changed' : k \in live \ changed
  BY <1>1
<1>8. CleanIsOnDisk'
  BY <1>0, <1>6, <1>7, CleanAfterFree
<1> QED
  BY <1>3, <1>4, <1>5, <1>8 DEF IInv

\* A call that frees a frame and puts page k into it.
LEMMA FilledIInv ==
  ASSUME IInv, NEW i \in Frames, pinCnt[i] = 0, NEW k \in Keys,
         HashWithout(i)[k] = NoFrame, GivenTo(i, k), clockHand' = i,
         hashTable' = [HashWithout(i) EXCEPT ![k] = i], Pinned(k, i),
         \/ live' = live /\ changed' = changed
         \/ live' = live \cup {k} /\ changed' = changed \cup {k},
         bufPool' \in [Frames -> Contents],
         \A j \in Frames : j # i => bufPool'[j] = bufPool[j],
         k \in live' \ changed' => bufPool'[i] = OnDisk(file', k),
         NEW fs, SamePages(file, fs, live), SamePages(WrittenBack(fs, i), file', live),
         \A m \in Keys : OnDisk(WrittenBack(fs, i), m) =
            IF MustWrite(i) /\ m = tag[i] THEN bufPool[i] ELSE OnDisk(fs, m),
         FilesOK(file', live'), status' \in Statuses
  PROVE  IInv'
<1>0. TypeOK /\ PoolOK /\ FilesSound /\ CleanIsOnDisk
  BY DEF IInv
<1>2. live \subseteq live' /\ (changed' = changed \/ (changed' = changed \cup {k} /\ k \in live'))
  OBVIOUS
<1>3. PoolOK' /\ held[k] = 0
  BY <1>0, <1>2, SettingOK
<1>4. TypeOK'
  <2>1. hashTable' \in [Keys -> Frames \cup {NoFrame}]
    BY <1>0, HashWithoutIs DEF PoolOK
  <2>2. /\ tag' \in [Frames -> Keys \cup {NoKey}]
        /\ pinCnt' \in [Frames -> 0..MaxPins]
        /\ dirty' \in [Frames -> BOOLEAN] /\ valid' \in [Frames -> BOOLEAN]
    BY <1>0, MaxPinsAssumption DEF TypeOK, GivenTo
  <2>3. refbit' \in [Frames -> BOOLEAN]
    BY DEF GivenTo
  <2>4. held' \in [Keys -> 0..MaxPins] /\ ptr' \in [Keys -> Frames \cup {NoFrame}]
    BY <1>0, <1>3, MaxPinsAssumption DEF TypeOK, Pinned
  <2>5. live' \in SUBSET Keys /\ changed' \in SUBSET Keys
    BY <1>0 DEF TypeOK
  <2> QED  BY <1>0, <2>1, <2>2, <2>3, <2>4, <2>5 DEF TypeOK, FilesOK
<1>5. FilesSound'
  BY <1>4, SoundIsOKPrime
<1>6. /\ \A j \in Frames : j # i =>
            /\ tag'[j] = tag[j] /\ dirty'[j] = dirty[j] /\ valid'[j] = valid[j]
            /\ bufPool'[j] = bufPool[j]
      /\ tag'[i] = k
  BY <1>0 DEF GivenTo, TypeOK
<1>7. \A j \in Frames \ {i} : valid[j] => tag[j] # k
  BY <1>0, HashWithoutIs DEF PoolOK, HashMatchesFrames, Frames, NoFrame
<1>8. \A m \in live' \ changed' : m \in live \ changed \/ m = k
  OBVIOUS
<1>9. \A m \in live' \ changed' : m \in live \ changed \/ \A j \in Frames \ {i} :
            valid[j] => tag[j] # m
  BY <1>7, <1>8
<1>10. valid'[i] /\ tag'[i] \in live' \ changed' => bufPool'[i] = OnDisk(file', tag'[i])
  BY <1>6
<1>11. CleanIsOnDisk'
  BY <1>0, <1>6, <1>9, <1>10, CleanAfterFree
<1> QED
  BY <1>3, <1>4, <1>5, <1>11 DEF IInv

\* The files when a frame is freed for a page that is read: no page but that of
\* the frame is written.
LEMMA FreedForRead ==
  ASSUME IInv, NEW i \in Frames, file' = WrittenBack(file, i)
  PROVE  /\ FilesOK(file', live)
         /\ SamePages(file, file, live)
         /\ SamePages(WrittenBack(file, i), file', live)
         /\ \A m \in Keys : OnDisk(WrittenBack(file, i), m) =
              IF MustWrite(i) /\ m = tag[i] THEN bufPool[i] ELSE OnDisk(file, m)
<1>1. FilesOK(file, live) /\ live \in SUBSET Keys
  BY FilesAreOK
<1>2. SamePages(file, file, live) /\ SamePages(WrittenBack(file, i), file', live)
  BY DEF SamePages
<1> QED
  BY <1>1, <1>2, WrittenBackIsLive, WriteBackOK

\* A page that is not in the pool is read into a frame that has been freed.
ReadInto(i, k) ==
  /\ hashTable[k] = NoFrame /\ pinCnt[i] = 0
  /\ GivenTo(i, k) /\ clockHand' = i
  /\ file' = WrittenBack(file, i)
  /\ bufPool' = [bufPool EXCEPT ![i] = file'[k[1]].page[k[2]]]
  /\ hashTable' = [HashWithout(i) EXCEPT ![k] = i]
  /\ Pinned(k, i)
  /\ status' = "OK"
  /\ UNCHANGED <<live, changed>>

LEMMA ReadIntoIInv ==
  ASSUME IInv, NEW k \in Keys, NEW i \in Frames, ReadInto(i, k)
  PROVE  IInv'
<1>0. TypeOK /\ PoolOK
  BY DEF IInv
<1>1. /\ pinCnt[i] = 0 /\ file' = WrittenBack(file, i) /\ GivenTo(i, k)
      /\ hashTable[k] = NoFrame
      /\ hashTable' = [HashWithout(i) EXCEPT ![k] = i] /\ clockHand' = i
      /\ bufPool' = [bufPool EXCEPT ![i] = file'[k[1]].page[k[2]]]
      /\ Pinned(k, i) /\ live' = live /\ changed' = changed
      /\ status' \in Statuses
  BY DEF ReadInto, Statuses
<1>2. HashWithout(i)[k] = NoFrame
  BY <1>0, <1>1, HashWithoutIs DEF PoolOK
<1>3. /\ FilesOK(file', live)
      /\ SamePages(file, file, live)
      /\ SamePages(WrittenBack(file, i), file', live)
      /\ \A m \in Keys : OnDisk(WrittenBack(file, i), m) =
           IF MustWrite(i) /\ m = tag[i] THEN bufPool[i] ELSE OnDisk(file, m)
  BY <1>1, FreedForRead
<1>4. file'[k[1]].page[k[2]] \in Contents
  BY <1>3, KeyParts DEF FilesOK, FileStates
<1>5. /\ bufPool' \in [Frames -> Contents]
      /\ \A j \in Frames : j # i => bufPool'[j] = bufPool[j]
      /\ bufPool'[i] = OnDisk(file', k)
  BY <1>0, <1>1, <1>4 DEF TypeOK, OnDisk
<1>6. FilesOK(file', live')
  BY <1>1, <1>3
<1>7. \/ live' = live /\ changed' = changed
      \/ live' = live \cup {k} /\ changed' = changed \cup {k}
  BY <1>1
<1> QED
  BY ZenonT(60), <1>1, <1>2, <1>3, <1>5, <1>6, <1>7, FilledIInv

LEMMA ReadPageIInv ==
  ASSUME IInv, NEW k \in Keys, ReadPage(k)
  PROVE  IInv'
<1>0. TypeOK /\ PoolOK /\ FilesOK(file, live) /\ live \in SUBSET Keys
      /\ file \in [Files -> FileStates]
  BY FilesAreOK DEF IInv
<1>1. CASE ReadPageHit(k)
  BY <1>1, ReadPageHitIInv
<1>2. CASE ReadPageExceeded(k)
  BY <1>2, StatusOnly DEF ReadPageExceeded, Statuses
<1>3. ASSUME NEW i \in Frames, ReadPageWriteFails(k, i)
      PROVE  IInv'
  <2>1. /\ UNCHANGED clients /\ PoolStays /\ file' = file
        /\ status' \in Statuses
    BY <1>0, <1>3, AllocBufFailsOK DEF ReadPageWriteFails, Statuses
  <2>2. FilesOK(file', live) /\ SamePages(file, file', live)
    BY <1>0, <2>1 DEF SamePages
  <2> QED  BY <2>1, <2>2, NoFrameIInv
<1>4. ASSUME NEW i \in Frames, ReadPageReadFails(k, i)
      PROVE  IInv'
  <2>1. /\ AllocBufStops(i) /\ file' = WrittenBack(file, i) /\ Cleared(i)
        /\ hashTable' = HashWithout(i) /\ clockHand' = i
        /\ refbit' \in [Frames -> BOOLEAN] /\ UNCHANGED <<bufPool, clients>>
        /\ status' \in Statuses
    BY <1>4, RefbitsType DEF ReadPageReadFails, HandAt, Statuses
  <2>2. pinCnt[i] = 0
    BY <1>0, <2>1, VictimIsFree DEF PoolOK
  <2> QED  BY <2>1, <2>2, FreedForRead, FreedIInv
<1>5. ASSUME NEW i \in Frames, ReadPageMiss(k, i)
      PROVE  IInv'
  <2>1. ReadInto(i, k)
    BY <1>0, <1>5, VictimIsFree, SetGives DEF ReadPageMiss, PoolOK, ReadInto
  <2> QED  BY <2>1, ReadIntoIInv
<1> QED
  BY <1>1, <1>2, <1>3, <1>4, <1>5 DEF ReadPage

LEMMA UnPinPageIInv ==
  ASSUME IInv, NEW k \in Keys, NEW d \in BOOLEAN, UnPinPage(k, d)
  PROVE  IInv'
<1> DEFINE i == hashTable[k]
<1> USE DEF IInv
<1>1. /\ held[k] > 0 /\ (d => k \in live) /\ (k \in changed => d \/ held[k] > 1)
      /\ i # NoFrame /\ pinCnt[i] > 0
      /\ pinCnt' = [pinCnt EXCEPT ![i] = @ - 1]
      /\ dirty' = [dirty EXCEPT ![i] = @ \/ d]
      /\ held' = [held EXCEPT ![k] = @ - 1]
      /\ ptr' = [ptr EXCEPT ![k] = IF held[k] = 1 THEN NoFrame ELSE @]
      /\ changed' = IF d THEN changed \ {k} ELSE changed
      /\ status' = "OK"
      /\ UNCHANGED <<file, clockHand, tag, valid, refbit, bufPool, hashTable, live>>
  BY DEF UnPinPage, DirtyAfter
<1>2. /\ i \in Frames /\ valid[i] /\ tag[i] = k /\ pinCnt[i] = held[k]
      /\ \A m \in Keys : m # k => hashTable[m] # i
  BY <1>1, EntryIs
<1>3. \A j \in Frames : j # i => /\ pinCnt'[j] = pinCnt[j] /\ dirty'[j] = dirty[j]
                                 /\ (valid[j] => tag[j] # k)
  BY <1>1 DEF TypeOK, PoolOK, HashMatchesFrames
<1>4. pinCnt'[i] = held[k] - 1 /\ dirty'[i] = (dirty[i] \/ d)
  BY <1>1, <1>2 DEF TypeOK
<1>5. TypeOK'
  <2>1. pinCnt' \in [Frames -> 0..MaxPins] /\ held' \in [Keys -> 0..MaxPins]
    BY <1>1, <1>2, MaxPinsAssumption DEF TypeOK
  <2>2. dirty' \in [Frames -> BOOLEAN]
    BY <1>1 DEF TypeOK
  <2> QED  BY <1>1, <2>1, <2>2 DEF TypeOK, Statuses
<1>6. HashMatchesFrames' /\ InvalidIsCleared'
  BY <1>1, <1>2, <1>3 DEF PoolOK, HashMatchesFrames, InvalidIsCleared
<1>7. PinsKept'
  <2>1. ASSUME NEW m \in Keys, m # k
        PROVE  IF held'[m] > 0
                 THEN /\ ptr'[m] # NoFrame /\ hashTable'[m] = ptr'[m]
                      /\ pinCnt'[ptr'[m]] = held'[m]
                 ELSE hashTable'[m] # NoFrame => pinCnt'[hashTable'[m]] = 0
    <3>1. held'[m] = held[m] /\ ptr'[m] = ptr[m] /\ hashTable'[m] = hashTable[m]
          /\ hashTable[m] # i
      BY <1>1, <1>2, <2>1 DEF TypeOK
    <3>2. hashTable[m] # NoFrame => pinCnt'[hashTable[m]] = pinCnt[hashTable[m]]
      BY <1>3, <3>1 DEF TypeOK
    <3> QED  BY <3>1, <3>2 DEF PoolOK, PinsKept
  <2>2. /\ held'[k] > 0 => ptr'[k] # NoFrame /\ hashTable'[k] = ptr'[k]
                           /\ pinCnt'[ptr'[k]] = held'[k]
        /\ ~(held'[k] > 0) => pinCnt'[hashTable'[k]] = 0
    <3>1. /\ ptr[k] = i /\ held'[k] = held[k] - 1 /\ held[k] \in 1..MaxPins
          /\ (held[k] # 1 => ptr'[k] = ptr[k]) /\ hashTable'[k] = i
      BY <1>1 DEF TypeOK, PoolOK, PinsKept
    <3>2. pinCnt'[i] = held'[k] /\ i # NoFrame
      BY <1>1, <1>4, <3>1
    <3>3. held'[k] > 0 => ptr'[k] = i
      BY <3>1
    <3>4. ~(held'[k] > 0) => held'[k] = 0
      BY <3>1
    <3> HIDE DEF i
    <3> QED  BY <3>1, <3>2, <3>3, <3>4
  <2> QED  BY <2>1, <2>2 DEF PinsKept
<1>8. DirtyIsLive'
  BY <1>1, <1>2, <1>3, <1>4 DEF PoolOK, DirtyIsLive
<1>9. ChangedIsPinned'
  <2>1. ASSUME NEW m \in changed'
        PROVE  m \in live' /\ held'[m] > 0
    <3>1. m \in changed /\ m \in Keys /\ (m = k => ~d /\ held[k] > 1)
      BY <1>1 DEF TypeOK
    <3> QED  BY <1>1, <3>1 DEF TypeOK, PoolOK, ChangedIsPinned
  <2> QED  BY <2>1 DEF ChangedIsPinned
<1>10. CleanIsOnDisk'
  <2>1. ASSUME NEW j \in Frames, valid'[j], ~dirty'[j], tag'[j] \in live' \ changed'
        PROVE  bufPool'[j] = file'[tag'[j][1]].page[tag'[j][2]]
    <3>1. ~dirty[j] /\ tag[j] \in live \ changed
      BY <1>1, <1>2, <1>3, <1>4, <2>1
    <3> QED  BY <1>1, <2>1, <3>1 DEF CleanIsOnDisk
  <2> QED  BY <2>1 DEF CleanIsOnDisk
<1>11. FilesSound'
  BY <1>1 DEF FilesSound, LivePages
<1> QED
  BY <1>5, <1>6, <1>7, <1>8, <1>9, <1>10, <1>11 DEF PoolOK

LEMMA WriteFrameIInv ==
  ASSUME IInv, NEW k \in Keys, NEW d \in Data, WriteFrame(k, d)
  PROVE  IInv'
<1> USE DEF IInv
<1>1. /\ k \in live /\ held[k] > 0
      /\ bufPool' = [bufPool EXCEPT ![ptr[k]] = d]
      /\ changed' = changed \cup {k}
      /\ UNCHANGED <<file, clockHand, tag, pinCnt, dirty, valid, refbit, hashTable,
                     live, held, ptr, status>>
  BY DEF WriteFrame
<1>2. ptr[k] \in Frames /\ ptr[k] = hashTable[k] /\ tag[ptr[k]] = k
  BY <1>1, EntryIs DEF PoolOK, PinsKept
<1>3. TypeOK'
  <2>1. bufPool' \in [Frames -> Contents]
    BY <1>1 DEF TypeOK, Contents
  <2> QED  BY <1>1, <2>1 DEF TypeOK
<1>4. PoolOK'
  BY <1>1 DEF PoolOK, HashMatchesFrames, InvalidIsCleared, PinsKept,
     DirtyIsLive, ChangedIsPinned
<1>5. FilesSound'
  BY <1>1 DEF FilesSound, LivePages
<1>6. CleanIsOnDisk'
  BY <1>1, <1>2 DEF TypeOK, CleanIsOnDisk
<1> QED
  BY <1>3, <1>4, <1>5, <1>6

\* A page the file has given is new to the clients; the files stay sound, with
\* it or without it, also when a frame is then written back.
LEMMA GivenPage ==
  ASSUME IInv, NEW f \in Files, NEW a \in Allocations(file[f])
  PROVE  LET fs == [file EXCEPT ![f] = a.file]
             k  == <<f, a.pageNo>> IN
         /\ FilesOK(fs, live) /\ SamePages(file, fs, live)
         /\ a.status \in {"OK", "UNIXERR"}
         /\ a.status = "OK" =>
              /\ k \in Keys /\ a.pageNo \in Pages /\ k \notin live
              /\ live \cup {k} \in SUBSET Keys
              /\ FilesOK(fs, live \cup {k})
<1>1. FilesOK(file, live) /\ live \in SUBSET Keys
  BY FilesAreOK
<1> QED
  BY ZenonT(60), <1>1, AllocateOK

LEMMA FreedForAlloc ==
  ASSUME IInv, NEW f \in Files, NEW a \in Allocations(file[f]), a.status = "OK",
         NEW i \in Frames
  PROVE  LET fs == [file EXCEPT ![f] = a.file]
             k  == <<f, a.pageNo>> IN
         /\ FilesOK(WrittenBack(fs, i), live \cup {k})
         /\ \A m \in Keys : OnDisk(WrittenBack(fs, i), m) =
              IF MustWrite(i) /\ m = tag[i] THEN bufPool[i] ELSE OnDisk(fs, m)
<1> DEFINE fs == [file EXCEPT ![f] = a.file]
           L  == live \cup {<<f, a.pageNo>>}
<1>1. FilesOK(fs, L) /\ L \in SUBSET Keys
  BY GivenPage
<1>2. bufPool[i] \in Contents /\ (MustWrite(i) => tag[i] \in L)
  BY WrittenBackIsLive
<1>3. /\ FilesOK(WrittenBack(fs, i), L)
      /\ \A m \in Keys : OnDisk(WrittenBack(fs, i), m) =
           IF MustWrite(i) /\ m = tag[i] THEN bufPool[i] ELSE OnDisk(fs, m)
  <2> HIDE DEF fs, L
  <2> QED  BY <1>1, <1>2, WriteBackOK
<1> QED
  BY <1>3

\* The page that the file has given gets a frame that has been freed.
AllocatedInto(f, i, a) ==
  LET k == <<f, a.pageNo>> IN
  /\ a.status = "OK" /\ pinCnt[i] = 0
  /\ GivenTo(i, k) /\ clockHand' = i
  /\ file' = WrittenBack([file EXCEPT ![f] = a.file], i)
  /\ HashWithout(i)[k] = NoFrame
  /\ hashTable' = [HashWithout(i) EXCEPT ![k] = i]
  /\ Pinned(k, i)
  /\ live' = live \cup {k} /\ changed' = changed \cup {k}
  /\ status' = "OK"
  /\ UNCHANGED bufPool

LEMMA AllocatedIntoIInv ==
  ASSUME IInv, NEW f \in Files, NEW a \in Allocations(file[f]), NEW i \in Frames,
         AllocatedInto(f, i, a)
  PROVE  IInv'
<1> DEFINE fs == [file EXCEPT ![f] = a.file]
           k  == <<f, a.pageNo>>
<1>1. /\ a.status = "OK"
      /\ pinCnt[i] = 0 /\ clockHand' = i /\ GivenTo(i, k)
      /\ file' = WrittenBack(fs, i)
      /\ HashWithout(i)[k] = NoFrame
      /\ hashTable' = [HashWithout(i) EXCEPT ![k] = i] /\ Pinned(k, i)
      /\ live' = live \cup {k} /\ changed' = changed \cup {k}
      /\ status' \in Statuses /\ bufPool' = bufPool
      /\ bufPool' \in [Frames -> Contents]
  BY DEF AllocatedInto, Statuses, IInv, TypeOK
<1>2. k \in Keys /\ SamePages(file, fs, live)
  BY <1>1, GivenPage
<1>3. /\ FilesOK(WrittenBack(fs, i), live \cup {k})
      /\ \A m \in Keys : OnDisk(WrittenBack(fs, i), m) =
           IF MustWrite(i) /\ m = tag[i] THEN bufPool[i] ELSE OnDisk(fs, m)
  BY <1>1, FreedForAlloc
<1> HIDE DEF fs, k
<1>4. FilesOK(file', live') /\ SamePages(WrittenBack(fs, i), file', live)
  BY <1>1, <1>3 DEF SamePages
<1>5. k \in live' \ changed' => bufPool'[i] = OnDisk(file', k)
  BY <1>1
<1> QED
  BY <1>1, <1>2, <1>3, <1>4, <1>5, FilledIInv

LEMMA AllocPageNoPageIInv ==
  ASSUME IInv, NEW f \in Files, AllocPageNoPage(f)
  PROVE  IInv'
<1>1. PICK a \in Allocations(file[f]) : /\ file' = [file EXCEPT ![f] = a.file]
                                        /\ status' = a.status
                                        /\ UNCHANGED <<pool, clients>>
  BY DEF AllocPageNoPage
<1>2. FilesOK(file', live) /\ SamePages(file, file', live) /\ status' \in Statuses
  BY <1>1, GivenPage DEF Statuses
<1>3. PoolStays
  BY <1>1, AllocBufFailsOK DEF IInv
<1> QED
  BY <1>1, <1>2, <1>3, NoFrameIInv

LEMMA AllocPageIInv ==
  ASSUME IInv, NEW f \in Files, AllocPage(f)
  PROVE  IInv'
<1>0. TypeOK /\ PoolOK /\ FilesOK(file, live) /\ live \in SUBSET Keys
      /\ file \in [Files -> FileStates]
  BY FilesAreOK DEF IInv
<1>1. CASE AllocPageNoPage(f)
  BY <1>1, AllocPageNoPageIInv
<1>2. CASE AllocPageNoFrame(f)
  <2>1. PICK a \in Allocations(file[f]) :
          /\ a.status = "OK"
          /\ file' \in GivenBack([file EXCEPT ![f] = a.file], f, a.pageNo)
          /\ UNCHANGED pool \/ \E i \in Frames : AllocBufFails(i)
          /\ UNCHANGED clients /\ status' \in Statuses
    BY <1>2 DEF AllocPageNoFrame, Statuses
  <2> DEFINE fs == [file EXCEPT ![f] = a.file]
             k  == <<f, a.pageNo>>
  <2>2. /\ a.pageNo \in Pages /\ k \notin live
        /\ FilesOK(fs, live \cup {k}) /\ SamePages(file, fs, live)
    BY <2>1, GivenPage
  <2>3. file' \in GivenBack(fs, f, a.pageNo)
    BY <2>1
  <2>4. FilesOK(file', live) /\ SamePages(fs, file', live)
    <3> HIDE DEF fs
    <3> QED  BY <1>0, <2>2, <2>3, GiveBackOK
  <2>5. SamePages(file, file', live)
    BY <2>2, <2>4 DEF SamePages
  <2>6. PoolStays
    BY <1>0, <2>1, AllocBufFailsOK
  <2> QED  BY <2>1, <2>4, <2>5, <2>6, NoFrameIInv
<1>3. ASSUME NEW i \in Frames, AllocPageOK(f, i)
      PROVE  IInv'
  <2>1. \E a \in Allocations(file[f]) : AllocatedInto(f, i, a)
    BY <1>0, <1>3, VictimIsFree, SetGives DEF AllocPageOK, PoolOK, AllocatedInto
  <2> QED  BY <2>1, AllocatedIntoIInv
<1>4. ASSUME NEW i \in Frames, AllocPageInsertFails(f, i)
      PROVE  IInv'
  <2>1. PICK a \in Allocations(file[f]) :
          /\ a.status = "OK" /\ AllocBufStops(i) /\ Cleared(i) /\ clockHand' = i
          /\ refbit' = [RefbitAfter(clockHand, valid, pinCnt, refbit, i)
                          EXCEPT ![i] = TRUE]
          /\ file' \in GivenBack(WrittenBack([file EXCEPT ![f] = a.file], i),
                                 f, a.pageNo)
          /\ hashTable' = HashWithout(i) /\ status' = "HASHTBLERROR"
          /\ UNCHANGED <<bufPool, clients>>
    BY <1>4 DEF AllocPageInsertFails
  <2> DEFINE fs == [file EXCEPT ![f] = a.file]
             k  == <<f, a.pageNo>>
             gs == WrittenBack(fs, i)
  <2>2. /\ a.pageNo \in Pages /\ k \notin live /\ SamePages(file, fs, live)
    BY <2>1, GivenPage
  <2>3. /\ FilesOK(gs, live \cup {k})
        /\ \A m \in Keys : OnDisk(gs, m) =
             IF MustWrite(i) /\ m = tag[i] THEN bufPool[i] ELSE OnDisk(fs, m)
    BY <2>1, FreedForAlloc
  <2>4. FilesOK(file', live) /\ SamePages(gs, file', live)
    <3>1. file' \in GivenBack(gs, f, a.pageNo)
      BY <2>1
    <3> HIDE DEF gs
    <3> QED  BY <1>0, <2>2, <2>3, <3>1, GiveBackOK
  <2>5. /\ pinCnt[i] = 0 /\ Cleared(i) /\ clockHand' = i
        /\ refbit' \in [Frames -> BOOLEAN]
        /\ hashTable' = HashWithout(i) /\ status' \in Statuses
        /\ UNCHANGED <<bufPool, clients>>
    BY <1>0, <2>1, RefbitsType, VictimIsFree DEF Statuses, PoolOK
  <2> HIDE DEF fs, k
  <2> QED  BY <2>2, <2>3, <2>4, <2>5, FreedIInv
<1> QED
  BY <1>1, <1>2, <1>3, <1>4 DEF AllocPage

LEMMA DisposePageIInv ==
  ASSUME IInv, NEW k \in Keys, DisposePage(k)
  PROVE  IInv'
<1> DEFINE i == hashTable[k]
<1> USE DEF IInv
<1>1. /\ k \in live /\ held[k] = 0
      /\ IF i = NoFrame THEN UNCHANGED <<tag, pinCnt, dirty, valid>> ELSE Cleared(i)
      /\ hashTable' = [hashTable EXCEPT ![k] = NoFrame]
      /\ UNCHANGED <<clockHand, refbit, bufPool, held, ptr, changed>>
  BY DEF DisposePage
<1>2. PICK d \in Disposals(file[k[1]], k[2]) :
        /\ file' = [file EXCEPT ![k[1]] = d.file]
        /\ status' = d.status
        /\ live' = IF d.status = "OK" THEN live \ {k} ELSE live
  BY DEF DisposePage
<1>3. /\ k[1] \in Files /\ k[2] \in Pages /\ <<k[1], k[2]>> = k
      /\ FilesOK(file, live) /\ live \in SUBSET Keys
  BY KeyParts, FilesAreOK
<1>4. /\ FilesOK(file', live') /\ SamePages(file, file', live \ {k})
      /\ status' \in Statuses
  <2>1. LET gs == [file EXCEPT ![k[1]] = d.file]
            m  == <<k[1], k[2]>> IN
        /\ d.status \in {"OK", "UNIXERR", "BADPAGENO"}
        /\ FilesOK(gs, live \ {m})
        /\ d.status # "OK" => FilesOK(gs, live)
        /\ SamePages(file, gs, live \ {m})
    BY <1>1, <1>3, DisposeOK
  <2>2. /\ d.status \in {"OK", "UNIXERR", "BADPAGENO"}
        /\ FilesOK(file', live \ {k})
        /\ d.status # "OK" => FilesOK(file', live)
        /\ SamePages(file, file', live \ {k})
    BY <1>2, <1>3, <2>1
  <2> QED  BY <1>2, <2>2 DEF Statuses
\* The pool: every frame but that of k, which has gone, is as it was.
<1>5. /\ \A j \in Frames : valid'[j] \in BOOLEAN /\ dirty'[j] \in BOOLEAN
      /\ \A j \in Frames : valid'[j] =>
           /\ valid[j] /\ tag[j] # k
           /\ tag'[j] = tag[j] /\ pinCnt'[j] = pinCnt[j] /\ dirty'[j] = dirty[j]
      /\ \A j \in Frames : ~valid'[j] => tag'[j] = NoKey /\ pinCnt'[j] = 0 /\ ~dirty'[j]
      /\ \A j \in Frames : valid[j] /\ tag[j] # k => valid'[j]
  <2>1. CASE i = NoFrame
    <3>1. \A j \in Frames : valid[j] => tag[j] # k
      BY <2>1, NumBufsAssumption DEF PoolOK, HashMatchesFrames, NoFrame, Frames
    <3> QED  BY <1>1, <2>1, <3>1 DEF TypeOK, PoolOK, InvalidIsCleared, DirtyIsLive
  <2>2. CASE i # NoFrame
    <3>1. i \in Frames /\ valid[i] /\ tag[i] = k
      BY <2>2, EntryIs
    <3>2. \A j \in Frames : valid[j] /\ j # i => tag[j] # k
      BY DEF PoolOK, HashMatchesFrames
    <3>3. /\ tag' = [tag EXCEPT ![i] = NoKey] /\ pinCnt' = [pinCnt EXCEPT ![i] = 0]
          /\ dirty' = [dirty EXCEPT ![i] = FALSE] /\ valid' = [valid EXCEPT ![i] = FALSE]
      BY <1>1, <2>2 DEF Cleared
    <3> QED  BY <3>1, <3>2, <3>3 DEF TypeOK, PoolOK, InvalidIsCleared, DirtyIsLive
  <2> QED  BY <2>1, <2>2
<1>6. TypeOK'
  <2>1. /\ tag' \in [Frames -> Keys \cup {NoKey}]
        /\ pinCnt' \in [Frames -> 0..MaxPins]
        /\ dirty' \in [Frames -> BOOLEAN] /\ valid' \in [Frames -> BOOLEAN]
    <3> HIDE DEF i
    <3>1. CASE i = NoFrame
      BY <1>1, <3>1 DEF TypeOK
    <3>2. CASE i # NoFrame
      <4>1. TypeOK /\ Cleared(i) /\ i \in Frames
        BY <1>1, <3>2, EntryIs DEF i
      <4> QED  BY <4>1, MaxPinsAssumption DEF TypeOK, Cleared
    <3> QED  BY <3>1, <3>2
  <2>2. live' \in SUBSET Keys
    BY <1>2, <1>3
  <2> QED  BY <1>1, <1>4, <2>1, <2>2 DEF TypeOK, FilesOK
<1>7. HashMatchesFrames'
  <2>1. \A m \in Keys : hashTable'[m] = IF m = k THEN NoFrame ELSE hashTable[m]
    BY <1>1 DEF TypeOK
  <2>2. NoFrame \notin Frames
    BY NumBufsAssumption DEF NoFrame, Frames
  <2>3. ASSUME NEW m \in Keys, hashTable'[m] # NoFrame
        PROVE  valid'[hashTable'[m]] /\ tag'[hashTable'[m]] = m
    BY <1>5, <2>1, <2>3, EntryIs
  <2>4. ASSUME NEW j \in Frames, valid'[j]
        PROVE  tag'[j] \in Keys /\ hashTable'[tag'[j]] = j
    BY <1>5, <2>1, <2>4 DEF PoolOK, HashMatchesFrames
  <2> QED  BY <2>3, <2>4 DEF HashMatchesFrames
<1>8. PinsKept'
  <2>1. ASSUME NEW m \in Keys, m # k
        PROVE  IF held'[m] > 0
                 THEN /\ ptr'[m] # NoFrame /\ hashTable'[m] = ptr'[m]
                      /\ pinCnt'[ptr'[m]] = held'[m]
                 ELSE hashTable'[m] # NoFrame => pinCnt'[hashTable'[m]] = 0
    <3>1. hashTable'[m] = hashTable[m] /\ held'[m] = held[m] /\ ptr'[m] = ptr[m]
      BY <1>1, <2>1 DEF TypeOK
    <3>2. hashTable[m] # NoFrame => pinCnt'[hashTable[m]] = pinCnt[hashTable[m]]
      BY <1>5, <2>1, EntryIs
    <3> QED  BY <3>1, <3>2 DEF PoolOK, PinsKept
  <2>2. held'[k] = 0 /\ hashTable'[k] = NoFrame
    BY <1>1 DEF TypeOK
  <2> QED  BY <2>1, <2>2 DEF PinsKept
<1>9. InvalidIsCleared' /\ DirtyIsLive'
  <2>1. \A j \in Frames : dirty'[j] => valid'[j] /\ tag'[j] \in live'
    BY <1>2, <1>5 DEF PoolOK, DirtyIsLive
  <2> QED  BY <1>5, <2>1 DEF InvalidIsCleared, DirtyIsLive
<1>10. ChangedIsPinned'
  BY <1>1, <1>2 DEF PoolOK, ChangedIsPinned
<1>11. CleanIsOnDisk'
  <2>1. ASSUME NEW j \in Frames, valid'[j], ~dirty'[j], tag'[j] \in live' \ changed'
        PROVE  bufPool'[j] = OnDisk(file', tag'[j])
    <3>1. /\ valid[j] /\ ~dirty[j] /\ tag'[j] = tag[j] /\ bufPool'[j] = bufPool[j]
          /\ tag[j] \in live \ changed /\ tag[j] # k
      BY <1>1, <1>2, <1>5, <2>1
    <3>2. bufPool[j] = OnDisk(file, tag[j])
      BY <3>1 DEF CleanIsOnDisk, OnDisk
    <3>3. OnDisk(file', tag[j]) = OnDisk(file, tag[j])
      BY <1>4, <3>1 DEF SamePages
    <3> QED  BY <3>1, <3>2, <3>3
  <2> QED  BY <2>1 DEF CleanIsOnDisk, OnDisk
<1>12. FilesSound'
  BY <1>4, <1>6, SoundIsOKPrime
<1> QED
  BY <1>6, <1>7, <1>8, <1>9, <1>10, <1>11, <1>12 DEF PoolOK

\* The frames before n that hold pages of f are written and dropped.
LEMMA FlushToIInv ==
  ASSUME IInv, NEW f \in Files, NEW n, FlushTo(f, n), status' \in Statuses
  PROVE  IInv'
<1> DEFINE S == {i \in FramesOf(f) : i < n}
           t == Flushed(file[f], f, S)
<1> USE DEF IInv
<1>1. /\ \A i \in S : valid[i] /\ pinCnt[i] <= 0
      /\ file' = [file EXCEPT ![f] = t]
      /\ hashTable' = [k \in Keys |-> IF \E i \in S : tag[i] = k
                                        THEN NoFrame ELSE hashTable[k]]
      /\ tag' = [i \in Frames |-> IF i \in S THEN NoKey ELSE tag[i]]
      /\ dirty' = [i \in Frames |-> dirty[i] /\ i \notin S]
      /\ valid' = [i \in Frames |-> valid[i] /\ i \notin S]
      /\ UNCHANGED <<clockHand, pinCnt, refbit, bufPool, live, held, ptr, changed>>
  BY DEF FlushTo, clients
<1>2. S \in SUBSET Frames /\ \A i \in S : valid[i] /\ tag[i][1] = f /\ pinCnt[i] = 0
  BY <1>1 DEF FramesOf, TypeOK
<1>3. /\ t \in FileStates
      /\ FileSound(t, LivePages(f))
      /\ \A p \in Pages : t.page[p] =
           IF \E i \in S : dirty[i] /\ tag[i] = <<f, p>>
             THEN bufPool[hashTable[<<f, p>>]] ELSE file[f].page[p]
  <2>1. S \in SUBSET Frames /\ \A i \in S : valid[i] /\ tag[i][1] = f
    BY <1>2
  <2>2. IInv
    OBVIOUS
  <2> HIDE DEF S, IInv
  <2> QED  BY <2>1, <2>2, FlushedOK
<1>4. file \in [Files -> FileStates] /\ live \in SUBSET Keys /\ FilesOK(file, live)
  BY FilesAreOK
<1> HIDE DEF S, t
<1>5. FilesOK(file', live)
  <2>1. FileSound(t, PagesIn(live, f))
    BY <1>3 DEF LivePages, PagesIn
  <2> QED  BY <1>1, <1>3, <1>4, <2>1, ReplaceFile
<1>6. TypeOK'
  <2>1. /\ tag' \in [Frames -> Keys \cup {NoKey}] /\ dirty' \in [Frames -> BOOLEAN]
        /\ valid' \in [Frames -> BOOLEAN]
        /\ hashTable' \in [Keys -> Frames \cup {NoFrame}]
    BY <1>1 DEF TypeOK
  <2> QED  BY <1>1, <1>5, <2>1 DEF TypeOK, FilesOK
<1>7. HashMatchesFrames'
  <2>1. \A i, j \in Frames : valid[i] /\ valid[j] /\ tag[i] = tag[j] => i = j
    BY DEF PoolOK, HashMatchesFrames
  <2>2. ASSUME NEW k \in Keys, hashTable'[k] # NoFrame
        PROVE  valid'[hashTable'[k]] /\ tag'[hashTable'[k]] = k
    <3>1. hashTable'[k] = hashTable[k] /\ hashTable[k] # NoFrame
          /\ \A i \in S : tag[i] # k
      BY <1>1, <2>2
    <3> QED  BY <1>1, <3>1, EntryIs
  <2>3. ASSUME NEW i \in Frames, valid'[i]
        PROVE  tag'[i] \in Keys /\ hashTable'[tag'[i]] = i
    <3>1. valid[i] /\ i \notin S /\ tag'[i] = tag[i] /\ tag[i] \in Keys
          /\ hashTable[tag[i]] = i
      BY <1>1, <2>3 DEF PoolOK, HashMatchesFrames
    <3>2. \A j \in S : tag[j] # tag[i]
      BY <1>2, <2>1, <3>1
    <3> QED  BY <1>1, <3>1, <3>2
  <2> QED  BY <2>2, <2>3 DEF HashMatchesFrames
<1>8. InvalidIsCleared' /\ DirtyIsLive'
  BY <1>1, <1>2 DEF PoolOK, InvalidIsCleared, DirtyIsLive
<1>9. PinsKept'
  <2>1. ASSUME NEW k \in Keys
        PROVE  hashTable'[k] = hashTable[k] \/ (hashTable'[k] = NoFrame /\ held[k] = 0)
    <3>1. ASSUME NEW i \in S, tag[i] = k
          PROVE  held[k] = 0
      <4>1. hashTable[k] = i /\ pinCnt[i] = 0 /\ i \in Frames /\ i # NoFrame
        BY <1>2, <3>1, NumBufsAssumption DEF PoolOK, HashMatchesFrames, NoFrame, Frames
      <4> QED  BY <4>1, EntryIs
    <3> QED  BY <1>1, <3>1
  <2> QED  BY <1>1, <2>1 DEF PoolOK, PinsKept, TypeOK
<1>10. ChangedIsPinned'
  BY <1>1 DEF PoolOK, ChangedIsPinned
<1>11. CleanIsOnDisk'
  <2>1. ASSUME NEW j \in Frames, valid'[j], ~dirty'[j], tag'[j] \in live' \ changed'
        PROVE  bufPool'[j] = file'[tag'[j][1]].page[tag'[j][2]]
    <3>1. /\ valid[j] /\ ~dirty[j] /\ j \notin S /\ tag'[j] = tag[j]
          /\ tag[j] \in live \ changed /\ bufPool'[j] = bufPool[j]
      BY <1>1, <2>1
    <3>2. bufPool[j] = file[tag[j][1]].page[tag[j][2]]
      BY <3>1 DEF CleanIsOnDisk
    <3>3. tag[j] \in Keys /\ tag[j][1] \in Files /\ tag[j][2] \in Pages
          /\ <<tag[j][1], tag[j][2]>> = tag[j]
      BY <3>1, KeyParts DEF PoolOK, HashMatchesFrames
    <3>4. \A i \in S : tag[i] # tag[j]
      BY <1>2, <3>1 DEF PoolOK, HashMatchesFrames
    <3>5. CASE tag[j][1] # f
      BY <1>1, <1>4, <3>1, <3>2, <3>3, <3>5
    <3>6. CASE tag[j][1] = f
      <4>1. file'[f] = t
        BY <1>1, <1>4
      <4>2. t.page[tag[j][2]] = file[f].page[tag[j][2]]
        BY ZenonT(60), <1>3, <3>3, <3>4, <3>6
      <4> QED  BY <3>1, <3>2, <3>6, <4>1, <4>2
    <3> QED  BY <3>5, <3>6
  <2> QED  BY <2>1 DEF CleanIsOnDisk
<1>12. FilesSound'
  BY <1>1, <1>5, <1>6, SoundIsOKPrime
<1> QED
  BY <1>6, <1>7, <1>8, <1>9, <1>10, <1>11, <1>12 DEF PoolOK

\* Every frame that names a file is valid, so the error is never BADBUFFER.
LEMMA FlushFileIInv ==
  ASSUME IInv, NEW f \in Files, FlushFile(f)
  PROVE  IInv' /\ status' # "BADBUFFER"
<1>1. CASE FlushTo(f, NumBufs) /\ status' = "OK"
  BY <1>1, FlushToIInv DEF Statuses
<1>2. ASSUME NEW n \in FramesOf(f), FlushTo(f, n),
             status' = IF ~valid[n] THEN "BADBUFFER"
                       ELSE IF pinCnt[n] > 0 THEN "PAGEPINNED" ELSE "UNIXERR"
      PROVE  IInv' /\ status' # "BADBUFFER"
  <2>1. n \in Frames /\ tag[n][1] = f
    BY DEF FramesOf
  <2>2. tag[n] # NoKey
    BY <2>1, FilesAssumption DEF NoKey
  <2>3. valid[n]
    BY <2>1, <2>2 DEF IInv, PoolOK, InvalidIsCleared
  <2> QED  BY <1>2, <2>3, FlushToIInv DEF Statuses
<1> QED
  BY <1>1, <1>2 DEF FlushFile

LEMMA RestartIInv ==
  ASSUME IInv, Restart
  PROVE  IInv'
<1> USE DEF IInv
<1>1. PICK failed \in SUBSET {i \in Frames : MustWrite(i)} :
        LET S == {i \in Frames : MustWrite(i)} \ failed IN
        /\ \A k \in Keys : held[k] = 0
        /\ file' = [f \in Files |-> Flushed(file[f], f, {i \in S : tag[i][1] = f})]
        /\ EmptyPool(clockHand', tag', pinCnt', dirty', valid', refbit', bufPool',
                     hashTable')
        /\ status' = IF failed = {} THEN "OK" ELSE "UNIXERR"
        /\ UNCHANGED clients
  BY DEF Restart
<1> DEFINE S == {i \in Frames : MustWrite(i)} \ failed
           T(f) == {i \in S : tag[i][1] = f}
<1>2. \A f \in Files : /\ Flushed(file[f], f, T(f)) \in FileStates
                       /\ FileSound(Flushed(file[f], f, T(f)), LivePages(f))
  <2>1. \A f \in Files : T(f) \in SUBSET Frames
                         /\ \A i \in T(f) : valid[i] /\ tag[i][1] = f
    BY DEF MustWrite
  <2> HIDE DEF T
  <2> QED  BY <2>1, FlushedOK
<1>3. file' = [f \in Files |-> Flushed(file[f], f, T(f))]
  BY <1>1
<1>4. UNCHANGED <<live, held, ptr, changed>>
  BY <1>1 DEF clients
<1> HIDE DEF T, S
<1>5. TypeOK'
  <2>1. ZeroPage \in Contents
    BY DBPageType DEF ZeroPage
  <2>2. /\ clockHand' \in Frames /\ tag' \in [Frames -> Keys \cup {NoKey}]
        /\ pinCnt' \in [Frames -> 0..MaxPins] /\ dirty' \in [Frames -> BOOLEAN]
        /\ valid' \in [Frames -> BOOLEAN] /\ refbit' \in [Frames -> BOOLEAN]
        /\ bufPool' \in [Frames -> Contents]
        /\ hashTable' \in [Keys -> Frames \cup {NoFrame}]
    BY <1>1, <2>1, NumBufsAssumption, MaxPinsAssumption DEF EmptyPool, Frames
  <2>3. file' \in [Files -> FileStates]
    BY <1>2, <1>3
  <2>4. status' \in Statuses
    BY <1>1 DEF Statuses
  <2> QED  BY <1>4, <2>2, <2>3, <2>4 DEF TypeOK
<1>6. PoolOK'
  BY <1>1, <1>4 DEF EmptyPool, PoolOK, HashMatchesFrames, InvalidIsCleared,
     PinsKept, DirtyIsLive, ChangedIsPinned, TypeOK
<1>7. FilesSound'
  BY <1>2, <1>3, <1>4 DEF FilesSound, LivePages
<1>8. CleanIsOnDisk'
  BY <1>1 DEF EmptyPool, CleanIsOnDisk
<1> QED
  BY <1>5, <1>6, <1>7, <1>8

\* Every step keeps the inductive invariant, and none but a step of flushFile
\* sets BADBUFFER, which it never does.
LEMMA NextIInv ==
  ASSUME IInv, NeverBadBuffer, [Next]_vars
  PROVE  IInv' /\ NeverBadBuffer'
<1>1. ASSUME NEW k \in Keys, ReadPage(k)
      PROVE  IInv' /\ NeverBadBuffer'
  BY <1>1, ReadPageIInv DEF ReadPage, ReadPageHit, ReadPageExceeded,
     ReadPageWriteFails, ReadPageReadFails, ReadPageMiss, NeverBadBuffer
<1>2. ASSUME NEW k \in Keys, NEW d \in BOOLEAN, UnPinPage(k, d)
      PROVE  IInv' /\ NeverBadBuffer'
  <2>1. status' = "OK"
    BY <1>2 DEF UnPinPage
  <2> QED  BY <1>2, <2>1, UnPinPageIInv DEF NeverBadBuffer
<1>3. ASSUME NEW k \in Keys, UnPinPageFails(k)
      PROVE  IInv' /\ NeverBadBuffer'
  <2>1. status' \in {"HASHNOTFOUND", "PAGENOTPINNED"} /\ UNCHANGED <<file, pool, clients>>
    BY <1>3 DEF UnPinPageFails
  <2> QED  BY <2>1, StatusOnly DEF NeverBadBuffer, Statuses
<1>4. ASSUME NEW k \in Keys, NEW d \in Data, WriteFrame(k, d)
      PROVE  IInv' /\ NeverBadBuffer'
  <2>1. status' = status
    BY <1>4 DEF WriteFrame
  <2> QED  BY <1>4, <2>1, WriteFrameIInv DEF NeverBadBuffer
<1>5. ASSUME NEW k \in Keys, DisposePage(k)
      PROVE  IInv' /\ NeverBadBuffer'
  <2>1. status' # "BADBUFFER"
    BY <1>5 DEF DisposePage, Disposals
  <2> QED  BY <1>5, <2>1, DisposePageIInv DEF NeverBadBuffer
<1>6. ASSUME NEW f \in Files, AllocPage(f)
      PROVE  IInv' /\ NeverBadBuffer'
  <2>1. \A a \in Allocations(file[f]) : a.status # "BADBUFFER"
    BY DEF Allocations, AllocateFails, Reuse, Extend
  <2>2. status' # "BADBUFFER"
    BY <1>6, <2>1 DEF AllocPage, AllocPageNoPage, AllocPageNoFrame, AllocPageOK,
       AllocPageInsertFails
  <2> QED  BY <1>6, <2>2, AllocPageIInv DEF NeverBadBuffer
<1>7. ASSUME NEW f \in Files, FlushFile(f)
      PROVE  IInv' /\ NeverBadBuffer'
  BY <1>7, FlushFileIInv DEF NeverBadBuffer
<1>8. CASE Restart
  <2>1. status' # "BADBUFFER"
    BY <1>8 DEF Restart
  <2> QED  BY <1>8, <2>1, RestartIInv DEF NeverBadBuffer
<1>9. CASE UNCHANGED vars
  <2>1. status' = status /\ UNCHANGED <<file, pool, clients>> /\ status' \in Statuses
    BY <1>9 DEF vars, IInv, TypeOK
  <2> QED  BY <2>1, StatusOnly DEF NeverBadBuffer
<1> QED
  BY <1>1, <1>2, <1>3, <1>4, <1>5, <1>6, <1>7, <1>8, <1>9 DEF Next

\* The inductive invariant holds in every state the buffer manager reaches.
THEOREM Invariance == Spec => [](IInv /\ NeverBadBuffer)
<1>1. Init => IInv /\ NeverBadBuffer
  BY InitIInv DEF Init, NeverBadBuffer
<1>2. IInv /\ NeverBadBuffer /\ [Next]_vars => (IInv /\ NeverBadBuffer)'
  BY NextIInv
<1> QED
  BY <1>1, <1>2, PTL DEF Spec

\* The variables keep their types; no pin count outgrows what the clients hold.
THEOREM TypesAlways == Spec => []TypeOK
<1>1. IInv => TypeOK
  BY DEF IInv
<1> QED
  BY <1>1, Invariance, PTL

\* BufMgr's hash table and its frame descriptors never disagree, whichever step
\* of readPage, allocPage or flushFile fails.
THEOREM HashAlways == Spec => []HashMatchesFrames
<1>1. IInv => HashMatchesFrames
  BY DEF IInv, PoolOK
<1> QED
  BY <1>1, Invariance, PTL

\* No page is evicted or flushed under a client that has it pinned, and no
\* failed call leaves a pin behind.
THEOREM PinsAlways == Spec => []PinsKept
<1>1. IInv => PinsKept
  BY DEF IInv, PoolOK
<1> QED
  BY <1>1, Invariance, PTL

\* A clean frame agrees with the disk: the clock may drop it.
THEOREM CleanAlways == Spec => []CleanIsOnDisk
<1>1. IInv => CleanIsOnDisk
  BY DEF IInv
<1> QED
  BY <1>1, Invariance, PTL

\* No write back lands on a page that disposePage gave to the free list.
THEOREM DirtyAlways == Spec => []DirtyIsLive
<1>1. IInv => DirtyIsLive
  BY DEF IInv, PoolOK
<1> QED
  BY <1>1, Invariance, PTL

\* Allocations, disposals, write backs and flushes, failed ones included, leave
\* every file with a sound header and a free list that avoids the pages in use.
THEOREM FilesAlways == Spec => []FilesSound
<1>1. IInv => FilesSound
  BY DEF IInv
<1> QED
  BY <1>1, Invariance, PTL

\* flushFile has no use for its BADBUFFER error.
THEOREM NeverBadBufferAlways == Spec => []NeverBadBuffer
<1> QED
  BY Invariance, PTL

-----------------------------------------------------------------------------
(***************************************************************************)
(* The buffer manager is a page store.  What is to prove of each call is   *)
(* that the pages in use keep their content, which moves between the frame *)
(* and the disk: the calls of readPage and allocPage that free a frame,    *)
(* flushFile and the destructor move it to the disk, a read brings it      *)
(* back.                                                                   *)
(***************************************************************************)
\* The content of the pages K in use stays where it is.
LEMMA ContentStays ==
  ASSUME UNCHANGED <<hashTable, bufPool>>, NEW K, SamePages(file, file', K)
  PROVE  \A k \in K : PageContent(k)' = PageContent(k)
BY DEF PageContent, SamePages, OnDisk

\* Frame i is freed: a page k that was there is on disk as the frame had it;
\* and a page that was on disk may be read into the frame.
LEMMA ContentAfterFree ==
  ASSUME IInv, NEW i \in Frames, pinCnt[i] = 0,
         NEW fs, SamePages(file, fs, live), SamePages(WrittenBack(fs, i), file', live),
         \A m \in Keys : OnDisk(WrittenBack(fs, i), m) =
            IF MustWrite(i) /\ m = tag[i] THEN bufPool[i] ELSE OnDisk(fs, m),
         \A j \in Frames : j # i => bufPool'[j] = bufPool[j],
         NEW k \in live,
         \/ hashTable'[k] = HashWithout(i)[k]
         \/ hashTable[k] = NoFrame /\ hashTable'[k] = i /\ bufPool'[i] = OnDisk(file', k)
  PROVE  PageContent(k)' = PageContent(k)
<1>0. TypeOK /\ PoolOK /\ CleanIsOnDisk /\ k \in Keys
  BY DEF IInv, TypeOK
<1>1. i # NoFrame
  BY NumBufsAssumption DEF NoFrame, Frames
<1>2. HashWithout(i)[k] = IF hashTable[k] = i THEN NoFrame ELSE hashTable[k]
  BY <1>0, HashWithoutIs DEF PoolOK
<1>3. OnDisk(file', k) = IF MustWrite(i) /\ k = tag[i] THEN bufPool[i]
                                                       ELSE OnDisk(file, k)
  BY <1>0 DEF SamePages
<1>4. CASE hashTable[k] = i
  <2>1. valid[i] /\ tag[i] = k /\ held[k] = 0
    BY <1>0, <1>1, <1>4, EntryIs
  <2>2. ~dirty[i] => bufPool[i] = OnDisk(file, k)
    BY <1>0, <2>1 DEF PoolOK, ChangedIsPinned, CleanIsOnDisk, OnDisk
  <2>3. OnDisk(file', k) = bufPool[i]
    BY <1>3, <2>1, <2>2 DEF MustWrite
  <2> QED  BY <1>1, <1>2, <1>4, <2>3 DEF PageContent, OnDisk
<1>5. CASE hashTable[k] # i
  <2>1. MustWrite(i) => k # tag[i]
    BY <1>0, <1>5 DEF MustWrite, PoolOK, HashMatchesFrames
  <2>2. OnDisk(file', k) = OnDisk(file, k)
    BY <1>3, <2>1
  <2>3. hashTable[k] # NoFrame => hashTable[k] \in Frames
    BY <1>0 DEF TypeOK
  <2> QED  BY <1>1, <1>2, <1>5, <2>2, <2>3 DEF PageContent, OnDisk
<1> QED
  BY <1>4, <1>5

\* The pages of S are written to file f: a page in use that nobody has pinned
\* is then on disk as the clients see it, if it was to be written at all.
LEMMA ContentFlushed ==
  ASSUME IInv, NEW f \in Files, NEW S \in SUBSET Frames,
         \A i \in S : valid[i] /\ tag[i][1] = f,
         NEW p \in LivePages(f), NEW k, k = <<f, p>>,
         hashTable[k] # NoFrame =>
           held[k] = 0 /\ (hashTable[k] \in S \/ ~dirty[hashTable[k]])
  PROVE  Flushed(file[f], f, S).page[p] = PageContent(k)
<1> DEFINE t == Flushed(file[f], f, S)
<1>0. TypeOK /\ PoolOK /\ CleanIsOnDisk
  BY DEF IInv
<1>1. k \in live /\ k \in Keys /\ p \in Pages /\ k[1] = f /\ k[2] = p
  BY DEF LivePages, Keys
<1>2. t.page[p] = IF \E i \in S : dirty[i] /\ tag[i] = k
                    THEN bufPool[hashTable[k]] ELSE file[f].page[p]
  <2>1. \A q \in Pages : t.page[q] =
          IF \E i \in S : dirty[i] /\ tag[i] = <<f, q>>
            THEN bufPool[hashTable[<<f, q>>]] ELSE file[f].page[q]
    BY FlushedOK
  <2> QED  BY <1>1, <2>1
<1>3. \A i \in S : tag[i] = k => i = hashTable[k]
  BY <1>0 DEF PoolOK, HashMatchesFrames
<1> HIDE DEF t
<1>4. CASE hashTable[k] = NoFrame
  <2>1. \A i \in S : tag[i] # k
    BY <1>3, <1>4, NumBufsAssumption DEF NoFrame, Frames
  <2> QED  BY <1>1, <1>2, <1>4, <2>1 DEF PageContent, t
<1>5. CASE hashTable[k] # NoFrame
  <2>1. /\ hashTable[k] \in Frames /\ valid[hashTable[k]]
        /\ tag[hashTable[k]] = k
    BY <1>0, <1>1, <1>5, EntryIs
  <2>2. CASE dirty[hashTable[k]]
    BY <1>2, <1>5, <2>1, <2>2 DEF PageContent, t
  <2>3. CASE ~dirty[hashTable[k]]
    <3>1. k \in live \ changed
      BY <1>0, <1>1, <1>5 DEF PoolOK, ChangedIsPinned
    <3>2. bufPool[hashTable[k]] = file[f].page[p]
      BY <1>0, <1>1, <2>1, <2>3, <3>1 DEF CleanIsOnDisk
    <3>3. t.page[p] = file[f].page[p]
      BY <1>2, <1>3, <2>3
    <3> QED  BY <1>5, <3>2, <3>3 DEF PageContent, t
  <2> QED  BY <2>2, <2>3
<1> QED
  BY <1>4, <1>5

\* flushFile, as far as it came, changes no page that is in use.
LEMMA ContentAfterFlush ==
  ASSUME IInv, NEW f \in Files, NEW n, FlushTo(f, n), NEW k \in live
  PROVE  PageContent(k)' = PageContent(k)
<1> DEFINE S == {i \in FramesOf(f) : i < n}
           t == Flushed(file[f], f, S)
<1>0. TypeOK /\ PoolOK /\ k \in Keys
  BY DEF IInv, TypeOK
<1>1. /\ S \in SUBSET Frames
      /\ \A i \in S : valid[i] /\ tag[i][1] = f /\ pinCnt[i] = 0
      /\ file' = [file EXCEPT ![f] = t]
      /\ hashTable'[k] = IF \E i \in S : tag[i] = k THEN NoFrame ELSE hashTable[k]
      /\ bufPool' = bufPool
  BY <1>0 DEF FlushTo, FramesOf, TypeOK
<1>2. k[1] \in Files /\ k[2] \in Pages /\ k = <<k[1], k[2]>>
  BY <1>0, KeyParts
<1>3. /\ file'[f] = t
      /\ \A g \in Files : g # f => file'[g] = file[g]
  BY <1>0, <1>1 DEF TypeOK
<1>4. /\ \A i \in S : tag[i] = k => i = hashTable[k] /\ i # NoFrame
      /\ hashTable[k] # NoFrame => tag[hashTable[k]] = k /\ held[k] = pinCnt[hashTable[k]]
  BY <1>0, <1>1, EntryIs, NumBufsAssumption
  DEF PoolOK, HashMatchesFrames, NoFrame, Frames
<1> HIDE DEF S, t
<1>5. CASE hashTable[k] # NoFrame /\ hashTable[k] \notin S
  BY <1>1, <1>4, <1>5 DEF PageContent
<1>6. CASE hashTable[k] = NoFrame \/ hashTable[k] \in S
  <2>1. hashTable'[k] = NoFrame
    BY <1>1, <1>4, <1>6
  <2>2. CASE k[1] = f
    <3>1. k[2] \in LivePages(f) /\ k = <<f, k[2]>>
      BY <1>2, <2>2 DEF LivePages
    <3>2. /\ hashTable[k] # NoFrame =>
               held[k] = 0 /\ (hashTable[k] \in S \/ ~dirty[hashTable[k]])
          /\ \A i \in S : valid[i] /\ tag[i][1] = f
      BY <1>1, <1>4, <1>6
    <3>3. t.page[k[2]] = PageContent(k)
      BY <1>1, <3>1, <3>2, ContentFlushed DEF t
    <3> QED  BY <1>3, <2>1, <2>2, <3>3 DEF PageContent
  <2>3. CASE k[1] # f
    <3>1. hashTable[k] = NoFrame
      BY <1>1, <1>4, <1>6, <2>3
    <3> QED  BY <1>2, <1>3, <2>1, <2>3, <3>1 DEF PageContent
  <2> QED  BY <2>2, <2>3
<1> QED
  BY <1>5, <1>6

\* A step that leaves the content of the pages in use outside S alone, in the
\* terms of the store; and the calls that fail.
LEMMA StoreKeeps ==
  ASSUME live \in SUBSET Keys, NEW S,
         \A k \in live \ S : PageContent(k)' = PageContent(k)
  PROVE  Store!KeepsAllBut(S)
BY DEF Store!KeepsAllBut

LEMMA StoreFails ==
  ASSUME live \in SUBSET Keys, UNCHANGED clients, status' \in Store!Refusals,
         \A k \in live : PageContent(k)' = PageContent(k)
  PROVE  Store!StoreNext
<1>1. Store!KeepsAllBut({})
  BY StoreKeeps
<1> QED
  BY <1>1 DEF clients, Store!Fail, Store!Stays, Store!StoreNext

\* readPage pins a page, or refuses; the eviction cannot be seen.
LEMMA PinStore ==
  ASSUME IInv, NEW k \in Keys, held[k] < MaxPins,
         held' = [held EXCEPT ![k] = @ + 1], live' = live, status' = "OK",
         \A m \in live : PageContent(m)' = PageContent(m)
  PROVE  Store!StoreNext
<1>1. live \in SUBSET Keys
  BY DEF IInv, TypeOK
<1>2. Store!KeepsAllBut({})
  BY <1>1, StoreKeeps
<1>3. Store!Pin(k)
  BY <1>2 DEF Store!Pin, Store!Stays
<1> QED
  BY <1>3 DEF Store!StoreNext

LEMMA ReadPageHitStore ==
  ASSUME IInv, NEW k \in Keys, ReadPageHit(k)
  PROVE  Store!StoreNext
<1>1. /\ held[k] < MaxPins /\ held' = [held EXCEPT ![k] = @ + 1] /\ live' = live
      /\ status' = "OK" /\ UNCHANGED <<file, hashTable, bufPool>>
  BY DEF ReadPageHit, Pinned
<1>2. SamePages(file, file', live)
  BY <1>1 DEF SamePages
<1> QED
  BY <1>1, <1>2, ContentStays, PinStore

LEMMA ReadIntoStore ==
  ASSUME IInv, NEW k \in Keys, NEW i \in Frames, ReadInto(i, k)
  PROVE  Store!StoreNext
<1>0. TypeOK /\ PoolOK
  BY DEF IInv
<1>1. /\ pinCnt[i] = 0 /\ file' = WrittenBack(file, i)
      /\ hashTable[k] = NoFrame
      /\ hashTable' = [HashWithout(i) EXCEPT ![k] = i]
      /\ bufPool' = [bufPool EXCEPT ![i] = OnDisk(file', k)]
      /\ held' = [held EXCEPT ![k] = @ + 1] /\ live' = live /\ status' = "OK"
  BY DEF ReadInto, Pinned, OnDisk
<1>2. /\ \A j \in Frames : j # i => bufPool'[j] = bufPool[j]
      /\ bufPool'[i] = OnDisk(file', k)
  BY <1>0, <1>1 DEF TypeOK
<1>3. \A m \in Keys : \/ hashTable'[m] = HashWithout(i)[m]
                      \/ m = k /\ hashTable'[k] = i
  BY <1>0, <1>1, HashWithoutIs DEF PoolOK
<1>4. live \in SUBSET Keys
  BY <1>0 DEF TypeOK
<1>5. /\ SamePages(file, file, live)
      /\ SamePages(WrittenBack(file, i), file', live)
      /\ \A m \in Keys : OnDisk(WrittenBack(file, i), m) =
           IF MustWrite(i) /\ m = tag[i] THEN bufPool[i] ELSE OnDisk(file, m)
  BY <1>1, FreedForRead
<1>6. \A m \in live : PageContent(m)' = PageContent(m)
  BY <1>1, <1>2, <1>3, <1>4, <1>5, ContentAfterFree
<1>7. held[k] < MaxPins
  BY <1>0, <1>1, MissedIsUnpinned, MaxPinsAssumption DEF PoolOK
<1> QED
  BY <1>1, <1>6, <1>7, PinStore

LEMMA ReadPageStore ==
  ASSUME IInv, NEW k \in Keys, ReadPage(k)
  PROVE  Store!StoreNext
<1>0. TypeOK /\ PoolOK /\ live \in SUBSET Keys
  BY DEF IInv, TypeOK
<1>1. CASE ReadPageHit(k)
  BY <1>1, ReadPageHitStore
<1>2. ASSUME \/ ReadPageExceeded(k)
             \/ \E i \in Frames : ReadPageWriteFails(k, i)
      PROVE  Store!StoreNext
  <2>1. /\ UNCHANGED <<file, hashTable, bufPool>> /\ UNCHANGED clients
        /\ status' \in Store!Refusals
    BY <1>2 DEF ReadPageExceeded, ReadPageWriteFails, AllocBufFails, pool,
       Store!Refusals
  <2>2. SamePages(file, file', live)
    BY <2>1 DEF SamePages
  <2> QED  BY <1>0, <2>1, <2>2, ContentStays, StoreFails
<1>3. ASSUME NEW i \in Frames, ReadPageReadFails(k, i)
      PROVE  Store!StoreNext
  <2>1. /\ AllocBufStops(i) /\ file' = WrittenBack(file, i)
        /\ hashTable' = HashWithout(i) /\ bufPool' = bufPool
        /\ UNCHANGED clients /\ status' \in Store!Refusals
    BY <1>3 DEF ReadPageReadFails, Store!Refusals
  <2>2. pinCnt[i] = 0
    BY <1>0, <2>1, VictimIsFree DEF PoolOK
  <2>3. \A m \in live : PageContent(m)' = PageContent(m)
    BY <2>1, <2>2, FreedForRead, ContentAfterFree
  <2> QED  BY <1>0, <2>1, <2>3, StoreFails
<1>4. ASSUME NEW i \in Frames, ReadPageMiss(k, i)
      PROVE  Store!StoreNext
  <2>1. ReadInto(i, k)
    BY <1>0, <1>4, VictimIsFree, SetGives DEF ReadPageMiss, PoolOK, ReadInto
  <2> QED  BY <2>1, ReadIntoStore
<1> QED
  BY <1>1, <1>2, <1>3, <1>4 DEF ReadPage

LEMMA UnPinPageStore ==
  ASSUME IInv, NEW k \in Keys, NEW d \in BOOLEAN, UnPinPage(k, d)
  PROVE  Store!StoreNext
<1>1. /\ held[k] > 0 /\ held' = [held EXCEPT ![k] = @ - 1] /\ live' = live
      /\ status' = "OK" /\ UNCHANGED <<file, hashTable, bufPool>>
  BY DEF UnPinPage
<1>2. SamePages(file, file', live) /\ live \in SUBSET Keys
  BY <1>1 DEF SamePages, IInv, TypeOK
<1>3. Store!KeepsAllBut({})
  BY <1>1, <1>2, ContentStays, StoreKeeps
<1>4. Store!Unpin(k)
  BY <1>1, <1>3 DEF Store!Unpin, Store!Stays
<1> QED
  BY <1>4 DEF Store!StoreNext

LEMMA WriteFrameStore ==
  ASSUME IInv, NEW k \in Keys, NEW d \in Data, WriteFrame(k, d)
  PROVE  Store!StoreNext
<1>0. TypeOK /\ PoolOK /\ live \in SUBSET Keys
  BY DEF IInv, TypeOK
<1>1. /\ k \in live /\ held[k] > 0
      /\ bufPool' = [bufPool EXCEPT ![ptr[k]] = d]
      /\ UNCHANGED <<file, hashTable, live, held, status>>
  BY DEF WriteFrame
<1>2. ptr[k] = hashTable[k] /\ hashTable[k] # NoFrame
  BY <1>1 DEF IInv, PoolOK, PinsKept
<1>3. ASSUME NEW m \in live \ {k}
      PROVE  PageContent(m)' = PageContent(m)
  <2>1. hashTable[m] # NoFrame => hashTable[m] \in Frames /\ hashTable[m] # ptr[k]
    BY <1>0, <1>1, <1>2, EntryIs
  <2> QED  BY <1>0, <1>1, <2>1 DEF PageContent, TypeOK
<1>4. Store!KeepsAllBut({k})
  BY <1>0, <1>3, StoreKeeps
<1>5. Store!Write(k)
  BY <1>1, <1>4 DEF Store!Write
<1> QED
  BY <1>5 DEF Store!StoreNext

\* A call that fails and leaves the hash table, the frames and the pages in use
\* as they were.
LEMMA NothingSeen ==
  ASSUME IInv, UNCHANGED <<hashTable, bufPool>>, UNCHANGED clients,
         SamePages(file, file', live), status' \in Store!Refusals
  PROVE  Store!StoreNext
BY ContentStays, StoreFails DEF IInv, TypeOK

\* allocPage gives a page that nobody had, or refuses; the free page that the
\* pool may still hold, and the page that goes back to the file, are not in use.
LEMMA AllocPageNoPageStore ==
  ASSUME IInv, NEW f \in Files, AllocPageNoPage(f)
  PROVE  Store!StoreNext
<1>1. PICK a \in Allocations(file[f]) : /\ a.status # "OK"
                                        /\ file' = [file EXCEPT ![f] = a.file]
                                        /\ status' = a.status
                                        /\ UNCHANGED <<pool, clients>>
  BY DEF AllocPageNoPage
<1>2. SamePages(file, file', live) /\ status' \in Store!Refusals
  BY <1>1, GivenPage DEF Store!Refusals
<1> QED
  BY <1>1, <1>2, NothingSeen DEF pool

LEMMA AllocatedIntoStore ==
  ASSUME IInv, NEW f \in Files, NEW a \in Allocations(file[f]), NEW i \in Frames,
         AllocatedInto(f, i, a)
  PROVE  Store!StoreNext
<1> DEFINE fs == [file EXCEPT ![f] = a.file]
           k  == <<f, a.pageNo>>
           gs == WrittenBack(fs, i)
<1>0. TypeOK /\ PoolOK /\ live \in SUBSET Keys
  BY DEF IInv, TypeOK
<1>1. /\ a.status = "OK" /\ pinCnt[i] = 0 /\ HashWithout(i)[k] = NoFrame
      /\ file' = gs
      /\ hashTable' = [HashWithout(i) EXCEPT ![k] = i]
      /\ held' = [held EXCEPT ![k] = @ + 1] /\ live' = live \cup {k}
      /\ bufPool' = bufPool /\ status' = "OK"
  BY DEF AllocatedInto, Pinned
<1>2. k \in Keys /\ k \notin live /\ SamePages(file, fs, live)
  BY <1>1, GivenPage
<1>3. /\ SamePages(gs, file', live)
      /\ \A m \in Keys : OnDisk(gs, m) =
           IF MustWrite(i) /\ m = tag[i] THEN bufPool[i] ELSE OnDisk(fs, m)
  BY <1>1, FreedForAlloc DEF SamePages
<1> HIDE DEF fs, k
<1>4. \A m \in live : hashTable'[m] = HashWithout(i)[m]
  BY <1>0, <1>1, <1>2, HashWithoutIs DEF PoolOK
<1>5. \A m \in live : PageContent(m)' = PageContent(m)
  BY <1>1, <1>2, <1>3, <1>4, ContentAfterFree
<1>6. held[k] = 0
  <2>1. hashTable[k] = NoFrame \/ hashTable[k] = i
    BY <1>0, <1>1, <1>2, HashWithoutIs DEF PoolOK
  <2> QED  BY <1>0, <1>1, <1>2, <2>1, MissedIsUnpinned, EntryIs DEF PoolOK
<1>7. held' = [held EXCEPT ![k] = 1]
  BY <1>1, <1>6
<1>8. Store!KeepsAllBut({})
  BY <1>0, <1>5, StoreKeeps
<1>9. Store!Allocate(k)
  BY <1>1, <1>2, <1>6, <1>7, <1>8 DEF Store!Allocate
<1> QED
  BY <1>2, <1>9 DEF Store!StoreNext

LEMMA AllocPageStore ==
  ASSUME IInv, NEW f \in Files, AllocPage(f)
  PROVE  Store!StoreNext
<1>0. TypeOK /\ PoolOK /\ FilesOK(file, live) /\ live \in SUBSET Keys
  BY FilesAreOK DEF IInv
<1>1. CASE AllocPageNoPage(f)
  BY <1>1, AllocPageNoPageStore
<1>2. CASE AllocPageNoFrame(f)
  <2>1. PICK a \in Allocations(file[f]) :
          /\ a.status = "OK"
          /\ file' \in GivenBack([file EXCEPT ![f] = a.file], f, a.pageNo)
          /\ UNCHANGED <<hashTable, bufPool>>
          /\ UNCHANGED clients /\ status' \in Store!Refusals
    BY <1>2 DEF AllocPageNoFrame, AllocBufFails, pool, Store!Refusals
  <2> DEFINE fs == [file EXCEPT ![f] = a.file]
             k  == <<f, a.pageNo>>
  <2>2. /\ a.pageNo \in Pages /\ k \notin live
        /\ FilesOK(fs, live \cup {k}) /\ SamePages(file, fs, live)
    BY <2>1, GivenPage
  <2>3. file' \in GivenBack(fs, f, a.pageNo)
    BY <2>1
  <2>4. SamePages(fs, file', live)
    <3> HIDE DEF fs
    <3> QED  BY <1>0, <2>2, <2>3, GiveBackOK
  <2>5. SamePages(file, file', live)
    BY <2>2, <2>4 DEF SamePages
  <2> QED  BY <2>1, <2>5, NothingSeen
<1>3. ASSUME NEW i \in Frames, AllocPageOK(f, i)
      PROVE  Store!StoreNext
  <2>1. \E a \in Allocations(file[f]) : AllocatedInto(f, i, a)
    BY <1>0, <1>3, VictimIsFree, SetGives DEF AllocPageOK, PoolOK, AllocatedInto
  <2> QED  BY <2>1, AllocatedIntoStore
<1>4. ASSUME NEW i \in Frames, AllocPageInsertFails(f, i)
      PROVE  Store!StoreNext
  <2>1. PICK a \in Allocations(file[f]) :
          /\ a.status = "OK" /\ AllocBufStops(i)
          /\ file' \in GivenBack(WrittenBack([file EXCEPT ![f] = a.file], i),
                                 f, a.pageNo)
          /\ hashTable' = HashWithout(i) /\ status' = "HASHTBLERROR"
          /\ UNCHANGED <<bufPool, clients>>
    BY <1>4 DEF AllocPageInsertFails
  <2> DEFINE fs == [file EXCEPT ![f] = a.file]
             k  == <<f, a.pageNo>>
             gs == WrittenBack(fs, i)
  <2>2. a.pageNo \in Pages /\ k \notin live /\ SamePages(file, fs, live)
    BY <2>1, GivenPage
  <2>3. /\ FilesOK(gs, live \cup {k})
        /\ \A m \in Keys : OnDisk(gs, m) =
             IF MustWrite(i) /\ m = tag[i] THEN bufPool[i] ELSE OnDisk(fs, m)
    BY <2>1, FreedForAlloc
  <2>4. SamePages(gs, file', live)
    <3>1. file' \in GivenBack(gs, f, a.pageNo)
      BY <2>1
    <3> HIDE DEF gs
    <3> QED  BY <1>0, <2>2, <2>3, <3>1, GiveBackOK
  <2>5. /\ pinCnt[i] = 0 /\ hashTable' = HashWithout(i)
        /\ bufPool' = bufPool /\ UNCHANGED clients
        /\ status' \in Store!Refusals
    BY <1>0, <2>1, VictimIsFree DEF Store!Refusals, PoolOK
  <2> HIDE DEF fs, k
  <2>6. \A m \in live : PageContent(m)' = PageContent(m)
    BY <2>2, <2>3, <2>4, <2>5, ContentAfterFree
  <2> QED  BY <1>0, <2>5, <2>6, StoreFails
<1> QED
  BY <1>1, <1>2, <1>3, <1>4 DEF AllocPage

\* disposePage touches no page in use but its own.
LEMMA DisposePageStore ==
  ASSUME IInv, NEW k \in Keys, DisposePage(k)
  PROVE  Store!StoreNext
<1>0. TypeOK /\ PoolOK /\ FilesOK(file, live) /\ live \in SUBSET Keys
      /\ k[1] \in Files /\ k[2] \in Pages /\ <<k[1], k[2]>> = k
  BY KeyParts, FilesAreOK DEF IInv
<1>1. /\ k \in live /\ held[k] = 0
      /\ hashTable' = [hashTable EXCEPT ![k] = NoFrame]
      /\ UNCHANGED <<bufPool, held>>
  BY DEF DisposePage
<1>2. PICK d \in Disposals(file[k[1]], k[2]) :
        /\ file' = [file EXCEPT ![k[1]] = d.file]
        /\ status' = d.status
        /\ live' = IF d.status = "OK" THEN live \ {k} ELSE live
  BY DEF DisposePage
<1>3. /\ d.status \in {"OK", "UNIXERR", "BADPAGENO"}
      /\ SamePages(file, file', live \ {k})
  <2>1. LET gs == [file EXCEPT ![k[1]] = d.file]
            m  == <<k[1], k[2]>> IN
        /\ d.status \in {"OK", "UNIXERR", "BADPAGENO"}
        /\ SamePages(file, gs, live \ {m})
    BY <1>0, <1>1, DisposeOK
  <2> QED  BY <1>0, <1>2, <2>1
<1>4. ASSUME NEW m \in live \ {k}
      PROVE  PageContent(m)' = PageContent(m)
  BY <1>0, <1>1, <1>3, <1>4 DEF PageContent, SamePages, OnDisk, TypeOK
<1>5. Store!KeepsAllBut({k})
  BY <1>0, <1>4, StoreKeeps
<1>6. Store!Dispose(k)
  BY <1>1, <1>2, <1>3, <1>5 DEF Store!Dispose
<1> QED
  BY <1>6 DEF Store!StoreNext

LEMMA FlushFileStore ==
  ASSUME IInv, NEW f \in Files, FlushFile(f)
  PROVE  Store!StoreNext
<1>1. /\ \E n : FlushTo(f, n)
      /\ status' \in {"OK", "PAGEPINNED", "UNIXERR", "BADBUFFER"}
  BY DEF FlushFile
<1>2. /\ UNCHANGED clients /\ live \in SUBSET Keys
      /\ \A k \in live : PageContent(k)' = PageContent(k)
  <2>1. PICK n : FlushTo(f, n)
    BY <1>1
  <2>2. UNCHANGED clients /\ live \in SUBSET Keys
    BY <2>1 DEF FlushTo, IInv, TypeOK
  <2> QED  BY <2>1, <2>2, ContentAfterFlush
<1>3. CASE status' = "OK"
  <2>1. Store!Flush
    BY <1>2, <1>3, StoreKeeps DEF Store!Flush, Store!Stays, clients
  <2> QED  BY <2>1 DEF Store!StoreNext
<1>4. CASE status' # "OK"
  <2>1. status' \in Store!Refusals
    BY <1>1, <1>4, FlushFileIInv DEF Store!Refusals
  <2> QED  BY <1>2, <2>1, StoreFails
<1> QED
  BY <1>3, <1>4

\* The next run finds every page in use as the last one left it, if every write
\* of the destructor succeeded.
LEMMA RestartStore ==
  ASSUME IInv, Restart
  PROVE  Store!StoreNext
<1>1. PICK failed \in SUBSET {i \in Frames : MustWrite(i)} :
        LET S == {i \in Frames : MustWrite(i)} \ failed IN
        /\ \A k \in Keys : held[k] = 0
        /\ file' = [f \in Files |-> Flushed(file[f], f, {i \in S : tag[i][1] = f})]
        /\ hashTable' = [k \in Keys |-> NoFrame]
        /\ status' = IF failed = {} THEN "OK" ELSE "UNIXERR"
        /\ UNCHANGED clients
  BY DEF Restart, EmptyPool
<1>2. ASSUME failed = {}, NEW k \in live
      PROVE  PageContent(k)' = PageContent(k)
  <2> DEFINE f == k[1]
             p == k[2]
             T == {i \in Frames : MustWrite(i) /\ tag[i][1] = f}
  <2>1. k \in Keys /\ f \in Files /\ p \in LivePages(f) /\ k = <<f, p>>
    <3>1. k \in Keys
      BY DEF IInv, TypeOK
    <3>2. f \in Files /\ p \in Pages /\ k = <<f, p>>
      BY <3>1, KeyParts
    <3> HIDE DEF f, p
    <3> QED  BY <3>1, <3>2 DEF LivePages
  <2>2. /\ T \in SUBSET Frames
        /\ \A i \in T : valid[i] /\ tag[i][1] = f
    BY DEF MustWrite
  <2>3. hashTable[k] # NoFrame =>
          held[k] = 0 /\ (hashTable[k] \in T \/ ~dirty[hashTable[k]])
    <3>1. TypeOK /\ PoolOK
      BY DEF IInv
    <3> HIDE DEF f, p
    <3>2. hashTable[k] # NoFrame =>
            /\ hashTable[k] \in Frames /\ valid[hashTable[k]]
            /\ tag[hashTable[k]] = k
      BY <2>1, <3>1, EntryIs
    <3>3. held[k] = 0
      BY <1>1, <2>1
    <3> QED  BY <3>2, <3>3 DEF MustWrite, f
  <2>4. file'[f] = Flushed(file[f], f, T)
    <3>1. {i \in {j \in Frames : MustWrite(j)} \ failed : tag[i][1] = f} = T
      BY <1>2
    <3> HIDE DEF T
    <3> QED  BY <1>1, <2>1, <3>1
  <2> HIDE DEF f, p, T
  <2>5. Flushed(file[f], f, T).page[p] = PageContent(k)
    BY <2>1, <2>2, <2>3, ContentFlushed
  <2>6. hashTable'[k] = NoFrame
    BY <1>1, <2>1
  <2> QED  BY <2>4, <2>5, <2>6 DEF PageContent, f, p
<1>3. failed = {} => Store!KeepsAllBut({})
  BY <1>2, StoreKeeps DEF IInv, TypeOK
<1>4. Store!NewRun
  BY <1>1, <1>3 DEF Store!NewRun, clients
<1> QED
  BY <1>4 DEF Store!StoreNext

LEMMA InitStore == Init => Store!StoreInit
<1> SUFFICES ASSUME Init PROVE Store!StoreInit
  OBVIOUS
<1>1. ASSUME NEW k \in Keys
      PROVE  PageContent(k) \in Contents
  BY DBPageType, KeyParts DEF Init, EmptyPool, PageContent, Created, ZeroPage
<1> QED
  BY <1>1 DEF Init, Store!StoreInit

LEMMA NextStore ==
  ASSUME IInv, [Next]_vars
  PROVE  [Store!StoreNext]_(Store!storeVars)
<1>1. ASSUME NEW k \in Keys, UnPinPageFails(k)
      PROVE  Store!StoreNext
  <2>1. /\ UNCHANGED <<file, hashTable, bufPool>> /\ UNCHANGED clients
        /\ status' \in Store!Refusals /\ live \in SUBSET Keys
    BY <1>1 DEF UnPinPageFails, pool, Store!Refusals, IInv, TypeOK
  <2>2. SamePages(file, file', live)
    BY <2>1 DEF SamePages
  <2> QED  BY <2>1, <2>2, ContentStays, StoreFails
<1>2. CASE UNCHANGED vars
  <2>1. UNCHANGED <<file, hashTable, bufPool, live, held, status>>
    BY <1>2 DEF vars, pool, clients
  <2> QED  BY <2>1 DEF Store!storeVars, PageContent
<1> QED
  BY <1>1, <1>2, ReadPageStore, UnPinPageStore, WriteFrameStore, AllocPageStore,
     DisposePageStore, FlushFileStore, RestartStore DEF Next

\* BufMgr implements PageStore: whatever is evicted, written back, flushed or
\* fails on the way, a page in use has the content its clients last gave it.
THEOREM ImplementsStore == Spec => IsPageStore
<1>1. Init => Store!StoreInit
  BY InitStore
<1>2. IInv /\ [Next]_vars => [Store!StoreNext]_(Store!storeVars)
  BY NextStore
<1> QED
  BY <1>1, <1>2, Invariance, PTL DEF Spec, IsPageStore, Store!StoreSpec

\* When flushFile answers OK the disk has what the clients see of each page of
\* the file, and the pool has none of them.
THEOREM FlushedIsDurable == Spec => FlushIsDurable
<1>1. ASSUME IInv, NEW f \in Files, FlushFile(f), status' = "OK",
             NEW p \in LivePages(f)
      PROVE  /\ hashTable'[<<f, p>>] = NoFrame
             /\ file'[f].page[p] = PageContent(<<f, p>>)
  <2> DEFINE k == <<f, p>>
             S == {i \in FramesOf(f) : i < NumBufs}
             t == Flushed(file[f], f, S)
  <2>0. TypeOK /\ PoolOK /\ CleanIsOnDisk
    BY <1>1 DEF IInv
  <2>1. FlushTo(f, NumBufs)
    BY <1>1 DEF FlushFile
  <2>2. /\ \A i \in S : valid[i] /\ pinCnt[i] <= 0
        /\ file' = [file EXCEPT ![f] = t]
        /\ hashTable' = [m \in Keys |-> IF \E i \in S : tag[i] = m
                                          THEN NoFrame ELSE hashTable[m]]
    BY <2>1 DEF FlushTo
  <2>3. k \in live /\ k \in Keys /\ p \in Pages /\ k[1] = f /\ k[2] = p
    BY DEF LivePages, Keys
  <2>4. /\ S \in SUBSET Frames /\ \A i \in S : valid[i] /\ tag[i][1] = f
        /\ \A i \in Frames : tag[i][1] = f => i \in S
    <3>1. \A i \in Frames : i < NumBufs
      BY NumBufsAssumption DEF Frames
    <3> QED  BY <2>2, <3>1 DEF FramesOf
  <2> HIDE DEF k, S
  <2>5. ASSUME hashTable[k] # NoFrame
        PROVE  hashTable[k] \in S /\ tag[hashTable[k]] = k /\ held[k] = 0
    <3>1. /\ hashTable[k] \in Frames /\ tag[hashTable[k]] = k
          /\ pinCnt[hashTable[k]] = held[k]
      BY <2>0, <2>3, <2>5, EntryIs
    <3>2. hashTable[k] \in S
      BY <2>3, <2>4, <3>1
    <3> QED  BY <2>0, <2>2, <2>3, <3>1, <3>2 DEF TypeOK
  <2>6. file'[f] = t
    BY <2>0, <2>2 DEF TypeOK
  <2>7. t.page[p] = PageContent(k)
    BY <1>1, <2>4, <2>5, ContentFlushed DEF k
  <2>8. hashTable'[k] = NoFrame
    BY <2>2, <2>3, <2>5
  <2> QED  BY <2>6, <2>7, <2>8 DEF k
<1>2. IInv /\ [Next]_vars =>
        [\A f \in Files : FlushFile(f) /\ status' = "OK" =>
           \A p \in LivePages(f) :
             /\ hashTable'[<<f, p>>] = NoFrame
             /\ file'[f].page[p] = PageContent(<<f, p>>)]_vars
  BY <1>1
<1> QED
  BY <1>2, Invariance, PTL DEF Spec, FlushIsDurable

-----------------------------------------------------------------------------
(***************************************************************************)
(* The buffer manager of P5 and P6 (module BufMgrP6).  Its inductive       *)
(* invariant has two parts: what every state keeps, that an entry of the   *)
(* hash table leads to its page; and, as long as no call has left a frame  *)
(* without its entry, the inductive invariant of the manager of P4.        *)
(***************************************************************************)
EntryTypes ==
  /\ tag \in [Frames -> Keys \cup {NoKey}]
  /\ valid \in [Frames -> BOOLEAN]
  /\ hashTable \in [Keys -> Frames \cup {NoFrame}]

Leads == EntryTypes /\ EntriesLead

IInvP6 == Leads /\ (~faulty => IInv)

\* The hash table without the page of frame i leads nowhere new, and not to i:
\* an entry that led to i was that of the page in it.
LEMMA RemovedIs ==
  ASSUME Leads, NEW i \in Frames
  PROVE  /\ HashWithout(i) \in [Keys -> Frames \cup {NoFrame}]
         /\ \A k \in Keys : /\ HashWithout(i)[k] # i
                            /\ HashWithout(i)[k] \in {NoFrame, hashTable[k]}
<1>1. NoFrame \notin Frames
  BY NumBufsAssumption DEF NoFrame, Frames
<1> QED
  BY <1>1 DEF HashWithout, Leads, EntryTypes, EntriesLead

\* A call leaves the frames as they are, and takes entries away at most.
LEMMA LeadsLess ==
  ASSUME Leads, UNCHANGED <<tag, valid>>,
         hashTable' \in [Keys -> Frames \cup {NoFrame}],
         \A k \in Keys : hashTable'[k] \in {NoFrame, hashTable[k]}
  PROVE  Leads'
BY DEF Leads, EntryTypes, EntriesLead

LEMMA LeadsLeft ==
  ASSUME Leads, NEW i \in Frames, FrameLeft(i)
  PROVE  Leads'
<1>1. /\ UNCHANGED <<tag, valid>>
      /\ hashTable' = HashWithout(i)
  BY DEF FrameLeft, EntryRemoved
<1> QED
  BY <1>1, RemovedIs, LeadsLess

\* Frame i is set to page k, whose entry leads to i or to another frame.
LEMMA LeadsSet ==
  ASSUME Leads, NEW i \in Frames, NEW k \in Keys, FrameSet(i, k),
         \/ hashTable' = [EntryRemoved(i) EXCEPT ![k] = i]
         \/ hashTable' = EntryRemoved(i)
  PROVE  Leads'
<1>1. /\ tag' = [tag EXCEPT ![i] = k] /\ valid' = [valid EXCEPT ![i] = TRUE]
      /\ \/ hashTable' = [HashWithout(i) EXCEPT ![k] = i]
         \/ hashTable' = HashWithout(i)
  BY DEF FrameSet, EntryRemoved
<1>2. EntryTypes'
  BY <1>1, RemovedIs DEF Leads, EntryTypes
<1>3. ASSUME NEW m \in Keys, hashTable'[m] # NoFrame
      PROVE  valid'[hashTable'[m]] /\ tag'[hashTable'[m]] = m
  <2>1. \/ m = k /\ hashTable'[m] = i
        \/ hashTable'[m] = hashTable[m] /\ hashTable[m] \in Frames \ {i}
    BY <1>1, <1>3, RemovedIs DEF Leads, EntryTypes
  <2> QED  BY <1>1, <1>3, <2>1 DEF Leads, EntryTypes, EntriesLead
<1> QED
  BY <1>2, <1>3 DEF Leads, EntriesLead

LEMMA LeadsInP4 ==
  ASSUME Leads, AsInP4
  PROVE  Leads'
<1> USE DEF Leads
<1>1. ASSUME UNCHANGED <<tag, valid, hashTable>>
      PROVE  Leads'
  BY <1>1 DEF EntryTypes, EntriesLead
<1>2. ASSUME NEW k \in Keys,
             \/ ReadPageHit(k)
             \/ \E d \in BOOLEAN : UnPinPage(k, d)
             \/ \E d \in Data : WriteFrame(k, d)
      PROVE  Leads'
  BY <1>1, <1>2 DEF ReadPageHit, UnPinPage, WriteFrame
<1>3. ASSUME NEW k \in Keys, DisposePage(k)
      PROVE  Leads'
  <2>1. CASE hashTable[k] = NoFrame
    BY <1>3, <2>1 DEF DisposePage, EntryTypes, EntriesLead
  <2>2. CASE hashTable[k] # NoFrame
    <3>1. /\ tag' = [tag EXCEPT ![hashTable[k]] = NoKey]
          /\ valid' = [valid EXCEPT ![hashTable[k]] = FALSE]
          /\ hashTable' = [hashTable EXCEPT ![k] = NoFrame]
      BY <1>3, <2>2 DEF DisposePage, Cleared
    <3>2. \A m \in Keys : hashTable'[m] # NoFrame =>
            hashTable'[m] = hashTable[m] /\ hashTable[m] # hashTable[k]
      BY <2>2, <3>1 DEF EntryTypes, EntriesLead
    <3> QED  BY <3>1, <3>2 DEF EntryTypes, EntriesLead
  <2> QED  BY <2>1, <2>2
<1>4. ASSUME NEW f \in Files, AllocPageNoPage(f)
      PROVE  Leads'
  BY <1>1, <1>4 DEF AllocPageNoPage, pool
<1>5. ASSUME NEW f \in Files, NEW n, FlushTo(f, n)
      PROVE  Leads'
  <2> DEFINE S == {i \in FramesOf(f) : i < n}
  <2>1. /\ hashTable' = [k \in Keys |-> IF \E i \in S : tag[i] = k
                                          THEN NoFrame ELSE hashTable[k]]
        /\ tag' = [i \in Frames |-> IF i \in S THEN NoKey ELSE tag[i]]
        /\ valid' = [i \in Frames |-> valid[i] /\ i \notin S]
    BY <1>5 DEF FlushTo
  <2> HIDE DEF S
  <2>2. EntryTypes'
    BY <2>1 DEF EntryTypes
  <2>3. ASSUME NEW k \in Keys, hashTable'[k] # NoFrame
        PROVE  valid'[hashTable'[k]] /\ tag'[hashTable'[k]] = k
    <3>1. /\ hashTable'[k] = hashTable[k] /\ hashTable[k] \in Frames
          /\ valid[hashTable[k]] /\ tag[hashTable[k]] = k
          /\ \A i \in S : tag[i] # k
      BY <2>1, <2>3 DEF EntryTypes, EntriesLead
    <3> QED  BY <2>1, <3>1 DEF EntryTypes
  <2> QED  BY <2>2, <2>3 DEF EntriesLead
<1>6. ASSUME NEW f \in Files, FlushFile(f)
      PROVE  Leads'
  BY <1>5, <1>6 DEF FlushFile
<1>7. CASE Restart
  BY <1>7 DEF Restart, EmptyPool, EntryTypes, EntriesLead
<1> QED
  BY <1>2, <1>3, <1>4, <1>6, <1>7 DEF AsInP4

\* Whatever fails, an entry of the hash table leads to its page.
LEMMA NextLeads ==
  ASSUME Leads, [NextP6]_varsP6
  PROVE  Leads'
<1>1. ASSUME UNCHANGED <<tag, valid, hashTable>>
      PROVE  Leads'
  BY <1>1 DEF Leads, EntryTypes, EntriesLead
<1>2. ASSUME BufferExceeded
      PROVE  Leads'
  BY <1>1, <1>2 DEF BufferExceeded
<1>3. ASSUME NEW k \in Keys, ReadFails(k)
      PROVE  Leads'
  BY <1>2, <1>3, LeadsLeft DEF ReadFails, WriteBackFails
<1>4. ASSUME NEW k \in Keys, NEW i \in Frames, ReadMiss(k, i)
      PROVE  Leads'
  BY <1>4, LeadsSet DEF ReadMiss
<1>5. ASSUME NEW k \in Keys, NEW d \in BOOLEAN, UnPinRefused(k, d)
      PROVE  Leads'
  BY <1>1, <1>5 DEF UnPinRefused
<1>6. ASSUME NEW f \in Files, AllocNoFrame(f)
      PROVE  Leads'
  BY <1>2, <1>6, LeadsLeft DEF AllocNoFrame, WriteBackFails
<1>7. ASSUME NEW f \in Files, NEW a \in Allocations(file[f])
      PROVE  a.status = "OK" => <<f, a.pageNo>> \in Keys
  BY DEF Allocations, Readable, Reuse, Extend, AllocateFails, Keys
<1>8. ASSUME NEW f \in Files, NEW i \in Frames,
             AllocOK(f, i) \/ AllocRefused(f, i)
      PROVE  Leads'
  BY <1>7, <1>8, LeadsSet DEF AllocOK, AllocRefused
<1>9. CASE UNCHANGED varsP6
  BY <1>1, <1>9 DEF varsP6, vars, pool
<1> QED
  BY <1>3, <1>4, <1>5, <1>6, <1>8, <1>9, LeadsInP4 DEF NextP6

\* The frame that allocBuf finds is one nobody has pinned.
LEMMA FoundIsFree ==
  ASSUME TypeOK, InvalidIsCleared, NEW i \in Frames, FrameFound(i)
  PROVE  pinCnt[i] = 0
BY DEF FrameFound, StopsAt, FirstOf, TakableFrames, SecondChanceFrames,
       Takable, SecondChance, InvalidIsCleared

LEMMA FrameSetGives ==
  ASSUME TypeOK, InvalidIsCleared, NEW i \in Frames, NEW k, FrameSet(i, k)
  PROVE  GivenTo(i, k) /\ pinCnt[i] = 0 /\ clockHand' = i
<1>1. RefbitsPassed(i) \in [Frames -> BOOLEAN]
  BY DEF RefbitsPassed, TypeOK
<1> QED
  BY <1>1, FoundIsFree DEF FrameSet, GivenTo

\* allocBuf fails and leaves no frame without its entry: the pool is as it was,
\* and no frame had to be written.
LEMMA NotTaken ==
  ASSUME TypeOK, ~faulty',
         BufferExceeded \/ \E i \in Frames : FrameLeft(i)
  PROVE  PoolStays /\ \A i \in Frames : FrameLeft(i) => ~valid[i]
<1>1. ASSUME NEW i \in Frames, FrameLeft(i)
      PROVE  PoolStays /\ ~valid[i]
  <2>1. ~valid[i]
    BY <1>1 DEF FrameLeft
  <2>2. hashTable' = hashTable
    BY <1>1, <2>1 DEF FrameLeft, EntryRemoved, HashWithout
  <2> QED
    BY <1>1, <2>1, <2>2 DEF FrameLeft, RefbitsPassed, PoolStays, TypeOK
<1>2. ASSUME BufferExceeded
      PROVE  PoolStays
  <2>1. /\ UNCHANGED <<clockHand, tag, pinCnt, dirty, valid, bufPool, hashTable>>
        /\ refbit' = [i \in Frames |-> FALSE]
    BY <1>2 DEF BufferExceeded
  <2>2. refbit' \in [Frames -> BOOLEAN] /\ clockHand' \in Frames
    BY <2>1 DEF TypeOK
  <2> QED  BY <2>1, <2>2 DEF PoolStays
<1>3. PoolStays
  BY <1>1, <1>2
<1>4. \A i \in Frames : FrameLeft(i) => ~valid[i]
  BY <1>1
<1> QED
  BY <1>3, <1>4

\* A call that has found no frame keeps the invariant and is a refusal.
LEMMA Refuses ==
  ASSUME IInv, UNCHANGED clients, PoolStays,
         FilesOK(file', live), SamePages(file, file', live),
         status' \in Store!Refusals
  PROVE  IInv' /\ Store!StoreNext
<1>1. status' \in Statuses
  BY DEF Store!Refusals, Statuses
<1>2. UNCHANGED <<hashTable, bufPool>>
  BY DEF PoolStays
<1> QED
  BY <1>1, <1>2, NoFrameIInv, NothingSeen

LEMMA UnPinRefusedSound ==
  ASSUME IInv, NEW k \in Keys, NEW d \in BOOLEAN, UnPinRefused(k, d)
  PROVE  IInv' /\ Store!StoreNext
<1> DEFINE i == hashTable[k]
<1>0. TypeOK /\ PoolOK /\ FilesSound /\ CleanIsOnDisk
  BY DEF IInv
<1>1. /\ d => k \in live
      /\ UNCHANGED <<file, clockHand, tag, pinCnt, valid, refbit, bufPool,
                     hashTable, live, held, ptr, changed>>
      /\ status' \in {"HASHNOTFOUND", "PAGENOTPINNED"}
      /\ dirty' = dirty \/ (i # NoFrame /\ dirty' = [dirty EXCEPT ![i] = @ \/ d])
  BY DEF UnPinRefused, DirtyAfter, clients
<1>2. i # NoFrame => i \in Frames /\ valid[i] /\ tag[i] = k
  BY <1>0, EntryIs
<1>3. /\ dirty' \in [Frames -> BOOLEAN]
      /\ \A j \in Frames : dirty[j] => dirty'[j]
      /\ \A j \in Frames : dirty'[j] => dirty[j] \/ (valid[j] /\ tag[j] \in live)
  BY <1>0, <1>1, <1>2 DEF TypeOK
<1> HIDE DEF i
<1>4. TypeOK'
  BY <1>0, <1>1, <1>3 DEF TypeOK, Statuses
<1>5. PoolOK'
  <2>1. DirtyIsLive'
    BY <1>0, <1>1, <1>3 DEF PoolOK, DirtyIsLive
  <2> QED
    BY <1>0, <1>1, <2>1
    DEF PoolOK, HashMatchesFrames, InvalidIsCleared, PinsKept, ChangedIsPinned
<1>6. FilesSound' /\ CleanIsOnDisk'
  BY <1>0, <1>1, <1>3 DEF FilesSound, LivePages, CleanIsOnDisk
<1>7. Store!StoreNext
  <2>1. SamePages(file, file', live) /\ status' \in Store!Refusals
        /\ UNCHANGED clients /\ UNCHANGED <<hashTable, bufPool>>
    BY <1>1 DEF SamePages, Store!Refusals, clients
  <2> QED  BY <2>1, NothingSeen
<1> QED
  BY <1>4, <1>5, <1>6, <1>7 DEF IInv

\* The calls that are as in P4.
LEMMA SoundInP4 ==
  ASSUME IInv, AsInP4
  PROVE  IInv' /\ Store!StoreNext
<1>1. ASSUME NEW f \in Files, FlushFile(f)
      PROVE  IInv' /\ Store!StoreNext
  BY <1>1, FlushFileIInv, FlushFileStore
<1> QED
  BY <1>1, ReadPageHitIInv, ReadPageHitStore, UnPinPageIInv, UnPinPageStore,
     WriteFrameIInv, WriteFrameStore, DisposePageIInv, DisposePageStore,
     AllocPageNoPageIInv, AllocPageNoPageStore, RestartIInv, RestartStore
  DEF AsInP4

\* A call that leaves no frame without its entry keeps the pool sound and is a
\* call of the page store.
LEMMA SoundStep ==
  ASSUME IInv, NextP6, ~faulty'
  PROVE  IInv' /\ Store!StoreNext
<1>0. TypeOK /\ PoolOK /\ InvalidIsCleared /\ FilesOK(file, live)
  BY FilesAreOK DEF IInv, PoolOK
<1>1. ASSUME NEW k \in Keys, ReadFails(k)
      PROVE  IInv' /\ Store!StoreNext
  <2>1. /\ BufferExceeded \/ \E i \in Frames : FrameLeft(i)
        /\ UNCHANGED clients /\ status' \in Store!Refusals
    BY <1>1 DEF ReadFails, BufferExceeded, WriteBackFails, Store!Refusals
  <2>2. PoolStays /\ \A i \in Frames : FrameLeft(i) => ~valid[i]
    BY <1>0, <2>1, NotTaken
  <2>3. file' = file
    BY <1>1, <2>2 DEF ReadFails, WriteBackFails, WrittenBack, MustWrite
  <2>4. FilesOK(file', live) /\ SamePages(file, file', live)
    BY <1>0, <2>3 DEF SamePages
  <2> QED  BY <2>1, <2>2, <2>4, Refuses
<1>2. ASSUME NEW k \in Keys, NEW i \in Frames, ReadMiss(k, i)
      PROVE  IInv' /\ Store!StoreNext
  <2>1. ReadInto(i, k)
    BY <1>0, <1>2, FrameSetGives DEF ReadMiss, EntryRemoved, ReadInto
  <2> QED  BY <2>1, ReadIntoIInv, ReadIntoStore
<1>3. ASSUME NEW f \in Files, AllocNoFrame(f)
      PROVE  IInv' /\ Store!StoreNext
  <2>1. PICK a \in Allocations(file[f]) :
          /\ file' = [file EXCEPT ![f] = a.file]
          /\ BufferExceeded \/ \E i \in Frames : FrameLeft(i)
          /\ UNCHANGED clients /\ status' \in Store!Refusals
    BY <1>3 DEF AllocNoFrame, BufferExceeded, WriteBackFails, Store!Refusals
  <2>2. PoolStays
    BY <1>0, <2>1, NotTaken
  <2>3. FilesOK(file', live) /\ SamePages(file, file', live)
    BY <2>1, GivenPage
  <2> QED  BY <2>1, <2>2, <2>3, Refuses
<1>4. ASSUME NEW f \in Files, NEW i \in Frames, AllocOK(f, i)
      PROVE  IInv' /\ Store!StoreNext
  <2>1. \E a \in Allocations(file[f]) : AllocatedInto(f, i, a)
    BY <1>0, <1>4, FrameSetGives DEF AllocOK, EntryRemoved, AllocatedInto
  <2> QED  BY <2>1, AllocatedIntoIInv, AllocatedIntoStore
<1>5. ASSUME NEW f \in Files, NEW i \in Frames, AllocRefused(f, i)
      PROVE  FALSE
  BY <1>5 DEF AllocRefused
<1> QED
  BY <1>1, <1>2, <1>3, <1>4, <1>5, SoundInP4, UnPinRefusedSound DEF NextP6

\* Once a frame has been left without its entry, the history says so for good.
LEMMA FaultyStays ==
  ASSUME NextP6, faulty \in BOOLEAN
  PROVE  faulty => faulty'
BY DEF NextP6, AsInP4, ReadFails, BufferExceeded, WriteBackFails, FrameLeft,
       ReadMiss, UnPinRefused, AllocNoFrame, AllocOK, AllocRefused

LEMMA NextIInvP6 ==
  ASSUME IInvP6, faulty \in BOOLEAN, [NextP6]_varsP6
  PROVE  /\ IInvP6' /\ faulty' \in BOOLEAN
         /\ ~faulty' => [Store!StoreNext]_(Store!storeVars)
<1>1. Leads'
  BY NextLeads DEF IInvP6
<1>2. CASE NextP6
  <2>1. ~faulty' => ~faulty
    BY <1>2, FaultyStays
  <2>2. ~faulty' => IInv' /\ Store!StoreNext
    BY <1>2, <2>1, SoundStep DEF IInvP6
  <2>3. faulty' \in BOOLEAN
    BY <1>2 DEF NextP6, AsInP4, ReadFails, BufferExceeded, WriteBackFails,
       FrameLeft, ReadMiss, UnPinRefused, AllocNoFrame, AllocOK, AllocRefused
  <2> QED  BY <1>1, <2>2, <2>3 DEF IInvP6
<1>3. CASE UNCHANGED varsP6
  <2>1. UNCHANGED <<file, pool, clients, status, faulty>>
    BY <1>3 DEF varsP6, vars
  <2>2. ~faulty => IInv'
    <3>1. ASSUME ~faulty
          PROVE  IInv /\ status' \in Statuses
      BY <2>1, <3>1 DEF IInvP6, IInv, TypeOK
    <3> QED  BY <2>1, <3>1, StatusOnly
  <2>3. UNCHANGED Store!storeVars
    <3>1. UNCHANGED <<file, hashTable, bufPool, live, held, status>>
      BY <2>1 DEF pool, clients
    <3> QED  BY <3>1 DEF Store!storeVars, PageContent
  <2> QED  BY <1>1, <2>1, <2>2, <2>3 DEF IInvP6
<1> QED
  BY <1>2, <1>3

\* The inductive invariant of the buffer manager of P5 and P6.
THEOREM InvarianceP6 == SpecP6 => [](IInvP6 /\ faulty \in BOOLEAN)
<1>1. InitP6 => IInvP6 /\ faulty \in BOOLEAN
  <2>1. IInv => Leads
    BY DEF IInv, TypeOK, PoolOK, HashMatchesFrames, Leads, EntryTypes, EntriesLead
  <2> QED  BY <2>1, InitIInv DEF InitP6, IInvP6
<1>2. IInvP6 /\ faulty \in BOOLEAN /\ [NextP6]_varsP6
        => (IInvP6 /\ faulty \in BOOLEAN)'
  BY NextIInvP6
<1> QED
  BY <1>1, <1>2, PTL DEF SpecP6

\* EntriesLead: no failure of a call ever makes a lookup in the hash table lead
\* to the frame of another page.
THEOREM EntriesAlwaysLead == SpecP6 => []EntriesLead
<1>1. IInvP6 => EntriesLead
  BY DEF IInvP6, Leads
<1> QED
  BY <1>1, InvarianceP6, PTL

\* SoundUntilFaulty: a call of the P6 buffer manager that leaves no frame
\* without its entry breaks nothing that the P4 manager keeps.
THEOREM SoundUntilFaultyAlways == SpecP6 => []SoundUntilFaulty
<1>1. IInvP6 => SoundUntilFaulty
  BY DEF IInvP6, IInv, PoolOK, SoundUntilFaulty
<1> QED
  BY <1>1, InvarianceP6, PTL

\* StoreUntilFaulty: as long as no frame was left without its entry, every call
\* of the P6 buffer manager is a call of PageStore, which is what the heap files
\* and catalogs above it are specified over.
THEOREM StoreUntilFaultyHolds == SpecP6 => StoreUntilFaulty
<1>1. InitP6 => Store!StoreInit
  BY InitStore DEF InitP6
<1>2. IInvP6 /\ faulty \in BOOLEAN /\ [NextP6]_varsP6
        => [~faulty' => [Store!StoreNext]_(Store!storeVars)]_varsP6
  BY NextIInvP6
<1> QED
  BY <1>1, <1>2, InvarianceP6, PTL DEF SpecP6, StoreUntilFaulty
=============================================================================
