------------------------- MODULE FileAndClockProofs -------------------------
(***************************************************************************)
(* Proofs about the open files, for any files, addresses and clients, and  *)
(* about the loop of allocBuf, which computes the relation StopsAt of the  *)
(* module Clock for every number of frames.                                *)
(***************************************************************************)
EXTENDS OpenFiles, ClockSweep, TLAPS

\* The inductive invariant: what the runs check, without strengthening.
IInv ==
  /\ TypeOK
  /\ OneObjectPerFile
  /\ OpenCountsKept
  /\ OpenFilesExist
  /\ ReadsItsFileUnlessLost

\* An object or a page is never taken for none.
LEMMA NilIsNothing ==
  /\ Nil \notin Objects
  /\ Nil \notin CachedPages
  /\ \A h \in Handles : h # Nil
BY HandlesAssumption DEF Nil, Objects, CachedPages

\* Calls that leave the objects, the table and the pool alone.
LEMMA DiskKeepsIInv ==
  ASSUME IInv, UNCHANGED <<object, openFiles, opened, cached, lost>>,
         disk' \in [Names -> {"absent", "headless", "file"}],
         \A n \in Names : IsOpen(n) => disk'[n] = disk[n],
         status' \in {"OK", "UNIXERR", "FILEEXISTS", "FILEOPEN"}
  PROVE  IInv'
BY DEF IInv, TypeOK, OneObjectPerFile, OpenCountsKept, OpenFilesExist,
       ReadsItsFileUnlessLost, ReadsItsFile, IsOpen

LEMMA CreateKeepsIInv ==
  ASSUME IInv, NEW n \in Names, CreateFile(n)
  PROVE  IInv'
<1>1. /\ disk' \in [Names -> {"absent", "headless", "file"}]
      /\ \A m \in Names : IsOpen(m) => disk'[m] = disk[m]
  BY DEF IInv, TypeOK, CreateFile, OpenFilesExist
<1> QED
  BY <1>1, DiskKeepsIInv DEF CreateFile

LEMMA DestroyKeepsIInv ==
  ASSUME IInv, NEW n \in Names, DestroyFile(n)
  PROVE  IInv'
<1>1. /\ disk' \in [Names -> {"absent", "headless", "file"}]
      /\ \A m \in Names : IsOpen(m) => disk'[m] = disk[m]
  BY DEF IInv, TypeOK, DestroyFile
<1> QED
  BY <1>1, DiskKeepsIInv DEF DestroyFile

\* The object of an open file.
LEMMA ObjectOfOpenFile ==
  ASSUME IInv, NEW n \in Names, IsOpen(n)
  PROVE  /\ openFiles[n] \in Handles
         /\ object[openFiles[n]] \in Objects
         /\ object[openFiles[n]].fileName = n
         /\ opened[openFiles[n]] = object[openFiles[n]].openCnt
BY NilIsNothing
DEF IInv, TypeOK, IsOpen, OneObjectPerFile, OpenCountsKept

LEMMA OpenAgainKeepsIInv ==
  ASSUME IInv, NEW n \in Names, OpenAgain(n)
  PROVE  IInv'
<1> DEFINE h == openFiles[n]
<1> USE NilIsNothing
<1>1. /\ h \in Handles /\ object[h] \in Objects /\ object[h].fileName = n
      /\ opened[h] = object[h].openCnt /\ opened[h] < MaxOpen
  BY ObjectOfOpenFile DEF OpenAgain
<1>2. /\ object'[h] \in Objects /\ object'[h] # Nil
      /\ object'[h].fileName = n /\ object'[h].openCnt = opened'[h]
      /\ opened'[h] \in 0..MaxOpen
  BY <1>1, MaxOpenAssumption DEF IInv, TypeOK, OpenAgain, Objects
<1>3. \A g \in Handles \ {h} : object'[g] = object[g] /\ opened'[g] = opened[g]
  BY DEF OpenAgain, IInv, TypeOK
<1>4. TypeOK'
  BY <1>1, <1>2, <1>3 DEF IInv, TypeOK, OpenAgain
<1>5. OneObjectPerFile'
  BY <1>1, <1>2, <1>3 DEF IInv, OneObjectPerFile, OpenAgain
<1>6. OpenCountsKept'
  BY <1>1, <1>2, <1>3 DEF IInv, OpenCountsKept, OpenAgain
<1>7. OpenFilesExist' /\ ReadsItsFileUnlessLost'
  BY <1>1, <1>2, <1>3
  DEF IInv, OpenFilesExist, ReadsItsFileUnlessLost, ReadsItsFile, OpenAgain,
      IsOpen
<1> QED
  BY <1>4, <1>5, <1>6, <1>7 DEF IInv

LEMMA OpenFirstKeepsIInv ==
  ASSUME IInv, NEW n \in Names, NEW h \in Handles, OpenFirst(n, h)
  PROVE  IInv'
<1> USE NilIsNothing
<1>1. /\ object'[h] \in Objects /\ object'[h] # Nil
      /\ object'[h].fileName = n /\ object'[h].openCnt = 1 /\ opened'[h] = 1
      /\ 1 \in 0..MaxOpen
  BY MaxOpenAssumption DEF IInv, TypeOK, OpenFirst, Objects
<1>2. \A g \in Handles \ {h} : object'[g] = object[g] /\ opened'[g] = opened[g]
  BY DEF OpenFirst, IInv, TypeOK
<1>3. /\ openFiles'[n] = h
      /\ \A m \in Names \ {n} : openFiles'[m] = openFiles[m]
  BY DEF OpenFirst, IInv, TypeOK
<1>4. TypeOK'
  BY <1>1, <1>2 DEF IInv, TypeOK, OpenFirst
<1>5. OneObjectPerFile'
  BY <1>1, <1>2, <1>3 DEF IInv, OneObjectPerFile, OpenFirst, IsOpen
<1>6. OpenCountsKept'
  BY <1>1, <1>2 DEF IInv, OpenCountsKept
<1>7. OpenFilesExist' /\ ReadsItsFileUnlessLost'
  BY <1>1, <1>2, <1>3
  DEF IInv, OpenFilesExist, ReadsItsFileUnlessLost, ReadsItsFile, OpenFirst,
      IsOpen
<1> QED
  BY <1>4, <1>5, <1>6, <1>7 DEF IInv

LEMMA CloseKeepsIInv ==
  ASSUME IInv, NEW h \in Handles, CloseFile(h)
  PROVE  IInv'
<1> DEFINE n == object[h].fileName
<1> USE NilIsNothing
<1>1. /\ object[h] # Nil /\ object[h] \in Objects /\ n \in Names
      /\ opened[h] = object[h].openCnt /\ openFiles[n] = h
      /\ opened[h] \in 1..MaxOpen
      /\ opened'[h] = opened[h] - 1
      /\ \A g \in Handles \ {h} : object'[g] = object[g] /\ opened'[g] = opened[g]
      /\ opened' \in [Handles -> 0..MaxOpen]
  BY MaxOpenAssumption
  DEF IInv, TypeOK, OpenCountsKept, OneObjectPerFile, CloseFile, Objects
<1>2. CASE ~LastClose(h)
  <2>1. /\ object'[h] \in Objects /\ object'[h] # Nil
        /\ object'[h].fileName = n /\ object'[h].openCnt = opened'[h]
    BY <1>1, <1>2, MaxOpenAssumption
    DEF IInv, TypeOK, CloseFile, LastClose, Objects
  <2>2. UNCHANGED <<disk, openFiles, cached, lost>> /\ status' = "OK"
    BY <1>2 DEF CloseFile
  <2>3. TypeOK'
    BY <1>1, <1>2, <2>1, <2>2 DEF IInv, TypeOK, CloseFile
  <2>4. OneObjectPerFile'
    BY <1>1, <2>1, <2>2 DEF IInv, OneObjectPerFile
  <2>5. OpenCountsKept'
    BY <1>1, <2>1 DEF IInv, OpenCountsKept
  <2>6. OpenFilesExist' /\ ReadsItsFileUnlessLost'
    BY <1>1, <2>1, <2>2
    DEF IInv, OpenFilesExist, ReadsItsFileUnlessLost, ReadsItsFile, IsOpen
  <2> QED
    BY <2>3, <2>4, <2>5, <2>6 DEF IInv
<1>3. CASE LastClose(h)
  <2>1. /\ object'[h] = Nil /\ opened'[h] = 0
        /\ openFiles'[n] = Nil
        /\ \A m \in Names \ {n} : openFiles'[m] = openFiles[m]
        /\ UNCHANGED disk /\ status' = "OK"
    BY <1>1, <1>3, MaxOpenAssumption DEF IInv, TypeOK, CloseFile, LastClose
  <2>2. /\ cached' \in [Handles -> CachedPages \cup {Nil}]
        /\ lost' \in BOOLEAN
        /\ ~lost' => /\ ~lost /\ cached'[h] = Nil
                     /\ \A g \in Handles \ {h} : cached'[g] = cached[g]
    BY <1>3 DEF IInv, TypeOK, CloseFile, FlushAtEnd, Flush
  <2>3. TypeOK'
    BY <1>1, <1>3, <2>1, <2>2 DEF IInv, TypeOK, CloseFile
  <2>4. OneObjectPerFile'
    BY <1>1, <2>1 DEF IInv, OneObjectPerFile
  <2>5. OpenCountsKept'
    BY <1>1, <2>1 DEF IInv, OpenCountsKept
  <2>6. OpenFilesExist'
    BY <2>1 DEF IInv, OpenFilesExist, IsOpen
  <2>7. ReadsItsFileUnlessLost'
    BY <1>1, <2>1, <2>2 DEF IInv, ReadsItsFileUnlessLost, ReadsItsFile
  <2> QED
    BY <2>3, <2>4, <2>5, <2>6, <2>7 DEF IInv
<1> QED
  BY <1>2, <1>3

\* Calls that move pages in and out of the pool, or pin them.
LEMMA PoolKeepsIInv ==
  ASSUME IInv, NEW h \in Handles,
         ReadPage(h) \/ Evict(h) \/ (\E d \in BOOLEAN : UnPinPage(h, d))
  PROVE  IInv'
<1> USE NilIsNothing
<1>1. /\ UNCHANGED <<disk, object, openFiles, opened, lost, status>>
      /\ \A g \in Handles \ {h} : cached'[g] = cached[g]
      /\ DOMAIN cached' = Handles
  BY DEF IInv, TypeOK, ReadPage, Evict, UnPinPage
<1>2. /\ cached'[h] \in CachedPages \cup {Nil}
      /\ cached'[h] # Nil => \/ cached[h] # Nil /\ cached'[h].of = cached[h].of
                             \/ /\ object[h] # Nil
                                /\ cached'[h].of = object[h].fileName
  <2>1. CASE ReadPage(h)
    <3>1. object[h] # Nil /\ object[h].fileName \in Names
      BY <2>1 DEF IInv, TypeOK, OpenCountsKept, ReadPage, Objects
    <3>2. CASE cached[h] = Nil
      BY <2>1, <3>1, <3>2 DEF IInv, TypeOK, ReadPage, CachedPages
    <3>3. CASE cached[h] # Nil
      <4>1. cached[h] \in CachedPages
        BY <3>3 DEF IInv, TypeOK
      <4>2. cached'[h] = [cached[h] EXCEPT !.pinned = TRUE]
        BY <2>1, <3>3 DEF ReadPage, IInv, TypeOK
      <4> QED
        BY <3>3, <4>1, <4>2 DEF CachedPages
    <3> QED
      BY <3>2, <3>3
  <2>2. CASE Evict(h)
    BY <2>2 DEF IInv, TypeOK, Evict
  <2>3. ASSUME NEW d \in BOOLEAN, UnPinPage(h, d)
        PROVE  /\ cached'[h] \in CachedPages
               /\ cached[h] # Nil /\ cached'[h].of = cached[h].of
    <3>1. cached[h] \in CachedPages
      BY <2>3 DEF IInv, TypeOK, UnPinPage
    <3>2. cached'[h] = [cached[h] EXCEPT !.pinned = FALSE, !.dirty = @ \/ d]
      BY <2>3 DEF UnPinPage, IInv, TypeOK
    <3>3. \E b \in BOOLEAN : b = (cached[h].dirty \/ d)
      BY Zenon
    <3>4. PICK b \in BOOLEAN : b = (cached[h].dirty \/ d)
      BY <3>3
    <3>5. cached'[h] = [cached[h] EXCEPT !.pinned = FALSE, !.dirty = b]
      BY <3>2, <3>4
    <3>6. cached'[h] = [of |-> cached[h].of, pinned |-> FALSE, dirty |-> b]
      BY <3>1, <3>5 DEF CachedPages
    <3>7. cached[h].of \in Names /\ cached[h] # Nil
      BY <3>1, <2>3 DEF CachedPages, UnPinPage
    <3> QED
      BY <3>6, <3>7 DEF CachedPages
  <2> QED
    BY <2>1, <2>2, <2>3
<1>3. TypeOK'
  <2>1. cached' = [g \in Handles |-> cached'[g]]
    BY DEF IInv, TypeOK, ReadPage, Evict, UnPinPage
  <2>2. cached' \in [Handles -> CachedPages \cup {Nil}]
    BY <1>1, <1>2, <2>1 DEF IInv, TypeOK
  <2> QED
    BY <1>1, <2>2 DEF IInv, TypeOK
<1>4. OneObjectPerFile' /\ OpenCountsKept' /\ OpenFilesExist'
  BY <1>1
  DEF IInv, OneObjectPerFile, OpenCountsKept, OpenFilesExist, IsOpen
<1>5. ReadsItsFileUnlessLost'
  BY <1>1, <1>2 DEF IInv, ReadsItsFileUnlessLost, ReadsItsFile
<1> QED
  BY <1>3, <1>4, <1>5 DEF IInv

-----------------------------------------------------------------------------
\* An empty table and an empty pool, whatever files there are.
LEMMA NothingOpenIsSound ==
  ASSUME disk \in [Names -> {"absent", "headless", "file"}],
         object = [h \in Handles |-> Nil],
         openFiles = [n \in Names |-> Nil],
         opened = [h \in Handles |-> 0],
         cached = [h \in Handles |-> Nil],
         lost = FALSE, status = "OK"
  PROVE  IInv
<1> USE NilIsNothing
<1>1. TypeOK
  <2>1. /\ object \in [Handles -> Objects \cup {Nil}]
        /\ openFiles \in [Names -> Handles \cup {Nil}]
        /\ cached \in [Handles -> CachedPages \cup {Nil}]
    OBVIOUS
  <2>2. opened \in [Handles -> 0..MaxOpen]
    BY MaxOpenAssumption
  <2> QED
    BY <2>1, <2>2 DEF TypeOK
<1>2. OneObjectPerFile
  <2>1. \A n \in Names, h \in Handles : openFiles[n] # h /\ object[h] = Nil
    OBVIOUS
  <2> QED
    BY <2>1 DEF OneObjectPerFile
<1>3. OpenCountsKept
  BY DEF OpenCountsKept
<1>4. OpenFilesExist
  BY DEF OpenFilesExist, IsOpen
<1>5. ReadsItsFileUnlessLost
  BY DEF ReadsItsFileUnlessLost, ReadsItsFile
<1> QED
  BY <1>1, <1>2, <1>3, <1>4, <1>5 DEF IInv

\* Every state satisfies the invariant.
THEOREM Invariance == Spec => []IInv
<1>1. Init => IInv
  BY NothingOpenIsSound DEF Init
<1>2. IInv /\ [Next]_vars => IInv'
  <2> SUFFICES ASSUME IInv, [Next]_vars
               PROVE  IInv'
    OBVIOUS
  <2>1. CASE UNCHANGED vars
    BY <2>1, DiskKeepsIInv DEF vars, IInv, TypeOK
  <2>2. ASSUME NEW n \in Names, OpenFails(n)
        PROVE  IInv'
    BY <2>2, DiskKeepsIInv DEF OpenFails, IInv, TypeOK
  <2>3. CASE Restart
    <3>1. TypeOK'
      <4>1. /\ object' \in [Handles -> Objects \cup {Nil}]
            /\ openFiles' \in [Names -> Handles \cup {Nil}]
            /\ cached' \in [Handles -> CachedPages \cup {Nil}]
        BY <2>3 DEF Restart
      <4>2. opened' \in [Handles -> 0..MaxOpen]
        BY <2>3, MaxOpenAssumption DEF Restart
      <4> QED
        BY <4>1, <4>2, <2>3 DEF Restart, IInv, TypeOK
    <3>2. OneObjectPerFile'
      <4>1. \A n \in Names, h \in Handles :
              openFiles'[n] # h /\ object'[h] = Nil
        BY <2>3, NilIsNothing DEF Restart
      <4> QED
        BY <4>1 DEF OneObjectPerFile
    <3>3. OpenCountsKept'
      BY <2>3 DEF Restart, OpenCountsKept
    <3>4. OpenFilesExist' /\ ReadsItsFileUnlessLost'
      BY <2>3
      DEF Restart, OpenFilesExist, IsOpen, ReadsItsFileUnlessLost, ReadsItsFile
    <3> QED
      BY <3>1, <3>2, <3>3, <3>4 DEF IInv
  <2> QED
    BY <2>1, <2>2, <2>3, CreateKeepsIInv, DestroyKeepsIInv, OpenAgainKeepsIInv,
       OpenFirstKeepsIInv, CloseKeepsIInv, PoolKeepsIInv
    DEF Next
<1> QED
  BY <1>1, <1>2, PTL DEF Spec

\* Every state is of its type.
THEOREM TypesAlways == Spec => []TypeOK
<1>1. IInv => TypeOK
  BY DEF IInv
<1> QED
  BY <1>1, Invariance, PTL

\* The table and the objects agree: one object to a file.
THEOREM OneObjectAlways == Spec => []OneObjectPerFile
<1>1. IInv => OneObjectPerFile
  BY DEF IInv
<1> QED
  BY <1>1, Invariance, PTL

\* No object is deleted under a client that has it open.
THEOREM CountsAlways == Spec => []OpenCountsKept
<1>1. IInv => OpenCountsKept
  BY DEF IInv
<1> QED
  BY <1>1, Invariance, PTL

\* No open file is destroyed.
THEOREM OpenFilesAlwaysExist == Spec => []OpenFilesExist
<1>1. IInv => OpenFilesExist
  BY DEF IInv
<1> QED
  BY <1>1, Invariance, PTL

\* A client reads pages of its file, as long as no flush in a close has failed.
THEOREM ReadsItsFileAlways == Spec => []ReadsItsFileUnlessLost
<1>1. IInv => ReadsItsFileUnlessLost
  BY DEF IInv
<1> QED
  BY <1>1, Invariance, PTL

-----------------------------------------------------------------------------
\* Advancing the hand moves it to the next frame, the last to the first.
LEMMA NextHand ==
  ASSUME NEW h \in Frames
  PROVE  (h + 1) % NumBufs = IF h = NumBufs - 1 THEN 0 ELSE h + 1
<1>1. NumBufs \in Nat /\ NumBufs > 0 /\ h \in Nat /\ h < NumBufs
  BY NumBufsAssumption DEF Frames
<1>2. CASE h = NumBufs - 1
  BY <1>1, <1>2
<1>3. CASE h + 1 < NumBufs
  BY <1>1, <1>3
<1> QED
  BY <1>1, <1>2, <1>3

\* Counted from any frame s, the hand comes to the frames in order.
LEMMA TurnAdvances ==
  ASSUME NEW s \in Frames, NEW h \in Frames
  PROVE  /\ (h + 1) % NumBufs \in Frames
         /\ Turn(s, h) \in 0..(NumBufs - 1)
         /\ Turn(s, s) = 0
         /\ Turn(s, h) = 0 => h = s
         /\ Turn(s, (h + 1) % NumBufs) =
              IF Turn(s, h) = NumBufs - 1 THEN 0 ELSE Turn(s, h) + 1
         /\ \A j \in Frames : Turn(s, j) = Turn(s, h) => j = h
BY NextHand, NumBufsAssumption DEF Frames, Turn

-----------------------------------------------------------------------------
(***************************************************************************)
(* The invariant of the loop.  In the first turn, the frames passed so far *)
(* could not be taken, and those of them that are unpinned have lost their *)
(* reference bit, of which foundUnpinButRef keeps track.  In the second    *)
(* turn there is a frame to take, since one of them has lost its bit, and  *)
(* it has not been passed.                                                 *)
(***************************************************************************)
At(j) == Turn(startHand, j)
Saved(j) == SecondChance(valid, pinCnt, startRefbit, j)
Free(j) == Takable(valid, pinCnt, startRefbit, j)

\* The reference bits when the frames j with P(j) have been passed.
FirstTurn ==
  /\ At(clockHand) = passed
  /\ \A j \in Frames : At(j) < passed => ~Free(j)
  /\ \A j \in Frames : refbit[j] <=> startRefbit[j] /\ ~(Saved(j) /\ At(j) < passed)
  /\ foundUnpinButRef <=> \E j \in Frames : Saved(j) /\ At(j) < passed

SecondTurn ==
  /\ At(clockHand) = passed - NumBufs
  /\ \A j \in Frames : ~Free(j)
  /\ \A j \in Frames : refbit[j] <=> startRefbit[j] /\ ~Saved(j)
  /\ \A j \in Frames : At(j) < passed - NumBufs => ~Saved(j)
  /\ foundUnpinButRef
  /\ \E j \in Frames : Saved(j)

LoopInv ==
  /\ pc = "search" => IF passed < NumBufs THEN FirstTurn ELSE SecondTurn
  /\ passed < 2 * NumBufs

Inv == SweepTypeOK /\ LoopInv /\ StopsAtVictim /\ ExceededOnlyIfAllPinned

\* Nothing has been passed at the call.
LEMMA InitInv == SweepInit => Inv
<1> SUFFICES ASSUME SweepInit PROVE Inv
  OBVIOUS
<1>1. SweepTypeOK
  BY DEF SweepInit, SweepTypeOK
<1>2. At(clockHand) = 0 /\ \A j \in Frames : At(j) \in Nat
  BY <1>1, TurnAdvances DEF SweepInit, SweepTypeOK, At
<1>3. FirstTurn /\ passed < NumBufs /\ pc = "search" /\ passed < 2 * NumBufs
  BY <1>1, <1>2, NumBufsAssumption DEF SweepInit, SweepTypeOK, FirstTurn
<1> QED
  BY <1>1, <1>3 DEF Inv, LoopInv, StopsAtVictim, ExceededOnlyIfAllPinned

\* Where the frames are, counted from the hand at the call.
LEMMA AtFrame ==
  ASSUME SweepTypeOK, NEW j \in Frames
  PROVE  /\ At(j) \in Nat /\ At(j) < NumBufs
         /\ At(j) = At(clockHand) => j = clockHand
         /\ At(j) = 0 => j = startHand
         /\ pinCnt[j] \in Nat
<1>1. clockHand \in Frames /\ startHand \in Frames
  BY DEF SweepTypeOK
<1>2. Turn(startHand, j) \in 0..(NumBufs - 1)
  BY <1>1, TurnAdvances
<1>3. At(j) \in Nat /\ At(j) < NumBufs
  BY <1>2, NumBufsAssumption DEF At
<1>4. At(j) = At(clockHand) => j = clockHand
  BY <1>1, TurnAdvances DEF At
<1>5. At(j) = 0 => j = startHand
  BY <1>1, TurnAdvances DEF At
<1>6. pinCnt[j] \in Nat
  BY PinCountsAssumption DEF SweepTypeOK
<1> QED
  BY <1>3, <1>4, <1>5, <1>6

\* What an iteration finds at the hand, and where the hand goes from there.
LEMMA AtHand ==
  ASSUME SweepTypeOK
  PROVE  /\ clockHand \in Frames /\ startHand \in Frames
         /\ (clockHand + 1) % NumBufs \in Frames
         /\ At(clockHand) = NumBufs - 1 => At((clockHand + 1) % NumBufs) = 0
         /\ At(clockHand) # NumBufs - 1 =>
              At((clockHand + 1) % NumBufs) = At(clockHand) + 1
         /\ At(startHand) = 0
         /\ NumBufs \in Nat /\ NumBufs > 0 /\ passed \in Nat
<1>1. clockHand \in Frames /\ startHand \in Frames /\ passed \in Nat
  BY DEF SweepTypeOK
<1>2. /\ (clockHand + 1) % NumBufs \in Frames
      /\ At(clockHand) = NumBufs - 1 => At((clockHand + 1) % NumBufs) = 0
      /\ At(clockHand) # NumBufs - 1 =>
           At((clockHand + 1) % NumBufs) = At(clockHand) + 1
      /\ At(startHand) = 0
  <2>1. (clockHand + 1) % NumBufs \in Frames
    BY <1>1, TurnAdvances
  <2>2. Turn(startHand, (clockHand + 1) % NumBufs) =
          IF Turn(startHand, clockHand) = NumBufs - 1
            THEN 0 ELSE Turn(startHand, clockHand) + 1
    BY ONLY <1>1, TurnAdvances
  <2>3. Turn(startHand, startHand) = 0
    BY <1>1, TurnAdvances
  <2> QED  BY <2>1, <2>2, <2>3 DEF At
<1>3. NumBufs \in Nat /\ NumBufs > 0
  BY NumBufsAssumption
<1> QED
  BY <1>1, <1>2, <1>3

\* Passing a frame in the first turn, whether it is pinned or loses its bit:
\* the turn goes on, or it is over and either the second begins or every
\* frame was found pinned.
LEMMA FirstTurnPasses ==
  ASSUME SweepTypeOK, pc = "search", passed < NumBufs, FirstTurn,
         valid[clockHand], ~Free(clockHand),
         refbit' = [refbit EXCEPT ![clockHand] = @ /\ ~Saved(clockHand)],
         foundUnpinButRef' = (foundUnpinButRef \/ Saved(clockHand)),
         Found, Advance, SweepTypeOK'
  PROVE  LoopInv' /\ ExceededOnlyIfAllPinned'
<1> DEFINE h == clockHand
           next == (h + 1) % NumBufs
<1>1. /\ clockHand' = next /\ passed' = passed + 1
      /\ UNCHANGED <<valid, pinCnt, startHand, startRefbit>>
  BY DEF Advance, NextFrame, LoopsOn, Found
<1>2. \A j \in Frames : At(j)' = At(j) /\ (Saved(j)' <=> Saved(j))
                                       /\ (Free(j)' <=> Free(j))
  BY <1>1 DEF At, Saved, Free, SecondChance, Takable
<1>3. /\ At(h) = passed
      /\ \A j \in Frames : At(j) < passed + 1 <=> At(j) < passed \/ j = h
      /\ At(next) = IF passed = NumBufs - 1 THEN 0 ELSE passed + 1
  BY AtHand, AtFrame DEF FirstTurn
<1>4. \A j \in Frames : At(j) < passed + 1 => ~Free(j)
  BY <1>3 DEF FirstTurn
<1>5. \A j \in Frames : refbit'[j] <=>
        startRefbit[j] /\ ~(Saved(j) /\ At(j) < passed + 1)
  <2>1. ASSUME NEW j \in Frames
        PROVE  refbit'[j] <=> refbit[j] /\ ~(j = h /\ Saved(h))
    BY AtHand, AtFrame DEF SweepTypeOK
  <2> QED  BY <1>3, <2>1 DEF FirstTurn
<1>6. foundUnpinButRef' <=> \E j \in Frames : Saved(j) /\ At(j) < passed + 1
  BY <1>3, AtHand, AtFrame DEF FirstTurn
<1>7. CASE passed + 1 < NumBufs
  <2>1. clockHand' # startHand
    BY <1>1, <1>3, <1>7, AtHand, AtFrame
  <2>2. pc' = "search"
    BY <1>1, <2>1 DEF Advance, NextFrame, LoopsOn
  <2>3. At(clockHand)' = passed + 1
    BY <1>1, <1>3, <1>7, AtHand, AtFrame DEF At
  <2>4. FirstTurn'
    BY <1>1, <1>2, <1>4, <1>5, <1>6, <2>3 DEF FirstTurn
  <2>5. passed' < NumBufs /\ passed' < 2 * NumBufs
    BY <1>1, <1>7, AtHand, AtFrame
  <2> QED  BY <2>2, <2>4, <2>5 DEF LoopInv, ExceededOnlyIfAllPinned
<1>8. CASE passed + 1 = NumBufs
  <2>1. clockHand' = startHand /\ At(clockHand)' = 0
    BY <1>1, <1>3, <1>8, AtHand, AtFrame DEF At
  <2>2. \A j \in Frames : At(j) < passed + 1
    BY <1>8, AtHand, AtFrame
  <2>3. \A j \in Frames : ~Free(j)
    BY <1>4, <2>2
  <2>4. passed' = NumBufs /\ passed' < 2 * NumBufs /\ ~(passed' < NumBufs)
    BY <1>1, <1>8, AtHand, AtFrame
  <2>5. CASE foundUnpinButRef'
    <3>1. pc' = "search"
      BY <1>1, <2>5 DEF Advance, NextFrame, LoopsOn
    <3>2. \A j \in Frames : ~(At(j) < passed' - NumBufs)
      BY <2>4, AtHand, AtFrame
    <3>3. At(clockHand)' = passed' - NumBufs
      BY <2>1, <2>4, AtHand, AtFrame
    <3>4. SecondTurn'
      BY <1>2, <1>5, <1>6, <1>1, <2>2, <2>3, <2>5, <3>2, <3>3 DEF SecondTurn
    <3> QED  BY <2>4, <3>1, <3>4 DEF LoopInv, ExceededOnlyIfAllPinned
  <2>6. CASE ~foundUnpinButRef'
    <3>1. pc' = "done" /\ answer' = "BUFFEREXCEEDED"
      BY <2>1, <2>6, <1>1 DEF Advance, NextFrame, LoopsOn
    <3>2. \A j \in Frames : ~Saved(j) /\ ~Free(j)
      BY <1>6, <2>2, <2>3, <2>6
    <3>3. \A j \in Frames : valid[j] /\ pinCnt[j] > 0
      BY <3>2, AtHand, AtFrame DEF Saved, Free, SecondChance, Takable
    <3>4. \A j \in Frames : refbit'[j] = startRefbit[j]
      BY <1>1, <1>5, <3>2 DEF SweepTypeOK
    <3>5. refbit' = startRefbit
      BY <1>1, <3>4 DEF SweepTypeOK
    <3> QED  BY <1>1, <2>1, <2>4, <3>1, <3>3, <3>5
             DEF LoopInv, ExceededOnlyIfAllPinned
  <2> QED  BY <2>5, <2>6
<1> QED
  BY <1>7, <1>8, AtHand, AtFrame DEF SweepTypeOK

\* In the second turn only pinned frames are passed, and one that is not is
\* still ahead.
LEMMA SecondTurnPasses ==
  ASSUME SweepTypeOK, pc = "search", passed >= NumBufs, SecondTurn,
         ~Saved(clockHand), UNCHANGED <<refbit, foundUnpinButRef>>,
         Found, Advance, passed < 2 * NumBufs
  PROVE  LoopInv' /\ ExceededOnlyIfAllPinned'
<1> DEFINE h == clockHand
           next == (h + 1) % NumBufs
<1>1. /\ clockHand' = next /\ passed' = passed + 1
      /\ UNCHANGED <<valid, pinCnt, startHand, startRefbit>>
      /\ pc' = "search"
  BY DEF Advance, NextFrame, LoopsOn, Found, SecondTurn
<1>2. \A j \in Frames : At(j)' = At(j) /\ (Saved(j)' <=> Saved(j))
                                       /\ (Free(j)' <=> Free(j))
  BY <1>1 DEF At, Saved, Free, SecondChance, Takable
<1>3. PICK j \in Frames : Saved(j)
  BY DEF SecondTurn
<1>4. passed - NumBufs < At(j)
  BY <1>3, AtHand, AtFrame DEF SecondTurn
<1>5. passed + 1 - NumBufs < NumBufs
  BY <1>4, AtHand, AtFrame
<1>6. At(clockHand)' = passed' - NumBufs
  BY <1>1, <1>5, AtHand, AtFrame DEF At, SecondTurn
<1>7. \A k \in Frames : At(k) < passed' - NumBufs => ~Saved(k)
  BY <1>1, AtHand, AtFrame DEF SecondTurn
<1>8. SecondTurn'
  BY <1>1, <1>2, <1>3, <1>6, <1>7 DEF SecondTurn
<1> QED
  BY <1>1, <1>5, <1>8, AtHand, AtFrame DEF LoopInv, ExceededOnlyIfAllPinned

\* The hand stops at the frame that Clock says.
LEMMA Stopping ==
  ASSUME SweepTypeOK, LoopInv, pc = "search",
         ~valid[clockHand] \/ (pinCnt[clockHand] <= 0 /\ ~refbit[clockHand])
  PROVE  /\ StopsAt(startHand, valid, pinCnt, startRefbit, clockHand)
         /\ refbit = RefbitAfter(startHand, valid, pinCnt, startRefbit, clockHand)
<1> DEFINE h == clockHand
           now == TakableFrames(valid, pinCnt, startRefbit)
           later == SecondChanceFrames(valid, pinCnt, startRefbit)
<1>1. /\ \A j : j \in now <=> j \in Frames /\ Free(j)
      /\ \A j : j \in later <=> j \in Frames /\ Saved(j)
  BY DEF TakableFrames, SecondChanceFrames, Free, Saved
<1>2. CASE passed < NumBufs
  <2>1. FirstTurn
    BY <1>2 DEF LoopInv
  <2>2. refbit[h] <=> startRefbit[h]
    BY <2>1, AtHand, AtFrame DEF FirstTurn
  <2>3. Free(h)
    BY <2>2, AtHand, AtFrame DEF Free, Takable
  <2>4. \A j \in now : At(h) <= At(j)
    BY <1>1, <2>1, AtHand, AtFrame DEF FirstTurn
  <2>5. FirstOf(startHand, now, h)
    BY <1>1, <2>3, <2>4, AtHand, AtFrame DEF FirstOf, At
  <2>6. now # {}
    BY <1>1, <2>3, AtHand, AtFrame
  <2>7. \A j \in Frames : refbit[j] <=>
          startRefbit[j] /\ ~(Saved(j) /\ (now = {} \/ At(j) < At(h)))
    BY <2>1, <2>6 DEF FirstTurn
  <2>8. refbit = [j \in Frames |->
          startRefbit[j] /\ ~(Saved(j) /\ (now = {} \/ At(j) < At(h)))]
    BY <2>7 DEF SweepTypeOK
  <2> QED  BY <2>5, <2>8 DEF StopsAt, RefbitAfter, Saved, At
<1>3. CASE ~(passed < NumBufs)
  <2>1. SecondTurn
    BY <1>3 DEF LoopInv
  <2>2. ~Free(h) /\ (refbit[h] <=> startRefbit[h] /\ ~Saved(h))
    BY <2>1, AtHand, AtFrame DEF SecondTurn
  <2>3. Saved(h)
    BY <2>2, AtHand, AtFrame DEF Free, Saved, Takable, SecondChance
  <2>4. \A j \in later : At(h) <= At(j)
    BY <1>1, <2>1, AtHand, AtFrame DEF SecondTurn
  <2>5. FirstOf(startHand, later, h)
    BY <1>1, <2>3, <2>4, AtHand, AtFrame DEF FirstOf, At
  <2>6. now = {}
    BY <1>1, <2>1 DEF SecondTurn
  <2>7. \A j \in Frames : refbit[j] <=>
          startRefbit[j] /\ ~(Saved(j) /\ (now = {} \/ At(j) < At(h)))
    BY <2>1, <2>6 DEF SecondTurn
  <2>8. refbit = [j \in Frames |->
          startRefbit[j] /\ ~(Saved(j) /\ (now = {} \/ At(j) < At(h)))]
    BY <2>7 DEF SweepTypeOK
  <2> QED  BY <2>5, <2>6, <2>8 DEF StopsAt, RefbitAfter, Saved, At
<1> QED
  BY <1>2, <1>3

\* Every iteration keeps the invariant.
LEMMA NextInv == Inv /\ [SweepNext]_sweepVars => Inv'
<1> SUFFICES ASSUME Inv, [SweepNext]_sweepVars PROVE Inv'
  OBVIOUS
<1>0. SweepTypeOK /\ LoopInv
  BY DEF Inv
<1>1. CASE UseInvalid
  <2>1. SweepTypeOK'
    BY <1>0, <1>1 DEF UseInvalid, Return, Found, SweepTypeOK
  <2>2. /\ StopsAt(startHand, valid, pinCnt, startRefbit, clockHand)
        /\ refbit = RefbitAfter(startHand, valid, pinCnt, startRefbit, clockHand)
    BY <1>0, <1>1, Stopping DEF UseInvalid
  <2>3. StopsAtVictim' /\ ExceededOnlyIfAllPinned' /\ LoopInv'
    BY <1>0, <1>1, <2>2
    DEF UseInvalid, Return, Found, StopsAtVictim, ExceededOnlyIfAllPinned, LoopInv
  <2> QED  BY <2>1, <2>3 DEF Inv
<1>2. CASE Replace
  <2>1. SweepTypeOK'
    BY <1>0, <1>2 DEF Replace, Return, Found, SweepTypeOK
  <2>2. /\ StopsAt(startHand, valid, pinCnt, startRefbit, clockHand)
        /\ refbit = RefbitAfter(startHand, valid, pinCnt, startRefbit, clockHand)
    BY <1>0, <1>2, Stopping DEF Replace
  <2>3. StopsAtVictim' /\ ExceededOnlyIfAllPinned' /\ LoopInv'
    BY <1>0, <1>2, <2>2
    DEF Replace, Return, Found, StopsAtVictim, ExceededOnlyIfAllPinned, LoopInv
  <2> QED  BY <2>1, <2>3 DEF Inv
<1>3. CASE SkipPinned
  <2>1. SweepTypeOK'
    BY <1>0, <1>3, AtHand, AtFrame
    DEF SkipPinned, Advance, NextFrame, LoopsOn, Found, SweepTypeOK
  <2>2. ~Saved(clockHand) /\ ~Free(clockHand) /\ valid[clockHand]
    BY <1>0, <1>3, AtHand, AtFrame DEF SkipPinned, Saved, Free, SecondChance, Takable
  <2>3. CASE passed < NumBufs
    <3>1. refbit' = [refbit EXCEPT ![clockHand] = @ /\ ~Saved(clockHand)]
      BY <1>0, <1>3, <2>2 DEF SkipPinned, SweepTypeOK
    <3>2. foundUnpinButRef' = (foundUnpinButRef \/ Saved(clockHand))
      BY <1>0, <1>3, <2>2 DEF SkipPinned, SweepTypeOK
    <3>3. Found /\ Advance /\ pc = "search"
      BY <1>3 DEF SkipPinned
    <3>4. FirstTurn
      BY <1>0, <2>3, <3>3 DEF LoopInv
    <3>5. LoopInv' /\ ExceededOnlyIfAllPinned'
      BY <1>0, <2>1, <2>2, <2>3, <3>1, <3>2, <3>3, <3>4, FirstTurnPasses
    <3> QED  BY <1>3, <2>1, <3>3, <3>5 DEF Inv, StopsAtVictim, Advance, NextFrame, LoopsOn
  <2>4. CASE passed >= NumBufs
    <3>1. Found /\ Advance /\ pc = "search" /\ UNCHANGED <<refbit, foundUnpinButRef>>
      BY <1>3 DEF SkipPinned
    <3>2. SecondTurn /\ passed < 2 * NumBufs
      BY <1>0, <2>4, <3>1, AtHand, AtFrame DEF LoopInv
    <3>3. LoopInv' /\ ExceededOnlyIfAllPinned'
      BY <1>0, <2>2, <2>4, <3>1, <3>2, SecondTurnPasses
    <3> QED  BY <1>3, <2>1, <3>1, <3>3 DEF Inv, StopsAtVictim, Advance, NextFrame, LoopsOn
  <2> QED  BY <2>3, <2>4, <1>0, AtHand, AtFrame
<1>4. CASE ClearRefbit
  <2>1. SweepTypeOK'
    BY <1>0, <1>4, AtHand, AtFrame
    DEF ClearRefbit, RefbitCleared, Advance, NextFrame, LoopsOn, Found, SweepTypeOK
  <2>2. /\ pc = "search" /\ valid[clockHand] /\ pinCnt[clockHand] = 0
        /\ refbit[clockHand] /\ Found /\ Advance
    BY <1>0, <1>4, AtHand, AtFrame DEF ClearRefbit
  <2>3. passed < NumBufs
    <3>1. SUFFICES ASSUME ~(passed < NumBufs) PROVE FALSE
      OBVIOUS
    <3>2. SecondTurn
      BY <1>0, <2>2, <3>1 DEF LoopInv
    <3>3. startRefbit[clockHand] /\ ~Saved(clockHand)
      BY <1>0, <2>2, <3>2, AtHand, AtFrame DEF SecondTurn
    <3> QED  BY <2>2, <3>3 DEF Saved, SecondChance
  <2>4. FirstTurn
    BY <1>0, <2>2, <2>3 DEF LoopInv
  <2>5. startRefbit[clockHand]
    BY <1>0, <2>2, <2>4, AtHand, AtFrame DEF FirstTurn
  <2>6. Saved(clockHand) /\ ~Free(clockHand)
    BY <2>2, <2>5 DEF Saved, Free, SecondChance, Takable
  <2>7. /\ refbit' = [refbit EXCEPT ![clockHand] = @ /\ ~Saved(clockHand)]
        /\ foundUnpinButRef' = (foundUnpinButRef \/ Saved(clockHand))
    BY <1>4, <2>6 DEF ClearRefbit, RefbitCleared
  <2>8. LoopInv' /\ ExceededOnlyIfAllPinned'
    BY <1>0, <2>1, <2>2, <2>3, <2>4, <2>6, <2>7, FirstTurnPasses
  <2> QED  BY <2>1, <2>2, <2>8 DEF Inv, StopsAtVictim, Advance, NextFrame, LoopsOn
<1>5. CASE UNCHANGED sweepVars
  BY <1>5 DEF sweepVars, Inv, SweepTypeOK, LoopInv, StopsAtVictim, ExceededOnlyIfAllPinned,
     FirstTurn, SecondTurn, At, Saved, Free
<1> QED
  BY <1>1, <1>2, <1>3, <1>4, <1>5 DEF SweepNext

\* The invariant holds at every iteration.
LEMMA Invariant == SweepSpec => []Inv
BY InitInv, NextInv, PTL DEF SweepSpec

\* allocBuf stops at the frame the module Clock says, the reference bits of
\* the unpinned frames it passed being clear and no other.
THEOREM VictimIsRight == SweepSpec => []StopsAtVictim
BY Invariant, PTL DEF Inv

\* allocBuf reports BUFFEREXCEEDED only when every frame is pinned, although
\* it looks at the reference bits as it goes.
THEOREM ExceededIsRight == SweepSpec => []ExceededOnlyIfAllPinned
BY Invariant, PTL DEF Inv

\* So the loop computes the relation that the buffer manager uses for it.
THEOREM LoopComputesClock == SweepSpec => []ComputesClock
<1>1. Inv => ComputesClock
  BY DEF Inv, ComputesClock
<1> QED
  BY <1>1, Invariant, PTL

\* Every state of the loop is of its type.
THEOREM SweepTypesAlways == SweepSpec => []SweepTypeOK
BY Invariant, PTL DEF Inv

\* The hand goes around less than twice.
THEOREM TwoTurns == SweepSpec => []AtMostTwoTurns
<1>1. Inv => AtMostTwoTurns
  BY DEF Inv, LoopInv, AtMostTwoTurns
<1> QED
  BY <1>1, Invariant, PTL
=============================================================================
