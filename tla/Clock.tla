-------------------------------- MODULE Clock --------------------------------
(***************************************************************************)
(* What BufMgr::allocBuf (buf.C) chooses, as a relation between the frames *)
(* it finds and the one it stops at.  The module ClockSweep has the loop   *)
(* itself and shows that it computes this relation.                        *)
(*                                                                         *)
(* The operators take the clock hand and the fields valid, pinCnt and      *)
(* refbit of the frame descriptors.                                        *)
(***************************************************************************)
EXTENDS Integers

CONSTANT NumBufs   \* the number of frames in the buffer pool (numBufs)

ASSUME NumBufsAssumption == NumBufs \in Nat \ {0}

Frames == 0..(NumBufs - 1)

\* How many frames the hand passes before it is at frame i.
Turn(hand, i) == IF hand <= i THEN i - hand ELSE i - hand + NumBufs

\* A frame the hand stops at the first time it gets there.
Takable(valid, pinCnt, refbit, i) ==
  ~valid[i] \/ (pinCnt[i] = 0 /\ ~refbit[i])

\* A frame whose reference bit saves it once, and once only.
SecondChance(valid, pinCnt, refbit, i) ==
  valid[i] /\ pinCnt[i] = 0 /\ refbit[i]

FirstOf(hand, S, i) == i \in S /\ \A j \in S : Turn(hand, i) <= Turn(hand, j)

TakableFrames(valid, pinCnt, refbit) ==
  {i \in Frames : Takable(valid, pinCnt, refbit, i)}

SecondChanceFrames(valid, pinCnt, refbit) ==
  {i \in Frames : SecondChance(valid, pinCnt, refbit, i)}

(***************************************************************************)
(* The hand stops at i: the first takable frame, or, when there is none in *)
(* a whole turn, the first frame that has lost its reference bit in that   *)
(* turn.  With neither, every frame is pinned and the search gives up.     *)
(***************************************************************************)
StopsAt(hand, valid, pinCnt, refbit, i) ==
  LET now   == TakableFrames(valid, pinCnt, refbit)
      later == SecondChanceFrames(valid, pinCnt, refbit)
  IN  FirstOf(hand, now, i) \/ (now = {} /\ FirstOf(hand, later, i))

GivesUp(valid, pinCnt, refbit) ==
  /\ TakableFrames(valid, pinCnt, refbit) = {}
  /\ SecondChanceFrames(valid, pinCnt, refbit) = {}

\* The reference bits after the search has stopped at i.
RefbitAfter(hand, valid, pinCnt, refbit, i) ==
  [j \in Frames |->
     /\ refbit[j]
     /\ ~ /\ SecondChance(valid, pinCnt, refbit, j)
          /\ \/ TakableFrames(valid, pinCnt, refbit) = {}
             \/ Turn(hand, j) < Turn(hand, i)]
=============================================================================
