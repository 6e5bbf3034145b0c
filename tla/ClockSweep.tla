----------------------------- MODULE ClockSweep -----------------------------
(***************************************************************************)
(* The loop of BufMgr::allocBuf (buf.C of stage P4), one iteration a step: *)
(* the clock hand goes around the frames, clears reference bits, and stops *)
(* at a frame to use or when every frame is pinned.  The loop may end only *)
(* when the hand is back where it started and foundUnpinButRef is false,   *)
(* and that flag is never reset; the module BufMgr uses the result of the  *)
(* whole loop as the module Clock states it.                               *)
(***************************************************************************)
EXTENDS Clock

CONSTANT PinCounts   \* the pin counts a frame can be found with

ASSUME PinCountsAssumption == PinCounts \subseteq Nat

VARIABLES
  valid, pinCnt,     \* of the frames; the loop does not change them
  refbit,
  clockHand,
  foundUnpinButRef,
  pc,                \* "search" in the loop, "done" after the return
  answer,            \* what is returned
  \* history: the state at the call, and the number of frames passed
  startHand, startRefbit, passed

sweepVars == <<valid, pinCnt, refbit, clockHand, foundUnpinButRef, pc, answer,
               startHand, startRefbit, passed>>

SweepInit ==
  /\ valid \in [Frames -> BOOLEAN]
  /\ pinCnt \in [Frames -> PinCounts]
  /\ refbit \in [Frames -> BOOLEAN]
  /\ clockHand \in Frames
  /\ foundUnpinButRef = FALSE
  /\ pc = "search"
  /\ answer = "OK"
  /\ startHand = clockHand
  /\ startRefbit = refbit
  /\ passed = 0

Found == UNCHANGED <<valid, pinCnt, startHand, startRefbit>>

\* return with the given status, the hand staying where it is
Return(s) ==
  /\ pc' = "done"
  /\ answer' = s
  /\ UNCHANGED <<clockHand, passed>>

\* advanceClock
NextFrame == (clockHand + 1) % NumBufs

\* The condition of the loop.
LoopsOn == clockHand' # startHand \/ foundUnpinButRef'

Advance ==
  /\ clockHand' = NextFrame
  /\ passed' = passed + 1
  /\ IF LoopsOn THEN UNCHANGED <<pc, answer>>
                ELSE pc' = "done" /\ answer' = "BUFFEREXCEEDED"

UseInvalid ==
  /\ pc = "search"
  /\ ~valid[clockHand]
  /\ Return("OK")
  /\ Found /\ UNCHANGED <<refbit, foundUnpinButRef>>

\* Broken: the loop continues without advanceClock.
SkipPinnedStays ==
  /\ pc = "search"
  /\ valid[clockHand]
  /\ pinCnt[clockHand] > 0
  /\ UNCHANGED sweepVars

SkipPinned ==
  /\ pc = "search"
  /\ valid[clockHand]
  /\ pinCnt[clockHand] > 0
  /\ UNCHANGED <<refbit, foundUnpinButRef>>
  /\ Advance
  /\ Found

RefbitCleared == [refbit EXCEPT ![clockHand] = FALSE]

ClearRefbit ==
  /\ pc = "search"
  /\ valid[clockHand]
  /\ pinCnt[clockHand] <= 0
  /\ refbit[clockHand]
  /\ refbit' = RefbitCleared
  /\ foundUnpinButRef' = TRUE
  /\ Advance
  /\ Found

\* Broken: a frame that was just used has no second chance.
ReplaceAny ==
  /\ pc = "search"
  /\ valid[clockHand]
  /\ pinCnt[clockHand] <= 0
  /\ Return("OK") \/ Return("UNIXERR")
  /\ Found /\ UNCHANGED <<refbit, foundUnpinButRef>>

\* The frame is replaced, or its page is dirty and cannot be written.
Replace ==
  /\ pc = "search"
  /\ valid[clockHand]
  /\ pinCnt[clockHand] <= 0
  /\ ~refbit[clockHand]
  /\ Return("OK") \/ Return("UNIXERR")
  /\ Found /\ UNCHANGED <<refbit, foundUnpinButRef>>

SweepNext == UseInvalid \/ SkipPinned \/ ClearRefbit \/ Replace

\* The loop is a loop of one thread that nothing blocks: it keeps going.
SweepSpec == SweepInit /\ [][SweepNext]_sweepVars /\ WF_sweepVars(SweepNext)

-----------------------------------------------------------------------------
SweepTypeOK ==
  /\ valid \in [Frames -> BOOLEAN]
  /\ pinCnt \in [Frames -> PinCounts]
  /\ refbit \in [Frames -> BOOLEAN]
  /\ clockHand \in Frames
  /\ foundUnpinButRef \in BOOLEAN
  /\ pc \in {"search", "done"}
  /\ answer \in {"OK", "UNIXERR", "BUFFEREXCEEDED"}
  /\ startHand \in Frames
  /\ startRefbit \in [Frames -> BOOLEAN]
  /\ passed \in Nat

\* allocBuf stops at the first frame it can take, counting from the hand, and
\* has taken the reference bit of each unpinned frame it passed, of no other.
StopsAtVictim ==
  pc = "done" /\ answer # "BUFFEREXCEEDED" =>
    /\ StopsAt(startHand, valid, pinCnt, startRefbit, clockHand)
    /\ refbit = RefbitAfter(startHand, valid, pinCnt, startRefbit, clockHand)

\* allocBuf reports BUFFEREXCEEDED only if all buffer frames are pinned, and
\* has then changed nothing: a frame that could be used is always found.
ExceededOnlyIfAllPinned ==
  pc = "done" /\ answer = "BUFFEREXCEEDED" =>
    /\ \A i \in Frames : valid[i] /\ pinCnt[i] > 0
    /\ refbit = startRefbit /\ clockHand = startHand

\* The loop computes what the module Clock says, when it finds a frame and when
\* it does not.
ComputesClock == StopsAtVictim /\ ExceededOnlyIfAllPinned

\* The hand never goes around more than twice, although the flag that keeps
\* the loop going is never reset.
AtMostTwoTurns == passed < 2 * NumBufs

\* allocBuf returns.
Returns == <>(pc = "done")
=============================================================================
