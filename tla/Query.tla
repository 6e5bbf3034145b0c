------------------------------- MODULE Query --------------------------------
(***************************************************************************)
(* The query operators over heap files: ScanSelect (select.C), QU_NL_Join  *)
(* (join.C) and QU_Delete (delete.C) of P6, with HeapFileScan::matchRec    *)
(* that picks their tuples.  One command runs, from files in any state;    *)
(* every call it makes may fail.                                           *)
(*                                                                         *)
(* A relation is the sequence of its slots, in the order of a scan.  A     *)
(* tuple <<k>> is the integer attribute that is compared; in the answer it *)
(* is known by its slot.  A scan finds what the module HeapFile says, and  *)
(* the catalogs describe the relations (module Catalog).  The result of a  *)
(* join is neither of the relations it reads.                              *)
(***************************************************************************)
EXTENDS Integers, Sequences, FiniteSets, SequencesExt

CONSTANTS Slots,    \* the files have up to so many slots to begin with,
          MaxSlots, \* and up to so many at the end (bound)
          Keys,     \* the values of the attribute
          Half      \* the ints are -Half..(Half - 1)

ASSUME SizesAssumption ==
  /\ Slots \in Nat /\ MaxSlots \in Nat /\ Slots <= MaxSlots
  /\ Half \in Nat \ {0}
  /\ Keys \subseteq (-Half)..(Half - 1)

Free == <<>>                 \* a slot without a tuple
Tuples == {<<k>> : k \in Keys}
NoFilter == <<>>             \* startScan is called with NULL

Operators == {"LT", "LTE", "EQ", "GTE", "GT", "NE"}

VARIABLES
  cmd,     \* the command that runs
  file,    \* file.outer, file.inner: the relations it reads
  given,   \* history: the relations when it began
  at,      \* at.outer, at.inner: where its scans are, 0 before the first slot
  pc,      \* "outer" or "inner": the loop it is in; "returned"; "exited"
  says,    \* what it has returned
  answer,  \* the tuples it has put into its result or deleted
  cut      \* history: a failed read has been taken for the end of a scan

vars == <<cmd, file, given, at, pc, says, answer, cut>>

Relations(n) == UNION {[1..i -> Tuples \cup {Free}] : i \in 0..n}

\* A select may name its own relation as the result (own).
Commands ==
  [kind : {"select"}, op : Operators, filter : Tuples \cup {NoFilter}, own : BOOLEAN]
    \cup [kind : {"delete"}, op : Operators, filter : Tuples \cup {NoFilter}]
    \cup [kind : {"join"}, op : Operators]

Init ==
  /\ cmd \in Commands
  /\ file \in [outer : Relations(Slots),
               inner : IF cmd.kind = "join" THEN Relations(Slots) ELSE {<<>>}]
  /\ given = file
  /\ at = [outer |-> 0, inner |-> 0]
  /\ pc = "outer"
  /\ says = "nothing"
  /\ answer = <<>>
  /\ cut = FALSE

-----------------------------------------------------------------------------
\* The difference of two ints, which wraps around.
Wrapped(d) == ((d + Half) % (2 * Half)) - Half

\* What op says of a difference.
Holds(op, d) ==
  CASE op = "LT"  -> d < 0
    [] op = "LTE" -> d <= 0
    [] op = "EQ"  -> d = 0
    [] op = "GTE" -> d >= 0
    [] op = "GT"  -> d > 0
    [] op = "NE"  -> d # 0

\* matchRec: the slot t against the filter f; without one every tuple matches.
Matches(t, op, f) ==
  t # Free /\ \A i \in DOMAIN f : Holds(op, Wrapped(t[i] - f[i]))

\* Broken: the operator is handed on as it is.
AsGiven(op) == op

\* The inner scan compares inner with outer: QU_NL_Join turns the operator.
Turned(op) ==
  CASE op = "EQ"  -> "EQ"
    [] op = "GT"  -> "LT"
    [] op = "GTE" -> "LTE"
    [] op = "LT"  -> "GT"
    [] op = "LTE" -> "GTE"
    [] op = "NE"  -> "NE"

-----------------------------------------------------------------------------
\* The slots that match: of the outer relation, and of the inner with the tuple
\* the outer scan is on.
OuterMatches ==
  {s \in DOMAIN file.outer :
     IF cmd.kind = "join" THEN Matches(file.outer[s], "EQ", NoFilter)
                          ELSE Matches(file.outer[s], cmd.op, cmd.filter)}

InnerMatches ==
  {s \in DOMAIN file.inner :
     Matches(file.inner[s], Turned(cmd.op), file.outer[at.outer])}

\* scanNext gives slot s: the first behind the scan that matches.
IsNext(s, i, matching) ==
  /\ s \in matching /\ s > i
  /\ \A t \in matching : t > i => t >= s

AtEnd(i, matching) == \A t \in matching : t <= i

OuterNext(s) == IsNext(s, at.outer, OuterMatches)
OuterEnd == AtEnd(at.outer, OuterMatches)
InnerNext(s) == IsNext(s, at.inner, InnerMatches)
InnerEnd == AtEnd(at.inner, InnerMatches)

Return(status) == pc' = "returned" /\ says' = status

\* A loop over a scan ends with the relation, or with a read that fails.
LoopEnds(end) == cut' = (cut \/ ~end)

-----------------------------------------------------------------------------
(***************************************************************************)
(* ScanSelect.  The tuple is read and goes to the result: at the end of    *)
(* the relation itself or into one of its free slots, if that is the       *)
(* result.                                                                 *)
(***************************************************************************)
PutInto(t) ==
  \/ ~cmd.own /\ UNCHANGED file
  \/ /\ cmd.own /\ Len(file.outer) < MaxSlots
     /\ file' = [file EXCEPT !.outer = Append(@, t)]
  \/ /\ cmd.own
     /\ \E f \in DOMAIN file.outer :
          /\ file.outer[f] = Free
          /\ file' = [file EXCEPT !.outer[f] = t]

SelectTakes ==
  /\ pc = "outer" /\ cmd.kind = "select"
  /\ \E s \in DOMAIN file.outer :
       /\ OuterNext(s)
       /\ at' = [at EXCEPT !.outer = s]
       /\ \/ /\ PutInto(file.outer[s])
             /\ answer' = Append(answer, <<s>>)
             /\ UNCHANGED <<pc, says>>
          \/ Return("failed") /\ UNCHANGED <<file, answer>>
  /\ UNCHANGED <<cmd, given, cut>>

\* The loop is over; endScan may fail.
SelectEnds ==
  /\ pc = "outer" /\ cmd.kind = "select"
  /\ LoopEnds(OuterEnd)
  /\ Return("OK") \/ Return("failed")
  /\ UNCHANGED <<cmd, file, given, at, answer>>

-----------------------------------------------------------------------------
\* Broken: a deletion takes the scan one slot further.
DeleteSkips ==
  /\ pc = "outer" /\ cmd.kind = "delete"
  /\ \E s \in DOMAIN file.outer :
       /\ OuterNext(s)
       /\ at' = [at EXCEPT !.outer = s + 1]
       /\ file' = [file EXCEPT !.outer[s] = Free]
       /\ answer' = Append(answer, <<s>>)
  /\ UNCHANGED <<cmd, given, pc, says, cut>>

\* QU_Delete
DeleteTakes ==
  /\ pc = "outer" /\ cmd.kind = "delete"
  /\ \E s \in DOMAIN file.outer :
       /\ OuterNext(s)
       /\ at' = [at EXCEPT !.outer = s]
       /\ \/ /\ file' = [file EXCEPT !.outer[s] = Free]
             /\ answer' = Append(answer, <<s>>)
             /\ UNCHANGED <<pc, says>>
          \/ Return("failed") /\ UNCHANGED <<file, answer>>
  /\ UNCHANGED <<cmd, given, cut>>

\* ... tells the end of the relation from a failed read.
DeleteEnds ==
  /\ pc = "outer" /\ cmd.kind = "delete"
  /\ \/ OuterEnd /\ Return("OK")
     \/ Return("failed")
  /\ UNCHANGED <<cmd, file, given, at, answer, cut>>

-----------------------------------------------------------------------------
\* QU_NL_Join.  A tuple of the outer relation that scanNext has found and
\* getRecord cannot read ends the program.
Exit == pc' = "exited" /\ UNCHANGED says

\* Broken: the inner scan goes on where it was.
InnerGoesOn ==
  /\ pc = "outer" /\ cmd.kind = "join"
  /\ \E s \in DOMAIN file.outer :
       /\ OuterNext(s)
       /\ at' = [at EXCEPT !.outer = s]
  /\ pc' = "inner"
  /\ UNCHANGED <<cmd, file, given, says, answer, cut>>

\* The next outer tuple; the inner scan is opened and begins.
OuterTakes ==
  /\ pc = "outer" /\ cmd.kind = "join"
  /\ \E s \in DOMAIN file.outer :
       /\ OuterNext(s)
       /\ at' = [outer |-> s, inner |-> 0]
  /\ \/ pc' = "inner" /\ UNCHANGED says
     \/ Return("failed")
     \/ Exit
  /\ UNCHANGED <<cmd, file, given, answer, cut>>

OuterEnds ==
  /\ pc = "outer" /\ cmd.kind = "join"
  /\ LoopEnds(OuterEnd)
  /\ Return("OK")
  /\ UNCHANGED <<cmd, file, given, at, answer>>

InnerTakes ==
  /\ pc = "inner"
  /\ \E s \in DOMAIN file.inner :
       /\ InnerNext(s)
       /\ at' = [at EXCEPT !.inner = s]
       /\ \/ answer' = Append(answer, <<at.outer, s>>) /\ UNCHANGED <<pc, says>>
          \/ Exit /\ UNCHANGED answer
  /\ UNCHANGED <<cmd, file, given, cut>>

\* Broken: the outer scan is started again too.
OuterStartsAgain ==
  /\ pc = "inner"
  /\ LoopEnds(InnerEnd)
  /\ pc' = "outer"
  /\ at' = [outer |-> 0, inner |-> 0]
  /\ UNCHANGED <<cmd, file, given, says, answer>>

InnerEnds ==
  /\ pc = "inner"
  /\ LoopEnds(InnerEnd)
  /\ pc' = "outer"
  /\ UNCHANGED <<cmd, file, given, at, says, answer>>

-----------------------------------------------------------------------------
Next ==
  \/ SelectTakes \/ SelectEnds
  \/ DeleteTakes \/ DeleteEnds
  \/ OuterTakes \/ OuterEnds \/ InnerTakes \/ InnerEnds

\* The program goes on as long as it can.
Spec == Init /\ [][Next]_vars /\ WF_vars(Next)

-----------------------------------------------------------------------------
TypeOK ==
  /\ cmd \in Commands
  /\ file \in [outer : Relations(MaxSlots), inner : Relations(Slots)]
  /\ given \in [outer : Relations(Slots), inner : Relations(Slots)]
  /\ at \in [outer : 0..Len(file.outer), inner : 0..Len(file.inner)]
  /\ pc \in {"outer", "inner", "returned", "exited"}
  /\ says \in {"nothing", "OK", "failed"}
  /\ answer \in Seq(Seq(Nat))
  /\ cut \in BOOLEAN

Done == pc \in {"returned", "exited"}

\* What a op b means.
Compare(a, op, b) ==
  CASE op = "LT"  -> a < b
    [] op = "LTE" -> a <= b
    [] op = "EQ"  -> a = b
    [] op = "GTE" -> a >= b
    [] op = "GT"  -> a > b
    [] op = "NE"  -> a # b

TupleSlots(f) == {s \in DOMAIN f : f[s] # Free}

\* The pairs of ints that the command has to compare: minuend, subtrahend.
Compared ==
  CASE cmd.kind = "join" ->
         {<<given.inner[t][1], given.outer[s][1]>> :
            s \in TupleSlots(given.outer), t \in TupleSlots(given.inner)}
    [] cmd.kind # "join" ->
         {<<given.outer[s][1], cmd.filter[i]>> :
            s \in TupleSlots(given.outer), i \in DOMAIN cmd.filter}

\* Their differences are ints.  For EQ and NE that does not matter.
InRange ==
  \/ cmd.op \in {"EQ", "NE"}
  \/ \A p \in Compared : Wrapped(p[1] - p[2]) = p[1] - p[2]

\* The slots the command asks for.
Wanted ==
  CASE cmd.kind = "join" ->
         {p \in TupleSlots(given.outer) \X TupleSlots(given.inner) :
            Compare(given.outer[p[1]][1], cmd.op, given.inner[p[2]][1])}
    [] cmd.kind # "join" ->
         {<<s>> : s \in {s \in TupleSlots(given.outer) :
            \A i \in DOMAIN cmd.filter :
              Compare(given.outer[s][1], cmd.op, cmd.filter[i])}}

\* In the order of the loops, and none twice.
Before(x, y) == x[1] < y[1] \/ (x[1] = y[1] /\ Len(x) = 2 /\ x[2] < y[2])
Ascending(q) == \A i \in 2..Len(q) : Before(q[i - 1], q[i])

\* A select whose result is its own source reads what it writes.
Grows == cmd.kind = "select" /\ cmd.own

\* Whatever fails, a query gives no tuple that it was not asked for and none
\* twice, and a deletion deletes no other, if the differences fit into an int.
NothingElse ==
  InRange /\ ~Grows => ToSet(answer) \subseteq Wanted /\ Ascending(answer)

\* A command that returns OK has done all it was asked for, unless a read has
\* failed that a select or a join has taken for the end of a relation.
AllOfIt ==
  InRange /\ ~Grows /\ says = "OK" /\ ~cut => ToSet(answer) = Wanted

\* A deletion never takes a failed read for the end: OK means that none is left
\* of the tuples that should go, and that all the others are.
DeletedWhatItSays ==
  cmd.kind = "delete" /\ InRange /\ says = "OK" =>
    file.outer = [s \in DOMAIN given.outer |->
                    IF <<s>> \in Wanted THEN Free ELSE given.outer[s]]

\* Every command returns, or ends the program, unless it reads what it writes.
Returns == ~Grows => <>Done
=============================================================================
