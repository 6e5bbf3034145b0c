---------------------------- MODULE QueryProofs -----------------------------
(***************************************************************************)
(* Proofs about the query operators, for relations of any size, any keys   *)
(* and ints of any width.                                                  *)
(***************************************************************************)
EXTENDS Query, TLAPS

\* A difference of ints that is an int is compared as it is; any other is at
\* least not taken for 0.
LEMMA WrappedDifference ==
  ASSUME NEW a \in (-Half)..(Half - 1), NEW b \in (-Half)..(Half - 1)
  PROVE  /\ Wrapped(a - b) \in Int
         /\ Wrapped(a - b) = 0 <=> a = b
<1>1. Half \in Int /\ Half > 0
  BY SizesAssumption
<1>2. CASE a - b \in (-Half)..(Half - 1)
  <2>1. Wrapped(a - b) = a - b
    BY <1>1, <1>2 DEF Wrapped
  <2> QED  BY <1>1, <2>1
<1>3. CASE a - b >= Half
  <2>1. ((a - b) + Half) % (2 * Half) = (a - b) - Half
    BY <1>1, <1>3
  <2> QED  BY <1>1, <1>3, <2>1 DEF Wrapped
<1>4. CASE a - b < -Half
  <2>1. ((a - b) + Half) % (2 * Half) = (a - b) + 3 * Half
    BY <1>1, <1>4
  <2> QED  BY <1>1, <1>4, <2>1 DEF Wrapped
<1> QED
  BY <1>1, <1>2, <1>3, <1>4

\* The relations are as they were, but for what a deletion has taken.
Untouched ==
  /\ file.inner = given.inner
  /\ ~Grows =>
       file.outer = [s \in DOMAIN given.outer |->
                       IF cmd.kind = "delete" /\ <<s>> \in ToSet(answer)
                         THEN Free ELSE given.outer[s]]

\* The loops go with the commands, and what is said with the end of the loops.
InLoop ==
  /\ pc = "inner" => /\ cmd.kind = "join"
                     /\ at.outer \in TupleSlots(given.outer)
  /\ says = "nothing" <=> pc # "returned"
  /\ cmd.kind = "delete" => ~cut

\* The scans have come to x, and are done with it.
Reached(x) ==
  IF cmd.kind = "join"
    THEN x[1] < at.outer \/ (x[1] = at.outer /\ x[2] <= at.inner)
    ELSE x[1] <= at.outer

Covered(x) ==
  IF cmd.kind = "join"
    THEN x[1] < at.outer \/ (x[1] = at.outer /\ (pc = "inner" => x[2] <= at.inner))
    ELSE x[1] <= at.outer

\* What was given was asked for and lies before the scans; if nothing has
\* failed, nothing that was asked for has been left behind, and a command that
\* says OK has come to the end.
Answered ==
  InRange /\ ~Grows =>
    /\ \A x \in ToSet(answer) : x \in Wanted /\ Reached(x)
    /\ Ascending(answer)
    /\ ~cut /\ says # "failed" /\ pc # "exited" =>
         \A x \in Wanted : Covered(x) => x \in ToSet(answer)
    /\ ~cut /\ says = "OK" => \A x \in Wanted : Covered(x)

QueryInv == TypeOK /\ Untouched /\ InLoop /\ Answered

-----------------------------------------------------------------------------
(***************************************************************************)
(* What the operators of Query mean.                                       *)
(***************************************************************************)
LEMMA HoldsIsCompare ==
  ASSUME NEW op \in Operators,
         NEW a \in (-Half)..(Half - 1), NEW b \in (-Half)..(Half - 1),
         op \in {"EQ", "NE"} \/ Wrapped(a - b) = a - b
  PROVE  Holds(op, Wrapped(a - b)) <=> Compare(a, op, b)
<1>1. Half \in Int /\ Half > 0
  BY SizesAssumption
<1>2. CASE op \in {"EQ", "NE"}
  BY <1>2, WrappedDifference DEF Holds, Compare
<1>3. CASE op \notin {"EQ", "NE"}
  <2>1. Wrapped(a - b) = a - b
    BY <1>3
  <2>2. op \in {"LT", "LTE", "GTE", "GT"}
    BY <1>3 DEF Operators
  <2> QED  BY <1>1, <2>1, <2>2 DEF Holds, Compare
<1> QED
  BY <1>2, <1>3

\* QU_NL_Join compares the inner with the outer attribute by the turned operator.
LEMMA TurnedIsConverse ==
  ASSUME NEW op \in Operators, NEW a \in Int, NEW b \in Int
  PROVE  /\ Turned(op) \in Operators
         /\ Turned(op) \in {"EQ", "NE"} <=> op \in {"EQ", "NE"}
         /\ Compare(b, Turned(op), a) <=> Compare(a, op, b)
BY DEF Operators, Turned, Compare

LEMMA TupleParts ==
  ASSUME NEW t \in Tuples
  PROVE  /\ t = <<t[1]>> /\ t[1] \in Keys
         /\ t[1] \in (-Half)..(Half - 1) /\ t[1] \in Int
         /\ DOMAIN t = {1} /\ t # Free /\ t # NoFilter
<1>1. PICK k \in Keys : t = <<k>>
  BY DEF Tuples
<1> QED
  BY <1>1, SizesAssumption DEF Free, NoFilter

\* matchRec, if the difference is an int or does not matter.
LEMMA MatchesIs ==
  ASSUME NEW t \in Tuples \cup {Free}, NEW f \in Tuples \cup {NoFilter},
         NEW op \in Operators,
         f # NoFilter /\ t # Free =>
           op \in {"EQ", "NE"} \/ Wrapped(t[1] - f[1]) = t[1] - f[1]
  PROVE  Matches(t, op, f) <=>
           t # Free /\ (f # NoFilter => Compare(t[1], op, f[1]))
<1>1. CASE t = Free
  BY <1>1 DEF Matches
<1>2. CASE f = NoFilter
  BY <1>2 DEF Matches, NoFilter
<1>3. CASE t \in Tuples /\ f \in Tuples
  <2>1. Matches(t, op, f) <=> Holds(op, Wrapped(t[1] - f[1]))
    BY <1>3, TupleParts DEF Matches
  <2> QED  BY <1>3, <2>1, TupleParts, HoldsIsCompare
<1> QED
  BY <1>1, <1>2, <1>3

\* A relation is a sequence of slots.
LEMMA RelationIs ==
  ASSUME NEW n \in Nat, NEW r \in Relations(n)
  PROVE  /\ Len(r) \in 0..n
         /\ DOMAIN r = 1..Len(r)
         /\ r \in Seq(Tuples \cup {Free})
         /\ \A s \in DOMAIN r : r[s] \in Tuples \cup {Free}
<1>1. PICK i \in 0..n : r \in [1..i -> Tuples \cup {Free}]
  BY DEF Relations
<1> QED
  BY <1>1

LEMMA SlotIs ==
  ASSUME TypeOK
  PROVE  /\ DOMAIN given.outer = 1..Len(given.outer) /\ Len(given.outer) \in Nat
         /\ DOMAIN given.inner = 1..Len(given.inner) /\ Len(given.inner) \in Nat
         /\ DOMAIN file.outer = 1..Len(file.outer) /\ Len(file.outer) \in Nat
         /\ \A s \in DOMAIN given.outer : given.outer[s] \in Tuples \cup {Free}
         /\ \A s \in DOMAIN given.inner : given.inner[s] \in Tuples \cup {Free}
         /\ \A s \in DOMAIN file.outer : file.outer[s] \in Tuples \cup {Free}
         /\ \A s \in TupleSlots(given.outer) :
              s \in DOMAIN given.outer /\ s \in Nat /\ s > 0
                /\ given.outer[s] \in Tuples
         /\ \A s \in TupleSlots(given.inner) :
              s \in DOMAIN given.inner /\ s \in Nat /\ s > 0
                /\ given.inner[s] \in Tuples
         /\ at.outer \in Nat /\ at.inner \in Nat
<1>1. /\ given.outer \in Relations(Slots) /\ given.inner \in Relations(Slots)
      /\ file.outer \in Relations(MaxSlots) /\ file.inner \in Relations(Slots)
      /\ at.outer \in 0..Len(file.outer) /\ at.inner \in 0..Len(file.inner)
  BY DEF TypeOK
<1>2. Slots \in Nat /\ MaxSlots \in Nat
  BY SizesAssumption
<1>3. /\ DOMAIN given.outer = 1..Len(given.outer) /\ Len(given.outer) \in Nat
      /\ \A s \in DOMAIN given.outer : given.outer[s] \in Tuples \cup {Free}
  BY <1>1, <1>2, RelationIs
<1>4. /\ DOMAIN given.inner = 1..Len(given.inner) /\ Len(given.inner) \in Nat
      /\ \A s \in DOMAIN given.inner : given.inner[s] \in Tuples \cup {Free}
  BY <1>1, <1>2, RelationIs
<1>5. /\ DOMAIN file.outer = 1..Len(file.outer) /\ Len(file.outer) \in Nat
      /\ \A s \in DOMAIN file.outer : file.outer[s] \in Tuples \cup {Free}
      /\ Len(file.inner) \in Nat
  BY <1>1, <1>2, RelationIs
<1> QED
  BY <1>1, <1>3, <1>4, <1>5 DEF TupleSlots

\* The tuples of the outer relation that a select or a delete asks for.
LEMMA WantedTuples ==
  ASSUME TypeOK, cmd.kind # "join"
  PROVE  /\ \A x \in Wanted : x = <<x[1]>> /\ Len(x) = 1
                                /\ x[1] \in TupleSlots(given.outer)
         /\ \A s : <<s>> \in Wanted <=>
              /\ s \in TupleSlots(given.outer)
              /\ cmd.filter # NoFilter =>
                   Compare(given.outer[s][1], cmd.op, cmd.filter[1])
<1>1. cmd.filter \in Tuples \cup {NoFilter}
  BY DEF TypeOK, Commands
<1> DEFINE W == {s \in TupleSlots(given.outer) :
                   \A i \in DOMAIN cmd.filter :
                     Compare(given.outer[s][1], cmd.op, cmd.filter[i])}
<1>2. Wanted = {<<s>> : s \in W}
  BY DEF Wanted
<1>3. \A s : s \in W <=>
        /\ s \in TupleSlots(given.outer)
        /\ cmd.filter # NoFilter =>
             Compare(given.outer[s][1], cmd.op, cmd.filter[1])
  <2>1. CASE cmd.filter = NoFilter
    BY <2>1 DEF NoFilter
  <2>2. CASE cmd.filter \in Tuples
    BY <2>2, TupleParts
  <2> QED  BY <1>1, <2>1, <2>2
<1> HIDE DEF W
<1>4. \A s : <<s>> \in Wanted <=> s \in W
  BY <1>2
<1> QED
  BY <1>2, <1>3, <1>4

\* The pairs that a join asks for.
LEMMA WantedPairs ==
  ASSUME TypeOK, cmd.kind = "join"
  PROVE  /\ \A x \in Wanted : x = <<x[1], x[2]>> /\ Len(x) = 2
                                /\ x[1] \in TupleSlots(given.outer)
                                /\ x[2] \in TupleSlots(given.inner)
         /\ \A s, t : <<s, t>> \in Wanted <=>
              /\ s \in TupleSlots(given.outer) /\ t \in TupleSlots(given.inner)
              /\ Compare(given.outer[s][1], cmd.op, given.inner[t][1])
BY DEF Wanted

\* What the command has to compare fits into an int, or does not matter.
LEMMA ComparedTuples ==
  ASSUME TypeOK, InRange, cmd.kind # "join", cmd.filter # NoFilter,
         NEW s \in TupleSlots(given.outer)
  PROVE  \/ cmd.op \in {"EQ", "NE"}
         \/ Wrapped(given.outer[s][1] - cmd.filter[1])
              = given.outer[s][1] - cmd.filter[1]
<1>1. cmd.filter \in Tuples
  BY DEF TypeOK, Commands
<1>2. 1 \in DOMAIN cmd.filter
  BY <1>1, TupleParts
<1>3. <<given.outer[s][1], cmd.filter[1]>> \in Compared
  BY <1>2 DEF Compared
<1> QED
  BY <1>3 DEF InRange

LEMMA ComparedPairs ==
  ASSUME TypeOK, InRange, cmd.kind = "join",
         NEW s \in TupleSlots(given.outer), NEW t \in TupleSlots(given.inner)
  PROVE  \/ cmd.op \in {"EQ", "NE"}
         \/ Wrapped(given.inner[t][1] - given.outer[s][1])
              = given.inner[t][1] - given.outer[s][1]
<1>1. <<given.inner[t][1], given.outer[s][1]>> \in Compared
  BY DEF Compared
<1> QED
  BY <1>1 DEF InRange

-----------------------------------------------------------------------------
(***************************************************************************)
(* What the scans find is what the command asks for.                       *)
(***************************************************************************)
LEMMA SameCommand ==
  ASSUME UNCHANGED <<cmd, given>>
  PROVE  /\ InRange' <=> InRange
         /\ Wanted' = Wanted
         /\ Grows' <=> Grows
BY DEF InRange, Compared, Wanted, Grows, TupleSlots

\* A select or a delete finds the tuples it is asked for, those excepted that it
\* has deleted.
LEMMA OuterFindsWanted ==
  ASSUME TypeOK, Untouched, InRange, ~Grows, cmd.kind # "join"
  PROVE  \A s : s \in OuterMatches <=>
           /\ <<s>> \in Wanted
           /\ cmd.kind = "delete" => <<s>> \notin ToSet(answer)
<1>1. /\ cmd.filter \in Tuples \cup {NoFilter} /\ cmd.op \in Operators
  BY DEF TypeOK, Commands
<1>2. ASSUME NEW s \in DOMAIN given.outer
      PROVE  Matches(given.outer[s], cmd.op, cmd.filter) <=> <<s>> \in Wanted
  <2>1. given.outer[s] \in Tuples \cup {Free}
    BY SlotIs
  <2>2. s \in TupleSlots(given.outer) <=> given.outer[s] # Free
    BY DEF TupleSlots
  <2>3. Matches(given.outer[s], cmd.op, cmd.filter) <=>
          /\ given.outer[s] # Free
          /\ cmd.filter # NoFilter =>
               Compare(given.outer[s][1], cmd.op, cmd.filter[1])
    BY <1>1, <2>1, <2>2, ComparedTuples, MatchesIs
  <2> QED  BY <2>2, <2>3, WantedTuples
<1>3. /\ DOMAIN file.outer = DOMAIN given.outer
      /\ \A s \in DOMAIN given.outer :
           file.outer[s] = IF cmd.kind = "delete" /\ <<s>> \in ToSet(answer)
                             THEN Free ELSE given.outer[s]
  BY DEF Untouched
<1>4. \A s : s \in OuterMatches <=>
        /\ s \in DOMAIN given.outer
        /\ Matches(file.outer[s], cmd.op, cmd.filter)
  BY <1>3 DEF OuterMatches
<1>5. \A op, f : ~Matches(Free, op, f)
  BY DEF Matches
<1>6. \A s : <<s>> \in Wanted => s \in DOMAIN given.outer
  BY WantedTuples, SlotIs
<1> QED
  BY <1>2, <1>3, <1>4, <1>5, <1>6

\* The outer scan of a join finds every tuple.
LEMMA OuterFindsTuples ==
  ASSUME TypeOK, Untouched, cmd.kind = "join"
  PROVE  OuterMatches = TupleSlots(given.outer) /\ file.outer = given.outer
<1>1. file.outer = given.outer
  <2>1. ~Grows
    BY DEF Grows
  <2>2. file.outer = [s \in DOMAIN given.outer |-> given.outer[s]]
    BY <2>1 DEF Untouched
  <2>3. given.outer = [s \in DOMAIN given.outer |-> given.outer[s]]
    <3>1. PICK i \in 0..Slots : given.outer \in [1..i -> Tuples \cup {Free}]
      BY DEF TypeOK, Relations
    <3> QED  BY <3>1
  <2> QED  BY <2>2, <2>3
<1>2. \A t : Matches(t, "EQ", NoFilter) <=> t # Free
  BY DEF Matches, NoFilter
<1> QED
  BY <1>1, <1>2 DEF OuterMatches, TupleSlots

\* Its inner scan finds the tuples that belong to the one of the outer scan.
LEMMA InnerFindsWanted ==
  ASSUME TypeOK, Untouched, InLoop, InRange, pc = "inner"
  PROVE  \A t : t \in InnerMatches <=> <<at.outer, t>> \in Wanted
<1> DEFINE s == at.outer
<1>1. cmd.kind = "join" /\ s \in TupleSlots(given.outer) /\ cmd.op \in Operators
  BY DEF InLoop, TypeOK, Commands
<1>2. file.outer = given.outer /\ file.inner = given.inner
  BY <1>1, OuterFindsTuples DEF Untouched
<1>3. given.outer[s] \in Tuples
  BY <1>1, SlotIs
<1>4. ASSUME NEW t \in DOMAIN given.inner
      PROVE  Matches(given.inner[t], Turned(cmd.op), given.outer[s])
               <=> <<s, t>> \in Wanted
  <2>1. given.inner[t] \in Tuples \cup {Free}
    BY SlotIs
  <2>2. t \in TupleSlots(given.inner) <=> given.inner[t] # Free
    BY DEF TupleSlots
  <2>3. CASE given.inner[t] = Free
    BY <1>1, <2>2, <2>3, WantedPairs DEF Matches
  <2>4. CASE given.inner[t] \in Tuples
    <3>1. /\ given.inner[t] # Free /\ given.inner[t][1] \in Int
          /\ given.outer[s] # NoFilter /\ given.outer[s][1] \in Int
      BY <1>3, <2>4, TupleParts
    <3>2. Turned(cmd.op) \in Operators
      BY <1>1, <3>1, TurnedIsConverse
    <3>3. \/ Turned(cmd.op) \in {"EQ", "NE"}
          \/ Wrapped(given.inner[t][1] - given.outer[s][1])
               = given.inner[t][1] - given.outer[s][1]
      BY <1>1, <2>2, <3>1, ComparedPairs, TurnedIsConverse
    <3>4. Matches(given.inner[t], Turned(cmd.op), given.outer[s])
            <=> Compare(given.inner[t][1], Turned(cmd.op), given.outer[s][1])
      BY <1>3, <2>4, <3>1, <3>2, <3>3, MatchesIs
    <3>5. Compare(given.inner[t][1], Turned(cmd.op), given.outer[s][1])
            <=> Compare(given.outer[s][1], cmd.op, given.inner[t][1])
      BY <1>1, <3>1, TurnedIsConverse
    <3> QED  BY <1>1, <2>2, <3>1, <3>4, <3>5, WantedPairs
  <2> QED  BY <2>1, <2>3, <2>4
<1>5. \A t : <<s, t>> \in Wanted => t \in DOMAIN given.inner
  BY <1>1, WantedPairs, SlotIs
<1> QED
  BY <1>2, <1>4, <1>5 DEF InnerMatches

-----------------------------------------------------------------------------
\* The answer grows at its end.
LEMMA Appended ==
  ASSUME NEW q \in Seq(Seq(Nat)), NEW x \in Seq(Nat)
  PROVE  /\ Append(q, x) \in Seq(Seq(Nat))
         /\ ToSet(Append(q, x)) = ToSet(q) \cup {x}
<1> DEFINE a == Append(q, x)
<1>1. /\ a \in Seq(Seq(Nat)) /\ Len(a) = Len(q) + 1 /\ Len(q) \in Nat
      /\ a[Len(q) + 1] = x /\ \A i \in 1..Len(q) : a[i] = q[i]
      /\ DOMAIN a = 1..(Len(q) + 1) /\ DOMAIN q = 1..Len(q)
  OBVIOUS
<1> HIDE DEF a
<1>2. \A i : i \in 1..(Len(q) + 1) <=> i \in 1..Len(q) \/ i = Len(q) + 1
  BY <1>1
<1>3. \A y : y \in ToSet(a) <=> y \in ToSet(q) \cup {x}
  BY <1>1, <1>2 DEF ToSet
<1>4. ToSet(a) = ToSet(q) \cup {x}
  BY <1>3
<1> QED
  BY <1>1, <1>4 DEF a

LEMMA AscendingAppended ==
  ASSUME NEW q \in Seq(Seq(Nat)), NEW x \in Seq(Nat), Ascending(q),
         \A y \in ToSet(q) : Before(y, x)
  PROVE  Ascending(Append(q, x))
<1> DEFINE a == Append(q, x)
<1>1. /\ Len(a) = Len(q) + 1 /\ Len(q) \in Nat
      /\ a[Len(q) + 1] = x /\ \A i \in 1..Len(q) : a[i] = q[i]
  OBVIOUS
<1> HIDE DEF a
<1>2. ASSUME NEW i \in 2..Len(a)
      PROVE  Before(a[i - 1], a[i])
  <2>0. i \in 2..(Len(q) + 1) /\ i - 1 \in 1..Len(q)
    BY <1>1
  <2>1. a[i - 1] = q[i - 1]
    BY <1>1, <2>0
  <2>2. CASE i = Len(q) + 1
    <3>1. q[i - 1] \in ToSet(q)
      <4>1. i - 1 \in DOMAIN q
        BY <2>0
      <4> QED  BY <4>1 DEF ToSet
    <3> QED  BY <1>1, <2>1, <2>2, <3>1
  <2>3. CASE i # Len(q) + 1
    <3>1. i \in 2..Len(q) /\ a[i] = q[i]
      BY <1>1, <2>0, <2>3
    <3> QED  BY <2>1, <3>1 DEF Ascending
  <2> QED  BY <2>2, <2>3
<1> QED
  BY <1>2 DEF Ascending, a

-----------------------------------------------------------------------------
(***************************************************************************)
(* The steps.                                                              *)
(***************************************************************************)
LEMMA SetSlot ==
  ASSUME NEW n \in Nat, NEW r \in Relations(n), NEW s \in DOMAIN r,
         NEW t \in Tuples \cup {Free}
  PROVE  LET q == [r EXCEPT ![s] = t] IN
         /\ q \in Relations(n) /\ DOMAIN q = DOMAIN r /\ Len(q) = Len(r)
<1>1. PICK i \in 0..n : r \in [1..i -> Tuples \cup {Free}]
  BY DEF Relations
<1>2. [r EXCEPT ![s] = t] \in [1..i -> Tuples \cup {Free}]
  BY <1>1
<1>3. Len(r) = i /\ Len([r EXCEPT ![s] = t]) = i
  BY <1>1, <1>2
<1> QED
  BY <1>1, <1>2, <1>3 DEF Relations

LEMMA AppendSlot ==
  ASSUME NEW n \in Nat, NEW r \in Relations(n), NEW m \in Nat, Len(r) < m,
         NEW t \in Tuples \cup {Free}
  PROVE  Append(r, t) \in Relations(m) /\ Len(Append(r, t)) = Len(r) + 1
<1>1. PICK i \in 0..n : r \in [1..i -> Tuples \cup {Free}]
  BY DEF Relations
<1>2. Len(r) = i /\ i + 1 \in 0..m
  <2>1. Len(r) = i
    BY <1>1
  <2> QED  BY <1>1, <2>1
<1>3. r \in Seq(Tuples \cup {Free})
  BY RelationIs
<1>4. /\ Append(r, t) \in Seq(Tuples \cup {Free})
      /\ Len(Append(r, t)) = i + 1
  BY <1>2, <1>3
<1>5. Append(r, t) \in [1..(i + 1) -> Tuples \cup {Free}]
  <2> DEFINE q == Append(r, t)
  <2>1. q \in Seq(Tuples \cup {Free}) /\ Len(q) = i + 1
    BY <1>4
  <2> HIDE DEF q
  <2>2. q \in [1..Len(q) -> Tuples \cup {Free}]
    BY <2>1
  <2>3. q \in [1..(i + 1) -> Tuples \cup {Free}]
    BY <2>1, <2>2
  <2> QED  BY <2>3 DEF q
<1> QED
  BY <1>2, <1>4, <1>5 DEF Relations

LEMMA FileParts ==
  ASSUME TypeOK
  PROVE  /\ file = [outer |-> file.outer, inner |-> file.inner]
         /\ file.outer \in Relations(MaxSlots) /\ file.inner \in Relations(Slots)
         /\ \A r : /\ [file EXCEPT !.outer = r].outer = r
                   /\ [file EXCEPT !.outer = r].inner = file.inner
                   /\ r \in Relations(MaxSlots) =>
                        [file EXCEPT !.outer = r]
                          \in [outer : Relations(MaxSlots), inner : Relations(Slots)]
         /\ at = [outer |-> at.outer, inner |-> at.inner]
         /\ at.outer \in 0..Len(file.outer) /\ at.inner \in 0..Len(file.inner)
         /\ \A s : /\ [at EXCEPT !.outer = s] = [outer |-> s, inner |-> at.inner]
                   /\ [at EXCEPT !.inner = s] = [outer |-> at.outer, inner |-> s]
BY DEF TypeOK

\* A loop is over, or is taken to be.
LEMMA EndKeeps ==
  ASSUME QueryInv, pc = "outer", UNCHANGED <<cmd, file, given, at, answer>>,
         pc' = "returned", says' \in {"OK", "failed"}, cut' \in BOOLEAN,
         cut => cut', cmd.kind = "delete" => ~cut',
         ~cut' /\ says' = "OK" => OuterEnd
  PROVE  QueryInv'
<1>1. TypeOK /\ Untouched /\ InLoop /\ Answered
  BY DEF QueryInv
<1>2. TypeOK' /\ Untouched' /\ InLoop'
  BY <1>1 DEF TypeOK, Untouched, InLoop, Grows, TupleSlots
<1>3. Answered'
  <2> SUFFICES ASSUME InRange, ~Grows
               PROVE  Answered'
    BY SameCommand DEF Answered
  <2>1. \A x : (Reached(x)' <=> Reached(x)) /\ (Covered(x)' <=> Covered(x))
    BY DEF Reached, Covered
  <2>2. Wanted' = Wanted
    BY SameCommand
  <2>3. says = "nothing"
    BY <1>1 DEF InLoop
  <2>4. ASSUME ~cut', says' = "OK", NEW x \in Wanted
        PROVE  Covered(x)
    <3>1. \A s \in OuterMatches : s <= at.outer
      BY <2>4 DEF OuterEnd, AtEnd
    <3>2. CASE cmd.kind = "join"
      <4>1. x[1] \in OuterMatches /\ x[1] \in Nat
        BY <1>1, <3>2, WantedPairs, OuterFindsTuples, SlotIs
      <4>2. x[1] <= at.outer /\ at.outer \in Nat
        BY <1>1, <3>1, <4>1, SlotIs
      <4> QED  BY <3>2, <4>1, <4>2 DEF Covered
    <3>3. CASE cmd.kind # "join"
      <4>1. x = <<x[1]>>
        BY <1>1, <3>3, WantedTuples
      <4>2. CASE x[1] \in OuterMatches
        BY <3>1, <3>3, <4>2 DEF Covered
      <4>3. CASE x[1] \notin OuterMatches
        <5>1. x \in ToSet(answer)
          BY <1>1, <3>3, <4>1, <4>3, OuterFindsWanted
        <5> QED  BY <1>1, <3>3, <5>1 DEF Answered, Reached, Covered
      <4> QED  BY <4>2, <4>3
    <3> QED  BY <3>2, <3>3
  <2> QED  BY <1>1, <2>1, <2>2, <2>3, <2>4 DEF Answered
<1> QED
  BY <1>2, <1>3 DEF QueryInv

\* A call fails when the scan has found a tuple.
LEMMA FailureKeeps ==
  ASSUME QueryInv, UNCHANGED <<cmd, file, given, answer, cut>>,
         at' \in [outer : 0..Len(file.outer), inner : 0..Len(file.inner)],
         pc # "returned",
         \A x \in Wanted : Reached(x) => Reached(x)',
         \/ pc' = "returned" /\ says' = "failed"
         \/ pc' = "exited" /\ says' = says
  PROVE  QueryInv'
<1>1. TypeOK /\ Untouched /\ InLoop /\ Answered
  BY DEF QueryInv
<1>2. says = "nothing"
  BY <1>1 DEF InLoop
<1>3. TypeOK' /\ Untouched' /\ InLoop'
  BY <1>1, <1>2 DEF TypeOK, Untouched, InLoop, Grows
<1>4. Answered'
  BY <1>1, <1>2, SameCommand DEF Answered
<1> QED
  BY <1>3, <1>4 DEF QueryInv

\* A select puts the tuple into its result, a delete deletes it.
LEMMA TupleTaken ==
  ASSUME QueryInv, pc = "outer", cmd.kind # "join",
         NEW s \in DOMAIN file.outer, OuterNext(s),
         UNCHANGED <<cmd, given, pc, says, cut>>,
         at' = [at EXCEPT !.outer = s], answer' = Append(answer, <<s>>),
         file' \in [outer : Relations(MaxSlots), inner : Relations(Slots)],
         Len(file'.outer) >= Len(file.outer), file'.inner = file.inner,
         Untouched'
  PROVE  QueryInv'
<1>1. TypeOK /\ Untouched /\ InLoop /\ Answered
  BY DEF QueryInv
<1>2. /\ s \in Nat /\ at.outer \in Nat /\ s > at.outer /\ s <= Len(file.outer)
      /\ \A t \in OuterMatches : t > at.outer => t >= s
      /\ s \in OuterMatches
      /\ at' = [outer |-> s, inner |-> at.inner]
  BY <1>1, SlotIs, FileParts DEF OuterNext, IsNext
<1>3. /\ <<s>> \in Seq(Nat) /\ answer \in Seq(Seq(Nat))
      /\ answer' \in Seq(Seq(Nat)) /\ ToSet(answer') = ToSet(answer) \cup {<<s>>}
  <2>1. <<s>> \in Seq(Nat) /\ answer \in Seq(Seq(Nat))
    BY <1>1, <1>2 DEF TypeOK
  <2> QED  BY <2>1, Appended
<1>4. TypeOK'
  <2>1. Len(file'.outer) \in Nat /\ Len(file.outer) \in Nat
    BY <1>1, SizesAssumption, RelationIs, SlotIs
  <2>2. s \in 0..Len(file'.outer)
    BY <1>2, <2>1
  <2> QED  BY <1>1, <1>2, <1>3, <2>2 DEF TypeOK
<1>5. InLoop'
  BY <1>1 DEF InLoop
<1>6. Answered'
  <2> SUFFICES ASSUME InRange, ~Grows
               PROVE  Answered'
    BY SameCommand DEF Answered
  <2>1. Wanted' = Wanted /\ says = "nothing"
    BY <1>1, SameCommand DEF InLoop
  <2>2. \A x : /\ Reached(x) <=> x[1] <= at.outer
               /\ Covered(x) <=> x[1] <= at.outer
               /\ Reached(x)' <=> x[1] <= s
               /\ Covered(x)' <=> x[1] <= s
    BY <1>2 DEF Reached, Covered
  <2>3. \A x \in Wanted : x = <<x[1]>> /\ x[1] \in Nat
    BY <1>1, WantedTuples, SlotIs
  <2>4. \A x \in ToSet(answer) : x \in Wanted /\ x[1] <= at.outer
    BY <1>1, <2>2 DEF Answered
  <2>5. <<s>> \in Wanted
    BY <1>1, <1>2, OuterFindsWanted
  <2>6. \A x \in ToSet(answer') : x \in Wanted' /\ Reached(x)'
    BY <1>2, <1>3, <2>1, <2>2, <2>3, <2>4, <2>5
  <2>7. Ascending(answer')
    <3>1. \A x \in ToSet(answer) : Before(x, <<s>>)
      BY <1>2, <2>3, <2>4 DEF Before
    <3>2. Ascending(answer)
      BY <1>1 DEF Answered
    <3> QED  BY <1>3, <3>1, <3>2, AscendingAppended
  <2>8. ASSUME ~cut, NEW x \in Wanted, x[1] <= s
        PROVE  x \in ToSet(answer')
    <3>1. CASE x[1] <= at.outer
      BY <1>1, <1>3, <2>1, <2>2, <2>8, <3>1 DEF Answered
    <3>2. CASE x[1] > at.outer
      <4>1. x \notin ToSet(answer) /\ x[1] \in OuterMatches
        BY <1>1, <1>2, <2>3, <2>4, <2>8, <3>2, OuterFindsWanted
      <4>2. x[1] = s
        BY <1>2, <2>3, <2>8, <3>2, <4>1
      <4> QED  BY <1>3, <2>3, <2>8, <4>2
    <3> QED  BY <1>2, <2>3, <2>8, <3>1, <3>2
  <2> QED  BY <2>1, <2>2, <2>6, <2>7, <2>8 DEF Answered
<1> QED
  BY <1>4, <1>5, <1>6 DEF QueryInv

LEMMA SelectTakesKeeps ==
  ASSUME QueryInv, SelectTakes
  PROVE  QueryInv'
<1>1. TypeOK /\ Untouched /\ InLoop /\ Answered
  BY DEF QueryInv
<1>2. PICK s \in DOMAIN file.outer :
        /\ OuterNext(s)
        /\ at' = [at EXCEPT !.outer = s]
        /\ \/ /\ PutInto(file.outer[s])
              /\ answer' = Append(answer, <<s>>)
              /\ UNCHANGED <<pc, says>>
           \/ Return("failed") /\ UNCHANGED <<file, answer>>
  BY DEF SelectTakes
<1>3. pc = "outer" /\ cmd.kind = "select" /\ UNCHANGED <<cmd, given, cut>>
  BY DEF SelectTakes
<1>4. s \in Nat /\ at.outer \in Nat /\ s > at.outer /\ s <= Len(file.outer)
  BY <1>1, <1>2, SlotIs DEF OuterNext, IsNext
<1>5. CASE Return("failed") /\ UNCHANGED <<file, answer>>
  <2>1. at' \in [outer : 0..Len(file.outer), inner : 0..Len(file.inner)]
    BY <1>1, <1>2, <1>4, FileParts, SlotIs
  <2>2. at'.outer = s
    BY <1>1, <1>2, FileParts
  <2>3. \A x \in Wanted : x[1] \in Nat
    BY <1>1, <1>3, WantedTuples, SlotIs
  <2>4. \A x \in Wanted : Reached(x) => Reached(x)'
    BY <1>3, <1>4, <2>2, <2>3 DEF Reached
  <2> QED  BY <1>3, <1>5, <2>1, <2>4, FailureKeeps DEF Return
<1>6. CASE /\ PutInto(file.outer[s])
           /\ answer' = Append(answer, <<s>>)
           /\ UNCHANGED <<pc, says>>
  <2>1. /\ file.outer \in Relations(MaxSlots) /\ file.outer[s] \in Tuples \cup {Free}
        /\ file \in [outer : Relations(MaxSlots), inner : Relations(Slots)]
        /\ MaxSlots \in Nat /\ Len(file.outer) \in Nat
    BY <1>1, FileParts, SlotIs, SizesAssumption DEF TypeOK
  <2>2. CASE ~cmd.own /\ UNCHANGED file
    <3>1. Untouched'
      BY <1>1, <1>3, <2>2 DEF Untouched, Grows
    <3> QED  BY <1>2, <1>3, <1>6, <2>1, <2>2, <3>1, TupleTaken
  <2>3. CASE cmd.own
    <3>1. PICK r \in Relations(MaxSlots) :
            file' = [file EXCEPT !.outer = r] /\ Len(r) >= Len(file.outer)
      <4>1. CASE /\ Len(file.outer) < MaxSlots
                 /\ file' = [file EXCEPT !.outer = Append(@, file.outer[s])]
        <5> DEFINE q == Append(file.outer, file.outer[s])
        <5>1. q \in Relations(MaxSlots) /\ Len(q) = Len(file.outer) + 1
          BY <2>1, <4>1, AppendSlot
        <5>2. file' = [file EXCEPT !.outer = q]
          BY <4>1
        <5>3. Len(q) >= Len(file.outer)
          BY <2>1, <5>1
        <5> QED  BY <5>1, <5>2, <5>3
      <4>2. CASE \E f \in DOMAIN file.outer :
                   file' = [file EXCEPT !.outer[f] = file.outer[s]]
        <5>1. PICK f \in DOMAIN file.outer :
                file' = [file EXCEPT !.outer[f] = file.outer[s]]
          BY <4>2
        <5>2. LET r == [file.outer EXCEPT ![f] = file.outer[s]] IN
              r \in Relations(MaxSlots) /\ Len(r) >= Len(file.outer)
          BY <2>1, SetSlot
        <5> QED  BY <5>1, <5>2
      <4> QED  BY <1>6, <2>3, <4>1, <4>2 DEF PutInto
    <3>2. /\ file' \in [outer : Relations(MaxSlots), inner : Relations(Slots)]
          /\ Len(file'.outer) >= Len(file.outer) /\ file'.inner = file.inner
      BY <1>1, <3>1, FileParts
    <3>3. Untouched'
      BY <1>1, <1>3, <2>3, <3>2 DEF Untouched, Grows
    <3> QED  BY <1>2, <1>3, <1>6, <3>2, <3>3, TupleTaken
  <2> QED  BY <1>6, <2>2, <2>3 DEF PutInto
<1> QED
  BY <1>2, <1>5, <1>6

LEMMA DeleteTakesKeeps ==
  ASSUME QueryInv, DeleteTakes
  PROVE  QueryInv'
<1>1. TypeOK /\ Untouched /\ InLoop /\ Answered
  BY DEF QueryInv
<1>2. PICK s \in DOMAIN file.outer :
        /\ OuterNext(s)
        /\ at' = [at EXCEPT !.outer = s]
        /\ \/ /\ file' = [file EXCEPT !.outer[s] = Free]
              /\ answer' = Append(answer, <<s>>)
              /\ UNCHANGED <<pc, says>>
           \/ Return("failed") /\ UNCHANGED <<file, answer>>
  BY DEF DeleteTakes
<1>3. pc = "outer" /\ cmd.kind = "delete" /\ UNCHANGED <<cmd, given, cut>>
  BY DEF DeleteTakes
<1>4. s \in Nat /\ at.outer \in Nat /\ s > at.outer /\ s <= Len(file.outer)
  BY <1>1, <1>2, SlotIs DEF OuterNext, IsNext
<1>5. CASE Return("failed") /\ UNCHANGED <<file, answer>>
  <2>1. at' \in [outer : 0..Len(file.outer), inner : 0..Len(file.inner)]
    BY <1>1, <1>2, <1>4, FileParts, SlotIs
  <2>2. at'.outer = s
    BY <1>1, <1>2, FileParts
  <2>3. \A x \in Wanted : x[1] \in Nat
    BY <1>1, <1>3, WantedTuples, SlotIs
  <2>4. \A x \in Wanted : Reached(x) => Reached(x)'
    BY <1>3, <1>4, <2>2, <2>3 DEF Reached
  <2> QED  BY <1>3, <1>5, <2>1, <2>4, FailureKeeps DEF Return
<1>6. CASE /\ file' = [file EXCEPT !.outer[s] = Free]
           /\ answer' = Append(answer, <<s>>)
           /\ UNCHANGED <<pc, says>>
  <2> DEFINE r == [file.outer EXCEPT ![s] = Free]
  <2>1. MaxSlots \in Nat /\ file.outer \in Relations(MaxSlots) /\ Len(file.outer) \in Nat
    BY <1>1, SizesAssumption, FileParts, SlotIs
  <2>2. r \in Relations(MaxSlots) /\ Len(r) = Len(file.outer)
    BY <2>1, SetSlot
  <2>3. file' = [file EXCEPT !.outer = r]
    BY <1>6
  <2>4. ToSet(answer') = ToSet(answer) \cup {<<s>>}
    <3>1. <<s>> \in Seq(Nat) /\ answer \in Seq(Seq(Nat))
      BY <1>1, <1>4 DEF TypeOK
    <3> QED  BY <1>6, <3>1, Appended
  <2>5. ~Grows /\ ~Grows'
    BY <1>3 DEF Grows
  <2>6. r = [t \in DOMAIN given.outer |->
               IF cmd.kind = "delete" /\ <<t>> \in ToSet(answer')
                 THEN Free ELSE given.outer[t]]
    <3>1. file.outer = [t \in DOMAIN given.outer |->
               IF cmd.kind = "delete" /\ <<t>> \in ToSet(answer)
                 THEN Free ELSE given.outer[t]]
      BY <1>1, <2>5 DEF Untouched
    <3>2. \A t : <<t>> \in ToSet(answer') <=> <<t>> \in ToSet(answer) \/ t = s
      BY <2>4
    <3> QED  BY <1>3, <3>1, <3>2
  <2> HIDE DEF r
  <2>7. /\ file' \in [outer : Relations(MaxSlots), inner : Relations(Slots)]
        /\ file'.outer = r /\ file'.inner = file.inner
    BY <1>1, <2>2, <2>3, FileParts
  <2>8. Untouched'
    BY <1>1, <1>3, <2>6, <2>7 DEF Untouched
  <2>9. Len(file'.outer) >= Len(file.outer) /\ cmd.kind # "join"
    BY <1>3, <2>1, <2>2, <2>7
  <2> QED  BY <1>2, <1>3, <1>6, <2>7, <2>8, <2>9, TupleTaken
<1> QED
  BY <1>2, <1>5, <1>6

\* The parts of a pair, as numbers.
LEMMA PairParts ==
  ASSUME TypeOK, cmd.kind = "join", NEW x \in Wanted
  PROVE  /\ x = <<x[1], x[2]>> /\ Len(x) = 2
         /\ x[1] \in TupleSlots(given.outer) /\ x[1] \in Nat
         /\ x[2] \in TupleSlots(given.inner) /\ x[2] \in Nat /\ x[2] > 0
BY WantedPairs, SlotIs

LEMMA OuterTakesKeeps ==
  ASSUME QueryInv, OuterTakes
  PROVE  QueryInv'
<1>1. TypeOK /\ Untouched /\ InLoop /\ Answered
  BY DEF QueryInv
<1>2. PICK s \in DOMAIN file.outer :
        OuterNext(s) /\ at' = [outer |-> s, inner |-> 0]
  BY DEF OuterTakes
<1>3. /\ pc = "outer" /\ cmd.kind = "join"
      /\ UNCHANGED <<cmd, file, given, answer, cut>>
  BY DEF OuterTakes
<1>4. /\ s \in Nat /\ at.outer \in Nat /\ s > at.outer /\ s <= Len(file.outer)
      /\ s \in TupleSlots(given.outer)
      /\ \A t \in TupleSlots(given.outer) : t > at.outer => t >= s
  BY <1>1, <1>2, <1>3, SlotIs, OuterFindsTuples DEF OuterNext, IsNext
<1>5. /\ at' \in [outer : 0..Len(file.outer), inner : 0..Len(file.inner)]
      /\ at'.outer = s /\ at'.inner = 0
  <2>1. Len(file.inner) \in Nat
    BY <1>1, FileParts, SizesAssumption, RelationIs
  <2> QED  BY <1>1, <1>2, <1>4, <2>1, SlotIs
<1>6. \A x \in Wanted : Reached(x) => Reached(x)'
  BY <1>1, <1>3, <1>4, <1>5, PairParts DEF Reached
<1>7. CASE Return("failed") \/ Exit
  BY <1>3, <1>5, <1>6, <1>7, FailureKeeps DEF Return, Exit
<1>8. CASE pc' = "inner" /\ UNCHANGED says
  <2>1. TypeOK' /\ Untouched' /\ InLoop'
    BY <1>1, <1>3, <1>4, <1>5, <1>8 DEF TypeOK, Untouched, InLoop, Grows, TupleSlots
  <2>2. ASSUME NEW x \in Wanted, Covered(x)'
        PROVE  Covered(x)
    BY <1>1, <1>3, <1>4, <1>5, <1>8, <2>2, PairParts DEF Covered
  <2>3. says = "nothing"
    BY <1>1, <1>3 DEF InLoop
  <2>4. Answered'
    <3> SUFFICES ASSUME InRange, ~Grows
                 PROVE  Answered'
      BY <1>3, SameCommand DEF Answered
    <3>1. Wanted' = Wanted
      BY <1>3, SameCommand
    <3> QED  BY <1>1, <1>3, <1>6, <1>8, <2>2, <2>3, <3>1 DEF Answered
  <2> QED  BY <2>1, <2>4 DEF QueryInv
<1> QED
  BY <1>7, <1>8 DEF OuterTakes

LEMMA InnerTakesKeeps ==
  ASSUME QueryInv, InnerTakes
  PROVE  QueryInv'
<1>1. TypeOK /\ Untouched /\ InLoop /\ Answered
  BY DEF QueryInv
<1>2. PICK s \in DOMAIN file.inner :
        /\ InnerNext(s)
        /\ at' = [at EXCEPT !.inner = s]
        /\ \/ answer' = Append(answer, <<at.outer, s>>) /\ UNCHANGED <<pc, says>>
           \/ Exit /\ UNCHANGED answer
  BY DEF InnerTakes
<1>3. /\ pc = "inner" /\ cmd.kind = "join" /\ UNCHANGED <<cmd, file, given, cut>>
      /\ at.outer \in TupleSlots(given.outer) /\ says = "nothing"
  BY <1>1 DEF InnerTakes, InLoop
<1>4. /\ s \in Nat /\ s > 0 /\ s <= Len(file.inner) /\ Len(file.inner) \in Nat
      /\ at.outer \in Nat /\ at.inner \in Nat /\ s > at.inner
  <2>1. file.inner = given.inner
    BY <1>1 DEF Untouched
  <2> QED  BY <1>1, <1>2, <2>1, SlotIs DEF InnerNext, IsNext
<1>5. /\ at' \in [outer : 0..Len(file.outer), inner : 0..Len(file.inner)]
      /\ at'.outer = at.outer /\ at'.inner = s
  BY <1>1, <1>2, <1>4, FileParts
<1>6. \A x \in Wanted : Reached(x) => Reached(x)'
  BY <1>1, <1>3, <1>4, <1>5, PairParts DEF Reached
<1>7. CASE Exit /\ UNCHANGED answer
  BY <1>3, <1>5, <1>6, <1>7, FailureKeeps DEF Exit
<1>8. CASE answer' = Append(answer, <<at.outer, s>>) /\ UNCHANGED <<pc, says>>
  <2> DEFINE new == <<at.outer, s>>
  <2>1. /\ new \in Seq(Nat) /\ answer \in Seq(Seq(Nat))
        /\ answer' \in Seq(Seq(Nat)) /\ ToSet(answer') = ToSet(answer) \cup {new}
    <3>1. new \in Seq(Nat) /\ answer \in Seq(Seq(Nat))
      BY <1>1, <1>4 DEF TypeOK
    <3> QED  BY <1>8, <3>1, Appended
  <2>2. TypeOK' /\ Untouched' /\ InLoop'
    BY <1>1, <1>3, <1>5, <1>8, <2>1 DEF TypeOK, Untouched, InLoop, Grows, TupleSlots
  <2>3. Answered'
    <3> SUFFICES ASSUME InRange, ~Grows
                 PROVE  Answered'
      BY <1>3, SameCommand DEF Answered
    <3>1. Wanted' = Wanted
      BY <1>3, SameCommand
    <3>2. /\ s \in InnerMatches
          /\ \A t \in InnerMatches : t > at.inner => t >= s
      BY <1>2 DEF InnerNext, IsNext
    <3>3. new \in Wanted
      BY <1>1, <1>3, <3>2, InnerFindsWanted
    <3>4. \A x : x = new => Reached(x)'
      BY <1>3, <1>4, <1>5 DEF Reached
    <3>5. \A x \in ToSet(answer') : x \in Wanted' /\ Reached(x)'
      <4> HIDE DEF new
      <4> QED  BY <1>1, <1>6, <2>1, <3>1, <3>3, <3>4 DEF Answered
    <3>6. ASSUME NEW x \in ToSet(answer)
          PROVE  Before(x, new)
      <4>1. x \in Wanted /\ Reached(x)
        BY <1>1 DEF Answered
      <4> QED  BY <1>1, <1>3, <1>4, <4>1, PairParts DEF Reached, Before
    <3>7. Ascending(answer')
      <4>1. Ascending(answer)
        BY <1>1 DEF Answered
      <4> HIDE DEF new
      <4> QED  BY <1>8, <2>1, <3>6, <4>1, AscendingAppended DEF new
    <3>8. ASSUME ~cut, NEW x \in Wanted, Covered(x)'
          PROVE  x \in ToSet(answer')
      <4>1. x[1] < at.outer \/ (x[1] = at.outer /\ x[2] <= s)
        BY <1>3, <1>5, <1>8, <3>8 DEF Covered
      <4>2. CASE Covered(x)
        BY <1>1, <1>3, <2>1, <3>8, <4>2 DEF Answered
      <4>3. CASE ~Covered(x)
        <5>1. x[1] = at.outer /\ x[2] > at.inner
          BY <1>1, <1>3, <1>4, <4>1, <4>3, PairParts DEF Covered
        <5>2. x[2] \in InnerMatches
          BY <1>1, <1>3, <5>1, PairParts, InnerFindsWanted
        <5>3. x[2] = s
          BY <1>1, <1>3, <1>4, <3>2, <4>1, <5>1, <5>2, PairParts
        <5>4. x = new
          BY <1>1, <1>3, <5>1, <5>3, PairParts
        <5> QED  BY <2>1, <5>4
      <4> QED  BY <4>2, <4>3
    <3> QED  BY <1>3, <1>8, <3>1, <3>5, <3>7, <3>8 DEF Answered
  <2> QED  BY <2>2, <2>3 DEF QueryInv
<1> QED
  BY <1>2, <1>7, <1>8

LEMMA InnerEndsKeeps ==
  ASSUME QueryInv, InnerEnds
  PROVE  QueryInv'
<1>1. TypeOK /\ Untouched /\ InLoop /\ Answered
  BY DEF QueryInv
<1>2. /\ pc = "inner" /\ cmd.kind = "join" /\ pc' = "outer" /\ says = "nothing"
      /\ cut' = (cut \/ ~InnerEnd)
      /\ UNCHANGED <<cmd, file, given, at, says, answer>>
  BY <1>1 DEF InnerEnds, InLoop, LoopEnds
<1>3. TypeOK' /\ Untouched' /\ InLoop'
  BY <1>1, <1>2 DEF TypeOK, Untouched, InLoop, Grows
<1>4. Answered'
  <2> SUFFICES ASSUME InRange, ~Grows
               PROVE  Answered'
    BY <1>2, SameCommand DEF Answered
  <2>1. Wanted' = Wanted /\ \A x : Reached(x)' <=> Reached(x)
    BY <1>2, SameCommand DEF Reached
  <2>2. ASSUME InnerEnd, NEW x \in Wanted, Covered(x)'
        PROVE  Covered(x)
    <3>1. x[1] < at.outer \/ x[1] = at.outer
      BY <1>2, <2>2 DEF Covered
    <3>2. CASE x[1] = at.outer
      <4>1. x[2] \in InnerMatches
        BY <1>1, <1>2, <3>2, PairParts, InnerFindsWanted
      <4> QED  BY <1>2, <2>2, <3>2, <4>1 DEF InnerEnd, AtEnd, Covered
    <3> QED  BY <1>2, <3>1, <3>2 DEF Covered
  <2> QED  BY <1>1, <1>2, <2>1, <2>2 DEF Answered
<1> QED
  BY <1>3, <1>4 DEF QueryInv

LEMMA NextKeepsQuery == QueryInv /\ [Next]_vars => QueryInv'
<1> SUFFICES ASSUME QueryInv, [Next]_vars
             PROVE  QueryInv'
  OBVIOUS
<1>1. cut \in BOOLEAN /\ InLoop
  BY DEF QueryInv, TypeOK
<1>2. CASE SelectEnds \/ OuterEnds
  <2>1. /\ pc = "outer" /\ UNCHANGED <<cmd, file, given, at, answer>>
        /\ pc' = "returned" /\ says' \in {"OK", "failed"}
        /\ cut' = (cut \/ ~OuterEnd) /\ cmd.kind # "delete"
    BY <1>2 DEF SelectEnds, OuterEnds, Return, LoopEnds
  <2>2. /\ cut' \in BOOLEAN
        /\ cut => cut'
        /\ ~cut' => OuterEnd
    BY <1>1, <2>1
  <2> QED  BY <2>1, <2>2, EndKeeps
<1>3. CASE DeleteEnds
  <2>1. /\ pc = "outer" /\ UNCHANGED <<cmd, file, given, at, answer, cut>>
        /\ pc' = "returned" /\ says' \in {"OK", "failed"}
        /\ says' = "OK" => OuterEnd
        /\ cmd.kind = "delete" => ~cut
    BY <1>1, <1>3 DEF DeleteEnds, Return, InLoop
  <2> QED  BY <1>1, <2>1, EndKeeps
<1>4. CASE UNCHANGED vars
  <2>1. UNCHANGED <<cmd, file, given, at, pc, says, answer, cut>>
    BY <1>4 DEF vars
  <2> QED
    BY <2>1, SameCommand
    DEF QueryInv, TypeOK, Untouched, InLoop, Answered, Reached, Covered, Grows, TupleSlots
<1> QED
  BY <1>2, <1>3, <1>4, SelectTakesKeeps, DeleteTakesKeeps, OuterTakesKeeps,
     InnerTakesKeeps, InnerEndsKeeps
  DEF Next

LEMMA InitQuery == Init => QueryInv
<1> SUFFICES ASSUME Init
             PROVE  QueryInv
  OBVIOUS
<1>1. \A r \in Relations(Slots) : r \in Relations(MaxSlots) /\ Len(r) \in Nat
  <2> SUFFICES ASSUME NEW r \in Relations(Slots)
               PROVE  r \in Relations(MaxSlots) /\ Len(r) \in Nat
    OBVIOUS
  <2>1. PICK i \in 0..Slots : r \in [1..i -> Tuples \cup {Free}]
    BY DEF Relations
  <2>2. i \in 0..MaxSlots
    BY SizesAssumption
  <2> QED  BY <2>1, <2>2 DEF Relations
<1>2. <<>> \in Relations(Slots)
  <2>1. 0 \in 0..Slots /\ <<>> \in [1..0 -> Tuples \cup {Free}]
    BY SizesAssumption
  <2> QED  BY <2>1 DEF Relations
<1>3. /\ file \in [outer : Relations(Slots), inner : Relations(Slots)]
      /\ given = file /\ cmd \in Commands
      /\ at = [outer |-> 0, inner |-> 0] /\ pc = "outer" /\ says = "nothing"
      /\ answer = <<>> /\ cut = FALSE
  BY <1>2 DEF Init
<1>4. TypeOK
  <2>1. file \in [outer : Relations(MaxSlots), inner : Relations(Slots)]
    BY <1>1, <1>3
  <2>2. Len(file.outer) \in Nat /\ Len(file.inner) \in Nat
    BY <1>1, <1>3
  <2>3. at \in [outer : 0..Len(file.outer), inner : 0..Len(file.inner)]
    BY <1>3, <2>2
  <2>4. <<>> \in Seq(Seq(Nat))
    OBVIOUS
  <2> QED  BY <1>3, <2>1, <2>3, <2>4 DEF TypeOK
<1>5. ToSet(answer) = {}
  BY <1>3 DEF ToSet
<1>6. Untouched /\ InLoop
  <2>1. file.outer = [s \in DOMAIN file.outer |-> file.outer[s]]
    <3>1. PICK i \in 0..Slots : file.outer \in [1..i -> Tuples \cup {Free}]
      BY <1>3 DEF Relations
    <3> QED  BY <3>1
  <2> QED  BY <1>3, <1>5, <2>1 DEF Untouched, InLoop
<1>7. ASSUME NEW x \in Wanted
      PROVE  ~Covered(x)
  BY <1>3, <1>4, WantedTuples, PairParts, SlotIs DEF Covered
<1>8. Answered
  BY <1>3, <1>5, <1>7 DEF Answered, Ascending
<1> QED
  BY <1>4, <1>6, <1>8 DEF QueryInv

LEMMA QueryInvAlways == Spec => []QueryInv
BY InitQuery, NextKeepsQuery, PTL DEF Spec

\* The state of a query is well-typed.
THEOREM QueryTypesAlways == Spec => []TypeOK
<1>1. QueryInv => TypeOK
  BY DEF QueryInv
<1> QED
  BY QueryInvAlways, <1>1, PTL

\* Whatever call fails, ScanSelect, QU_NL_Join and QU_Delete (select.C, join.C,
\* delete.C) give no tuple or pair that was not asked for and none twice, if the
\* differences of matchRec (heapfile.C) fit into an int.
THEOREM NothingElseEver == Spec => []NothingElse
<1>1. QueryInv => NothingElse
  BY DEF QueryInv, Answered, NothingElse
<1> QED
  BY QueryInvAlways, <1>1, PTL

\* A command that says OK has given all that was asked for, unless its loop has
\* taken a failed read for the end of a relation (select.C, join.C).
THEOREM AllOfItAlways == Spec => []AllOfIt
<1>1. QueryInv => AllOfIt
  <2> SUFFICES ASSUME QueryInv, InRange, ~Grows, says = "OK", ~cut
               PROVE  ToSet(answer) = Wanted
    BY DEF AllOfIt
  <2>1. pc = "returned"
    BY DEF QueryInv, InLoop
  <2> QED  BY <2>1 DEF QueryInv, Answered
<1> QED
  BY QueryInvAlways, <1>1, PTL

\* QU_Delete (delete.C) that says OK has left exactly the tuples that should stay.
THEOREM DeletesWhatItSays == Spec => []DeletedWhatItSays
<1>1. QueryInv => DeletedWhatItSays
  <2> SUFFICES ASSUME QueryInv, cmd.kind = "delete", InRange, says = "OK"
               PROVE  file.outer = [s \in DOMAIN given.outer |->
                        IF <<s>> \in Wanted THEN Free ELSE given.outer[s]]
    BY DEF DeletedWhatItSays
  <2>1. ~Grows /\ ~cut /\ pc = "returned"
    BY DEF QueryInv, InLoop, Grows
  <2>2. ToSet(answer) = Wanted
    BY <2>1 DEF QueryInv, Answered
  <2> QED  BY <2>1, <2>2 DEF QueryInv, Untouched
<1> QED
  BY QueryInvAlways, <1>1, PTL
=============================================================================
