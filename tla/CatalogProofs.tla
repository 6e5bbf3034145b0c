--------------------------- MODULE CatalogProofs ----------------------------
(***************************************************************************)
(* What the catalogs and the file of a relation are to each other, for any *)
(* number of relations, schemas and attributes.  The outcomes of each      *)
(* command are bounded by a lemma of their own; a step is then a command   *)
(* on one relation that ends in one of them (DoKeeps), a quit or a crash,  *)
(* by itself or in the middle of a join.                                   *)
(***************************************************************************)
EXTENDS Catalog, TLAPS

\* What holds of each relation by itself: attrcat has entries only with relcat;
\* there is nothing in a file that is not there; and the disk has what memory has
\* unless a file that can be read was left open.
Local(r) ==
  /\ r \in Relations
  /\ r.attrs # {} => r.schema # None
  /\ r.file = "none" => r.rows = {} /\ r.stored = {} /\ r.open = "closed"
  /\ r.rows \subseteq r.stored
  /\ ~Unsaved(r) => r.stored = r.rows
  /\ Unsaved(r) => Readable(r)

\* A relation in order whose promise must be kept is on disk as it is in memory,
\* and one that is gone left nothing on disk.
DiskKnows ==
  \A n \in Names :
    /\ Promised(promise[n]) /\ Promised(kept[n])
         => saved[n] = Catalogued(rel[n])
    /\ kept[n] = "gone" => /\ saved[n] = Catalogued(Absent)
                           /\ rel[n].file = "none"

IInv ==
  /\ TypeOK
  /\ \A n \in Names : Local(rel[n])
  /\ CatalogsAgree
  /\ CreatedStaysInOrder
  /\ DestroyedIsGone
  /\ SurvivesCrash
  /\ DiskKnows

-----------------------------------------------------------------------------
\* The file stays what it is, or an insertion mends its chain.
SameFile(r, q) == q.file = r.file \/ (r.file = "torn" /\ q.file = "whole")

\* The file is made or destroyed.
Exchanged(r, q) == (r.file = "none") # (q.file = "none")

\* What is put into a relation is put in under its description, and nothing comes
\* to the disk but from memory.
Tame(r, q) ==
  /\ Local(q)
  /\ Catalogued(q) = Catalogued(r)
  /\ SameFile(r, q)
  /\ q.rows \subseteq r.rows \cup {Row(r)}
  /\ q.stored \subseteq r.stored \cup q.rows

LEMMA AbsentIsLocal == Local(Absent)
BY DEF Local, Absent, Relations, Descriptions, Unsaved

\* Relations whose fields are equal are equal.
LEMMA SameFields ==
  ASSUME NEW r \in Relations, NEW q \in Relations,
         r.schema = q.schema, r.attrs = q.attrs, r.file = q.file,
         r.rows = q.rows, r.stored = q.stored, r.open = q.open
  PROVE  r = q
<1>1. ASSUME NEW x \in Relations
      PROVE  x = [schema |-> x.schema, attrs |-> x.attrs, file |-> x.file,
                  rows |-> x.rows, stored |-> x.stored, open |-> x.open]
  BY <1>1 DEF Relations
<1> QED BY <1>1

LEMMA AbsentFields ==
  ASSUME NEW r \in Relations, r.schema = None, r.attrs = {}, r.file = "none",
         r.rows = {}, r.stored = {}, r.open = "closed"
  PROVE  r = Absent
<1>1. /\ Absent \in Relations /\ Absent.schema = None /\ Absent.attrs = {}
      /\ Absent.file = "none" /\ Absent.rows = {} /\ Absent.stored = {}
      /\ Absent.open = "closed"
  BY AbsentIsLocal DEF Absent, Local
<1> QED BY <1>1, SameFields

LEMMA LeftOpenTame ==
  ASSUME NEW r, Local(r), r.file # "none"
  PROVE  /\ Tame(r, LeftOpen(r)) /\ LeftOpen(r).attrs = r.attrs
         /\ LeftOpen(r).file = r.file /\ LeftOpen(r).rows = r.rows
         /\ LeftOpen(r).stored = r.stored
<1>1. /\ LeftOpen(r) \in Relations
      /\ LeftOpen(r).schema = r.schema /\ LeftOpen(r).attrs = r.attrs
      /\ LeftOpen(r).file = r.file /\ LeftOpen(r).rows = r.rows
      /\ LeftOpen(r).stored = r.stored
      /\ Unsaved(LeftOpen(r)) = Unsaved(r)
  BY DEF Local, LeftOpen, Relations, Unsaved
<1> HIDE DEF LeftOpen
<1> QED BY <1>1 DEF Tame, SameFile, Local, Catalogued, Readable

\* The file as it is, or at some state of its making.
LEMMA FileLocal ==
  ASSUME NEW r, Local(r), r.file = "none", NEW f \in {"half", "whole"}, NEW q,
         q = [r EXCEPT !.file = f]
  PROVE  /\ Local(q) /\ Catalogued(q) = Catalogued(r) /\ q.file = f
         /\ q.rows = r.rows /\ q.stored = r.stored
BY DEF Local, Catalogued, Relations, Unsaved

LEMMA TameItself ==
  ASSUME NEW r, Local(r)
  PROVE  Tame(r, r)
BY DEF Tame, SameFile, Local

-----------------------------------------------------------------------------
\* What an insertion makes of the pages, before anybody is told.
LEMMA InsertedFields ==
  ASSUME NEW r, Local(r), Readable(r), NEW i \in Inserted(r)
  PROVE  /\ i \in Relations /\ i.schema = r.schema /\ i.attrs = r.attrs
         /\ SameFile(r, i) /\ Readable(i)
         /\ i.rows \subseteq r.rows \cup {Row(r)}
         /\ i.stored = r.stored /\ i.open = r.open
<1>1. ASSUME NEW q \in Extended(r)
      PROVE  /\ q \in Relations /\ q.schema = r.schema /\ q.attrs = r.attrs
             /\ SameFile(r, q) /\ Readable(q)
             /\ q.rows \subseteq r.rows
             /\ q.stored = r.stored /\ q.open = r.open
  <2>1. CASE r.file # "torn"
    BY <2>1 DEF Extended, SameFile, Local
  <2>2. CASE r.file = "torn"
    <3>1. PICK R \in SUBSET r.rows :
            \/ q = [r EXCEPT !.rows = R]
            \/ q = [r EXCEPT !.file = "whole", !.rows = R]
      BY <2>2, Zenon DEF Extended
    <3>2. r \in Relations
      BY DEF Local
    <3>3. /\ q \in Relations /\ q.schema = r.schema /\ q.attrs = r.attrs
          /\ q.file \in {r.file, "whole"} /\ q.rows = R
          /\ q.stored = r.stored /\ q.open = r.open
      BY <3>1, <3>2 DEF Relations
    <3> QED BY <2>2, <3>3 DEF SameFile, Readable
  <2> QED BY <2>1, <2>2
<1>2. i \in Extended(r) \/ \E q \in Extended(r) : i = WithRow(q)
  BY DEF Inserted
<1>3. CASE i \in Extended(r)
  BY <1>1, <1>3
<1>4. ASSUME NEW q \in Extended(r), i = WithRow(q)
      PROVE  /\ i \in Relations /\ i.schema = q.schema /\ i.attrs = q.attrs
             /\ i.file = q.file /\ i.rows = q.rows \cup {Row(r)}
             /\ i.stored = q.stored /\ i.open = q.open
  <2>1. q \in Relations /\ Row(q) = Row(r) /\ Row(q) \in Descriptions
    BY <1>1 DEF Row, Catalogued, Relations, Descriptions
  <2> QED BY <1>4, <2>1 DEF WithRow, Relations
<1>5. ASSUME NEW q \in Extended(r), i = WithRow(q)
      PROVE  /\ i \in Relations /\ i.schema = r.schema /\ i.attrs = r.attrs
             /\ SameFile(r, i) /\ Readable(i)
             /\ i.rows \subseteq r.rows \cup {Row(r)}
             /\ i.stored = r.stored /\ i.open = r.open
  BY <1>1, <1>4, <1>5 DEF SameFile, Readable
<1> QED BY <1>2, <1>3, <1>5

\* It is tame, whether it is told or not.
LEMMA ToldTame ==
  ASSUME NEW r, Local(r), NEW i \in Relations,
         i.schema = r.schema, i.attrs = r.attrs, SameFile(r, i), Readable(i),
         i.rows \subseteq r.rows \cup {Row(r)},
         i.stored = r.stored, i.open = r.open
  PROVE  Tame(r, Told(i)) /\ Tame(r, Untold(i))
<1>0. /\ r.attrs # {} => r.schema # None
      /\ i.file # "none"
  BY DEF Local, Readable
<1>1. Tame(r, Untold(i))
  <2>1. /\ Untold(i) \in Relations /\ Untold(i).schema = r.schema
        /\ Untold(i).attrs = r.attrs /\ Untold(i).file = i.file
        /\ Untold(i).rows = i.rows /\ Untold(i).stored = r.stored \cup i.rows
        /\ Untold(i).open = "untold"
    BY DEF Untold, Relations
  <2> HIDE DEF Untold
  <2> QED BY <1>0, <2>1 DEF Tame, Local, SameFile, Catalogued, Unsaved, Readable
<1>2. CASE i.open = "closed"
  <2>1. /\ Told(i) \in Relations /\ Told(i).schema = r.schema
        /\ Told(i).attrs = r.attrs /\ Told(i).file = i.file
        /\ Told(i).rows = i.rows /\ Told(i).stored = i.rows
        /\ Told(i).open = "closed"
    BY <1>2 DEF Told, Relations
  <2> HIDE DEF Told
  <2>2. Tame(r, Told(i))
    BY <1>0, <2>1 DEF Tame, Local, SameFile, Catalogued, Unsaved
  <2> QED BY <1>1, <2>2
<1>3. CASE i.open # "closed"
  <2>1. /\ Told(i) \in Relations /\ Told(i).schema = r.schema
        /\ Told(i).attrs = r.attrs /\ Told(i).file = i.file
        /\ Told(i).rows = i.rows /\ Told(i).stored = r.stored \cup i.rows
        /\ Told(i).open = "dirty"
    BY <1>3 DEF Told, Relations
  <2> HIDE DEF Told
  <2>2. Tame(r, Told(i))
    BY <1>0, <2>1 DEF Tame, Local, SameFile, Catalogued, Unsaved, Readable
  <2> QED BY <1>1, <2>2
<1> QED BY <1>2, <1>3

LEMMA InsertedTame ==
  ASSUME NEW r, Local(r), Readable(r), NEW i \in Inserted(r)
  PROVE  Tame(r, Told(i)) /\ Tame(r, Untold(i))
BY InsertedFields, ToldTame

LEMMA WithoutTame ==
  ASSUME NEW r, Local(r), Readable(r), NEW R \in SUBSET r.rows
  PROVE  Tame(r, Without(r, R))
<1> DEFINE q == [r EXCEPT !.rows = @ \ R]
<1>1. /\ q \in Relations /\ q.schema = r.schema /\ q.attrs = r.attrs
      /\ q.file = r.file /\ q.rows = r.rows \ R /\ q.stored = r.stored
      /\ q.open = r.open
  BY DEF Local, Relations
<1>2. Without(r, R) = IF r.open = "untold" THEN q ELSE Told(q)
  BY DEF Without
<1> HIDE DEF q
<1>3. CASE r.open = "untold"
  <2>1. Tame(r, q)
    BY <1>1, <1>3 DEF Tame, Local, SameFile, Catalogued, Unsaved, Readable
  <2> QED BY <1>2, <1>3, <2>1
<1>4. CASE r.open # "untold"
  <2>1. Tame(r, Told(q))
    BY <1>1, ToldTame DEF SameFile, Readable
  <2> QED BY <1>2, <1>4, <2>1
<1> QED BY <1>3, <1>4

\* Insertions, deletions, loads and prints are tame.
LEMMA InsertionsTame ==
  ASSUME NEW r, Local(r), NEW o \in Insertions(r)
  PROVE  Tame(r, o.rel)
<1>1. o.rel = r \/ (Readable(r) /\ \E i \in Inserted(r) : o = OK(Told(i)))
  BY DEF Insertions, OK, Failed, Astray
<1> QED BY <1>1, TameItself, InsertedTame DEF OK

LEMMA DeletionsTame ==
  ASSUME NEW r, Local(r), NEW o \in Deletions(r)
  PROVE  Tame(r, o.rel)
<1>1. CASE ~Readable(r)
  BY <1>1, TameItself DEF Deletions, Astray
<1>2. CASE Readable(r)
  <2>1. \/ o = OK(r) \/ o = Failed(r)
        \/ \E R \in SUBSET r.rows : o = OK(Without(r, R))
        \/ \E R \in SUBSET r.rows : o = Failed(Without(r, R))
    BY <1>2, Zenon DEF Deletions
  <2>2. o.rel = r \/ \E R \in SUBSET r.rows : o.rel = Without(r, R)
    BY <2>1 DEF OK, Failed
  <2> QED BY <1>2, <2>2, TameItself, WithoutTame
<1> QED BY <1>1, <1>2

LEMMA LoadsTame ==
  ASSUME NEW r, Local(r), NEW o \in Loads(r)
  PROVE  Tame(r, o.rel)
<1>1. CASE Readable(r)
  <2>1. \/ o.rel = r \/ o = Failed(LeftOpen(r))
        \/ \E i \in Inserted(r) : o \in {OK(Told(i)), Failed(Told(i)),
                                         Failed(Untold(i))}
    BY <1>1 DEF Loads, OK, Failed, Astray
  <2>2. \/ o.rel = r \/ o.rel = LeftOpen(r)
        \/ \E i \in Inserted(r) : o.rel \in {Told(i), Untold(i)}
    BY <2>1 DEF OK, Failed
  <2>3. r.file # "none"
    BY <1>1 DEF Readable
  <2> QED BY <1>1, <2>2, <2>3, TameItself, LeftOpenTame, InsertedTame
<1>2. CASE ~Readable(r)
  BY <1>2, TameItself DEF Loads, Failed, Astray
<1> QED BY <1>1, <1>2

LEMMA PrintsTame ==
  ASSUME NEW r, Local(r), NEW o \in Prints(r)
  PROVE  Tame(r, o.rel) /\ o.rel.rows = r.rows
<1>1. o.rel = r \/ (r.file # "none" /\ o.rel = LeftOpen(r))
  BY DEF Prints, OK, Failed, Astray
<1> QED BY <1>1, TameItself, LeftOpenTame

\* So is what a query puts into its result.
LEMMA SelectionsTame ==
  ASSUME NEW r, Local(r), NEW q, NEW o \in Selections(r, q)
  PROVE  Tame(r, o.rel)
<1>1. \/ o.rel = r
      \/ Readable(r) /\ \E i \in Inserted(r) : o \in {OK(Told(i)), Failed(Told(i))}
  BY DEF Selections, OK, Failed, Astray
<1>2. o.rel = r \/ (Readable(r) /\ \E i \in Inserted(r) : o.rel = Told(i))
  BY <1>1 DEF OK, Failed
<1> QED BY <1>2, TameItself, InsertedTame

\* What is done tamely to a relation in order leaves it in order.
LEMMA TameKeepsOrder ==
  ASSUME NEW r, NEW p, InOrder(r, p), NEW q, Tame(r, q)
  PROVE  InOrder(q, p)
<1>1. /\ q.schema = r.schema /\ q.attrs = r.attrs /\ Row(q) = Row(r)
  BY DEF Tame, Catalogued, Row
<1> QED BY <1>1 DEF InOrder, Tame, SameFile, Described

-----------------------------------------------------------------------------
\* A file is made only where there is none, and says OK only when it is whole.
LEMMA HeapFileCreationsMake ==
  ASSUME NEW r, Local(r), NEW o \in HeapFileCreations(r)
  PROVE  /\ Local(o.rel)
         /\ Catalogued(o.rel) = Catalogued(r)
         /\ o.rel.rows = r.rows /\ o.rel.stored = r.stored
         /\ r.file # "none" => o.rel.file = r.file
         /\ o.says = "OK" => /\ r.file = "none"
                            /\ o.rel.file = "whole" /\ o.rel.rows = {}
<1>1. CASE r.file # "none"
  <2>1. o = Failed(LeftOpen(r))
    BY <1>1 DEF HeapFileCreations
  <2>2. o.rel = LeftOpen(r) /\ o.says # "OK"
    BY <2>1 DEF Failed
  <2> QED BY <2>2, <1>1, LeftOpenTame DEF Tame
<1>2. CASE r.file = "none"
  <2>1. \/ o = Failed(r)
        \/ o = Failed([r EXCEPT !.file = "half"])
        \/ o = Failed(LeftOpen([r EXCEPT !.file = "half"]))
        \/ o = Failed([r EXCEPT !.file = "new", !.open = "dirty"])
        \/ o = OK([r EXCEPT !.file = "whole"])
    BY <1>2 DEF HeapFileCreations
  <2>2. r.rows = {}
    BY <1>2 DEF Local
  <2>3. ASSUME NEW f \in {"half", "whole"}, NEW q, q = [r EXCEPT !.file = f]
        PROVE  /\ Local(q) /\ Local(LeftOpen(q))
               /\ Catalogued(q) = Catalogued(r)
               /\ Catalogued(LeftOpen(q)) = Catalogued(r)
               /\ q.rows = r.rows /\ LeftOpen(q).rows = r.rows /\ q.file = f
               /\ q.stored = r.stored /\ LeftOpen(q).stored = r.stored
    <3>1. /\ Local(q) /\ Catalogued(q) = Catalogued(r) /\ q.rows = r.rows
          /\ q.stored = r.stored /\ q.file = f
      BY <1>2, <2>3, FileLocal
    <3> QED BY <3>1, LeftOpenTame DEF Tame
  <2>4. ASSUME NEW q, q = [r EXCEPT !.file = "new", !.open = "dirty"]
        PROVE  /\ Local(q) /\ Catalogued(q) = Catalogued(r)
               /\ q.rows = r.rows /\ q.stored = r.stored
    <3>1. /\ q \in Relations /\ q.schema = r.schema /\ q.attrs = r.attrs
          /\ q.file = "new" /\ q.open = "dirty"
          /\ q.rows = r.rows /\ q.stored = r.stored
      BY <2>4 DEF Local, Relations
    <3> QED BY <3>1 DEF Local, Catalogued, Readable, Unsaved
  <2>5. \/ o = Failed(r)
        \/ o.rel = [r EXCEPT !.file = "new", !.open = "dirty"] /\ o.says # "OK"
        \/ \E f \in {"half", "whole"} :
             \/ o.rel = LeftOpen([r EXCEPT !.file = f]) /\ o.says # "OK"
             \/ o.rel = [r EXCEPT !.file = f] /\ (o.says = "OK" => f = "whole")
    BY <2>1 DEF OK, Failed
  <2> QED BY <2>2, <2>3, <2>4, <2>5, <1>2 DEF Failed
<1> QED BY <1>1, <1>2

\* A relation is created in order, or not at all where there is one.
LEMMA CreationsMake ==
  ASSUME NEW r, Local(r), NEW s \in Schemas, NEW o \in Creations(r, s)
  PROVE  /\ Local(o.rel)
         /\ o.rel.rows = r.rows /\ o.rel.stored = r.stored
         /\ r.file # "none" => o.rel.file = r.file
         /\ r.schema # None => o = Failed(r)
         /\ o.says = "OK" => r.file = "none" /\ InOrder(o.rel, "usable")
<1>1. CASE r.schema # None
  BY <1>1 DEF Creations, Failed
<1>2. CASE r.schema = None
  <2>0. r.attrs = {}
    BY <1>2 DEF Local
  <2>1. Attrs(s) \in SUBSET (Nat \ {0})
    BY ConstantsAssumption DEF Attrs
  <2> DEFINE e(A) == [r EXCEPT !.schema = s, !.attrs = @ \cup A]
  <2>2. ASSUME NEW A \in SUBSET (Nat \ {0})
        PROVE  /\ Local(e(A)) /\ e(A).schema = s /\ e(A).attrs = A
               /\ e(A).rows = r.rows /\ e(A).stored = r.stored
               /\ e(A).file = r.file
    <3>1. /\ e(A) \in Relations /\ e(A).schema = s /\ e(A).attrs = A
          /\ e(A).file = r.file /\ e(A).open = r.open
          /\ e(A).rows = r.rows /\ e(A).stored = r.stored
      BY <2>0 DEF Local, Relations
    <3> HIDE DEF e
    <3> QED BY <3>1, SchemasAssumption DEF Local, Readable, Unsaved
  <2>3. \/ o = Failed(r)
        \/ \E k \in 0..(Width[s] - 1) : o = Failed(e(1..k))
        \/ o \in HeapFileCreations(e(Attrs(s)))
    BY <1>2, Zenon DEF Creations, Entered, Attrs
  <2> HIDE DEF e
  <2>4. CASE o = Failed(r)
    BY <2>4, <1>2 DEF Failed
  <2>5. ASSUME NEW k \in 0..(Width[s] - 1), o = Failed(e(1..k))
        PROVE  /\ Local(o.rel) /\ o.rel.rows = r.rows /\ o.rel.stored = r.stored
               /\ o.rel.file = r.file /\ o.says # "OK"
    <3>1. 1..k \in SUBSET (Nat \ {0})
      BY <2>5, ConstantsAssumption
    <3> QED BY <3>1, <2>2, <2>5 DEF Failed
  <2>6. CASE o \in HeapFileCreations(e(Attrs(s)))
    <3> DEFINE d == e(Attrs(s))
    <3>0. /\ Local(d) /\ d.schema = s /\ d.attrs = Attrs(s)
          /\ d.rows = r.rows /\ d.stored = r.stored /\ d.file = r.file
      BY <2>1, <2>2
    <3> HIDE DEF d
    <3>1. /\ Local(o.rel)
          /\ Catalogued(o.rel) = Catalogued(d)
          /\ o.rel.rows = d.rows /\ o.rel.stored = d.stored
          /\ d.file # "none" => o.rel.file = d.file
          /\ o.says = "OK" => /\ d.file = "none"
                             /\ o.rel.file = "whole" /\ o.rel.rows = {}
      BY <2>6, <3>0, HeapFileCreationsMake DEF d
    <3>2. o.rel.schema = s /\ o.rel.attrs = Attrs(s)
      BY <3>0, <3>1 DEF Catalogued
    <3> QED BY <3>0, <3>1, <3>2, <1>2, SchemasAssumption DEF InOrder, Described
  <2> QED BY <2>3, <2>4, <2>5, <2>6, <1>2
<1> QED BY <1>1, <1>2

\* A destruction that says OK leaves nothing, any other only takes entries.
LEMMA DestructionsLeave ==
  ASSUME NEW r, Local(r), NEW o \in Destructions(r)
  PROVE  /\ Local(o.rel)
         /\ \/ o.rel = Absent
            \/ /\ o.rel.rows = r.rows /\ o.rel.stored = r.stored
               /\ o.rel.file = r.file
         /\ o.says = "OK" => o.rel = Absent
         /\ r = Absent => o.rel = Absent
<1> DEFINE d == [r EXCEPT !.schema = None, !.attrs = {}]
<1>1. CASE r.attrs = {}
  <2>1. o = Failed(r)
    BY <1>1 DEF Destructions
  <2> QED BY <2>1 DEF Failed
<1>2. CASE r.attrs # {}
  <2>0. r # Absent /\ r.schema # None
    BY <1>2 DEF Absent, Local
  <2>1. \/ o = Failed(r)
        \/ \E k \in r.attrs : o = Failed([r EXCEPT !.attrs = {a \in @ : a > k}])
        \/ o \in FileDestructions(d)
    BY <1>2, <2>0, Zenon DEF Destructions, Dropped
  <2>2. CASE o = Failed(r)
    BY <2>2, <2>0 DEF Failed
  <2>3. ASSUME NEW k \in r.attrs, o = Failed([r EXCEPT !.attrs = {a \in @ : a > k}])
        PROVE  /\ Local(o.rel) /\ o.rel.rows = r.rows /\ o.rel.stored = r.stored
               /\ o.says # "OK" /\ o.rel.file = r.file
    <3>1. /\ o.rel \in Relations /\ o.rel.schema = r.schema
          /\ o.rel.file = r.file /\ o.rel.open = r.open
          /\ o.rel.rows = r.rows /\ o.rel.stored = r.stored /\ o.says # "OK"
      BY <2>3 DEF Failed, Local, Relations
    <3> QED BY <3>1, <2>0 DEF Local, Readable, Unsaved
  <2>4. CASE o \in FileDestructions(d)
    <3>1. /\ d \in Relations /\ d.schema = None /\ d.attrs = {}
          /\ d.file = r.file /\ d.rows = r.rows /\ d.stored = r.stored
          /\ d.open = r.open
      BY DEF Local, Relations
    <3>2. CASE o = Failed(d)
      <4>1. o.rel = d /\ o.says # "OK"
        BY <3>2 DEF Failed
      <4> HIDE DEF d
      <4> QED BY <3>1, <4>1, <2>0 DEF Local, Readable, Unsaved
    <3>3. CASE /\ d.open = "closed"
               /\ o = OK([d EXCEPT !.file = "none", !.rows = {}, !.stored = {}])
      <4>1. /\ o.rel \in Relations /\ o.rel.schema = None /\ o.rel.attrs = {}
            /\ o.rel.file = "none" /\ o.rel.rows = {} /\ o.rel.stored = {}
            /\ o.rel.open = "closed" /\ o.says = "OK"
        <5> HIDE DEF d
        <5> QED BY <3>1, <3>3 DEF OK, Relations
      <4> QED BY <4>1, AbsentFields, AbsentIsLocal
    <3> QED BY <2>4, <3>2, <3>3 DEF FileDestructions
  <2> QED BY <2>1, <2>2, <2>3, <2>4, <2>0
<1> QED BY <1>1, <1>2

-----------------------------------------------------------------------------
\* The promise k of a relation r with the entries c on disk is kept over a crash.
Outlives(r, c, k) ==
  /\ c.schema # None /\ c.attrs = Attrs(c.schema)
  /\ \A t \in r.stored : t = c
  /\ r.file = "whole" \/ (k = "cut" /\ r.file = "torn")
  /\ Unsaved(r) => k = "cut"

\* What remains of a relation, whatever ends the program.
LEMMA RemainsLocal ==
  ASSUME NEW c \in Descriptions, c.attrs # {} => c.schema # None,
         NEW F, NEW S, NEW v \in Remains(c, F, S),
         v.file \in {"none", "half", "new", "whole", "torn"},
         v.rows \subseteq Descriptions,
         v.file = "none" => v.rows = {}
  PROVE  /\ Local(v) /\ v.open = "closed" /\ v.stored = v.rows
         /\ v.schema = c.schema /\ v.attrs = c.attrs /\ Catalogued(v) = c
<1>1. /\ v \in Relations /\ v.open = "closed" /\ v.stored = v.rows
      /\ v.schema = c.schema /\ v.attrs = c.attrs
  BY DEF Remains, Relations, Descriptions
<1>2. Catalogued(v) = c
  BY <1>1 DEF Catalogued, Descriptions
<1> QED BY <1>1, <1>2 DEF Local, Unsaved

LEMMA SurvivorFields ==
  ASSUME NEW r, Local(r), NEW c \in Descriptions, c.attrs # {} => c.schema # None,
         NEW v \in Survivors(r, c)
  PROVE  /\ Local(v) /\ v.open = "closed" /\ v.stored = v.rows
         /\ v.schema = c.schema /\ v.attrs = c.attrs /\ Catalogued(v) = c
         /\ v.rows \subseteq r.stored
         /\ Unsaved(r) => \/ v.file \in {"torn", "whole"}
                          \/ r.file = "new" /\ v.file = "half"
         /\ ~Unsaved(r) => v.file = r.file
         /\ Unsaved(r) /\ r.file = "whole" => v.file \in {"whole", "torn"}
<1>1. CASE Unsaved(r)
  <2> DEFINE F == {Settled(r.file), "torn"}
                    \cup (IF r.file = "new" THEN {"half"} ELSE {})
  <2>1. v \in Remains(c, F, SUBSET r.stored)
    BY <1>1 DEF Survivors
  <2>2. F \subseteq {"half", "whole", "torn"} /\ (r.file # "new" => "half" \notin F)
    BY <1>1 DEF Settled, Local, Readable
  <2>3. v.file \in F /\ v.rows \subseteq r.stored
    BY <2>1 DEF Remains
  <2> HIDE DEF F
  <2>4. /\ v.file \in {"none", "half", "new", "whole", "torn"} /\ v.file # "none"
        /\ v.rows \subseteq Descriptions
    BY <2>2, <2>3 DEF Local, Relations
  <2>5. /\ Local(v) /\ v.open = "closed" /\ v.stored = v.rows
        /\ v.schema = c.schema /\ v.attrs = c.attrs /\ Catalogued(v) = c
    BY <2>1, <2>4, RemainsLocal
  <2> QED BY <1>1, <2>2, <2>3, <2>5
<1>2. CASE ~Unsaved(r)
  <2>1. v \in Remains(c, {r.file}, {r.rows})
    BY <1>2 DEF Survivors
  <2>2. v.file = r.file /\ v.rows = r.rows
    BY <2>1 DEF Remains
  <2>3. /\ r.file \in {"none", "half", "new", "whole", "torn"}
        /\ r.rows \subseteq Descriptions
        /\ r.file = "none" => r.rows = {}
    BY DEF Local, Relations
  <2>4. /\ Local(v) /\ v.open = "closed" /\ v.stored = v.rows
        /\ v.schema = c.schema /\ v.attrs = c.attrs /\ Catalogued(v) = c
    BY <2>1, <2>2, <2>3, RemainsLocal
  <2> QED BY <1>2, <2>2, <2>4 DEF Local
<1> QED BY <1>1, <1>2

\* Of a relation with unsaved pages a torn file can survive, with all that was on
\* its pages; and of a new one half a file.
LEMMA SurvivorsPossible ==
  ASSUME NEW r, Local(r), NEW c \in Descriptions
  PROVE  /\ Unsaved(r) => \E v \in Survivors(r, c) : v.file = "torn" /\ v.rows = r.stored
         /\ Unsaved(r) /\ r.file = "new" => \E v \in Survivors(r, c) : v.file = "half"
         /\ ~Unsaved(r) => \E v \in Survivors(r, c) : v.file = r.file /\ v.rows = r.stored
<1> DEFINE w(f, R) == [schema |-> c.schema, attrs |-> c.attrs, file |-> f,
                       rows |-> R, stored |-> R, open |-> "closed"]
<1>1. ASSUME NEW F, NEW S, NEW f \in F, NEW R \in S
      PROVE  w(f, R) \in Remains(c, F, S) /\ w(f, R).file = f /\ w(f, R).rows = R
  BY DEF Remains
<1> HIDE DEF w
<1> DEFINE F == {Settled(r.file), "torn"}
                  \cup (IF r.file = "new" THEN {"half"} ELSE {})
<1>2. "torn" \in F /\ (r.file = "new" => "half" \in F)
  OBVIOUS
<1>3. Unsaved(r) => Survivors(r, c) = Remains(c, F, SUBSET r.stored)
  BY DEF Survivors
<1>4. ~Unsaved(r) => Survivors(r, c) = Remains(c, {r.file}, {r.rows})
  BY DEF Survivors
<1>5. r.stored \in SUBSET r.stored /\ (~Unsaved(r) => r.stored \in {r.rows})
  BY DEF Local
<1> HIDE DEF F
<1>6. Unsaved(r) => \E v \in Survivors(r, c) : v.file = "torn" /\ v.rows = r.stored
  BY <1>1, <1>2, <1>3, <1>5
<1>7. Unsaved(r) /\ r.file = "new" => \E v \in Survivors(r, c) : v.file = "half"
  BY <1>1, <1>2, <1>3, <1>5
<1>8. ~Unsaved(r) => \E v \in Survivors(r, c) : v.file = r.file /\ v.rows = r.stored
  <2> SUFFICES ASSUME ~Unsaved(r)
               PROVE  \E v \in Survivors(r, c) : v.file = r.file /\ v.rows = r.stored
    OBVIOUS
  <2> DEFINE G == {r.file}
             S == {r.rows}
  <2>1. r.file \in G /\ r.stored \in S /\ Survivors(r, c) = Remains(c, G, S)
    BY <1>4, <1>5
  <2> HIDE DEF G, S
  <2> QED BY <1>1, <2>1
<1> QED BY <1>6, <1>7, <1>8

\* Outlives says in one formula that all survivors are in order.
LEMMA SurvivorsInOrder ==
  ASSUME NEW r, Local(r), NEW c \in Descriptions, c.attrs # {} => c.schema # None,
         NEW k, Promised(k)
  PROVE  Outlives(r, c, k) <=> \A v \in Survivors(r, c) : InOrder(v, k)
<1>1. ASSUME Outlives(r, c, k), NEW v \in Survivors(r, c)
      PROVE  InOrder(v, k)
  <2>1. /\ v.schema = c.schema /\ v.attrs = c.attrs /\ Catalogued(v) = c
        /\ v.rows \subseteq r.stored
        /\ ~Unsaved(r) => v.file = r.file
        /\ Unsaved(r) => \/ v.file \in {"torn", "whole"}
                         \/ r.file = "new" /\ v.file = "half"
    BY SurvivorFields
  <2>2. v.file = "whole" \/ (k = "cut" /\ v.file = "torn")
    BY <1>1, <2>1 DEF Outlives
  <2> QED BY <1>1, <2>1, <2>2 DEF Outlives, InOrder, Described, Row
<1>2. ASSUME \A v \in Survivors(r, c) : InOrder(v, k)
      PROVE  Outlives(r, c, k)
  <2>1. PICK v \in Survivors(r, c) : /\ v.rows = r.stored
                                     /\ v.file = IF Unsaved(r) THEN "torn" ELSE r.file
    BY SurvivorsPossible
  <2>2. v.schema = c.schema /\ v.attrs = c.attrs /\ Row(v) = c
    BY SurvivorFields DEF Row
  <2>3. /\ InOrder(v, k)
        /\ ~(Unsaved(r) /\ r.file = "new")
    BY <1>2, SurvivorsPossible DEF InOrder
  <2>4. Unsaved(r) => r.file \in {"whole", "torn"}
    BY <2>3 DEF Local, Readable
  <2> QED BY <2>1, <2>2, <2>3, <2>4 DEF Outlives, InOrder, Described
<1> QED BY <1>1, <1>2

\* A relation that is in order and closed is so after a crash.
LEMMA ClosedOutlives ==
  ASSUME NEW v, Local(v), v.open = "closed", NEW k, InOrder(v, k), NEW c,
         c = Catalogued(v)
  PROVE  Outlives(v, c, k)
BY DEF Outlives, InOrder, Described, Local, Unsaved, Catalogued, Row

\* What a command does to a relation leaves of the promise what still holds.
LEMMA KeptOutlives ==
  ASSUME IInv, NEW n \in Names, NEW r, Local(r),
         SameFile(rel[n], r) \/ Exchanged(rel[n], r),
         Promised(promise[n]) => r.rows \subseteq rel[n].rows \cup {Row(rel[n])},
         r.stored \subseteq rel[n].stored \cup r.rows
  PROVE  /\ StillKept(n, r) \in Promises
         /\ Promised(StillKept(n, r)) => /\ Promised(kept[n])
                                         /\ Outlives(r, saved[n], StillKept(n, r))
         /\ StillKept(n, r) = "gone" => kept[n] = "gone" /\ r.file = "none"
<1> DEFINE k == StillKept(n, r)
<1>0. /\ kept[n] \in Promises /\ saved[n] \in Descriptions /\ Local(rel[n])
      /\ saved[n].attrs # {} => saved[n].schema # None
  BY DEF IInv, TypeOK, CatalogsAgree
<1>1. \/ k = "none"
      \/ /\ ~Exchanged(rel[n], r)
         /\ r.rows \subseteq rel[n].rows \/ Promised(promise[n])
         /\ k = IF Unsaved(r) THEN Cut(kept[n]) ELSE kept[n]
  BY DEF StillKept, Exchanged
<1>2. /\ k \in Promises
      /\ Promised(k) => Promised(kept[n]) /\ (kept[n] = "cut" => k = "cut")
      /\ Promised(k) /\ Unsaved(r) => k = "cut"
      /\ k = "gone" => kept[n] = "gone"
  BY <1>0, <1>1 DEF Cut, Promises, Promised
<1>3. k # "none" => SameFile(rel[n], r)
  BY <1>1
<1>4. k = "gone" => r.file = "none"
  <2>1. kept[n] = "gone" => rel[n].file = "none"
    BY DEF IInv, DiskKnows
  <2> QED BY <1>2, <1>3, <2>1 DEF SameFile
<1>5. ASSUME Promised(k)
      PROVE  Outlives(r, saved[n], k)
  <2>0. k # "none" /\ Promised(kept[n])
    BY <1>2, <1>5 DEF Promised
  <2>1. Outlives(rel[n], saved[n], kept[n])
    BY <2>0, <1>0, SurvivorsInOrder DEF IInv, SurvivesCrash
  <2>2. ASSUME NEW t \in r.stored
        PROVE  t = saved[n]
    <3>1. rel[n].rows \subseteq rel[n].stored
      BY <1>0 DEF Local
    <3>2. Promised(promise[n]) => Row(rel[n]) = saved[n]
      BY <2>0 DEF IInv, DiskKnows, Row
    <3>3. t \in rel[n].stored \/ (Promised(promise[n]) /\ t = Row(rel[n]))
      BY <1>1, <2>0, <2>2, <3>1
    <3> QED BY <2>1, <3>2, <3>3 DEF Outlives
  <2>3. r.file = "whole" \/ (k = "cut" /\ r.file = "torn")
    BY <1>2, <1>3, <1>5, <2>0, <2>1 DEF Outlives, SameFile
  <2> HIDE DEF k
  <2> QED BY <1>2, <1>5, <2>1, <2>2, <2>3 DEF Outlives
<1> QED BY <1>2, <1>4, <1>5

-----------------------------------------------------------------------------
\* A command on n that ends in o, with the promise p, keeps the invariant if the
\* relation is locally sound and the promise true; if what it puts into a
\* relation in order is in order; and if the promise of a relation whose file is
\* the old one is not new.
LEMMA DoKeeps ==
  ASSUME IInv, NEW n \in Names, NEW o, NEW p \in Promises, Do(n, o, p),
         Local(o.rel),
         Promised(p) => InOrder(o.rel, p),
         p = "gone" => o.rel = Absent,
         SameFile(rel[n], o.rel) \/ Exchanged(rel[n], o.rel),
         Promised(promise[n]) => o.rel.rows \subseteq rel[n].rows \cup {Row(rel[n])},
         o.rel.stored \subseteq rel[n].stored \cup o.rel.rows,
         Promised(p) /\ ~Exchanged(rel[n], o.rel)
           => Promised(promise[n]) /\ Catalogued(o.rel) = Catalogued(rel[n])
  PROVE  IInv'
<1> DEFINE k == StillKept(n, o.rel)
<1>1. /\ rel' = [rel EXCEPT ![n] = o.rel]
      /\ undefined' \in BOOLEAN
      /\ promise' = [promise EXCEPT ![n] = p]
      /\ kept' = [kept EXCEPT ![n] = k]
      /\ saved' = saved
  BY DEF Do
<1>2. /\ rel'[n] = o.rel /\ promise'[n] = p /\ kept'[n] = k
      /\ \A m \in Names \ {n} : /\ rel'[m] = rel[m] /\ promise'[m] = promise[m]
                              /\ kept'[m] = kept[m]
      /\ rel[n] \in Relations /\ saved[n] \in Descriptions
      /\ saved[n].attrs # {} => saved[n].schema # None
  BY <1>1 DEF IInv, TypeOK, CatalogsAgree
<1>3. /\ k \in Promises
      /\ Promised(k) => Promised(kept[n]) /\ Outlives(o.rel, saved[n], k)
      /\ k = "gone" => kept[n] = "gone" /\ o.rel.file = "none"
  BY KeptOutlives
<1>4. k # "none" => ~Exchanged(rel[n], o.rel)
  BY DEF StillKept, Exchanged
<1> HIDE DEF k
<1>5. TypeOK'
  BY <1>1, <1>2, <1>3 DEF IInv, TypeOK, Local
<1>6. (\A m \in Names : Local(rel[m]))'
  BY <1>2 DEF IInv
<1>7. CatalogsAgree'
  BY <1>1, <1>6 DEF IInv, CatalogsAgree, Local
<1>8. CreatedStaysInOrder'
  BY <1>2 DEF IInv, CreatedStaysInOrder
<1>9. DestroyedIsGone'
  BY <1>2 DEF IInv, DestroyedIsGone
<1>10. SurvivesCrash'
  <2>1. Promised(k) => \A v \in Survivors(o.rel, saved[n]) : InOrder(v, k)
    BY <1>2, <1>3, SurvivorsInOrder
  <2> QED BY <2>1, <1>1, <1>2 DEF IInv, SurvivesCrash
<1>11. DiskKnows'
  <2>1. Promised(p) /\ Promised(k) => saved[n] = Catalogued(o.rel)
    BY <1>3, <1>4 DEF IInv, DiskKnows, Promised
  <2> QED BY <2>1, <1>1, <1>2, <1>3 DEF IInv, DiskKnows
<1> QED BY <1>5, <1>6, <1>7, <1>8, <1>9, <1>10, <1>11 DEF IInv

\* Where the command is tame, the promise stays.
LEMMA TameDoKeeps ==
  ASSUME IInv, NEW n \in Names, NEW o, Do(n, o, promise[n]), Tame(rel[n], o.rel),
         promise[n] = "gone" => o.rel = Absent
  PROVE  IInv'
<1>1. promise[n] \in Promises
  BY DEF IInv, TypeOK
<1>2. Promised(promise[n]) => InOrder(rel[n], promise[n])
  BY DEF IInv, CreatedStaysInOrder
<1>3. Promised(promise[n]) => InOrder(o.rel, promise[n])
  BY <1>2, TameKeepsOrder
<1> QED BY <1>1, <1>3, DoKeeps DEF Tame

\* Nothing can be put into a relation that is not there.
LEMMA AbsentIsTame ==
  ASSUME NEW o, o \in Insertions(Absent) \cup Loads(Absent) \cup Prints(Absent)
                      \cup Deletions(Absent)
  PROVE  o.rel = Absent
<1>1. /\ Absent.attrs = {} /\ Absent.schema = None /\ Absent.file = "none"
      /\ ~Readable(Absent)
  BY DEF Absent, Readable
<1>2. o \in {Failed(Absent), Astray(Absent)}
  BY <1>1 DEF Insertions, Loads, Prints, Deletions
<1> QED BY <1>2 DEF Failed, Astray

-----------------------------------------------------------------------------
LEMMA InitIInv == Init => IInv
<1> SUFFICES ASSUME Init PROVE IInv
  OBVIOUS
<1>1. \A n \in Names : rel[n] = Absent /\ saved[n] = Catalogued(Absent)
                       /\ promise[n] = "gone" /\ kept[n] = "gone"
  BY DEF Init
<1>2. Absent \in Relations /\ Catalogued(Absent) \in Descriptions
  BY DEF Absent, Relations, Catalogued, Descriptions
<1>3. TypeOK
  BY <1>2 DEF Init, TypeOK, Promises
<1>4. Absent.attrs = {} /\ Catalogued(Absent).attrs = {} /\ Absent.file = "none"
  BY DEF Absent, Catalogued
<1>5. \A n \in Names : ~Promised(promise[n]) /\ ~Promised(kept[n])
  BY <1>1 DEF Promised
<1> QED BY <1>1, <1>3, <1>4, <1>5, AbsentIsLocal
        DEF IInv, CatalogsAgree, CreatedStaysInOrder, DestroyedIsGone,
            SurvivesCrash, DiskKnows

\* The commands that change the tuples, and print.
LEMMA TupleCommandsKeepIInv ==
  ASSUME IInv, NEW n \in Names, Insert(n) \/ Delete(n) \/ Load(n) \/ PrintRel(n)
  PROVE  IInv'
<1>0. Local(rel[n]) /\ (promise[n] = "gone" => rel[n] = Absent)
  BY DEF IInv, DestroyedIsGone
<1>1. PICK o \in Insertions(rel[n]) \cup Deletions(rel[n]) \cup Loads(rel[n])
                 \cup Prints(rel[n]) : Do(n, o, promise[n])
  BY DEF Insert, Delete, Load, PrintRel
<1>2. Tame(rel[n], o.rel)
  BY <1>0, <1>1, InsertionsTame, DeletionsTame, LoadsTame, PrintsTame
<1>3. promise[n] = "gone" => o.rel = Absent
  BY <1>0, <1>1, AbsentIsTame
<1> QED BY <1>1, <1>2, <1>3, TameDoKeeps

\* A creation, by the user or for a query: what fails leaves a relation in order
\* as it was, because it is refused.
LEMMA RefusedCreationKeepsIInv ==
  ASSUME IInv, NEW n \in Names, NEW s \in Schemas,
         NEW o \in Creations(rel[n], s), o.says # "OK",
         Do(n, o, AfterFailure(n))
  PROVE  IInv'
<1>0. Local(rel[n]) /\ promise[n] \in Promises
  BY DEF IInv, TypeOK
<1>1. /\ Local(o.rel) /\ o.rel.rows = rel[n].rows /\ o.rel.stored = rel[n].stored
      /\ rel[n].file # "none" => o.rel.file = rel[n].file
      /\ rel[n].schema # None => o = Failed(rel[n])
  BY <1>0, CreationsMake
<1>2. Promised(promise[n]) => InOrder(rel[n], promise[n]) /\ o.rel = rel[n]
  BY <1>1 DEF IInv, CreatedStaysInOrder, InOrder, Described, Failed
<1>3. AfterFailure(n) \in Promises /\ AfterFailure(n) # "gone"
      /\ (Promised(AfterFailure(n))
            => AfterFailure(n) = promise[n] /\ Promised(promise[n]))
  BY <1>0 DEF AfterFailure, Promises, Promised
<1>4. SameFile(rel[n], o.rel) \/ Exchanged(rel[n], o.rel)
  BY <1>1 DEF SameFile, Exchanged
<1> QED BY <1>1, <1>2, <1>3, <1>4, DoKeeps

LEMMA CreateKeepsIInv ==
  ASSUME IInv, NEW n \in Names, Create(n)
  PROVE  IInv'
<1>0. Local(rel[n])
  BY DEF IInv
<1>1. PICK s \in Schemas : \E o \in Creations(rel[n], s) :
        Do(n, o, IF o.says = "OK" THEN "usable" ELSE AfterFailure(n))
  BY DEF Create
<1> PICK o \in Creations(rel[n], s) :
        Do(n, o, IF o.says = "OK" THEN "usable" ELSE AfterFailure(n))
  BY <1>1
<1>2. CASE o.says = "OK"
  <2>1. Local(o.rel) /\ rel[n].file = "none" /\ InOrder(o.rel, "usable")
        /\ o.rel.rows = rel[n].rows /\ o.rel.stored = rel[n].stored
    BY <1>0, <1>2, CreationsMake
  <2>2. Exchanged(rel[n], o.rel)
    BY <2>1 DEF InOrder, Exchanged
  <2>3. Do(n, o, "usable") /\ "usable" \in Promises
    BY <1>2 DEF Promises
  <2> QED BY <2>1, <2>2, <2>3, DoKeeps
<1>3. CASE o.says # "OK"
  BY <1>3, RefusedCreationKeepsIInv
<1> QED BY <1>2, <1>3

LEMMA DestroyKeepsIInv ==
  ASSUME IInv, NEW n \in Names, Destroy(n)
  PROVE  IInv'
<1>0. Local(rel[n]) /\ promise[n] \in Promises
      /\ (promise[n] = "gone" => rel[n] = Absent)
  BY DEF IInv, TypeOK, DestroyedIsGone
<1> DEFINE p(o) == IF o.says = "OK" THEN "gone"
                   ELSE IF Promised(promise[n]) THEN "none" ELSE promise[n]
<1>1. PICK o \in Destructions(rel[n]) : Do(n, o, p(o))
  BY DEF Destroy
<1>2. /\ Local(o.rel)
      /\ \/ o.rel = Absent
         \/ /\ o.rel.rows = rel[n].rows /\ o.rel.stored = rel[n].stored
            /\ o.rel.file = rel[n].file
      /\ o.says = "OK" => o.rel = Absent
      /\ rel[n] = Absent => o.rel = Absent
  BY <1>0, DestructionsLeave
<1>3. p(o) \in Promises /\ ~Promised(p(o)) /\ (p(o) = "gone" => o.rel = Absent)
  BY <1>0, <1>2 DEF Promises, Promised
<1>4. /\ o.rel.rows \subseteq rel[n].rows /\ o.rel.stored \subseteq rel[n].stored
      /\ SameFile(rel[n], o.rel) \/ Exchanged(rel[n], o.rel)
  BY <1>2 DEF Absent, SameFile, Exchanged
<1> HIDE DEF p
<1> QED BY <1>1, <1>2, <1>3, <1>4, DoKeeps

-----------------------------------------------------------------------------
\* The result of a query, once it is there: made in order where there was
\* nothing, or as it was.
LEMMA ResultsReady ==
  ASSUME IInv, NEW n \in Names, NEW m \in Names, NEW into \in BOOLEAN,
         NEW o \in Results(n, m, into)
  PROVE  /\ \E s \in Schemas : o.says # "OK" => o \in Creations(rel[n], s)
         /\ o.says = "OK" =>
              /\ Local(o.rel) /\ o.rel.rows = rel[n].rows
              /\ o.rel.stored = rel[n].stored
              /\ Makes(n, into) => /\ rel[n].file = "none" /\ InOrder(o.rel, "usable")
                                  /\ ~Promised(promise[n])
              /\ ~Makes(n, into) => o.rel = rel[n] /\ promise[n] # "gone"
<1>0. Local(rel[n]) /\ (promise[n] = "gone" => rel[n] = Absent)
      /\ (Promised(promise[n]) => rel[n].schema # None)
  BY DEF IInv, DestroyedIsGone, CreatedStaysInOrder, InOrder, Described
<1>1. \A s \in Schemas : Failed(rel[n]) \in Creations(rel[n], s)
  BY DEF Creations
<1>2. CASE o = Failed(rel[n])
  BY <1>1, <1>2, SchemasAssumption DEF Failed
<1>3. CASE /\ Described(rel[m]) /\ Makes(n, into)
           /\ o \in Creations(rel[n], rel[m].schema)
  <2>1. rel[m].schema \in Schemas
    BY <1>3 DEF Described, IInv, TypeOK, Relations
  <2>2. /\ Local(o.rel) /\ o.rel.rows = rel[n].rows /\ o.rel.stored = rel[n].stored
        /\ rel[n].schema # None => o = Failed(rel[n])
        /\ o.says = "OK" => rel[n].file = "none" /\ InOrder(o.rel, "usable")
    BY <1>0, <1>3, <2>1, CreationsMake
  <2>3. o.says = "OK" => o # Failed(rel[n])
    BY DEF Failed
  <2> QED BY <1>0, <1>3, <2>1, <2>2, <2>3
<1>4. CASE o = OK(rel[n]) /\ ~Makes(n, into)
  <2>1. rel[n] # Absent
    BY <1>4 DEF Makes, Absent
  <2>2. o.rel = rel[n] /\ o.says = "OK"
    BY <1>4 DEF OK
  <2> QED BY <1>0, <1>4, <2>1, <2>2, SchemasAssumption
<1> QED BY <1>2, <1>3, <1>4 DEF Results

LEMMA QueryRefusedKeepsIInv ==
  ASSUME IInv, NEW n \in Names, NEW m \in Names, NEW into \in BOOLEAN,
         QueryRefused(n, m, into)
  PROVE  IInv'
<1>1. PICK o \in Results(n, m, into) : o.says # "OK" /\ Do(n, o, AfterFailure(n))
  BY DEF QueryRefused
<1>2. PICK s \in Schemas : o \in Creations(rel[n], s)
  BY <1>1, ResultsReady
<1> QED BY <1>1, <1>2, RefusedCreationKeepsIInv

\* What is put into the result is tame to what was there before, but for the file.
LEMMA ResultTame ==
  ASSUME IInv, NEW n \in Names, NEW m \in Names, NEW into \in BOOLEAN,
         NEW o \in Results(n, m, into), o.says = "OK", NEW q, Tame(o.rel, q)
  PROVE  /\ Local(q)
         /\ Promised(promise[n]) => q.rows \subseteq rel[n].rows \cup {Row(rel[n])}
         /\ q.stored \subseteq rel[n].stored \cup q.rows
         /\ SameFile(rel[n], q) \/ Exchanged(rel[n], q)
         /\ Makes(n, into) => InOrder(q, "usable") /\ Exchanged(rel[n], q)
         /\ ~Makes(n, into) => Tame(rel[n], q) /\ promise[n] # "gone"
<1>1. /\ Local(o.rel) /\ o.rel.rows = rel[n].rows /\ o.rel.stored = rel[n].stored
      /\ Makes(n, into) => /\ rel[n].file = "none" /\ InOrder(o.rel, "usable")
                          /\ ~Promised(promise[n])
      /\ ~Makes(n, into) => o.rel = rel[n] /\ promise[n] # "gone"
  BY ResultsReady
<1>2. CASE Makes(n, into)
  <2>1. InOrder(q, "usable")
    BY <1>1, <1>2, TameKeepsOrder
  <2>2. Exchanged(rel[n], q)
    BY <1>1, <1>2, <2>1 DEF InOrder, Exchanged
  <2> QED BY <1>1, <1>2, <2>1, <2>2 DEF Tame
<1>3. CASE ~Makes(n, into)
  BY <1>1, <1>3 DEF Tame
<1> QED BY <1>2, <1>3

\* Tmp is printed, and destroyed.
LEMMA EndingsLeave ==
  ASSUME NEW n, NEW s, Local(s.rel), NEW e \in Endings(n, s)
  PROVE  /\ Local(e.rel)
         /\ n # Tmp => e = s
         /\ \/ e.rel = Absent
            \/ /\ e.rel.rows = s.rel.rows /\ e.rel.stored \subseteq s.rel.stored \cup s.rel.rows
               /\ SameFile(s.rel, e.rel)
         /\ n = Tmp /\ e.says = "OK" => e.rel = Absent
<1>1. CASE n # Tmp
  BY <1>1 DEF Endings, SameFile
<1>2. CASE n = Tmp /\ s.says = "astray"
  BY <1>2 DEF Endings, SameFile
<1>3. CASE n = Tmp /\ s.says # "astray"
  <2>1. PICK p \in Prints(s.rel) : e \in Destructions(p.rel)
    BY <1>3 DEF Endings
  <2>2. Tame(s.rel, p.rel) /\ p.rel.rows = s.rel.rows /\ Local(p.rel)
    BY PrintsTame DEF Tame
  <2>3. /\ Local(e.rel)
        /\ \/ e.rel = Absent
           \/ /\ e.rel.rows = p.rel.rows /\ e.rel.stored = p.rel.stored
              /\ e.rel.file = p.rel.file
        /\ e.says = "OK" => e.rel = Absent
    BY <2>1, <2>2, DestructionsLeave
  <2> QED BY <1>3, <2>2, <2>3 DEF Tame, SameFile
<1> QED BY <1>1, <1>2, <1>3

LEMMA QueryRunsKeepsIInv ==
  ASSUME IInv, NEW n \in Names, NEW m \in Names, NEW into \in BOOLEAN,
         QueryRuns(n, m, into)
  PROVE  IInv'
<1> DEFINE P(e) == IF n = Tmp THEN IF e.says = "OK" THEN "gone" ELSE "none"
                   ELSE IF Makes(n, into) THEN "usable" ELSE promise[n]
<1>1. PICK o \in Results(n, m, into) :
        /\ o.says = "OK"
        /\ \E s \in Selections(o.rel, Source(m, n, o.rel)) :
             \E e \in Endings(n, s) : Do(n, e, P(e))
  BY DEF QueryRuns
<1>2. PICK s \in Selections(o.rel, Source(m, n, o.rel)) :
        \E e \in Endings(n, s) : Do(n, e, P(e))
  BY <1>1
<1>3. PICK e \in Endings(n, s) : Do(n, e, P(e))
  BY <1>2
<1>4. Tame(o.rel, s.rel)
  BY <1>1, ResultsReady, SelectionsTame
<1>5. /\ Local(s.rel)
      /\ Promised(promise[n]) => s.rel.rows \subseteq rel[n].rows \cup {Row(rel[n])}
      /\ s.rel.stored \subseteq rel[n].stored \cup s.rel.rows
      /\ SameFile(rel[n], s.rel) \/ Exchanged(rel[n], s.rel)
      /\ Makes(n, into) => InOrder(s.rel, "usable") /\ Exchanged(rel[n], s.rel)
      /\ ~Makes(n, into) => Tame(rel[n], s.rel) /\ promise[n] # "gone"
  BY <1>1, <1>4, ResultTame
<1>6. /\ Local(e.rel)
      /\ n # Tmp => e = s
      /\ \/ e.rel = Absent
         \/ /\ e.rel.rows = s.rel.rows /\ e.rel.stored \subseteq s.rel.stored \cup s.rel.rows
            /\ SameFile(s.rel, e.rel)
      /\ n = Tmp /\ e.says = "OK" => e.rel = Absent
  BY <1>5, EndingsLeave
<1>7. CASE n = Tmp
  <2>1. P(e) \in Promises /\ ~Promised(P(e)) /\ (P(e) = "gone" => e.rel = Absent)
    BY <1>6, <1>7 DEF Promises, Promised
  <2>2. /\ Promised(promise[n]) => e.rel.rows \subseteq rel[n].rows \cup {Row(rel[n])}
        /\ e.rel.stored \subseteq rel[n].stored \cup e.rel.rows
    <3>1. CASE e.rel = Absent
      BY <3>1 DEF Absent
    <3>2. CASE e.rel # Absent
      BY <1>5, <1>6, <3>2
    <3> QED BY <3>1, <3>2
  <2>3. SameFile(rel[n], e.rel) \/ Exchanged(rel[n], e.rel)
    BY <1>5, <1>6 DEF SameFile, Exchanged, Absent
  <2> HIDE DEF P
  <2> QED BY <1>3, <1>6, <2>1, <2>2, <2>3, DoKeeps
<1>8. CASE n # Tmp /\ Makes(n, into)
  <2>1. e = s /\ Do(n, e, "usable") /\ "usable" \in Promises
    BY <1>3, <1>6, <1>8 DEF Promises
  <2> QED BY <1>5, <1>8, <2>1, DoKeeps
<1>9. CASE n # Tmp /\ ~Makes(n, into)
  BY <1>3, <1>5, <1>6, <1>9, TameDoKeeps
<1> QED BY <1>7, <1>8, <1>9

-----------------------------------------------------------------------------
LEMMA ChoicesChoose ==
  ASSUME NEW S, NEW f \in Choices(S)
  PROVE  f = [n \in Names |-> f[n]] /\ \A n \in Names : f[n] \in S[n]
BY DEF Choices

\* A crash keeps the invariant where the relations it meets are sound and the
\* promises to be kept will be.
LEMMA CrashesKeepIInv ==
  ASSUME IInv, NEW R, NEW k \in [Names -> Promises], Crashes(R, k),
         \A n \in Names :
           /\ Local(R[n])
           /\ Promised(k[n]) => Outlives(R[n], saved[n], k[n])
           /\ k[n] = "gone" => saved[n] = Catalogued(Absent) /\ R[n].file = "none"
  PROVE  IInv'
<1>1. /\ rel' \in Choices([n \in Names |-> Survivors(R[n], saved[n])])
      /\ promise' = k /\ kept' = k /\ saved' = saved /\ undefined' = undefined
  BY DEF Crashes
<1>2. /\ rel' = [n \in Names |-> rel'[n]]
      /\ \A n \in Names : rel'[n] \in Survivors(R[n], saved[n])
  BY <1>1, ChoicesChoose
<1>3. ASSUME NEW n \in Names
      PROVE  /\ Local(rel'[n]) /\ rel'[n].open = "closed"
             /\ Catalogued(rel'[n]) = saved[n]
             /\ Promised(k[n]) => InOrder(rel'[n], k[n])
             /\ Promised(k[n]) =>
                  \A v \in Survivors(rel'[n], saved[n]) : InOrder(v, k[n])
             /\ k[n] = "gone" => /\ rel'[n] = Absent /\ rel'[n].file = "none"
                                /\ saved[n] = Catalogued(Absent)
  <2>1. /\ saved[n] \in Descriptions /\ (saved[n].attrs # {} => saved[n].schema # None)
        /\ Local(R[n]) /\ rel'[n] \in Survivors(R[n], saved[n])
    BY <1>2 DEF IInv, TypeOK, CatalogsAgree
  <2>2. /\ Local(rel'[n]) /\ rel'[n].open = "closed"
        /\ rel'[n].stored = rel'[n].rows /\ Catalogued(rel'[n]) = saved[n]
        /\ rel'[n].schema = saved[n].schema /\ rel'[n].attrs = saved[n].attrs
        /\ ~Unsaved(R[n]) => rel'[n].file = R[n].file
    BY <2>1, SurvivorFields
  <2>3. Promised(k[n]) => InOrder(rel'[n], k[n])
    BY <2>1, SurvivorsInOrder
  <2>4. Promised(k[n]) => \A v \in Survivors(rel'[n], saved[n]) : InOrder(v, k[n])
    <3>1. Promised(k[n]) => Outlives(rel'[n], saved[n], k[n])
      BY <2>2, <2>3, ClosedOutlives
    <3> QED BY <2>1, <2>2, <3>1, SurvivorsInOrder
  <2>5. ASSUME k[n] = "gone"
        PROVE  /\ rel'[n] = Absent /\ rel'[n].file = "none"
               /\ saved[n] = Catalogued(Absent)
    <3>1. saved[n] = Catalogued(Absent) /\ R[n].file = "none"
      BY <2>5
    <3>2. rel'[n].file = "none"
      BY <2>1, <2>2, <3>1 DEF Local, Readable
    <3>3. saved[n].schema = None /\ saved[n].attrs = {}
      BY <3>1 DEF Catalogued, Absent
    <3> QED BY <2>2, <3>1, <3>2, <3>3, AbsentFields DEF Local
  <2> QED BY <2>2, <2>3, <2>4, <2>5
<1>4. TypeOK'
  <2>1. rel' \in [Names -> Relations]
    BY <1>2, <1>3 DEF Local
  <2> QED BY <1>1, <2>1 DEF IInv, TypeOK
<1>5. (\A n \in Names : Local(rel[n]))' /\ CatalogsAgree'
  BY <1>1, <1>3 DEF IInv, CatalogsAgree, Local
<1>6. CreatedStaysInOrder' /\ DestroyedIsGone' /\ SurvivesCrash'
  BY <1>1, <1>3 DEF CreatedStaysInOrder, DestroyedIsGone, SurvivesCrash
<1>7. DiskKnows'
  BY <1>1, <1>3 DEF DiskKnows
<1> QED BY <1>4, <1>5, <1>6, <1>7 DEF IInv

LEMMA CrashKeepsIInv ==
  ASSUME IInv, Crash
  PROVE  IInv'
<1>1. kept \in [Names -> Promises] /\ Crashes(rel, kept)
  BY DEF IInv, TypeOK, Crash
<1>2. ASSUME NEW n \in Names, Promised(kept[n])
      PROVE  Outlives(rel[n], saved[n], kept[n])
  <2>1. /\ Local(rel[n]) /\ saved[n] \in Descriptions
        /\ saved[n].attrs # {} => saved[n].schema # None
        /\ \A v \in Survivors(rel[n], saved[n]) : InOrder(v, kept[n])
    BY <1>2 DEF IInv, TypeOK, CatalogsAgree, SurvivesCrash
  <2> QED BY <1>2, <2>1, SurvivorsInOrder
<1>3. \A n \in Names :
        /\ Local(rel[n])
        /\ kept[n] = "gone" => saved[n] = Catalogued(Absent) /\ rel[n].file = "none"
  BY DEF IInv, DiskKnows
<1> QED BY <1>1, <1>2, <1>3, CrashesKeepIInv

LEMMA JoinExitsKeepsIInv ==
  ASSUME IInv, NEW n \in Names, NEW m \in Names, NEW into \in BOOLEAN,
         JoinExits(n, m, into)
  PROVE  IInv'
<1>1. PICK o \in Results(n, m, into) :
        /\ o.says = "OK" /\ Readable(o.rel)
        /\ \E r \in Interrupted(o.rel, Source(m, n, o.rel)) :
             Crashes([rel EXCEPT ![n] = r], [kept EXCEPT ![n] = StillKept(n, r)])
  BY DEF JoinExits
<1>2. PICK r \in Interrupted(o.rel, Source(m, n, o.rel)) :
        Crashes([rel EXCEPT ![n] = r], [kept EXCEPT ![n] = StillKept(n, r)])
  BY <1>1
<1>3. Local(o.rel) /\ o.rel.file # "none"
  BY <1>1, ResultsReady DEF Readable
<1>4. Tame(o.rel, r)
  <2>1. r = LeftOpen(o.rel) \/ \E i \in Inserted(o.rel) : r = Untold(i)
    BY DEF Interrupted
  <2> QED BY <1>1, <1>3, <2>1, LeftOpenTame, InsertedTame
<1>5. /\ Local(r)
      /\ Promised(promise[n]) => r.rows \subseteq rel[n].rows \cup {Row(rel[n])}
      /\ r.stored \subseteq rel[n].stored \cup r.rows
      /\ SameFile(rel[n], r) \/ Exchanged(rel[n], r)
  BY <1>1, <1>4, ResultTame
<1>6. /\ StillKept(n, r) \in Promises
      /\ Promised(StillKept(n, r)) => Outlives(r, saved[n], StillKept(n, r))
      /\ StillKept(n, r) = "gone" => kept[n] = "gone" /\ r.file = "none"
  BY <1>5, KeptOutlives
<1> DEFINE R == [rel EXCEPT ![n] = r]
           k == [kept EXCEPT ![n] = StillKept(n, r)]
<1>7. /\ k \in [Names -> Promises]
      /\ R[n] = r /\ k[n] = StillKept(n, r)
      /\ \A j \in Names \ {n} : R[j] = rel[j] /\ k[j] = kept[j]
  BY <1>6 DEF IInv, TypeOK
<1>8. Crashes(R, k)
  BY <1>2
<1> HIDE DEF R, k
<1>9. ASSUME NEW j \in Names
      PROVE  /\ Local(R[j])
             /\ Promised(k[j]) => Outlives(R[j], saved[j], k[j])
             /\ k[j] = "gone" => saved[j] = Catalogued(Absent) /\ R[j].file = "none"
  <2>1. kept[j] = "gone" => saved[j] = Catalogued(Absent) /\ rel[j].file = "none"
    BY DEF IInv, DiskKnows
  <2>2. CASE j = n
    BY <1>5, <1>6, <1>7, <2>1, <2>2
  <2>3. CASE j # n
    <3>1. /\ Local(rel[j]) /\ saved[j] \in Descriptions
          /\ saved[j].attrs # {} => saved[j].schema # None
          /\ Promised(kept[j]) => \A v \in Survivors(rel[j], saved[j]) : InOrder(v, kept[j])
      BY DEF IInv, TypeOK, CatalogsAgree, SurvivesCrash
    <3>2. Promised(kept[j]) => Outlives(rel[j], saved[j], kept[j])
      BY <3>1, SurvivorsInOrder
    <3> QED BY <1>7, <2>1, <2>3, <3>1, <3>2
  <2> QED BY <2>2, <2>3
<1> QED BY <1>7, <1>8, <1>9, CrashesKeepIInv

-----------------------------------------------------------------------------
\* What a quit leaves of a relation.
LEMMA QuitLeaves ==
  ASSUME NEW r, Local(r), NEW q \in AfterQuit(r)
  PROVE  /\ Local(q) /\ q.open = "closed" /\ Catalogued(q) = Catalogued(r)
         /\ q.schema = r.schema /\ q.attrs = r.attrs
         /\ q.rows \subseteq r.rows
         /\ r.open # "untold" => q.file = Settled(r.file) /\ q.rows = r.rows
         /\ r.open = "untold" => q.file \in {Settled(r.file), "torn"}
         /\ (q.file = "none") = (r.file = "none")
<1> DEFINE c == Catalogued(r)
<1>1. /\ c \in Descriptions /\ c.schema = r.schema /\ c.attrs = r.attrs
      /\ c.attrs # {} => c.schema # None
      /\ r.rows \subseteq Descriptions
      /\ r.file \in {"none", "half", "new", "whole", "torn"}
      /\ r.file = "none" => r.rows = {} /\ r.open # "untold"
  BY DEF Local, Catalogued, Relations, Descriptions
<1>2. /\ Settled(r.file) \in {"none", "half", "whole", "torn"}
      /\ (Settled(r.file) = "none") = (r.file = "none")
  BY <1>1 DEF Settled
<1> HIDE DEF c
<1>3. \E F, S : q \in Remains(c, F, S)
  BY DEF AfterQuit, c
<1>4. /\ q.rows \subseteq r.rows
      /\ r.open # "untold" => q.file = Settled(r.file) /\ q.rows = r.rows
      /\ r.open = "untold" => q.file \in {Settled(r.file), "torn"}
  BY DEF AfterQuit, Remains
<1>5. /\ q.file \in {"none", "half", "new", "whole", "torn"}
      /\ q.rows \subseteq Descriptions
      /\ (q.file = "none") = (r.file = "none")
      /\ q.file = "none" => q.rows = {}
  BY <1>1, <1>2, <1>4
<1>6. /\ Local(q) /\ q.open = "closed" /\ Catalogued(q) = c
      /\ q.schema = c.schema /\ q.attrs = c.attrs
  BY <1>1, <1>3, <1>5, RemainsLocal
<1> QED BY <1>1, <1>4, <1>5, <1>6 DEF c

LEMMA RestartKeepsIInv ==
  ASSUME IInv, Restart
  PROVE  IInv'
<1>1. /\ rel' \in Choices([n \in Names |-> AfterQuit(rel[n])])
      /\ saved' = [n \in Names |-> Catalogued(rel[n])]
      /\ promise' = [n \in Names |-> IF rel[n].open = "untold" THEN Cut(promise[n])
                                    ELSE promise[n]]
      /\ kept' = promise' /\ undefined' = undefined
  BY DEF Restart, Written
<1>2. /\ rel' = [n \in Names |-> rel'[n]]
      /\ \A n \in Names : rel'[n] \in AfterQuit(rel[n])
  BY <1>1, ChoicesChoose
<1>3. ASSUME NEW n \in Names
      PROVE  /\ Local(rel'[n]) /\ promise'[n] \in Promises
             /\ saved'[n] \in Descriptions /\ saved'[n] = Catalogued(rel'[n])
             /\ saved'[n].attrs # {} => saved'[n].schema # None
             /\ Promised(promise'[n]) => InOrder(rel'[n], promise'[n])
             /\ Promised(promise'[n]) =>
                  \A v \in Survivors(rel'[n], saved'[n]) : InOrder(v, promise'[n])
             /\ promise'[n] = "gone" => rel'[n] = Absent
  <2>1. Local(rel[n]) /\ promise[n] \in Promises
    BY DEF IInv, TypeOK
  <2>2. /\ Local(rel'[n]) /\ rel'[n].open = "closed"
        /\ Catalogued(rel'[n]) = Catalogued(rel[n])
        /\ rel'[n].schema = rel[n].schema /\ rel'[n].attrs = rel[n].attrs
        /\ rel'[n].rows \subseteq rel[n].rows
        /\ rel[n].open # "untold" => rel'[n].file = Settled(rel[n].file)
        /\ rel[n].open = "untold" => rel'[n].file \in {Settled(rel[n].file), "torn"}
        /\ (rel'[n].file = "none") = (rel[n].file = "none")
    BY <1>2, <2>1, QuitLeaves
  <2>3. saved'[n] = Catalogued(rel'[n])
    BY <1>1, <2>2
  <2>4. saved'[n] \in Descriptions /\ (saved'[n].attrs # {} => saved'[n].schema # None)
    BY <2>2, <2>3 DEF Local, Catalogued, Relations, Descriptions
  <2>5. /\ promise'[n] \in Promises
        /\ Promised(promise'[n]) => Promised(promise[n])
        /\ promise[n] = "cut" => promise'[n] = "cut"
        /\ Promised(promise'[n]) /\ rel[n].open = "untold" => promise'[n] = "cut"
        /\ promise'[n] = "gone" => promise[n] = "gone"
    BY <1>1, <2>1 DEF Cut, Promises, Promised
  <2>6. Promised(promise'[n]) => InOrder(rel'[n], promise'[n])
    <3> SUFFICES ASSUME Promised(promise'[n]) PROVE InOrder(rel'[n], promise'[n])
      OBVIOUS
    <3>1. InOrder(rel[n], promise[n])
      BY <2>5 DEF IInv, CreatedStaysInOrder
    <3>2. Settled(rel[n].file) = rel[n].file
      BY <3>1 DEF InOrder, Settled
    <3>3. rel'[n].file = "whole" \/ (promise'[n] = "cut" /\ rel'[n].file = "torn")
      BY <2>2, <2>5, <3>1, <3>2 DEF InOrder
    <3>4. Row(rel'[n]) = Row(rel[n])
      BY <2>2 DEF Row
    <3> QED BY <2>2, <3>1, <3>3, <3>4 DEF InOrder, Described
  <2>7. Promised(promise'[n]) =>
          \A v \in Survivors(rel'[n], saved'[n]) : InOrder(v, promise'[n])
    <3>1. Promised(promise'[n]) => Outlives(rel'[n], saved'[n], promise'[n])
      BY <2>2, <2>3, <2>6, ClosedOutlives
    <3> QED BY <2>2, <2>4, <3>1, SurvivorsInOrder
  <2>8. promise'[n] = "gone" => rel'[n] = Absent
    <3> SUFFICES ASSUME promise'[n] = "gone" PROVE rel'[n] = Absent
      OBVIOUS
    <3>1. rel[n] = Absent
      BY <2>5 DEF IInv, DestroyedIsGone
    <3>2. Absent.schema = None /\ Absent.attrs = {} /\ Absent.file = "none"
      BY DEF Absent
    <3>3. rel'[n].schema = None /\ rel'[n].attrs = {} /\ rel'[n].file = "none"
      BY <2>2, <3>1, <3>2
    <3> QED BY <2>2, <3>3, AbsentFields DEF Local
  <2> QED BY <2>2, <2>3, <2>4, <2>5, <2>6, <2>7, <2>8
<1>4. TypeOK'
  <2>1. rel' \in [Names -> Relations] /\ saved' \in [Names -> Descriptions]
    BY <1>1, <1>2, <1>3 DEF Local
  <2>2. promise' \in [Names -> Promises]
    BY <1>1, <1>3
  <2> QED BY <1>1, <2>1, <2>2 DEF IInv, TypeOK
<1>5. (\A n \in Names : Local(rel[n]))' /\ CatalogsAgree'
  BY <1>3 DEF CatalogsAgree, Local
<1>6. CreatedStaysInOrder' /\ DestroyedIsGone' /\ SurvivesCrash'
  BY <1>1, <1>3 DEF CreatedStaysInOrder, DestroyedIsGone, SurvivesCrash
<1>7. DiskKnows'
  <2>1. Absent.file = "none"
    BY DEF Absent
  <2> QED BY <1>1, <1>3, <2>1 DEF DiskKnows
<1> QED BY <1>4, <1>5, <1>6, <1>7 DEF IInv

LEMMA StepKeepsIInv == IInv /\ [Next]_vars => IInv'
<1> SUFFICES ASSUME IInv, [Next]_vars PROVE IInv'
  OBVIOUS
<1>1. CASE \E n \in Commanded : Create(n) \/ Insert(n) \/ Delete(n) \/ Load(n)
  BY <1>1, ConstantsAssumption, CreateKeepsIInv, TupleCommandsKeepIInv
<1>2. CASE \E n \in Names : Destroy(n) \/ PrintRel(n)
  BY <1>2, DestroyKeepsIInv, TupleCommandsKeepIInv
<1>3. CASE \E n, m \in Names, into \in BOOLEAN : Query(n, m, into)
  BY <1>3, QueryRefusedKeepsIInv, QueryRunsKeepsIInv, JoinExitsKeepsIInv DEF Query
<1>4. CASE Restart
  BY <1>4, RestartKeepsIInv
<1>5. CASE Crash
  BY <1>5, CrashKeepsIInv
<1>6. CASE UNCHANGED vars
  BY <1>6 DEF vars, IInv, TypeOK, CatalogsAgree, CreatedStaysInOrder,
              DestroyedIsGone, SurvivesCrash, DiskKnows
<1> QED BY <1>1, <1>2, <1>3, <1>4, <1>5, <1>6 DEF Next

\* The invariant holds of every behaviour of the shell.
THEOREM Invariance == Spec => []IInv
BY InitIInv, StepKeepsIInv, PTL DEF Spec

\* The catalogs, the files and what is promised of them are what they should be.
THEOREM TypeCorrect == Spec => []TypeOK
BY Invariance, PTL DEF IInv

\* Wherever a command has stopped, attrcat knows only relations of relcat.
THEOREM CatalogsAlwaysAgree == Spec => []CatalogsAgree
BY Invariance, PTL DEF IInv

\* A relation that was created is in order until a destruction is tried; its file
\* is whole unless a quit or a crash has found it open with pages to lose.
THEOREM CreatedAlwaysInOrder == Spec => []CreatedStaysInOrder
BY Invariance, PTL DEF IInv

\* A relation that was destroyed has left nothing.
THEOREM DestroyedAlwaysGone == Spec => []DestroyedIsGone
BY Invariance, PTL DEF IInv

\* Whatever a crash leaves of a relation that was in order at the last quit is in
\* order, and whole unless the crash has found it open with unsaved pages.
THEOREM AlwaysSurvivesCrash == Spec => []SurvivesCrash
BY Invariance, PTL DEF IInv

-----------------------------------------------------------------------------
\* A relation with attributes and a closed file can be destroyed.
LEMMA DestructionPossible ==
  ASSUME NEW r, Local(r), r.attrs # {}, r.open = "closed"
  PROVE  \E o \in Destructions(r) : o.rel = Absent
<1> DEFINE d == [r EXCEPT !.schema = None, !.attrs = {}]
<1>1. /\ d \in Relations /\ d.schema = None /\ d.attrs = {}
      /\ d.file = r.file /\ d.rows = r.rows /\ d.stored = r.stored
      /\ d.open = "closed"
  BY DEF Local, Relations
<1>2. FileDestructions(d) \subseteq Destructions(r)
  BY DEF Destructions, Local
<1>3. CASE r.file = "none"
  <2>1. d = Absent
    <3>1. d.rows = {} /\ d.stored = {}
      BY <1>1, <1>3 DEF Local
    <3> QED BY <1>1, <1>3, <3>1, AbsentFields
  <2>2. Failed(d) \in FileDestructions(d)
    BY <1>1, <1>3 DEF FileDestructions
  <2> QED BY <1>2, <2>1, <2>2 DEF Failed
<1>4. CASE r.file # "none"
  <2> DEFINE e == [d EXCEPT !.file = "none", !.rows = {}, !.stored = {}]
  <2>1. e = Absent
    <3>1. /\ e \in Relations /\ e.schema = None /\ e.attrs = {}
          /\ e.file = "none" /\ e.rows = {} /\ e.stored = {} /\ e.open = "closed"
      <4> HIDE DEF d
      <4> QED BY <1>1 DEF Relations
    <3> QED BY <3>1, AbsentFields
  <2>2. OK(e) \in FileDestructions(d)
    BY <1>1, <1>4 DEF FileDestructions
  <2> QED BY <1>2, <2>1, <2>2 DEF OK
<1> QED BY <1>3, <1>4

\* A file without entries gets them from a creation that fails.
LEMMA CreationPossible ==
  ASSUME NEW r, Local(r), r.schema = None, r.file # "none", NEW s \in Schemas
  PROVE  \E o \in Creations(r, s) : o.rel.attrs # {}
<1> DEFINE d == [r EXCEPT !.schema = s, !.attrs = @ \cup Attrs(s)]
<1>1. 1 \in Attrs(s)
  BY ConstantsAssumption DEF Attrs
<1>2. d.file = r.file /\ 1 \in d.attrs
  BY <1>1 DEF Local, Relations
<1>3. Failed(LeftOpen(d)) \in HeapFileCreations(d)
  BY <1>2 DEF HeapFileCreations
<1>4. HeapFileCreations(d) \subseteq Creations(r, s)
  BY DEF Creations, Entered, Attrs
<1>5. 1 \in LeftOpen(d).attrs
  BY <1>2 DEF LeftOpen, Local, Relations
<1> QED BY <1>3, <1>4, <1>5 DEF Failed

\* From every state, a name that is not stuck can be made free.
THEOREM NamesAlwaysCanBeFreed == Spec => []NamesCanBeFreed
<1>1. IInv => NamesCanBeFreed
  <2> SUFFICES ASSUME IInv, NEW n \in Names, ~Stuck(rel[n]), NEW q \in AfterQuit(rel[n])
               PROVE  \/ q = Absent
                      \/ \E o \in Destructions(q) : o.rel = Absent
                      \/ \E s \in Schemas : \E o \in Creations(q, s) :
                           \A x \in AfterQuit(o.rel) :
                             \E e \in Destructions(x) : e.rel = Absent
    BY DEF NamesCanBeFreed, CanBeFreed
  <2>1. Local(rel[n])
    BY DEF IInv
  <2>2. /\ Local(q) /\ q.open = "closed"
        /\ q.schema = rel[n].schema /\ q.attrs = rel[n].attrs
    BY <2>1, QuitLeaves
  <2>3. CASE q.attrs # {}
    BY <2>2, <2>3, DestructionPossible
  <2>4. CASE q.attrs = {} /\ q.file = "none"
    <3>1. q.schema = None
      BY <2>2, <2>4 DEF Stuck
    <3>2. q = Absent
      BY <2>2, <2>4, <3>1, AbsentFields DEF Local
    <3> QED BY <3>2
  <2>5. CASE q.attrs = {} /\ q.file # "none"
    <3>1. q.schema = None
      BY <2>2, <2>5 DEF Stuck
    <3>2. PICK s \in Schemas : \E o \in Creations(q, s) : o.rel.attrs # {}
      BY <2>2, <2>5, <3>1, CreationPossible, SchemasAssumption
    <3>3. PICK o \in Creations(q, s) : o.rel.attrs # {}
      BY <3>2
    <3>4. Local(o.rel)
      BY <2>2, CreationsMake
    <3>5. ASSUME NEW x \in AfterQuit(o.rel)
          PROVE  \E e \in Destructions(x) : e.rel = Absent
      <4>1. Local(x) /\ x.open = "closed" /\ x.attrs # {}
        BY <3>3, <3>4, QuitLeaves
      <4> QED BY <4>1, DestructionPossible
    <3> QED BY <3>3, <3>5
  <2> QED BY <2>3, <2>4, <2>5
<1> QED BY <1>1, Invariance, PTL
=============================================================================
