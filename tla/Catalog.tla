------------------------------ MODULE Catalog -------------------------------
(***************************************************************************)
(* Relations: what relcat and attrcat say of a name, and the heap file of  *)
(* that name, under the commands of the shell (catalog.C, create.C,        *)
(* destroy.C, insert.C, delete.C, load.C, print.C, quit.C, createHeapFile  *)
(* and destroyHeapFile of heapfile.C, and interp of parser/interp.C, which *)
(* puts the queries together, of P6).                                      *)
(*                                                                         *)
(* A command is a sequence of changes to the two catalogs and to the file, *)
(* and any call in it can fail: nothing that was done before is undone.    *)
(* An outcome of a command is the relation it leaves and what it says; the *)
(* outcomes of its parts are put together in the order of the code.        *)
(*                                                                         *)
(* Both catalogs stay open, with their first page pinned, until UT_Quit:   *)
(* what they say reaches the disk then, and a crash loses it.  The pages   *)
(* of a relation's file reach it when the file is closed for the last      *)
(* time.  The pages of a file that a command has left open reach it at     *)
(* UT_Quit, but only those whose frames are marked dirty: the header and   *)
(* the last page that a failed load has changed are marked by nobody.      *)
(* A catalog is one page here; a write of UT_Quit or of the last close     *)
(* does not fail; and a file that exists can be opened.                    *)
(*                                                                         *)
(* A tuple is known by the description it was written under.  Queries ask  *)
(* for all attributes, and no command names a catalog.                     *)
(***************************************************************************)
EXTENDS Integers

CONSTANTS Names,
          Tmp,       \* "Tmp_Minirel_Result"
          Commanded, \* those that the user creates and puts tuples into (bound)
          Schemas,   \* lists of attributes that do not match each other,
          Width      \* and how many attributes each has

ASSUME ConstantsAssumption ==
  /\ Tmp \in Names /\ Commanded \subseteq Names
  /\ Width \in [Schemas -> Nat \ {0}]

None == [none |-> TRUE]   \* relcat has no entry
ASSUME SchemasAssumption == Schemas # {} /\ None \notin Schemas

Attrs(s) == 1..Width[s]

VARIABLES
  rel,        \* rel[n]: the relation n.  Its entry in relcat (schema), those in
              \* attrcat, the file, the tuples in it, and those that its pages on
              \* disk may have (stored); and whether a command has left the file
              \* open, with pages as on disk (clean), changed and marked (dirty),
              \* or changed by a loader that has told nobody (untold)
  saved,      \* saved[n]: what the catalogs on disk say of n
  undefined,  \* the program has followed a pointer that leads astray
  promise,    \* history: what the user has been told of n, and ...
  kept        \* ... what of that a crash must not change

vars == <<rel, saved, undefined, promise, kept>>

\* A file is half made; new, its pages not written yet; whole; or torn, when the
\* links between its pages and its header do not belong together.
Absent == [schema |-> None, attrs |-> {}, file |-> "none", rows |-> {},
           stored |-> {}, open |-> "closed"]

Catalogued(r) == [schema |-> r.schema, attrs |-> r.attrs]

Described(r) == r.schema # None /\ r.attrs = Attrs(r.schema)

Init ==
  /\ rel = [n \in Names |-> Absent]
  /\ saved = [n \in Names |-> Catalogued(Absent)]
  /\ undefined = FALSE
  /\ promise = [n \in Names |-> "gone"]
  /\ kept = [n \in Names |-> "gone"]

OK(r) == [rel |-> r, says |-> "OK"]
Failed(r) == [rel |-> r, says |-> "failed"]
Astray(r) == [rel |-> r, says |-> "astray"]

LeftOpen(r) == [r EXCEPT !.open = IF @ = "closed" THEN "clean" ELSE @]

\* There are pages that the disk does not have.
Unsaved(r) == r.open \in {"dirty", "untold"}

\* The file of r has been changed by an object that marks the header and the last
\* page when it goes, and writes them if nobody else has the file open ...
Told(r) ==
  IF r.open = "closed" THEN [r EXCEPT !.stored = r.rows]
  ELSE [r EXCEPT !.open = "dirty", !.stored = @ \cup r.rows]

\* ... or by one that stays.
Untold(r) == [r EXCEPT !.open = "untold", !.stored = @ \cup r.rows]

-----------------------------------------------------------------------------
\* Broken: the file that exists will do.
AdoptsFile(r) ==
  IF r.file # "none" THEN {OK(LeftOpen(r))}
  ELSE {Failed(r), OK([r EXCEPT !.file = "whole"])}

\* createHeapFile.  A file that exists is opened before it is refused; a new
\* one is left half made, or open and unwritten, by whichever call fails.
HeapFileCreations(r) ==
  IF r.file # "none" THEN {Failed(LeftOpen(r))}
  ELSE {Failed(r), Failed([r EXCEPT !.file = "half"]),
        Failed(LeftOpen([r EXCEPT !.file = "half"])),
        Failed([r EXCEPT !.file = "new", !.open = "dirty"]),
        OK([r EXCEPT !.file = "whole"])}

\* The entry in relcat and the first k attributes.
Entered(r, s, k) == [r EXCEPT !.schema = s, !.attrs = @ \cup 1..k]

\* RelCatalog::createRel: the entry in relcat, the attributes one by one, the
\* file.
Creations(r, s) ==
  IF r.schema # None THEN {Failed(r)}
  ELSE {Failed(r)}
         \cup {Failed(Entered(r, s, k)) : k \in 0..(Width[s] - 1)}
         \cup HeapFileCreations(Entered(r, s, Width[s]))

\* DB::destroyFile, of a file that is not open.
FileDestructions(r) ==
  IF r.file = "none" \/ r.open # "closed" THEN {Failed(r)}
  ELSE {Failed(r), OK([r EXCEPT !.file = "none", !.rows = {}, !.stored = {}])}

\* Broken: the entry in relcat goes first.
RelcatFirst(r) ==
  IF r.attrs = {} THEN {Failed(r)}
  ELSE {Failed(r)}
         \cup {Failed([r EXCEPT !.schema = None, !.attrs = {a \in @ : a > k}]) :
                 k \in 0..Width[r.schema]}
         \cup FileDestructions([r EXCEPT !.schema = None, !.attrs = {}])

\* Broken: the file goes first.
FileFirst(r) ==
  IF r.attrs = {} \/ r.file = "none" \/ r.open # "closed" THEN {Failed(r)}
  ELSE {Failed(r), OK(Absent),
        Failed([r EXCEPT !.file = "none", !.rows = {}, !.stored = {}])}

\* Broken: nobody looks at what destroyHeapFile says.
IgnoresFile(r) ==
  IF r.attrs = {} THEN {Failed(r)}
  ELSE {Failed(r)}
         \cup {OK(o.rel) :
                o \in FileDestructions([r EXCEPT !.schema = None, !.attrs = {}])}

\* The entries in attrcat of the attributes up to k are gone.
Dropped(r, k) == [r EXCEPT !.attrs = {a \in @ : a > k}]

\* RelCatalog::destroyRel: the attributes one by one, as getRelInfo finds them,
\* the entry in relcat, the file.
Destructions(r) ==
  IF r.attrs = {} THEN {Failed(r)}
  ELSE {Failed(r)}
         \cup {Failed(Dropped(r, k)) : k \in r.attrs}
         \cup (IF r.schema = None THEN {}
               ELSE FileDestructions([r EXCEPT !.schema = None, !.attrs = {}]))

-----------------------------------------------------------------------------
\* A tuple written under the description of r, and the file with one more.
Row(r) == Catalogued(r)
WithRow(r) == [r EXCEPT !.rows = @ \cup {Row(r)}]

\* Opened as a heap file, a file that is not there or half made leads astray.
Readable(r) == r.file \in {"new", "whole", "torn"}

\* Where an insertion begins.  In a torn file the page that the header calls the
\* last may have pages behind it; a new page takes their place.
Extended(r) ==
  IF r.file # "torn" THEN {r}
  ELSE {[r EXCEPT !.rows = R] : R \in SUBSET r.rows}
         \cup {[r EXCEPT !.file = "whole", !.rows = R] : R \in SUBSET r.rows}

\* InsertFileScan::insertRecord: it may add a page and then refuse the tuple.
Inserted(r) == Extended(r) \cup {WithRow(q) : q \in Extended(r)}

\* The attributes begin with the first: the tuple has room for each.
Prefix(r) == \A a \in r.attrs : 1..a \subseteq r.attrs

\* QU_Insert: with another number of attributes, or when the insertion fails,
\* it does nothing and says OK.
Insertions(r) ==
  IF r.attrs = {} THEN {Failed(r)}
  ELSE {Failed(r), OK(r)}
         \cup (IF Readable(r) /\ Prefix(r) THEN {OK(Told(i)) : i \in Inserted(r)}
               ELSE {Astray(r)})

\* The pages with the tuples that have gone are marked; the last page of a loader
\* need not be among them.
Without(r, gone) ==
  LET q == [r EXCEPT !.rows = @ \ gone]
  IN  IF r.open = "untold" THEN q ELSE Told(q)

\* QU_Delete does not ask the catalogs, unless it has a qualification.
Deletions(r) ==
  IF ~Readable(r) THEN {Astray(r)}
  ELSE {OK(r), Failed(r)} \cup {OK(Without(r, R)) : R \in SUBSET r.rows}
         \cup {Failed(Without(r, R)) : R \in SUBSET r.rows}

\* UT_Load: a failed insertion leaves the file open, with what was changed.
Loads(r) ==
  {Failed(r)}
    \cup (IF r.schema = None \/ r.attrs = {} THEN {}
          ELSE IF ~Readable(r) THEN {Astray(r)}
          ELSE {OK(r), Failed(LeftOpen(r))}
                 \cup {OK(Told(i)) : i \in Inserted(r)}
                 \cup {Failed(Told(i)) : i \in Inserted(r)}
                 \cup {Failed(Untold(i)) : i \in Inserted(r)})

\* UT_Print: a failed read leaves the file open.
Prints(r) ==
  {Failed(r)}
    \cup (IF r.schema = None \/ r.attrs = {} \/ r.file = "none" THEN {}
          ELSE IF ~Readable(r) THEN {Astray(r)}
          ELSE {OK(r), Failed(LeftOpen(r))})

-----------------------------------------------------------------------------
(***************************************************************************)
(* N_QUERY.  A query that names no result makes Tmp, which must not exist, *)
(* and prints and destroys it; one that names a result makes it, or adds   *)
(* to it if its attributes match.                                          *)
(***************************************************************************)
Makes(n, into) == ~into \/ rel[n].attrs = {}

Results(n, m, into) ==
  IF ~into /\ rel[n].schema # None THEN {Failed(rel[n])}
  ELSE IF ~Described(rel[m]) THEN {Failed(rel[n])}
  ELSE IF Makes(n, into) THEN Creations(rel[n], rel[m].schema)
  ELSE {Failed(rel[n])}
         \cup (IF Catalogued(rel[n]) = Catalogued(rel[m]) THEN {OK(rel[n])}
                                                         ELSE {})

\* QU_Select and QU_Join of a source q.
Selections(r, q) ==
  IF ~Readable(r) \/ ~Readable(q) THEN {Astray(r)}
  ELSE {Failed(r), OK(r)}
         \cup (IF q.rows = {} THEN {}
               ELSE {OK(Told(i)) : i \in Inserted(r)}
                      \cup {Failed(Told(i)) : i \in Inserted(r)})

\* What is done with the result.
Endings(n, o) ==
  IF n # Tmp \/ o.says = "astray" THEN {o}
  ELSE UNION {Destructions(p.rel) : p \in Prints(o.rel)}

-----------------------------------------------------------------------------
\* What is promised of a relation whose file has lost pages: it is there.
Cut(p) == IF p = "usable" THEN "cut" ELSE p

Promised(p) == p \in {"usable", "cut"}

\* A promise is kept over a crash until the file comes or goes, or something is
\* put into a file that is not in order; and cut while there are pages that the
\* crash would lose.
StillKept(n, r) ==
  IF /\ (r.file = "none") = (rel[n].file = "none")
     /\ r.rows \subseteq rel[n].rows \/ Promised(promise[n])
  THEN IF Unsaved(r) THEN Cut(kept[n]) ELSE kept[n]
  ELSE "none"

\* A command on n comes to the outcome o, and the user may now think p.
Do(n, o, p) ==
  /\ rel' = [rel EXCEPT ![n] = o.rel]
  /\ undefined' = (o.says = "astray")
  /\ promise' = [promise EXCEPT ![n] = p]
  /\ kept' = [kept EXCEPT ![n] = StillKept(n, o.rel)]
  /\ UNCHANGED saved

\* A failed creation may leave something; it does not harm what is there.
AfterFailure(n) == IF promise[n] = "gone" THEN "none" ELSE promise[n]

Create(n) ==
  \E s \in Schemas : \E o \in Creations(rel[n], s) :
    Do(n, o, IF o.says = "OK" THEN "usable" ELSE AfterFailure(n))

Destroy(n) ==
  \E o \in Destructions(rel[n]) :
    Do(n, o, IF o.says = "OK" THEN "gone"
             ELSE IF Promised(promise[n]) THEN "none" ELSE promise[n])

Insert(n) == \E o \in Insertions(rel[n]) : Do(n, o, promise[n])
Delete(n) == \E o \in Deletions(rel[n]) : Do(n, o, promise[n])
Load(n) == \E o \in Loads(rel[n]) : Do(n, o, promise[n])
PrintRel(n) == \E o \in Prints(rel[n]) : Do(n, o, promise[n])

QueryRefused(n, m, into) ==
  \E o \in Results(n, m, into) :
    /\ o.says # "OK"
    /\ Do(n, o, AfterFailure(n))

Source(m, n, r) == IF m = n THEN r ELSE rel[m]

QueryRuns(n, m, into) ==
  \E o \in Results(n, m, into) :
    /\ o.says = "OK"
    /\ \E s \in Selections(o.rel, Source(m, n, o.rel)) :
         \E e \in Endings(n, s) :
           Do(n, e, IF n = Tmp THEN IF e.says = "OK" THEN "gone" ELSE "none"
                    ELSE IF Makes(n, into) THEN "usable" ELSE promise[n])

-----------------------------------------------------------------------------
\* Broken: attrcat is not closed.
OnlyRelcat == [n \in Names |-> [schema |-> rel[n].schema,
                                attrs |-> saved[n].attrs]]

\* What UT_Quit writes of the catalogs.
Written == [n \in Names |-> Catalogued(rel[n])]

\* A relation that is closed, with entries c, a file of F and tuples of S.
Remains(c, F, S) ==
  {v \in [schema : {c.schema}, attrs : {c.attrs}, file : F, rows : S, stored : S,
          open : {"closed"}] : v.stored = v.rows}

\* The functions that give each name one of the relations S gives it.
Choices(S) ==
  {f \in [Names -> UNION {S[n] : n \in Names}] : \A n \in Names : f[n] \in S[n]}

Settled(file) == IF file = "new" THEN "whole" ELSE file

\* UT_Quit writes the frames that are marked.  Where a failed load has left the
\* file open, the link to a new page is written, and the page itself, or the
\* header that knows of it, need not be.
AfterQuit(r) ==
  IF r.open = "untold"
  THEN Remains(Catalogued(r), {Settled(r.file), "torn"}, SUBSET r.rows)
  ELSE Remains(Catalogued(r), {Settled(r.file)}, {r.rows})

\* UT_Quit, and the next start.
Restart ==
  /\ rel' \in Choices([n \in Names |-> AfterQuit(rel[n])])
  /\ saved' = Written
  /\ promise' = [n \in Names |-> IF rel[n].open = "untold" THEN Cut(promise[n])
                                ELSE promise[n]]
  /\ kept' = promise'
  /\ UNCHANGED undefined

\* What a crash may leave of a relation r whose entries on disk are c: where
\* pages are unsaved, those that were evicted before, and not the others.
Survivors(r, c) ==
  IF Unsaved(r)
  THEN Remains(c, {Settled(r.file), "torn"}
                    \cup (IF r.file = "new" THEN {"half"} ELSE {}),
               SUBSET r.stored)
  ELSE Remains(c, {r.file}, {r.rows})

\* The program ends with the relations at r and the promises p to keep, and is
\* started again.
Crashes(r, p) ==
  /\ rel' \in Choices([n \in Names |-> Survivors(r[n], saved[n])])
  /\ promise' = p
  /\ kept' = p
  /\ UNCHANGED <<saved, undefined>>

Crash == Crashes(rel, kept)

\* A join exits when a read or an insertion fails, with its result open.
Interrupted(r, q) ==
  {LeftOpen(r)}
    \cup (IF q.rows = {} THEN {} ELSE {Untold(i) : i \in Inserted(r)})

JoinExits(n, m, into) ==
  \E o \in Results(n, m, into) :
    LET q == Source(m, n, o.rel)
    IN  /\ o.says = "OK" /\ Readable(o.rel) /\ Readable(q)
        /\ \E r \in Interrupted(o.rel, q) :
             Crashes([rel EXCEPT ![n] = r],
                     [kept EXCEPT ![n] = StillKept(n, r)])

Query(n, m, into) ==
  /\ into \/ n = Tmp
  /\ QueryRefused(n, m, into) \/ QueryRuns(n, m, into) \/ JoinExits(n, m, into)

Next ==
  /\ ~undefined
  /\ \/ \E n \in Commanded : Create(n) \/ Insert(n) \/ Delete(n) \/ Load(n)
     \/ \E n \in Names : Destroy(n) \/ PrintRel(n)
     \/ \E n, m \in Names, into \in BOOLEAN : Query(n, m, into)
     \/ Restart
     \/ Crash

Spec == Init /\ [][Next]_vars

-----------------------------------------------------------------------------
Descriptions == [schema : Schemas \cup {None}, attrs : SUBSET (Nat \ {0})]

Relations ==
  [schema : Schemas \cup {None}, attrs : SUBSET (Nat \ {0}),
   file : {"none", "half", "new", "whole", "torn"},
   rows : SUBSET Descriptions, stored : SUBSET Descriptions,
   open : {"closed", "clean", "dirty", "untold"}]

Promises == {"usable", "cut", "gone", "none"}

TypeOK ==
  /\ rel \in [Names -> Relations]
  /\ saved \in [Names -> Descriptions]
  /\ undefined \in BOOLEAN
  /\ promise \in [Names -> Promises]
  /\ kept \in [Names -> Promises]

\* attrcat describes no relation that relcat does not know, in memory and on
\* disk, wherever a command has stopped.
CatalogsAgree ==
  \A n \in Names : /\ rel[n].attrs # {} => rel[n].schema # None
                   /\ saved[n].attrs # {} => saved[n].schema # None

\* r is described in full, its file is a heap file, whole unless the promise p is
\* cut, and each tuple in it was written under the description it has now.
InOrder(r, p) ==
  /\ Described(r)
  /\ r.file = "whole" \/ (p = "cut" /\ r.file = "torn")
  /\ \A t \in r.rows : t = Row(r)

\* What was created is in order until somebody tries to destroy it, whatever
\* fails: in particular no failed creation, and no query that ends half way,
\* leaves a file or entries that make it less; and a quit or a crash takes pages
\* from it only where a command has left it open with pages to lose.
CreatedStaysInOrder ==
  \A n \in Names : Promised(promise[n]) => InOrder(rel[n], promise[n])

\* What was destroyed has left nothing behind.
DestroyedIsGone ==
  \A n \in Names : promise[n] = "gone" => rel[n] = Absent

\* A relation that was there at the last quit, and whose file has not been
\* exchanged or written out of order since, is there after a crash, whatever the
\* crash leaves of it: even if an attempt to destroy it has taken its entries.
\* It is whole unless a command has left it open with pages that are unsaved.
SurvivesCrash ==
  \A n \in Names :
    Promised(kept[n]) => \A v \in Survivors(rel[n], saved[n]) : InOrder(v, kept[n])

\* relcat has an entry, attrcat none: create refuses the name and destroy does
\* not find it.
Stuck(r) == r.schema # None /\ r.attrs = {}

\* A name that is not stuck can be made free, once a quit has closed its file: by
\* destroying it; and if there is a file but no entry, by creating it first,
\* although that fails, and after another quit.
CanBeFreed(r) ==
  LET Frees(x) == \E o \in Destructions(x) : o.rel = Absent
  IN  \A q \in AfterQuit(r) :
        \/ q = Absent
        \/ Frees(q)
        \/ \E s \in Schemas : \E o \in Creations(q, s) :
             \A x \in AfterQuit(o.rel) : Frees(x)

NamesCanBeFreed == \A n \in Names : Stuck(rel[n]) \/ CanBeFreed(rel[n])

\* "delete bufMgr to flush out all dirty pages" (quit.C:30), "flush out all
\* unwritten pages" (buf.C:46): a quit leaves every file as the commands have
\* left it.  The pages that a failed load has changed are not marked, and it
\* does not.
QuitFlushesAll ==
  \A n \in Names : \A q \in AfterQuit(rel[n]) :
    q.file = Settled(rel[n].file) /\ q.rows = rel[n].rows
=============================================================================
