# Minirel: specifications, model checking and proofs

The repository is a collection of course work. Its one real system is
**Minirel**, a small single-user relational database (`src/CS564`), built in
stages: P4 is the buffer manager over a file layer, P5 the heap file manager on
top of both, P6 the catalogs and the query operators on top of those. This
directory specifies Minirel in TLA+, from the pages of a file to the commands of
its shell, checks it with TLC and proves its main invariants with TLAPS. `Leetcode/` (unconnected exercises) and
`Stat436/` (R notebooks and data) have no state to specify.

Paths below are relative to
`src/CS564/P4 Minirel Buffer Manager/Finish/part3/` (P4),
`src/CS564/P5 Minirel Heapfile Manager/564-part4/Stage4/` (P5) and
`src/CS564/P6 Minirel Query Operator/part6_finish/part6/` (P6).

## 1. Inventory

| Component | State it keeps | Operations | What must hold |
|---|---|---|---|
| `File` (P4 `db.C`) | header page (`nextFree`, `firstPage`, `numPages`), user pages, the free list threaded through the disposed pages, `openCnt` | `create`, `allocatePage`, `disposePage`, `readPage`, `writePage`, `getFirstPage`, `open`, `close` | the header describes the file; the free list is a list, reaches no page in use and loses none, also when the second of two writes fails |
| `DB`, `OpenFileHashTbl` (`db.C`) | the open files, by name | `createFile`, `openFile`, `closeFile`, `destroyFile` | one `File` per name, deleted only when nobody uses it, flushed before it is closed |
| `BufHashTbl` (`bufHash.C`) | bucket chains | `insert`, `lookup`, `remove` | a partial function from pages to frames |
| `BufMgr` (P4 `buf.C`) | frames, descriptors (`file`, `pageNo`, `pinCnt`, `dirty`, `valid`, `refbit`), `clockHand` | `readPage`, `unPinPage`, `allocPage`, `disposePage`, `flushFile`, `allocBuf` (private), destructor | no page in two frames, pinned pages stay put, no change of a page is lost, no failed call leaves a half-done one behind |
| `BufMgr` (P5, P6 `buf.C`) | the same | the same, with another `allocBuf` | the same |
| `Page` (`page.C`) | slot array, record area, free space | `insertRecord`, `deleteRecord`, `getRecord`, `firstRecord`, `nextRecord` | space accounting; records survive compaction |
| `HeapFile`, `HeapFileScan`, `InsertFileScan` (P5 and P6 `heapfile.C`, two different ones) | header page, chain of data pages, a current page and record, a mark | `createHeapFile`, `getRecord`, `startScan`, `scanNext`, `markScan`, `resetScan`, `deleteRecord`, `insertRecord` | every record on the chain and found by a scan; each pin given back once |
| Catalogs (P6 `catalog.C`, `create.C`, `destroy.C`) | `relcat`, `attrcat` | `createRel`, `destroyRel`, `addInfo`, `getInfo`, `removeInfo` | the two catalogs and the files agree |
| Query operators (P6 `select.C`, `insert.C`, `delete.C`, `join.C`) | scans, the result | `QU_*` | the answer is what was asked for, all of it and nothing else |
| `SortedFile`, `Partition` (P6 `sort.C`, `partition.C`) | the runs of a sort, the partitions of a file | the constructors, `next`, `setMark`, `gotoMark`, the destructors | not modelled: unused, and without effect in P6 (section 6) |
| Shell (P6 `parser/interp.C`, `load.C`, `print.C`, `quit.C`, `minirel.C`) | the catalogs it keeps open | the commands | a command that fails half way, a quit or a crash leaves relations in order, but for the pages of files that a command has left open |

How they interact: everything is a direct call in one thread. A query operator
opens heap file scans; a scan pins pages through the one `BufMgr`; the `BufMgr`
reads and writes them through `File`; `File::close` calls back into
`BufMgr::flushFile`. Callers share the buffer pool, its hash table and the
pages: two scans on one file, or a client that pins a page twice, meet there.

What is hard: the order in which calls of several clients meet in a pool that
is smaller than their needs; calls that do several I/Os, any of which may fail
after others were done; errors whose clean-up calls code that can fail or refuse
too; a free list stored inside the pages it lists; state that outlives a call
(reference bits, dirty bits, marks, open counts); commands of several steps that
undo nothing; catalogs that are on disk only after a proper end. `PROJECT.json` lists these
hazards with their lines.

## 2. Modules

| Module | What it is |
|---|---|
| `DBFile` | a database file, as operators: each `File` operation is the set of outcomes it may have from a file state |
| `PageAlloc` | one file used directly, with its clients |
| `Clock` | what `allocBuf` computes, as a relation |
| `ClockSweep` | the loop of `allocBuf`, one iteration a step |
| `BufMgr` | the buffer manager of P4 with its files and its clients; extends `DBFile` and `Clock` |
| `PageStore` | what `BufMgr` promises: a store of pages |
| `OpenFiles` | the table of open files, `File` objects and what the pool keeps of them |
| `Page` | a slotted page |
| `HeapFile` | a heap file of P6 with the scans, inserters and readers that are open on it |
| `HeapFileP5` | the heap file of P5, which differs in every operation |
| `BufMgrP6` | the buffer manager of P5 and P6; extends `BufMgr` |
| `Catalog` | the relations: `relcat`, `attrcat` and the files, under the commands of the shell |
| `Query` | selection, deletion and join, tuple by tuple |
| `MCPageAlloc`, `MCClockSweep`, `MCBufMgr`, `MCOpenFiles`, `MCPage`, `MCHeapFile`, `MCBufMgrP6`, `MCCatalog`, `MCQuery`, `MCHeapFileP5` | the instances that TLC checks |
| `DBFileProofs`, `FileAndClockProofs`, `BufMgrProofs`, `PageProofs`, `HeapFileProofs`, `HeapFileP5Proofs`, `CatalogProofs`, `QueryProofs` | the proofs: of `DBFile` and `PageAlloc`, of `OpenFiles` and `ClockSweep`, of `BufMgr` and `BufMgrP6`, and of the modules they are named after |

Operators marked *Broken* are small mistakes of the kind the code could have
had; they are used nowhere in the specifications. Each stands before the
definition it would replace, and with it in place one of the properties fails.

### `DBFile` and `PageAlloc` (P4 `db.C`)

A file is a record: the three header fields, the length of the Unix file in
pages, and the content of each user page. A content is client data or a page
that `File` wrote itself, of which only the first word (`nextFree`) matters.
`Allocations(s)` and `Disposals(s, p)` give every outcome, one per point at
which an I/O may fail: a failed write leaves the page as it was, and the writes
before it stay. When client data is read as a free-list page its first word is
taken to be 0. `PageAlloc` adds the clients: they allocate, write and dispose,
and may dispose again of a page whose first disposal failed.

### `Clock` and `ClockSweep` (P4 `buf.C:86-160`)

`Clock` states the result of the search: the first frame from the hand that is
invalid, or unpinned with a clear reference bit; failing that, the first
unpinned one; failing that, none. `ClockSweep` is the loop, with `clockHand`,
`foundUnpinButRef` and the early returns as in the code, from every pool and
every position of the hand. `BufMgr` uses the relation. So the loop is
stepped through in one place, and a call of the buffer manager stays one step.

### `BufMgr` (P4 `buf.C`) and `PageStore`

The variables are the fields of the descriptors (`tag[i]` is the pair
`file, pageNo` of frame `i`), the frames, the hash table as a function, the
files, and the clients: which pages they own (`live`), the pins they hold
(`held`), the pointers they were given (`ptr`) and the pages they have changed
and not yet unpinned as dirty (`changed`). The disjuncts of each call are
its return points: for `readPage`, `ReadPageHit`, `ReadPageExceeded`,
`ReadPageWriteFails` (the victim cannot be written), `ReadPageReadFails` (the
page cannot be read, the frame is already free) and `ReadPageMiss`. `FlushTo(f, n)`
is `flushFile` up to the frame where it stops. `Restart` is the destructor
followed by a new run.

What the code leaves to its callers is a guard of the client: it unpins only
what it pinned, changes only what it allocated and has pinned, says dirty when it
unpins a change (a page fresh from `allocPage` counts as changed, for its frame
holds the bytes of the page that was there before), and disposes of a page
nobody has pinned. A client may read any page of a file, a free one included,
because `readPage` does not refuse it; that is how `allocPage` can find the page
it was just given already in the pool.

`PageStore` has pages, pins and the last status, and no pool or disk. Its steps
say that a page in use changes only when a client writes it, and that a failed
call changes nothing a client can see. Two exceptions are in it because the
code has them: a disposal that fails may lose the content of the page, and so
may a destructor whose writes fail.

### `OpenFiles` (P4 `db.C:10-235`, `db.C:449-567`)

Every open file has one `File` object, at an address (`Handles`); the table leads
from names to objects, an object counts its openings, and the last close flushes
the pages, deletes the object and frees the address for the next `new File`. The
pool knows pages by address: `cached[h]` is the page it has under address `h`,
with the file it was read from. One page stands for all pages of a file, and
`Flush` for `flushFile` as `BufMgr` specifies it. `CloseFile` is `closeFile` with
`File::close` inside; both drop the status of what they call. `lost` records
that a flush in a close has failed. A Unix file whose header could not be
written stays behind as `headless`.

### `Page` (P4 `page.C`, the same in P5 and P6)

Bytes, slots, `slotCnt`, `freePtr` and `freeSpace` are those of the code, except
that slots are numbered upwards. `DeleteRecord` moves bytes and offsets and gives
slots back in one step, as `deleteRecord` does. `held` is the history: what a
client inserted under each RID. Records of no bytes are included: they can be
inserted, and then neither read nor deleted (`page.C:115`, `page.C:245` ask for
a length above zero).

### `HeapFile` (P6 `heapfile.C`)

The variables are the header page (`hdr`), the data pages with their slots and
free space (`file`), one object a client (`obj`: the fields `curPage`,
`curPageNo`, `curRec`, `curDirtyFlag`, `hdrDirtyFlag`, the mark, and in `told`
what its last call answered) and the pins of each page. A page is as `Page`
specifies it, without bytes; the pool is as `PageStore` promises: a page has one
content, a pinned page can be read, any other read may fail. `unPinPage` fails
when the page has no pin, and the code's answer to that is in `EndScan`,
`ResetUnPinFails`, `ScanUnPinFails`, `GetUnPinFails` and `InsertUnPinFails`.

`scanNext` is one step a page (`ScanBegins`, `ScanGoesOn`, then `ScanFinds`,
`ScanEnds` or `ScanTurns`, with their failures), and `running` keeps everybody
else out until it has returned, as the one thread does. All other calls are one
step. The scan's loop over the records of a page is the set `Ahead`: with
`firstRecord` the code starts at the first record of a page it has just read,
with `nextRecord` behind `curRec`.

`due[c]` is the history a scan is judged by: the matching records that were in
the file when it began and that it has not found, less those deleted since; at a
mark it is kept in `dueMark` and restored by `resetScan`.

Guards stand for what the callers in P6 do: one `InsertFileScan` to a file at a
time; `startScan` right after the constructor; marks set on a page; records deleted
or changed only when `scanNext` has just given them; a scan that has failed is
closed. `told = "early"` is apart: a scan that `endScan` has taken off its page
and that is used again begins anew, and takes a first page without records for
the end of the file. No caller does that.

Some behaviour is undefined: the constructor goes on with a header page it could
not read; `curPage` keeps its old value, or memory that was never initialized,
when a read fails; a page whose pin is gone is taken from under an object.
`GoesAstray` says when the program enters such behaviour, and the specification
ends there.

### `HeapFileP5` (P5 `heapfile.C`)

The same classes as in `HeapFile`, written before the course handed out its own
version. What it does differently is why it has a module of its own. At the end of the file
`scanNext` unpins the page and keeps it as `curPage` (`ScanEnds`), so that it can
be called again, at the price of another unpin. A `scanNext` that could not read a page is
taken up again at that page (`ScanReads`). After `endScan` the scan is on page 0
(`curPageNo`), which can never be read, so that `scanNext` fails from then on. `getRecord`
of a record that is not there unpins the page and keeps it (`GetThere`, `GetHere`). An
`InsertFileScan` begins on the first page, not the last, and links a new page
behind whatever page it is on (`InsertNewPage`). All records have one length, so
that a page is which of its slots are in use.

`given` is the history of who has not let go of its page, and `odd` of what
the code has no remedy for: an object has unpinned a page a second time and so
taken the pin of another (`robbed`), a page has been linked anew that was not
the last (`relinked`), a page was unpinned with the flag it had before its link
changed (`unsaid`), a deletion was refused (`refused`). Each property
says by its premise which of these it survives. `MaxOdd` bounds how many kinds
a behaviour has.

### `BufMgrP6` (P6 `buf.C`)

Stages P5 and P6 come with another implementation of the same class. The data
structures and most calls are those of P4, and their actions are reused (`AsInP4`);
`allocBuf`, `readPage`, `allocPage` and a refused `unPinPage` have actions of
their own. The hand moves before it looks. `allocBuf` takes the page out of the
hash table before it writes it, and a call that fails afterwards leaves the
frame valid and without an entry (`FrameLeft`); `allocPage` does not give the
page back to the file, and when the insert is refused its frame stays pinned.

`faulty` is the history of that: a frame has been left so. It is never reset, because such
a frame may be written much later, over what the file has in the page by then.
Without the premise `~faulty` the properties of `BufMgr` do not hold here: the
page of such a frame can be read again from disk, in an older version, into
a second frame, although `readPage` (`buf.C:136`) means to find what is in the pool.

### `Catalog` (P6 `catalog.C`, `create.C`, `destroy.C`, `parser/interp.C` and the commands)

`rel[n]` is all there is of a name: its entry in `relcat` (`schema`), those in
`attrcat`, the file, the tuples in it (`rows`), those that its pages on disk may
have (`stored`), and whether a command has left it open (`open`). A command is a sequence of
changes, any call in it can fail, and nothing is undone; so a command is given by its
*outcomes*: the relation it leaves and what it says. `Creations`,
`Destructions`, `Insertions`, `Deletions`, `Loads`, `Prints` and `Selections` are
those sets, one element per point at which the code can stop, and a query puts
them together as `interp` does: make the result or compare it with what is there
(`Results`), run (`Selections`), then print and destroy the temporary result
(`Endings`).

Which changes reach the disk depends on who knows of them. An object that
goes unpins its pages with its dirty flags, so that their frames are marked; if it was the last
to have the file open, they are written at once (`Told`). If a command has left
the file open, they are `dirty` and wait for the quit. The object of a load that failed never
goes: what it changed is known to its own flags only, and the file is `untold`
(`Untold`). `UT_Quit` deletes the `BufMgr`, whose destructor writes the frames that
are marked (`AfterQuit`): of an untold file any tuples may be lost, and the
file may be `torn`, when a link leads to a page that was not written or the
header has another last page than the chain. In a torn file an insertion begins
at the page that the header calls the last, and a new page takes the place of
those behind it (`Extended`). `Survivors` is what a crash may leave: of a file with
unsaved pages the tuples that were evicted before, and a file that may be torn,
or half made if `createHeapFile` had not come to its flush (`new`).

Both catalogs are open, and their first page pinned, from the start of the
program to `UT_Quit`. So `saved`, what the catalogs on disk say, changes in
`Restart` only, and a crash (`Crashes`) goes back to it, while the files
are what the writes so far made them. A join whose read or insertion fails ends
the program by `ASSERT`, which is such a crash with the result open and untold
(`JoinExits`); other crashes come between commands. `undefined` is set
when a heap file object is made of a file that is missing or half made: the
destructor then runs on members nobody has set. The specification ends there.

`promise` and `kept` are what the user was told: that a relation is there
(`usable`) or not (`gone`). A promise becomes `cut` when a quit or a crash comes
over pages that would be lost: the relation is then still described, its file is a heap file and
what is in it was written under its description, but the file may be torn.
`CreatedStaysInOrder` and `DestroyedIsGone` compare the first with the relations.
`SurvivesCrash` compares the second with everything that a crash may leave. So
both say that a quit or a crash takes pages of no relation but of those that a command has left open.
`NamesCanBeFreed` asks of each state that the user
can get rid of what is there. It has an exception, `Stuck`: a relation
that lost its attributes but not its entry in `relcat` can neither be created nor destroyed.

### `Query` (P6 `select.C`, `delete.C`, `join.C`, `matchRec` of `heapfile.C`)

One command runs over files in any state. A file is the sequence of its slots in
the order of a scan, and `IsNext` is what `scanNext` gives, which `HeapFile`
specifies and `ScanFindsAll` is about. Each iteration of a loop is a step. Values are
integers of a small width and `matchRec` compares them by the sign of their
difference, which wraps around (the code's overflow is undefined; this is what
its builds do). `cut` records that a loop has taken a failed read for the end of
the file, which select and join do and delete does not. A selection may name
its own relation as its result (`own`); it then inserts behind, or before, its
own scan. `PutInto` allows any free slot and the end, where the code uses free
slots of the last page only.

## 3. Runs

| Run | Instance | What it shows |
|---|---|---|
| `pool` | 2 frames, 3 files of 1 page, 2 pins a page | hash table and descriptors agree, pins are kept, clean frames equal the disk, and a `flushFile` that answers OK has written its file and left none of it in the pool |
| `store` | 1 frame, 1 file of up to 3 pages, 2 pins, 2 data | `BufMgr` implements `PageStore`; the free list stays sound |
| `clock_sweep` | 4 frames, all initial pools | the loop computes `Clock`'s relation and returns |
| `page_alloc` | 1 file of up to 5 pages | header and free list sound, no page handed out twice, none lost |
| `page` | 6 bytes, slots of 1 byte, 2 byte values | records survive any sequence of insertions and deletions, no space leaks, an emptied page is whole, deletions mislead no scan |
| `open_files` | 2 files, 2 addresses, 2 openings each | one object to a file, counts right, clients read their own file unless a flush has failed |
| `heap_file` | 2 data pages of 2 records, a scan and a client of every kind that marks its scans; a record too long for a page | the chain stays whole, a scan misses nothing, every object has its pins, every change is unpinned as dirty by somebody, `recCnt` is right unless a deletion was refused |
| `catalog` | one relation and the temporary result, schemas of one and of two attributes | catalogs and files agree, what was created stays in order and what was destroyed is gone whatever fails, a quit or a crash loses pages only of files that a command has left open, a crash keeps what the last quit wrote, and a name that is not stuck can be made free |
| `query` | files of up to 3 slots, integers of 3 bits, all operators | the answer of a command is what it was asked for, all of it when it says OK, and it returns |
| `pool_p6` | 2 frames, 3 files of 1 page, 1 pin a page | the buffer manager of P5 and P6: entries lead to frames of their page; until a call has left a frame without entry it keeps the invariants of `BufMgr` and implements `PageStore` |
| `heap_p5` | 3 data pages of one record, a client that inserts and scans and one that scans with marks and reads by RID | the heap file of P5: scans find everything until a page is relinked, pins are right until one is taken, every change is told until a page is unpinned before its link is told |
| `quit` | the same | a violation: a quit does not write all that was changed (`QuitFlushesAll`), see below |

**Bounds.** `NumBufs` frames, `MaxPage` pages a file can have (the disk is then
full, which is an outcome of its own), `MaxPins` pins on a page at a time, `Data`
what a client can write. `pool` has one more page than frames, so that all pins,
evictions and refusals meet; its files have one page each and no free list. In
`store` a file has a first page, a free one and a third, and with one frame every
change of page is an eviction. The proofs cover what neither has, a large pool
over a long free list. Five pages let the
free list grow to four and be reused in any order. Four frames give the clock
each pattern of the three kinds of frames (takable, referenced, pinned)
before and behind the hand. Six bytes hold up to six slots and the records that
a hole, a reused slot and a record of no bytes need at the same time. Two
addresses let two files be open together, be closed, and be opened at each
other's address. Data values and files are symmetric: nothing in the code
looks into data or orders files.

In `heap_file` a data area of 4 bytes with slots of 1 holds two short records,
so that a slot can be in front of, under or behind the record of a scan, be freed
and used again, and a record of 4 bytes is the one `insertRecord` accepts
(`heapfile.C`, the check against `PAGESIZE - DPFIXED`) and no page can hold.
Two data pages let a scan turn to a page, and an inserter leave one, while
another object is on either. A third page makes one in the middle, which the
link behind a marked page is about: `heap_p5` has it, and the proofs of
`ChainSound` and `ScanFindsAll` have any number of pages, clients and
lengths, and records that the filter rejects, which the run has not. `Uses` and `Markers` say which kinds of
object a client opens and whether it marks (in the program any object may do
what the code allows; two clients of every kind would be too many states). Two
more bounds are guards: once a failed read has left some `curPage` stale, only
destructors follow (`stray`), and one deletion may be refused (`refused`),
because each takes one off `recCnt` and nothing else bounds it.

In `heap_p5` three pages are needed for an insertion to find a first page that is full and
not the last. `MaxOdd = 1` lets each of the four odd things happen
alone, before and after everything else, which is what the premises of the properties tell apart.

In `catalog` one relation that the user names and one that queries name meet in
every query, as source and as result; two schemas let a name be created anew under
another one, and the second has two attributes so that a creation can stop
between them. `Commanded` keeps the user from creating the temporary result by
hand. `Bounds` is a constraint: TLC does not go on from a state in which both relations
are half made, half gone, left open or torn (`MaxAmiss`), or in which a file has tuples of
two descriptions (`MaxKinds`); it does check such a state. What one
relation in disorder can do, alone and to a query with one in order, is so covered, with
files that have tuples of another description than the present one; the proofs have no bound. In `query` three slots hold a tuple before, at and after a free slot, in
every combination for both sides of a join; `MaxSlots` ends the growth of a
selection into itself. Of the values -4, -1 and 2 in three bits, one
difference overflows. In `pool_p6` one pin a page is enough, because a second
pin is the same code as in `pool`; each access to a third file is an eviction.

Type invariants are proved for every module and not run again.
`AtMostTwoTurns`, `DirtyIsLive` and `OpenFilesExist` are proved and not run either.

**Fairness.** `ClockSweep` and `Query` have weak fairness of `Next`: each is a
loop of the one thread, which nothing blocks. The other modules describe what
calls do when they are made; nothing obliges a client to call.

**Deadlock** is checked except in `clock_sweep` and `query`, whose loops return,
in `heap_file` and `catalog`, whose specifications end where the behaviour of
the program is undefined, and in `heap_p5`, which its bound on odd things can end.

### Behaviour to know of

*A page of another file.* `File::close` (`db.C:223-224`) and `DB::closeFile`
(`db.C:554`) ignore failures. If the last close of a file cannot write a page,
the page stays in the pool under the address of an object that is deleted. The
next file that is opened may get that address, and `readPage` finds the page
of the old file in the hash table. `db.C:557` deletes the object because there
are "no remaining references"; the frames have some. `ReadsItsFile` of `OpenFiles`
is false for this reason; `ReadsItsFileUnlessLost` is what remains true.

*The heap file of P5.* The page of a scan at its end is unpinned at every further
`scanNext` (`heapfile.C:484`), so the pin of another scan on that page goes,
although `heapfile.C:509` says that the page of a record found "is left pinned";
`testfile.C:403` reads past the end. The constructor of an `InsertFileScan` stays on the first page; if that
is full and the file has more, the new page is linked behind it (`heapfile.C:698`) and
the others can no longer be reached, although `heapfile.C:628` promises that a
new page is "linked to the file's page structure". The old page is unpinned with the
flag it had before the link was set (`heapfile.C:705`), so the link may never be
written. `pageCnt` stays what it was. `odd` stands for the first three in the premises.

*A failed load, and a quit.* This is the violation that the run `quit` finds.
`UT_Load` returns without deleting its `InsertFileScan` when an insertion fails
(`load.C:69`). What the object changed, the header and the page it is on, is in its
`hdrDirtyFlag` and `curDirtyFlag`, and the frames are not marked. `UT_Quit` deletes
the `BufMgr` "to flush out all dirty pages" (`quit.C:30`), whose destructor means to "flush out
all unwritten pages" (`buf.C:46`) and writes the marked ones (`buf.C:50`). If the load
had added a page, the page before it was unpinned as dirty (`heapfile.C:559`): its link
is written, and the page it leads to is not. After the next start a scan
follows the link to a page of zeros, whose own link leads to page 0, and the header has the old `lastPage`.
No I/O need fail for this: a tuple
that fits into `PAGESIZE - DPFIXED` without its slot is refused by the new page
as well (`heapfile.C:576`), and the load fails. `QuitFlushesAll` says what the comments say; the other
properties of `Catalog` say what remains true.

More of the kind, which the models contain:

*The first page of a failed `allocPage`.* `File::allocatePage` makes the new page
of an empty file its first page. When no frame can be had, `allocPage`
(`buf.C:298-301`) calls `file->disposePage`, which refuses first pages
(`db.C:308`), and drops the answer. The caller has a failed call, and the file a
page nobody knows. The comment at `buf.C:274-275` promises the clean-up.

*A refused disposal.* `BufMgr::disposePage` (`buf.C:323-336`) clears the frame and
the hash entry first and then asks the file. If the page is the first one the
answer is `BADPAGENO`, and what was dirty in the frame is gone: the page stays
in use with an older content.

*A record too long.* `InsertFileScan::insertRecord` refuses records longer than
`PAGESIZE - DPFIXED`, for which it "will never fit on a page, so don't even
bother looking". `Page::insertRecord` asks for room for the slot too. A record
that fits without its slot and not with it passes the check, is refused by the
current page and by the new one, and an empty page stays at the end of the file,
one more for each try.

*Reads taken for the end.* Select and join answer OK when a read of their loop fails,
with part of the answer. `AllOfIt` has the premise `~cut` for this.

*A selection into its own relation* reads what it writes and may not end; `Grows` is
excluded from the properties of `Query` it would break.

*A stuck name.* A creation that fails after the entry in `relcat`, or a
destruction that fails before that entry goes, leaves it without attributes. `createRel`
then says that the relation exists and `destroyRel` that it does not.

*Files left open.* `createHeapFile` opens a file that exists before it refuses
it; `UT_Load` and `UT_Print` return without closing when a call fails. The file cannot be
destroyed before the next start. If that happens to the temporary result,
its entries are gone and its file stays, so the next query without a result
fails when it makes it, and leaves entries again.

## 4. Proofs

Everything below holds for every `NumBufs`, `MaxPage`, `MaxPins`, set of files
and set of data that satisfy the named assumptions: the bounds are positive,
no file is called `"NULL"`, and client data are not free-list pages.

`DBFileProofs` has the lemmas about a file: each outcome of `allocatePage`,
`disposePage` and `writePage` keeps `FileSound`. `FileSound` asks for *some* set
of pages in which the links stay (`FreeListIs`), with no two pages linked to the
same one and none to the head. This says that the list is acyclic without a
recursive definition, and it is inductive: unlinking the head takes it out of
the set, and linking a page adds one.

Of `PageAlloc` follow `AllocTypesAlways`, `SoundAlways` and `AllocatesUnused`, and
`NoPageEverLost`. `NoPageLost` speaks of the pages the list leads to, which by
an induction along the links would be out of the prover's reach. `Chain`
gives them as the pages of *every* set that has the head and, with a page, the one it is
linked to; so a step is proved by going back: `HeldBefore` takes such a set of the
file after the step and gives one of the file before.

In `FileAndClockProofs`, the invariant of the loop (`Inv`) relates the reference bits to the number of
frames passed. In the first turn, the frames passed are pinned, or have lost
the reference bit they had at the call; in the second, every frame is in that
state, and the loop has found at least one of the latter, before which it cannot
go past the second time. `VictimIsRight`, `ExceededIsRight`, together
`LoopComputesClock`, and `TwoTurns` follow.

`BufMgrProofs`: the inductive invariant is

    IInv == TypeOK /\ PoolOK /\ FilesSound /\ CleanIsOnDisk

where `PoolOK` is `HashMatchesFrames`, `PinsKept` and `DirtyIsLive` with two
facts the runs do not ask for: an invalid frame is cleared (no tag, no pin, not
dirty), and a changed page is pinned. The first is why `flushFile` and `allocBuf`
never act on a dead frame and gives `NeverBadBuffer` (`flushFile` never answers `BADBUFFER`), which no run asks for; the second is what
makes an eviction, which takes unpinned frames only, safe for `CleanIsOnDisk`.
There is one lemma per disjunct of `Next`, and under it one step per conjunct.
`Invariance` is the invariant; `TypesAlways`, `HashAlways`, `PinsAlways`,
`CleanAlways`, `DirtyAlways`, `FilesAlways`, `NeverBadBufferAlways` follow, and
`FlushedIsDurable` is the action property. `ImplementsStore` is the refinement:
every disjunct of `Next` maps to an action of `PageStore`. It turns on where the
content of a page in use is: `ContentAfterFree` (a freed frame's page is on disk
as the frame had it, being dirty and written, or clean and the same) and
`ContentFlushed` (the same of `flushFile` and the destructor).

For `BufMgrP6` the inductive invariant is

    IInvP6 == Leads /\ (~faulty => IInv)

`Leads` (`EntriesLead` with its types) holds in every state, also in those where a
frame has lost its entry, because all that happens to the hash table there is that
entries go. While no call has gone wrong in that way, the state is one of P4: the actions taken
over keep `IInv` by the lemmas of `BufMgr`, and those of P6 have their own.
`EntriesAlwaysLead`, `SoundUntilFaultyAlways` and `StoreUntilFaultyHolds` follow;
the last says that every step up to the first faulty one is a step of `PageStore`.

`PageProofs`: the invariant adds to what the run checks that records end before
`freePtr` (`Inside`), that no two share a byte, a record of no bytes lying
between two others (`Apart`), and that the last slot is in use (`LastInUse`).
`Apart` is why comparing offsets in `deleteRecord` moves exactly the records
behind the hole; `LastInUse` is why an emptied page is whole. That the records
leave no hole (the second half of `SpaceAccounted`) needs no sum over the slots,
which would be an induction: every byte below `freePtr` is in some record.

For `OpenFiles`, in `FileAndClockProofs`, what the run checks is inductive as it stands.

`HeapFileProofs`: the inductive invariant is

    IInv == TypeOK /\ ChainSound /\ HeaderPinned /\ OneInserter /\ GoodRunning
              /\ \A c : GoodObject(c) /\ GoodScan(c)

`GoodObject` says that objects are on pages of the file and an `InsertFileScan` on
the last, which is why linking behind its page keeps the chain. `GoodScan` says that
what a scan has yet to find lies behind its record, on its page or further on,
except on a page it has just turned to, and that what it had yet to find at its
mark lies behind the mark. Pages are numbered in the order of the chain (nobody
disposes of a page of a heap file), so that "further on" is a comparison and
needs no induction along the links: `NextPageIsNext` shows that a page on which
nothing is left can be turned over, because no page lies between it and the
next. `HeaderPinned` is the part of `PinsKept` that keeps the types true: the last
destructor has a pin to give back. Assumed: finitely many clients, a positive
slot size, and records of at least one byte.

`PinsAlwaysKept` and `ChangesAlwaysSaved` need each other:
`Booked == PinsKept /\ ChangesSaved /\ NoneStale` is inductive beside `IInv`. That the
pins are kept is why nobody fails to unpin the page he is on (`UnPinsHisPage`), so
that an object that leaves a page takes exactly its own pin along; the failing
branches of `unPinPage` in `scanNext`, `resetScan`, `getRecord` and `insertRecord`
are shown to be out of reach until a pointer is stale. Each object books its own
pin and dirty bits (`StepKeepsBooked`), and its calls either stay on the page
(`StayKeepsBooked`), leave it, or go to another (`MoveKeepsBooked`).
`CountAlwaysKept` adds `Counted`, which says that there are finitely many records: a
call changes the live slots of one page by one (`OneRidMore`, `OneRidLess`).

`CatalogProofs`: the inductive invariant is

    IInv == TypeOK /\ (\A n : Local(rel[n])) /\ CatalogsAgree /\ CreatedStaysInOrder
              /\ DestroyedIsGone /\ SurvivesCrash /\ DiskKnows

`Local` says what a command leaves of a relation by itself, wherever it stops: no
attributes without an entry in `relcat`, no tuples without a file, a missing file
not open, and all tuples on disk of a file that is closed. `DiskKnows` says
that a relation that is promised and kept is described on disk as it is in
memory, which is why inserting into it does not harm what a crash leaves. That *every*
survivor is in order comes down to three facts on the relation itself (`Outlives`):
the entries on disk describe it, all tuples that its pages on disk may have were written
under that description, and its file is whole, or the promise is cut. `KeptOutlives` shows that a
command which keeps the promise keeps them: tuples are added under the
description that the disk knows, and a file that gets pages to lose
turns the promise into a cut one in the same step (`Cut`). There is one lemma
per set of outcomes (`CreationsMake`, `DestructionsLeave`, `LoadsTame`, ...), one
for a command that comes to an outcome (`DoKeeps`), and one step per action.
`NamesAlwaysCanBeFreed` is proved by giving the commands: destroy; or
create, whose failure leaves the entries with which destroy works. Assumed: a
schema has at least one attribute, and there is a schema.

`HeapFileP5Proofs`: the inductive invariant is

    IInv == TypeOK /\ ChainSound /\ InOrder /\ HeaderPinned
              /\ (\A c : GoodObject(c))
              /\ ("relinked" \notin odd => \A c : GoodScan(c))

An object may be on a page it has let go of, and then it need not have a pin;
`GoodObject` says for whom the page is sure, and `given` who has not let go. `InOrder`,
that the pages follow in the order of their numbers, is what linking a page behind
one that is not the last destroys, and with it all that is said of what a scan has
yet to find. `ScansAlwaysFindAll` follows. For pins and changes the second layer is

    Booked == PinsKept /\ ChangesSaved

The objects that count for a page are its `Holders`; a step of one client changes
them by that client (`HoldersChange`), so that of each call it is enough to know what it does to
the pins and the bookkeeping of its own object (`StepKeepsPins`, `StepKeepsChanges`).
`PinsAlwaysKept` and `ChangesAlwaysSaved` follow. Assumed: finitely many
clients, none of which is `Nil`, positive sizes, and any `MaxOdd`: the theorems
hold however much of what is odd comes together.

`QueryProofs`: the inductive invariant is

    QueryInv == TypeOK /\ Untouched /\ InLoop /\ Answered

`Untouched` says that the relations are as given, but for what a deletion has
taken; `InLoop` relates the place in the loops to the command and its answer.
`Answered` is the loop invariant: what is in the answer was asked for, lies before
the scans (`Reached`) and was given in ascending order, so that nothing is given twice; and what
was asked for and is covered by the scans is in the answer, unless something has
failed. `NothingElseEver`, `AllOfItAlways` and `DeletesWhatItSays` follow, for
relations of any size and an int of any width. `HoldsIsCompare` is the lemma that
comparing by the sign of a difference is right as long as the difference fits
(`InRange`). Assumed: keys are ints, an int lies between `-Half` and `Half - 1`,
and the first slots fit into the bound on slots.

Only model-checked: `Returns` of `ClockSweep` and of `Query`, which is liveness. The invariants
and action properties that the passing runs check, and the two refinements (of `PageStore`, by `BufMgr` and, until its first faulty call, by `BufMgrP6`), are all proved.

## 5. Abstractions

- A call is one step. The program has one thread, and no call hands control to
  a client in the middle.
- `bufStats`, `printSelf`, debugging output and the sizing of the hash table are
  left out.
- The hash table is a function; an insert of a present key is refused, as in
  `BufHashTbl::insert`.
- `HeapFile` trusts the pool to keep the promise of `PageStore` and `Page` to give
  the records back; the bytes of records and the matching of a filter are one bit
  a record (`hit`), the same for all scans.
- `HeapFile` begins with what `createHeapFile` leaves behind; how that and
  `destroyHeapFile` fail is in `Catalog`.
- In `HeapFileP5` all records have one length, and a page has room for
  `PageRecords` of them and one slot more, so that slots never run out before space.
- In `Catalog` each catalog is one page, a file that exists can be opened, the
  writes of `UT_Quit` and of a last close do not fail, a query asks for all attributes of its source, and
  no command names a catalog. The relations are independent but for queries.
  Only the nested loops join runs, the default of `minirel.C:30`. Which page a tuple is on
  is left out: of an untold or torn file any of the tuples may be lost.
- `RelCatalog::removeInfo` calls `endScan` on the scan it has just deleted
  (`catalog.C:88-89`), which is undefined. The destructor has set `curPage` to
  null, so that in the builds at hand `endScan` finds nothing to unpin; the model has it do nothing.
- In `Query` the one attribute compared is an integer, and `QU_Delete` compares with
  the type of its literal as select does with that of the attribute.
- In `BufMgr` files stay open; `OpenFiles` has their opening and closing. What a
  write back through a deleted `File` object would do is not modelled.
- A process that is killed is modelled in `Catalog`, where the code's habit of keeping the catalogs
  open makes it matter. Below it the code has no recovery, and a file is then
  whatever the writes so far made it.

## 6. Not modelled

- `sort.C` and `partition.C`. `QU_SM_Join` and `QU_Hash_Join`, which they and `joinHT.C`
  were written for, are stubs that answer OK, so that no command uses them. And they
  cannot work with the heap file of P6. `generateRun` creates and destroys its file, to see
  whether it exists, and opens it with an `InsertFileScan`, which "will also create
  the temporary file" (`sort.C:241`); the constructor in `heapfile.C:472` only opens
  (`db.C:199`). So every sort of a file with a record in it fails at `sort.C:243`, and every
  partitioning, which opens its files in the same way, at `partition.C:58`. A
  model of the merge and its marks would be one of code that is never reached.
- The bucket chains of `BufHashTbl`, used here as the function they implement.
- The parser, error texts, `help` and the layout of what is printed: no state.
- `dbdestroy.C` removes a directory by calling the system.
- The test drivers were read for what callers do; the P4 skeleton is the
  assignment's starting point. `Leetcode/` and `Stat436/` are not part of Minirel.

What could be added: a model of the bucket chains of
`BufHashTbl` as an implementation of the function used here.
