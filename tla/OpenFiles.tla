----------------------------- MODULE OpenFiles ------------------------------
(***************************************************************************)
(* Creating, opening, closing and destroying database files (class DB, the *)
(* table of open files, and the open counts of class File, db.C), with the *)
(* buffer pool that outlives them.  A file that is open has one File       *)
(* object, whatever the number of its openings; the last close flushes its *)
(* pages, and the object is deleted.  The pool knows a file by the address *)
(* of its object only, and the next object may get the same address.       *)
(*                                                                         *)
(* One page stands for the pages of a file, and flushFile for what the     *)
(* module BufMgr says of it.  Clients close what they have opened, once    *)
(* they have unpinned its page, and do not open a file more than MaxOpen   *)
(* times.                                                                  *)
(***************************************************************************)
EXTENDS Integers

CONSTANTS Names,    \* the names of files
          Handles,  \* the addresses a File object can have
          MaxOpen

ASSUME MaxOpenAssumption == MaxOpen \in Nat \ {0}

\* No object, no entry of the table, no page in the pool.
Nil == [nil |-> TRUE]

ASSUME HandlesAssumption == Nil \notin Handles

VARIABLES
  disk,       \* disk[n]: "absent", "file", or "headless" if create failed
  object,     \* object[h]: the File object at h, with fileName and openCnt
  openFiles,  \* openFiles[n]: the object of n in the table of open files
  opened,     \* opened[h]: how often clients have h open
  cached,     \* cached[h]: the page of the pool that is known as a page of h
  lost,       \* history: a flush at the end of a file has failed
  status

vars == <<disk, object, openFiles, opened, cached, lost, status>>

Init ==
  /\ disk = [n \in Names |-> "absent"]
  /\ object = [h \in Handles |-> Nil]
  /\ openFiles = [n \in Names |-> Nil]
  /\ opened = [h \in Handles |-> 0]
  /\ cached = [h \in Handles |-> Nil]
  /\ lost = FALSE
  /\ status = "OK"

IsOpen(n) == openFiles[n] # Nil

-----------------------------------------------------------------------------
\* DB::createFile.  The header is written after the file is there.
CreateFile(n) ==
  /\ \/ /\ IsOpen(n) \/ disk[n] # "absent"
        /\ status' = "FILEEXISTS"
        /\ UNCHANGED disk
     \/ /\ ~IsOpen(n)
        /\ status' = "UNIXERR"
        /\ \/ UNCHANGED disk
           \/ /\ disk[n] = "absent"
              /\ \E d \in {"headless", "file"} : disk' = [disk EXCEPT ![n] = d]
     \/ /\ ~IsOpen(n) /\ disk[n] = "absent"
        /\ disk' = [disk EXCEPT ![n] = "file"]
        /\ status' = "OK"
  /\ UNCHANGED <<object, openFiles, opened, cached, lost>>

\* DB::destroyFile
DestroyFile(n) ==
  /\ \/ IsOpen(n) /\ status' = "FILEOPEN" /\ UNCHANGED disk
     \/ ~IsOpen(n) /\ status' = "UNIXERR" /\ UNCHANGED disk
     \/ /\ ~IsOpen(n) /\ disk[n] # "absent"
        /\ disk' = [disk EXCEPT ![n] = "absent"]
        /\ status' = "OK"
  /\ UNCHANGED <<object, openFiles, opened, cached, lost>>

-----------------------------------------------------------------------------
\* DB::openFile of a file that is open: the object counts one more.
OpenAgain(n) ==
  LET h == openFiles[n] IN
  /\ IsOpen(n)
  /\ opened[h] < MaxOpen
  /\ object' = [object EXCEPT ![h].openCnt = @ + 1]
  /\ opened' = [opened EXCEPT ![h] = @ + 1]
  /\ status' = "OK"
  /\ UNCHANGED <<disk, openFiles, cached, lost>>

\* Broken: the table is not told.
OpenUnlisted(n, h) ==
  /\ ~IsOpen(n) /\ disk[n] # "absent"
  /\ object[h] = Nil
  /\ object' = [object EXCEPT ![h] = [fileName |-> n, openCnt |-> 1]]
  /\ opened' = [opened EXCEPT ![h] = 1]
  /\ status' = "OK"
  /\ UNCHANGED <<disk, openFiles, cached, lost>>

\* ... of one that is not: a new object, at an address nobody has.
OpenFirst(n, h) ==
  /\ ~IsOpen(n) /\ disk[n] # "absent"
  /\ object[h] = Nil
  /\ object' = [object EXCEPT ![h] = [fileName |-> n, openCnt |-> 1]]
  /\ openFiles' = [openFiles EXCEPT ![n] = h]
  /\ opened' = [opened EXCEPT ![h] = 1]
  /\ status' = "OK"
  /\ UNCHANGED <<disk, cached, lost>>

\* The Unix file is absent or cannot be opened; the new object is deleted.
OpenFails(n) ==
  /\ ~IsOpen(n)
  /\ status' = "UNIXERR"
  /\ UNCHANGED <<disk, object, openFiles, opened, cached, lost>>

-----------------------------------------------------------------------------
\* flushFile of h, with its pages unpinned: the page is written if it must be
\* and leaves the pool, or the write fails and it stays.
Flush(h) ==
  \/ cached' = [cached EXCEPT ![h] = Nil] /\ UNCHANGED lost
  \/ cached[h] # Nil /\ cached[h].dirty /\ lost' = TRUE /\ UNCHANGED cached

\* Broken: the file is closed without a flush.
NoFlush(h) == UNCHANGED <<cached, lost>>

\* The last step of File::close, which ignores the status of the flush.
FlushAtEnd(h) == Flush(h)

\* Broken: the object goes at the first close.
LastAlways(h) == TRUE

LastClose(h) == object[h].openCnt = 1

(***************************************************************************)
(* DB::closeFile.  What File::close returns is ignored, so the object is   *)
(* deleted when its count is zero, its pages being out of the pool or not. *)
(***************************************************************************)
CloseFile(h) ==
  /\ opened[h] > 0
  /\ opened[h] = 1 /\ cached[h] # Nil => ~cached[h].pinned
  /\ opened' = [opened EXCEPT ![h] = @ - 1]
  /\ IF LastClose(h)
       THEN /\ FlushAtEnd(h)
            /\ openFiles' = [openFiles EXCEPT ![object[h].fileName] = Nil]
            /\ object' = [object EXCEPT ![h] = Nil]
       ELSE /\ object' = [object EXCEPT ![h].openCnt = @ - 1]
            /\ UNCHANGED <<openFiles, cached, lost>>
  /\ status' = "OK"
  /\ UNCHANGED disk

-----------------------------------------------------------------------------
\* A client pins the page of a file it has open: the page the pool knows under
\* that address, or the one read from the file of the object.  (pinned says
\* that somebody has pinned it; the counts are BufMgr's.)
ReadPage(h) ==
  /\ opened[h] > 0
  /\ disk[object[h].fileName] = "file"
  /\ cached' = [cached EXCEPT ![h] =
                  IF @ = Nil THEN [of |-> object[h].fileName, pinned |-> TRUE,
                                   dirty |-> FALSE]
                             ELSE [@ EXCEPT !.pinned = TRUE]]
  /\ UNCHANGED <<disk, object, openFiles, opened, lost, status>>

UnPinPage(h, d) ==
  /\ cached[h] # Nil
  /\ cached[h].pinned
  /\ cached' = [cached EXCEPT ![h].pinned = FALSE, ![h].dirty = @ \/ d]
  /\ UNCHANGED <<disk, object, openFiles, opened, lost, status>>

\* The frame is needed for another page.  (What a write back through an object
\* that was deleted would do is not modelled.)
Evict(h) ==
  /\ cached[h] # Nil
  /\ ~cached[h].pinned
  /\ cached' = [cached EXCEPT ![h] = Nil]
  /\ UNCHANGED <<disk, object, openFiles, opened, lost, status>>

\* The program ends, with the files it has closed or left open, and starts
\* again.
Restart ==
  /\ object' = [h \in Handles |-> Nil]
  /\ openFiles' = [n \in Names |-> Nil]
  /\ opened' = [h \in Handles |-> 0]
  /\ cached' = [h \in Handles |-> Nil]
  /\ lost' = FALSE
  /\ status' = "OK"
  /\ UNCHANGED disk

Next ==
  \/ \E n \in Names : \/ CreateFile(n) \/ DestroyFile(n)
                      \/ OpenAgain(n) \/ OpenFails(n)
                      \/ \E h \in Handles : OpenFirst(n, h)
  \/ \E h \in Handles : \/ CloseFile(h) \/ ReadPage(h) \/ Evict(h)
                        \/ \E d \in BOOLEAN : UnPinPage(h, d)
  \/ Restart

Spec == Init /\ [][Next]_vars

-----------------------------------------------------------------------------
Objects == [fileName : Names, openCnt : 1..MaxOpen]
CachedPages == [of : Names, pinned : BOOLEAN, dirty : BOOLEAN]

TypeOK ==
  /\ disk \in [Names -> {"absent", "headless", "file"}]
  /\ object \in [Handles -> Objects \cup {Nil}]
  /\ openFiles \in [Names -> Handles \cup {Nil}]
  /\ opened \in [Handles -> 0..MaxOpen]
  /\ cached \in [Handles -> CachedPages \cup {Nil}]
  /\ lost \in BOOLEAN
  /\ status \in {"OK", "UNIXERR", "FILEEXISTS", "FILEOPEN"}

\* A file has at most one object, which the table leads to under its name, and
\* the table leads to no object that was deleted.
OneObjectPerFile ==
  \A n \in Names, h \in Handles :
    openFiles[n] = h <=> object[h] # Nil /\ object[h].fileName = n

\* An object counts its clients, and lives until the last has closed it.
OpenCountsKept ==
  \A h \in Handles :
    opened[h] = IF object[h] = Nil THEN 0 ELSE object[h].openCnt

\* A file that is open is never destroyed under its clients.
OpenFilesExist == \A n \in Names : IsOpen(n) => disk[n] # "absent"

\* The page the pool has under the address of an object is a page of its file.
ReadsItsFile ==
  \A h \in Handles :
    object[h] # Nil /\ cached[h] # Nil => cached[h].of = object[h].fileName

\* As long as no flush has failed in a close, that is so, and no page of the
\* pool belongs to an object that was deleted.
ReadsItsFileUnlessLost ==
  ~lost => /\ ReadsItsFile
           /\ \A h \in Handles : object[h] = Nil => cached[h] = Nil
=============================================================================
