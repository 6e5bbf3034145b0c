------------------------------ MODULE PageAlloc ------------------------------
(***************************************************************************)
(* One database file (class File, db.C) used directly: pages are           *)
(* allocated, written, disposed of, and disposed of again when the first   *)
(* attempt failed, with any write of the Unix file failing.  The free list *)
(* lives in the disposed pages themselves, linked by their first word, so  *)
(* a page that is handed out or written while the list still reaches it    *)
(* breaks the list.                                                        *)
(***************************************************************************)
EXTENDS DBFile

VARIABLES theFile,
          owned,    \* the pages handed out and not disposed of
          result    \* what the last call returned

allocVars == <<theFile, owned, result>>

AllocInit ==
  /\ theFile = Created
  /\ owned = {}
  /\ result = "OK"

AllocatePage ==
  \E a \in Allocations(theFile) :
    /\ theFile' = a.file
    /\ owned' = IF a.status = "OK" THEN owned \cup {a.pageNo} ELSE owned
    /\ result' = a.status

ReturnPage(p) ==
  /\ p \in owned
  /\ \E d \in Disposals(theFile, p) :
       /\ theFile' = d.file
       /\ owned' = IF d.status = "OK" THEN owned \ {p} ELSE owned
       /\ result' = d.status

WritePage(p, c) ==
  /\ p \in owned
  /\ \/ theFile' = Written(theFile, p, c) /\ result' = "OK"
     \/ theFile' = theFile /\ result' = "UNIXERR"
  /\ UNCHANGED owned

AllocNext ==
  \/ AllocatePage
  \/ \E p \in Pages : ReturnPage(p) \/ \E c \in Data : WritePage(p, c)

AllocSpec == AllocInit /\ [][AllocNext]_allocVars

-----------------------------------------------------------------------------
AllocTypeOK ==
  /\ theFile \in FileStates
  /\ owned \in SUBSET Pages
  /\ result \in {"OK", "UNIXERR", "BADPAGENO"}

\* The header describes the file and the free list is a list that reaches no
\* page in use, whatever write failed in whatever call.
Sound == FileSound(theFile, owned)

\* A page that is handed out was not in use.
HandsOutUnused == [][AllocatePage /\ result' = "OK" => owned' # owned]_allocVars

\* S has the head of the free list, and the pages that its pages link to.
HoldsList(s, S) ==
  /\ s.nextFree \in Pages => s.nextFree \in S
  /\ \A p \in S : LinkIn(s.page[p]) \in Pages => LinkIn(s.page[p]) \in S

\* The pages the free list leads to are those of every such set.
Chain ==
  {p \in Pages : \A S \in SUBSET Pages : HoldsList(theFile, S) => p \in S}

\* No page is lost, whatever fails between the two writes of a call: a page
\* the file counts is in use or the free list leads to it.
NoPageLost ==
  \A p \in Pages : p < theFile.numPages => p \in owned \cup Chain
=============================================================================
