------------------------------- MODULE DBFile -------------------------------
(***************************************************************************)
(* A database file of the DB layer (class File, db.C): a header page that  *)
(* holds the head of the free list, the first user page and the page       *)
(* count, and the user pages.  The module has no variables: each operation *)
(* is the set of outcomes it can have from a file state, so that the       *)
(* components above can make it part of their own steps.                   *)
(*                                                                         *)
(* Any read or write of the Unix file may fail.  A failed write leaves the *)
(* page as it was; the writes an operation did before it stay.  A file     *)
(* grows to at most MaxPage user pages (the disk is then full).            *)
(***************************************************************************)
EXTENDS Integers

CONSTANTS MaxPage,  \* the number of user pages the disk has room for
          Data      \* what a client can write into a page

Pages == 1..MaxPage
NoPage == -1        \* the -1 that ends the free list, and "no first page"

ASSUME MaxPageAssumption == MaxPage \in Nat \ {0}

(***************************************************************************)
(* The content of a page is client data, or a page File itself wrote: all  *)
(* zero but for the DBPage field nextFree, the first word of the page.     *)
(***************************************************************************)
DBPage(n) == [nextFree |-> n]
DBPages == [nextFree : Int]
ZeroPage == DBPage(0)
Contents == Data \cup DBPages

ASSUME DataAssumption == Data \cap DBPages = {}

\* The first word of a page read as a link; in client data it is an
\* arbitrary word, and 0 stands for it.
LinkIn(c) == IF c \in Data THEN 0 ELSE c.nextFree

(***************************************************************************)
(* A file: the three fields of the header page, the number of pages the    *)
(* Unix file holds (header included) and the content of its user pages.    *)
(***************************************************************************)
FileStates == [nextFree : Int, firstPage : Int, numPages : Nat,
               size : Nat, page : [Pages -> Contents]]

Created == [nextFree |-> NoPage, firstPage |-> NoPage, numPages |-> 1,
            size |-> 1, page |-> [p \in Pages |-> ZeroPage]]

\* Page p can be read: the Unix file is long enough.
Readable(s, p) == p \in Pages /\ p < s.size

\* The file after a write of c to page p, which extends it when p is its end.
Written(s, p, c) ==
  [s EXCEPT !.page[p] = c, !.size = IF @ > p THEN @ ELSE p + 1]

(***************************************************************************)
(* File::allocatePage.  With a free list, its head is unlinked by one      *)
(* write of the header; otherwise the file is extended by two writes, the  *)
(* new page and then the header, and the second can fail alone.            *)
(***************************************************************************)
AllocateFails(s) == [status |-> "UNIXERR", pageNo |-> NoPage, file |-> s]

\* Broken: the header is written as it was.
ReuseKeepsHead(s) == [status |-> "OK", pageNo |-> s.nextFree, file |-> s]

Reuse(s) ==
  [status |-> "OK", pageNo |-> s.nextFree,
   file |-> [s EXCEPT !.nextFree = LinkIn(s.page[s.nextFree])]]

\* Broken: the page count is not increased.
ExtendUncounted(s) ==
  [status |-> "OK", pageNo |-> s.numPages,
   file |-> [Written(s, s.numPages, ZeroPage) EXCEPT
               !.firstPage = IF @ = NoPage THEN s.numPages ELSE @]]

Extend(s) ==
  [status |-> "OK", pageNo |-> s.numPages,
   file |-> [Written(s, s.numPages, ZeroPage) EXCEPT
               !.numPages = s.numPages + 1,
               !.firstPage = IF @ = NoPage THEN s.numPages ELSE @]]

Allocations(s) ==
  {AllocateFails(s)} \cup
  IF s.nextFree # NoPage
    THEN IF Readable(s, s.nextFree) THEN {Reuse(s)} ELSE {}
    ELSE IF s.numPages \in Pages
           THEN {AllocateFails(Written(s, s.numPages, ZeroPage)), Extend(s)}
           ELSE {}

(***************************************************************************)
(* File::disposePage.  The first user page and a page past the end are     *)
(* refused; any other becomes the head of the free list by two writes, the *)
(* page and then the header.                                               *)
(***************************************************************************)
\* Broken: the first page is accepted.
RefusedButFirst(s, p) == p < 1 \/ p >= s.numPages

Refused(s, p) == p < 1 \/ s.firstPage = p \/ p >= s.numPages

\* Broken: the page does not get the old head of the list.
AwayAlone(s, p) == Written(s, p, DBPage(NoPage))

Away(s, p) == Written(s, p, DBPage(s.nextFree))

Disposals(s, p) ==
  {[status |-> "UNIXERR", file |-> s]} \cup
  IF Refused(s, p)
    THEN {[status |-> "BADPAGENO", file |-> s]}
    ELSE {[status |-> "UNIXERR", file |-> Away(s, p)],
          [status |-> "OK", file |-> [Away(s, p) EXCEPT !.nextFree = p]]}

(***************************************************************************)
(* What keeps the free list a list.  There is a set S of pages such that   *)
(* the head and every link of S lead into S or end the list, no two pages  *)
(* of S have the same successor and none has the head as its successor, so *)
(* that unlinking the head leaves a list again; and S has neither the      *)
(* first page, which cannot be disposed of, nor a page past the end.       *)
(***************************************************************************)
FreeListIs(s, S) ==
  /\ S \subseteq {p \in Pages : p < s.numPages /\ p # s.firstPage}
  /\ s.nextFree \in S \cup {NoPage}
  /\ \A p \in S : /\ s.page[p] \in DBPages
                  /\ s.page[p].nextFree \in (S \ {s.nextFree}) \cup {NoPage}
  /\ \A p, q \in S : s.page[p].nextFree = s.page[q].nextFree
                     => p = q \/ s.page[p].nextFree = NoPage

\* The header describes the file: it counts the pages that exist, and the
\* first page is page 1 as soon as there is one.
HeaderSound(s) ==
  /\ 1 <= s.numPages /\ s.numPages <= s.size
  /\ s.size <= s.numPages + 1 /\ s.size <= MaxPage + 1
  /\ s.firstPage = IF s.numPages = 1 THEN NoPage ELSE 1

\* A file whose pages `live` are in use: they lie inside the file and off the
\* free list.
FileSound(s, live) ==
  /\ HeaderSound(s)
  /\ \A p \in live : p \in Pages /\ p < s.numPages
  /\ \E S \in SUBSET Pages : FreeListIs(s, S) /\ S \cap live = {}
=============================================================================
