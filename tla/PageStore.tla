------------------------------ MODULE PageStore ------------------------------
(***************************************************************************)
(* What the buffer manager promises its clients: a store of pages.  There  *)
(* is no pool, no frame and no disk here; a page that is in use has one    *)
(* content, which changes when a client writes it and when a call that the *)
(* client can see changes it, and never otherwise.                         *)
(***************************************************************************)
EXTENDS Integers

CONSTANTS Page,     \* the pages, of all files
          Content,  \* what a page can hold
          MaxPins

VARIABLES inUse,    \* the pages that are allocated
          content,  \* content[p], for p in inUse
          pins,     \* pins[p]: how often p is pinned
          answer    \* the status of the last call

storeVars == <<inUse, content, pins, answer>>

Refusals == {"UNIXERR", "BADPAGENO", "BUFFEREXCEEDED", "HASHNOTFOUND",
             "PAGENOTPINNED", "PAGEPINNED", "HASHTBLERROR"}

StoreInit ==
  /\ inUse = {}
  /\ content \in [Page -> Content]
  /\ pins = [p \in Page |-> 0]
  /\ answer = "OK"

\* The pages in use other than those of S keep their content.
KeepsAllBut(S) == \A p \in inUse \ S : content'[p] = content[p]

Stays == KeepsAllBut({}) /\ UNCHANGED inUse

\* A call that fails leaves every page in use, and every pin, as it was.
Fail ==
  /\ answer' \in Refusals
  /\ Stays /\ UNCHANGED pins

Pin(p) ==
  /\ pins[p] < MaxPins
  /\ pins' = [pins EXCEPT ![p] = @ + 1]
  /\ Stays /\ answer' = "OK"

Unpin(p) ==
  /\ pins[p] > 0
  /\ pins' = [pins EXCEPT ![p] = @ - 1]
  /\ Stays /\ answer' = "OK"

\* A client writes a page it has pinned.
Write(p) ==
  /\ p \in inUse
  /\ pins[p] > 0
  /\ KeepsAllBut({p})
  /\ UNCHANGED <<inUse, pins, answer>>

\* A page nobody uses or has pinned, with any content.
Allocate(p) ==
  /\ p \notin inUse
  /\ pins[p] = 0
  /\ inUse' = inUse \cup {p}
  /\ pins' = [pins EXCEPT ![p] = 1]
  /\ KeepsAllBut({}) /\ answer' = "OK"

\* A page that is not pinned; when this fails, the page stays in use and its
\* content may be lost.
Dispose(p) ==
  /\ p \in inUse
  /\ pins[p] = 0
  /\ \/ inUse' = inUse \ {p} /\ answer' = "OK"
     \/ UNCHANGED inUse /\ answer' \in {"UNIXERR", "BADPAGENO"}
  /\ KeepsAllBut({p})
  /\ UNCHANGED pins

Flush ==
  /\ Stays /\ UNCHANGED pins
  /\ answer' = "OK"

\* The program ends and starts again; the pages are as they were unless
\* a write failed on the way out.
NewRun ==
  /\ \A p \in Page : pins[p] = 0
  /\ UNCHANGED <<inUse, pins>>
  /\ \/ answer' = "OK" /\ KeepsAllBut({})
     \/ answer' = "UNIXERR"

StoreNext ==
  \/ Fail \/ Flush \/ NewRun
  \/ \E p \in Page : Pin(p) \/ Unpin(p) \/ Write(p) \/ Allocate(p) \/ Dispose(p)

StoreSpec == StoreInit /\ [][StoreNext]_storeVars
=============================================================================
