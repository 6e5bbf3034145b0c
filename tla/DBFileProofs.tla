---------------------------- MODULE DBFileProofs ----------------------------
(***************************************************************************)
(* What the operations of a database file preserve, for a disk and a file  *)
(* of any size: lemmas about the operators of DBFile, for the proofs about *)
(* the modules that use them.                                              *)
(***************************************************************************)
EXTENDS PageAlloc, TLAPS

\* A page File writes is a page, and not client data.
LEMMA DBPageType ==
  ASSUME NEW n \in Int
  PROVE  /\ DBPage(n) \in DBPages /\ DBPage(n) \in Contents
         /\ DBPage(n) \notin Data /\ DBPage(n).nextFree = n
BY DataAssumption DEF DBPage, DBPages, Contents

\* The first word of any page is a number.
LEMMA LinkType ==
  ASSUME NEW c \in Contents
  PROVE  LinkIn(c) \in Int /\ (c \in DBPages => LinkIn(c) = c.nextFree)
BY DataAssumption DEF LinkIn, Contents, DBPages

\* A write changes one page, and leaves the header alone.
LEMMA WrittenFields ==
  ASSUME NEW s \in FileStates, NEW p \in Pages, NEW c \in Contents
  PROVE  LET t == Written(s, p, c) IN
         /\ t \in FileStates
         /\ t.nextFree = s.nextFree /\ t.firstPage = s.firstPage
         /\ t.numPages = s.numPages
         /\ t.size = IF s.size > p THEN s.size ELSE p + 1
         /\ t.page = [s.page EXCEPT ![p] = c]
<1>1. p \in Nat /\ p + 1 \in Nat
  BY MaxPageAssumption DEF Pages
<1>2. [s.page EXCEPT ![p] = c] \in [Pages -> Contents]
  BY DEF FileStates
<1> QED
  BY <1>1, <1>2 DEF Written, FileStates

\* allocatePage hands out a page that is not in use, and the file is sound
\* with that page in use; when it fails, the file is sound as it was.
LEMMA AllocationSound ==
  ASSUME NEW s \in FileStates, NEW live, FileSound(s, live),
         NEW a \in Allocations(s)
  PROVE  /\ a.status \in {"OK", "UNIXERR"}
         /\ a.file \in FileStates
         /\ FileSound(a.file, live)
         /\ s.size <= a.file.size
         /\ \A p \in live : a.file.page[p] = s.page[p]
         /\ a.status = "OK" => /\ a.pageNo \in Pages \ live
                               /\ FileSound(a.file, live \cup {a.pageNo})
<1> DEFINE n == s.numPages
           t == Written(s, n, ZeroPage)
           head == s.nextFree
<1>0. /\ HeaderSound(s)
      /\ \A p \in live : p \in Pages /\ p < s.numPages
  BY DEF FileSound
<1>1. PICK S \in SUBSET Pages : FreeListIs(s, S) /\ S \cap live = {}
  BY DEF FileSound
<1>2. /\ head \in Int /\ s.firstPage \in Int /\ n \in Nat /\ s.size \in Nat
      /\ s.page \in [Pages -> Contents]
  BY DEF FileStates
<1>3. ZeroPage \in Contents
  BY DBPageType DEF ZeroPage
<1>4. CASE a = AllocateFails(s)
  <2>1. a.status = "UNIXERR" /\ a.file = s
    BY <1>4 DEF AllocateFails
  <2> QED  BY <2>1, <1>2
<1>5. CASE head # NoPage /\ Readable(s, head) /\ a = Reuse(s)
  <2> DEFINE next == LinkIn(s.page[head])
             u == [s EXCEPT !.nextFree = next]
  <2>1. a.status = "OK" /\ a.pageNo = head /\ a.file = u
    BY <1>5 DEF Reuse
  <2>2. head \in S /\ head \in Pages /\ head \notin live
    BY <1>1, <1>5 DEF FreeListIs
  <2>3. s.page[head] \in DBPages /\ s.page[head] \in Contents
    BY <1>1, <1>2, <2>2 DEF FreeListIs
  <2>4. next = s.page[head].nextFree /\ next \in Int
    BY <2>3, LinkType
  <2>5. /\ u \in FileStates /\ u.nextFree = next /\ u.firstPage = s.firstPage
        /\ u.numPages = n /\ u.size = s.size /\ u.page = s.page
    BY <1>2, <2>4 DEF FileStates
  <2>6. HeaderSound(u)
    BY <1>0, <2>5 DEF HeaderSound
  <2>7. FreeListIs(u, S \ {head})
    <3>1. S \ {head} \subseteq {p \in Pages : p < u.numPages /\ p # u.firstPage}
      BY <1>1, <2>5 DEF FreeListIs
    <3>2. next \in (S \ {head}) \cup {NoPage}
      BY <1>1, <2>2, <2>4 DEF FreeListIs
    <3>3. ASSUME NEW p \in S \ {head}
          PROVE  /\ u.page[p] \in DBPages
                 /\ u.page[p].nextFree \in ((S \ {head}) \ {next}) \cup {NoPage}
      <4>1. /\ s.page[p] \in DBPages
            /\ s.page[p].nextFree \in (S \ {head}) \cup {NoPage}
        BY <1>1, <3>3 DEF FreeListIs
      <4>2. \/ s.page[p].nextFree # s.page[head].nextFree
            \/ s.page[p].nextFree = NoPage
        BY <1>1, <2>2, <3>3 DEF FreeListIs
      <4> QED  BY <4>1, <4>2, <2>4, <2>5
    <3>4. \A p, q \in S \ {head} :
            u.page[p].nextFree = u.page[q].nextFree
            => p = q \/ u.page[p].nextFree = NoPage
      BY <1>1, <2>5 DEF FreeListIs
    <3> QED  BY <3>1, <3>2, <3>3, <3>4, <2>5 DEF FreeListIs
  <2>8. head < n
    BY <1>1, <2>2 DEF FreeListIs
  <2>9. FileSound(u, live)
    BY <1>0, <1>1, <2>5, <2>6, <2>7 DEF FileSound
  <2>10. FileSound(u, live \cup {head})
    <3>1. (S \ {head}) \cap (live \cup {head}) = {}
      BY <1>1
    <3> QED  BY <1>0, <1>1, <2>2, <2>5, <2>6, <2>7, <2>8, <3>1 DEF FileSound
  <2> QED  BY <2>1, <2>2, <2>5, <2>9, <2>10, <1>2
<1>6. ASSUME head = NoPage, n \in Pages
      PROVE  /\ t \in FileStates
             /\ t.nextFree = NoPage /\ t.firstPage = s.firstPage
             /\ t.numPages = n /\ t.size = n + 1 /\ s.size <= t.size
             /\ t.page = [s.page EXCEPT ![n] = ZeroPage]
             /\ FreeListIs(t, S) /\ HeaderSound(t)
             /\ \A p \in live : t.page[p] = s.page[p]
             /\ FileSound(t, live)
  <2>1. /\ t \in FileStates
        /\ t.nextFree = NoPage /\ t.firstPage = s.firstPage
        /\ t.numPages = n /\ t.size = IF s.size > n THEN s.size ELSE n + 1
        /\ t.page = [s.page EXCEPT ![n] = ZeroPage]
    BY <1>3, <1>6, WrittenFields
  <2>2. t.size = n + 1 /\ s.size <= t.size
    BY <1>0, <1>2, <2>1 DEF HeaderSound
  <2>3. HeaderSound(t)
    BY <1>0, <1>2, <1>6, <2>1, <2>2, MaxPageAssumption DEF HeaderSound, Pages
  <2>4. \A p \in S : p # n /\ t.page[p] = s.page[p]
    BY <1>1, <1>2, <1>6, <2>1 DEF FreeListIs, Pages
  <2>5. FreeListIs(t, S)
    BY <1>1, <1>6, <2>1, <2>4 DEF FreeListIs
  <2>6. \A p \in live : t.page[p] = s.page[p]
    BY <1>0, <1>2, <1>6, <2>1 DEF Pages
  <2>7. FileSound(t, live)
    BY <1>0, <1>1, <2>1, <2>3, <2>5 DEF FileSound
  <2> QED  BY <2>1, <2>2, <2>3, <2>5, <2>6, <2>7
<1>7. CASE head = NoPage /\ n \in Pages /\ a = AllocateFails(t)
  <2>1. a.status = "UNIXERR" /\ a.file = t
    BY <1>7 DEF AllocateFails
  <2> QED  BY <2>1, <1>6, <1>7
<1>8. CASE head = NoPage /\ n \in Pages /\ a = Extend(s)
  <2> DEFINE u == [t EXCEPT !.numPages = n + 1,
                            !.firstPage = IF @ = NoPage THEN n ELSE @]
  <2>1. a.status = "OK" /\ a.pageNo = n /\ a.file = u
    BY <1>8 DEF Extend
  <2>2. /\ u \in FileStates /\ u.nextFree = NoPage
        /\ u.firstPage = (IF s.firstPage = NoPage THEN n ELSE s.firstPage)
        /\ u.numPages = n + 1 /\ u.size = n + 1 /\ u.page = t.page
    <3>1. /\ t \in FileStates /\ t.nextFree = NoPage
          /\ t.firstPage = s.firstPage /\ t.size = n + 1
      BY <1>6, <1>8
    <3> DEFINE first == IF t.firstPage = NoPage THEN n ELSE t.firstPage
    <3>2. first \in Int /\ n + 1 \in Nat
      BY <1>2, <3>1 DEF FileStates
    <3>3. u = [t EXCEPT !.numPages = n + 1, !.firstPage = first]
      OBVIOUS
    <3> HIDE DEF t, n, u, first
    <3>4. /\ u \in FileStates /\ u.nextFree = t.nextFree /\ u.firstPage = first
          /\ u.numPages = n + 1 /\ u.size = t.size /\ u.page = t.page
      BY <3>1, <3>2, <3>3 DEF FileStates
    <3> QED  BY <3>1, <3>4 DEF first
  <2>3. HeaderSound(u)
    BY <1>0, <1>2, <1>8, <2>2, MaxPageAssumption
    DEF HeaderSound, Pages, NoPage
  <2>4. FreeListIs(u, S)
    <3>1. \A p \in S : p \in Pages /\ p < n /\ p # s.firstPage
      BY <1>1 DEF FreeListIs
    <3>2. \A p \in S : p < n + 1 /\ p # n
      BY <1>2, <3>1 DEF Pages
    <3>3. u.nextFree = t.nextFree /\ u.page = t.page
      BY <1>6, <1>8, <2>2
    <3> QED  BY <1>6, <1>8, <2>2, <3>1, <3>2, <3>3 DEF FreeListIs
  <2>5. \A p \in live : p \in Pages /\ p < n + 1 /\ p # n
    BY <1>0, <1>2 DEF Pages
  <2>6. n \notin S
    BY <1>1, <1>2 DEF FreeListIs, Pages
  <2>7. FileSound(u, live)
    BY <1>1, <2>2, <2>3, <2>4, <2>5 DEF FileSound
  <2>8. FileSound(u, live \cup {n})
    <3>1. n < n + 1
      BY <1>2
    <3>2. S \cap (live \cup {n}) = {}
      BY <1>1, <2>6
    <3> QED  BY <1>1, <1>8, <2>2, <2>3, <2>4, <2>5, <3>1, <3>2 DEF FileSound
  <2> QED  BY <2>1, <2>2, <2>5, <2>7, <2>8, <1>6, <1>8
<1> QED
  BY <1>4, <1>5, <1>7, <1>8 DEF Allocations

\* disposePage leaves the file sound without the page p that was in use; when
\* it fails, the file is sound with p still in use, and when it is refused
\* nothing changes.  The other pages in use keep their content.
LEMMA DisposalSound ==
  ASSUME NEW s \in FileStates, NEW live, FileSound(s, live),
         NEW p \in live, NEW d \in Disposals(s, p)
  PROVE  /\ d.status \in {"OK", "UNIXERR", "BADPAGENO"}
         /\ d.file \in FileStates
         /\ s.size <= d.file.size
         /\ FileSound(d.file, live \ {p})
         /\ d.status # "OK" => FileSound(d.file, live)
         /\ \A q \in live \ {p} : d.file.page[q] = s.page[q]
         /\ d.status = "BADPAGENO" => d.file = s
<1> DEFINE t == Away(s, p)
           u == [t EXCEPT !.nextFree = p]
<1>0. /\ HeaderSound(s)
      /\ \A q \in live : q \in Pages /\ q < s.numPages
  BY DEF FileSound
<1>1. PICK S \in SUBSET Pages : FreeListIs(s, S) /\ S \cap live = {}
  BY DEF FileSound
<1>2. /\ s.nextFree \in Int /\ s.numPages \in Nat /\ s.size \in Nat
      /\ s.page \in [Pages -> Contents]
      /\ p \in Pages /\ p \in Nat
  BY <1>0, MaxPageAssumption DEF FileStates, Pages
<1>3. FileSound(s, live \ {p})
  <2>1. S \cap (live \ {p}) = {}
    BY <1>1
  <2> QED  BY <1>0, <1>1, <2>1 DEF FileSound
<1>4. CASE d.file = s /\ d.status \in {"UNIXERR", "BADPAGENO"}
  BY <1>2, <1>3, <1>4
<1>5. /\ t \in FileStates
      /\ t.nextFree = s.nextFree /\ t.firstPage = s.firstPage
      /\ t.numPages = s.numPages /\ t.size = s.size
      /\ t.page = [s.page EXCEPT ![p] = DBPage(s.nextFree)]
  <2>1. DBPage(s.nextFree) \in Contents
    BY <1>2, DBPageType
  <2>2. s.size > p
    BY <1>0, <1>2 DEF HeaderSound
  <2> QED  BY <1>2, <2>1, <2>2, WrittenFields DEF Away
<1>6. \A q \in S : q # p /\ t.page[q] = s.page[q]
  BY <1>1, <1>2, <1>5
<1>7. HeaderSound(t)
  BY <1>0, <1>5 DEF HeaderSound
<1>8. FreeListIs(t, S)
  BY <1>1, <1>5, <1>6 DEF FreeListIs
<1>9. \A q \in live \ {p} : t.page[q] = s.page[q]
  BY <1>0, <1>2, <1>5
<1>10. CASE d.file = t /\ d.status = "UNIXERR"
  <2>1. FileSound(t, live)
    BY <1>0, <1>1, <1>5, <1>7, <1>8 DEF FileSound
  <2>2. FileSound(t, live \ {p})
    <3>1. S \cap (live \ {p}) = {}
      BY <1>1
    <3> QED  BY <1>0, <1>1, <1>5, <1>7, <1>8, <3>1 DEF FileSound
  <2>3. t \in FileStates /\ s.size <= t.size
    BY <1>2, <1>5
  <2> HIDE DEF t
  <2> QED  BY <2>1, <2>2, <2>3, <1>9, <1>10
<1>11. CASE ~Refused(s, p) /\ d.file = u /\ d.status = "OK"
  <2>1. /\ u \in FileStates /\ u.nextFree = p /\ u.firstPage = s.firstPage
        /\ u.numPages = s.numPages /\ u.size = s.size /\ u.page = t.page
    <3> HIDE DEF t
    <3> QED  BY <1>2, <1>5 DEF FileStates
  <2>2. HeaderSound(u)
    BY <1>0, <2>1 DEF HeaderSound
  <2>3. p \in Pages /\ p < s.numPages /\ p # s.firstPage
    BY <1>0, <1>11 DEF Refused
  <2>4. p \notin S
    BY <1>1
  <2>5. /\ u.page[p] = DBPage(s.nextFree)
        /\ u.page[p] \in DBPages /\ u.page[p].nextFree = s.nextFree
        /\ \A q \in S : u.page[q] = s.page[q]
    BY <1>2, <1>5, <1>6, <2>1, DBPageType
  <2>6. FreeListIs(u, S \cup {p})
    <3>1. S \cup {p} \subseteq {q \in Pages : q < u.numPages /\ q # u.firstPage}
      BY <1>1, <2>1, <2>3 DEF FreeListIs
    <3>2. ASSUME NEW q \in S \cup {p}
          PROVE  /\ u.page[q] \in DBPages
                 /\ u.page[q].nextFree \in ((S \cup {p}) \ {p}) \cup {NoPage}
      <4>1. CASE q = p
        BY <1>1, <2>4, <2>5, <4>1 DEF FreeListIs
      <4>2. CASE q \in S
        BY <1>1, <2>4, <2>5, <4>2 DEF FreeListIs
      <4> QED  BY <4>1, <4>2
    <3>3. ASSUME NEW q \in S \cup {p}, NEW r \in S \cup {p},
                 u.page[q].nextFree = u.page[r].nextFree
          PROVE  q = r \/ u.page[q].nextFree = NoPage
      <4>1. CASE q \in S /\ r \in S
        BY <1>1, <2>5, <3>3, <4>1 DEF FreeListIs
      <4>2. \A x \in S : s.page[x].nextFree # s.nextFree \/ s.nextFree = NoPage
        BY <1>1 DEF FreeListIs
      <4> QED  BY <2>5, <3>3, <4>1, <4>2
    <3> QED  BY <2>1, <3>1, <3>2, <3>3 DEF FreeListIs
  <2>7. (S \cup {p}) \cap (live \ {p}) = {}
    BY <1>1
  <2>8. FileSound(u, live \ {p})
    BY <1>0, <2>1, <2>2, <2>3, <2>6, <2>7 DEF FileSound
  <2> QED  BY <2>1, <2>8, <1>2, <1>9, <1>11
<1> QED
  BY <1>4, <1>10, <1>11 DEF Disposals

\* Writing a page in use leaves the file sound, and no longer than it was.
LEMMA WriteSound ==
  ASSUME NEW s \in FileStates, NEW live, FileSound(s, live),
         NEW p \in live, NEW c \in Contents
  PROVE  /\ Written(s, p, c) \in FileStates
         /\ FileSound(Written(s, p, c), live)
         /\ Written(s, p, c).page = [s.page EXCEPT ![p] = c]
         /\ Written(s, p, c).size = s.size
<1> DEFINE t == Written(s, p, c)
<1>0. /\ HeaderSound(s)
      /\ \A q \in live : q \in Pages /\ q < s.numPages
  BY DEF FileSound
<1>1. PICK S \in SUBSET Pages : FreeListIs(s, S) /\ S \cap live = {}
  BY DEF FileSound
<1>2. s.numPages \in Nat /\ s.size \in Nat /\ p \in Pages /\ p \in Nat
  BY <1>0, MaxPageAssumption DEF FileStates, Pages
<1>3. s.size > p
  BY <1>0, <1>2 DEF HeaderSound
<1>4. /\ t \in FileStates
      /\ t.nextFree = s.nextFree /\ t.firstPage = s.firstPage
      /\ t.numPages = s.numPages /\ t.size = s.size
      /\ t.page = [s.page EXCEPT ![p] = c]
  BY <1>2, <1>3, WrittenFields
<1>5. HeaderSound(t)
  BY <1>0, <1>4 DEF HeaderSound
<1>6. FreeListIs(t, S)
  <2>1. \A q \in S : t.page[q] = s.page[q]
    BY <1>1, <1>4 DEF FileStates
  <2> QED  BY <1>1, <1>4, <2>1 DEF FreeListIs
<1> QED
  BY <1>0, <1>1, <1>4, <1>5, <1>6 DEF FileSound

\* Writing any number of pages in use leaves the file sound.
LEMMA LiveWritesSound ==
  ASSUME NEW s \in FileStates, NEW live, FileSound(s, live),
         NEW content \in [Pages -> Contents],
         \A p \in Pages \ live : content[p] = s.page[p]
  PROVE  LET t == [s EXCEPT !.page = content] IN
         t \in FileStates /\ t.page = content /\ FileSound(t, live)
<1> DEFINE t == [s EXCEPT !.page = content]
<1>1. PICK S \in SUBSET Pages : FreeListIs(s, S) /\ S \cap live = {}
  BY DEF FileSound
<1>2. /\ t \in FileStates /\ t.page = content
      /\ t.nextFree = s.nextFree /\ t.firstPage = s.firstPage
      /\ t.numPages = s.numPages /\ t.size = s.size
  BY DEF FileStates
<1> HIDE DEF t
<1>3. HeaderSound(t)
  BY <1>2 DEF HeaderSound, FileSound
<1>4. FreeListIs(t, S)
  <2>1. \A p \in S : t.page[p] = s.page[p]
    BY <1>1, <1>2
  <2> QED  BY <1>1, <1>2, <2>1 DEF FreeListIs
<1>5. FileSound(t, live)
  BY <1>1, <1>2, <1>3, <1>4 DEF FileSound
<1> QED
  BY <1>2, <1>5 DEF t

-----------------------------------------------------------------------------
\* The two facts are inductive together.
AllocInv == AllocTypeOK /\ Sound

\* An empty file is sound.
LEMMA InitAllocInv == AllocInit => AllocInv
<1> SUFFICES ASSUME AllocInit PROVE AllocInv
  OBVIOUS
<1>1. ZeroPage \in Contents
  BY DBPageType DEF ZeroPage
<1>2. Created \in FileStates
  BY <1>1 DEF Created, FileStates, NoPage
<1>3. HeaderSound(Created) /\ FreeListIs(Created, {})
  BY MaxPageAssumption DEF HeaderSound, FreeListIs, Created
<1>4. FileSound(Created, {})
  BY <1>3 DEF FileSound
<1> QED
  BY <1>2, <1>4 DEF AllocInit, AllocInv, AllocTypeOK, Sound

\* Every call keeps the file sound for the pages then in use.
LEMMA NextAllocInv == AllocInv /\ [AllocNext]_allocVars => AllocInv'
<1> SUFFICES ASSUME AllocInv, [AllocNext]_allocVars PROVE AllocInv'
  OBVIOUS
<1> USE DEF AllocInv, AllocTypeOK, Sound
<1>1. CASE AllocatePage
  <2>1. PICK a \in Allocations(theFile) :
          /\ theFile' = a.file
          /\ owned' = IF a.status = "OK" THEN owned \cup {a.pageNo} ELSE owned
          /\ result' = a.status
    BY <1>1 DEF AllocatePage
  <2>2. /\ a.status \in {"OK", "UNIXERR"}
        /\ a.file \in FileStates /\ FileSound(a.file, owned)
        /\ a.status = "OK" => /\ a.pageNo \in Pages
                              /\ FileSound(a.file, owned \cup {a.pageNo})
    BY AllocationSound
  <2> QED  BY <2>1, <2>2
<1>2. ASSUME NEW p \in Pages, ReturnPage(p)
      PROVE  AllocInv'
  <2>1. p \in owned
    BY <1>2 DEF ReturnPage
  <2>2. PICK d \in Disposals(theFile, p) :
          /\ theFile' = d.file
          /\ owned' = IF d.status = "OK" THEN owned \ {p} ELSE owned
          /\ result' = d.status
    BY <1>2 DEF ReturnPage
  <2>3. /\ d.status \in {"OK", "UNIXERR", "BADPAGENO"}
        /\ d.file \in FileStates
        /\ FileSound(d.file, owned \ {p})
        /\ d.status # "OK" => FileSound(d.file, owned)
    BY <2>1, DisposalSound
  <2> QED  BY <2>2, <2>3
<1>3. ASSUME NEW p \in Pages, NEW c \in Data, WritePage(p, c)
      PROVE  AllocInv'
  <2>1. p \in owned /\ c \in Contents
    BY <1>3 DEF WritePage, Contents
  <2>2. Written(theFile, p, c) \in FileStates /\ FileSound(Written(theFile, p, c), owned)
    BY <2>1, WriteSound
  <2> QED  BY <1>3, <2>2 DEF WritePage
<1>4. CASE UNCHANGED allocVars
  BY <1>4 DEF allocVars
<1> QED
  BY <1>1, <1>2, <1>3, <1>4 DEF AllocNext

\* Whatever write of the Unix file fails, the header of a database file
\* describes it and its free list reaches no page in use.
THEOREM SoundAlways == AllocSpec => []Sound
<1>1. AllocSpec => []AllocInv
  BY InitAllocInv, NextAllocInv, PTL DEF AllocSpec
<1> QED
  BY <1>1, PTL DEF AllocInv

\* The state is well-typed.
THEOREM AllocTypesAlways == AllocSpec => []AllocTypeOK
<1>1. AllocSpec => []AllocInv
  BY InitAllocInv, NextAllocInv, PTL DEF AllocSpec
<1> QED
  BY <1>1, PTL DEF AllocInv

\* allocatePage never hands out a page that is in use.
THEOREM AllocatesUnused == AllocSpec => HandsOutUnused
<1>1. AllocSpec => []AllocInv
  BY InitAllocInv, NextAllocInv, PTL DEF AllocSpec
<1>2. AllocInv /\ [AllocNext]_allocVars =>
        [AllocatePage /\ result' = "OK" => owned' # owned]_allocVars
  <2> SUFFICES ASSUME AllocInv, AllocatePage, result' = "OK" PROVE owned' # owned
    OBVIOUS
  <2>1. PICK a \in Allocations(theFile) :
          a.status = "OK" /\ owned' = owned \cup {a.pageNo}
    BY DEF AllocatePage
  <2>2. a.pageNo \notin owned
    BY <2>1, AllocationSound DEF AllocInv, AllocTypeOK, Sound
  <2> QED  BY <2>1, <2>2
<1> QED
  BY <1>1, <1>2, PTL DEF AllocSpec, HandsOutUnused

-----------------------------------------------------------------------------
(***************************************************************************)
(* No page is lost.  The pages the list leads to are defined by the sets   *)
(* that hold it, which makes this a statement about all those sets and     *)
(* spares an induction along the list: what holds the list after a call    *)
(* is made into something that held it before.                             *)
(***************************************************************************)
NoneLost(s, live) ==
  \A S \in SUBSET Pages : HoldsList(s, S) =>
    \A p \in Pages : p < s.numPages => p \in live \cup S

LEMMA LostIsLost == NoPageLost <=> NoneLost(theFile, owned)
BY DEF NoPageLost, NoneLost, Chain

LEMMA LostIsLostPrime == NoPageLost' <=> NoneLost(theFile', owned')
BY DEF NoPageLost, NoneLost, Chain

\* If t has the pages of the list as s has them, what holds the list of t and
\* the head of s holds, on those pages, the list of s.
LEMMA HeldBefore ==
  ASSUME NEW s \in FileStates, NEW L \in SUBSET Pages, FreeListIs(s, L),
         NEW t, \A p \in L : t.page[p] = s.page[p],
         NEW S, HoldsList(t, S), s.nextFree \in Pages => s.nextFree \in S
  PROVE  HoldsList(s, S \cap L)
<1>1. NoPage \notin Pages
  BY MaxPageAssumption DEF NoPage, Pages
<1>2. ASSUME NEW p \in L
      PROVE  LinkIn(s.page[p]) \in L \cup {NoPage}
  <2>1. s.page[p] \in DBPages /\ s.page[p].nextFree \in L \cup {NoPage}
    BY <1>2 DEF FreeListIs
  <2> QED  BY <2>1, DataAssumption DEF LinkIn
<1> QED
  BY <1>1, <1>2 DEF HoldsList, FreeListIs

LEMMA AllocationLoses ==
  ASSUME NEW s \in FileStates, NEW live, FileSound(s, live),
         NoneLost(s, live), NEW a \in Allocations(s)
  PROVE  /\ NoneLost(a.file, live) \/ a.status = "OK"
         /\ a.status = "OK" => NoneLost(a.file, live \cup {a.pageNo})
<1> DEFINE n == s.numPages
           t == Written(s, n, ZeroPage)
           head == s.nextFree
<1>1. PICK L \in SUBSET Pages : FreeListIs(s, L) /\ L \cap live = {}
  BY DEF FileSound
<1>2. n \in Nat /\ n \notin L /\ head \in Int
  BY <1>1, MaxPageAssumption DEF FreeListIs, FileStates, Pages
<1>3. NoPage \notin Pages
  BY MaxPageAssumption DEF NoPage, Pages
<1>4. CASE a = AllocateFails(s)
  BY <1>4 DEF AllocateFails
<1>5. CASE head # NoPage /\ a = Reuse(s)
  <2>1. head \in L /\ s.page \in [Pages -> Contents]
    BY <1>1, <1>5 DEF FreeListIs, FileStates
  <2>2. /\ a.status = "OK" /\ a.pageNo = head
        /\ a.file = [s EXCEPT !.nextFree = LinkIn(s.page[head])]
    BY <1>5 DEF Reuse
  <2>3. /\ a.file.nextFree = LinkIn(s.page[head])
        /\ a.file.page = s.page /\ a.file.numPages = n
    BY <2>2 DEF FileStates
  <2>4. ASSUME NEW S \in SUBSET Pages, HoldsList(a.file, S)
        PROVE  HoldsList(s, S \cup {head}) /\ S \cup {head} \in SUBSET Pages
    BY <2>1, <2>3, <2>4 DEF HoldsList
  <2>5. ASSUME NEW S \in SUBSET Pages, HoldsList(a.file, S),
               NEW p \in Pages, p < n
        PROVE  p \in (live \cup {head}) \cup S
    <3>1. p \in live \cup (S \cup {head})
      BY <2>4, <2>5 DEF NoneLost
    <3> QED  BY <3>1
  <2>6. NoneLost(a.file, live \cup {head})
    BY <2>3, <2>5 DEF NoneLost
  <2> QED  BY <2>2, <2>6
<1>6. CASE /\ head = NoPage /\ n \in Pages
           /\ a = AllocateFails(t) \/ a = Extend(s)
  <2>1. HoldsList(s, {})
    BY <1>3, <1>6 DEF HoldsList
  <2>2. \A p \in Pages : p < n => p \in live
    BY <2>1 DEF NoneLost
  <2>3. ZeroPage \in Contents
    BY DBPageType DEF ZeroPage
  <2>4. CASE a = AllocateFails(t)
    <3>1. a.status = "UNIXERR" /\ a.file = t /\ t.numPages = n
      BY <1>6, <2>3, <2>4, WrittenFields DEF AllocateFails
    <3> HIDE DEF t
    <3> QED  BY <2>2, <3>1 DEF NoneLost
  <2>5. CASE a = Extend(s)
    <3>1. a.status = "OK" /\ a.pageNo = n /\ a.file.numPages = n + 1
      <4>1. t \in FileStates
        BY <1>6, <2>3, WrittenFields
      <4> HIDE DEF t
      <4>2. [t EXCEPT !.numPages = n + 1,
                      !.firstPage = IF @ = NoPage THEN n ELSE @].numPages = n + 1
        BY <4>1 DEF FileStates
      <4> QED  BY <2>5, <4>2 DEF Extend, t
    <3>2. \A p \in Pages : p < n + 1 => p \in live \cup {n}
      BY <1>2, <2>2, MaxPageAssumption DEF Pages
    <3> QED  BY <3>1, <3>2 DEF NoneLost
  <2> QED  BY <1>6, <2>4, <2>5
<1> QED
  BY <1>4, <1>5, <1>6 DEF Allocations

LEMMA DisposalLoses ==
  ASSUME NEW s \in FileStates, NEW live, FileSound(s, live),
         NoneLost(s, live), NEW p \in live, NEW d \in Disposals(s, p)
  PROVE  /\ d.status # "OK" => NoneLost(d.file, live)
         /\ d.status = "OK" => NoneLost(d.file, live \ {p})
<1> DEFINE t == Away(s, p)
           u == [t EXCEPT !.nextFree = p]
<1>1. PICK L \in SUBSET Pages : FreeListIs(s, L) /\ L \cap live = {}
  BY DEF FileSound
<1>2. p \in Pages /\ p \notin L /\ s.nextFree \in Int /\ NoPage \notin Pages
  BY <1>1, MaxPageAssumption DEF FileSound, FileStates, NoPage, Pages
<1>3. CASE d.file = s /\ d.status # "OK"
  BY <1>3
<1>4. /\ t \in FileStates
      /\ t.nextFree = s.nextFree /\ t.numPages = s.numPages
      /\ t.page = [s.page EXCEPT ![p] = DBPage(s.nextFree)]
      /\ s.page \in [Pages -> Contents]
  BY <1>2, DBPageType, WrittenFields DEF Away, FileStates
<1>5. \A q \in L : t.page[q] = s.page[q]
  BY <1>2, <1>4
<1> HIDE DEF t
<1>6. CASE d.file = t /\ d.status = "UNIXERR"
  <2>1. ASSUME NEW S \in SUBSET Pages, HoldsList(t, S)
        PROVE  HoldsList(s, S \cap L)
    BY <1>1, <1>4, <1>5, <2>1, HeldBefore DEF HoldsList
  <2>2. ASSUME NEW S \in SUBSET Pages, HoldsList(t, S),
               NEW q \in Pages, q < t.numPages
        PROVE  q \in live \cup S
    <3>1. HoldsList(s, S \cap L) /\ S \cap L \in SUBSET Pages
      BY <2>1, <2>2
    <3> QED  BY <1>4, <2>2, <3>1 DEF NoneLost
  <2> QED  BY <1>6, <2>2 DEF NoneLost
<1>7. CASE d.file = u /\ d.status = "OK"
  <2>1. u.nextFree = p /\ u.numPages = s.numPages /\ u.page = t.page
    BY <1>4 DEF FileStates
  <2>2. t.page[p] = DBPage(s.nextFree) /\ LinkIn(t.page[p]) = s.nextFree
    BY <1>2, <1>4, DBPageType, LinkType
  <2> HIDE DEF u
  <2>3. ASSUME NEW S \in SUBSET Pages, HoldsList(u, S)
        PROVE  p \in S /\ HoldsList(s, S \cap L)
    <3>1. p \in S /\ (s.nextFree \in Pages => s.nextFree \in S)
      BY <1>2, <2>1, <2>2, <2>3 DEF HoldsList
    <3> QED  BY <1>1, <1>5, <2>1, <2>3, <3>1, HeldBefore
  <2>4. ASSUME NEW S \in SUBSET Pages, HoldsList(u, S),
               NEW q \in Pages, q < u.numPages
        PROVE  q \in (live \ {p}) \cup S
    <3>1. p \in S /\ HoldsList(s, S \cap L) /\ S \cap L \in SUBSET Pages
      BY <2>3, <2>4
    <3> QED  BY <2>1, <2>4, <3>1 DEF NoneLost
  <2> QED  BY <1>7, <2>4 DEF NoneLost
<1> QED
  BY <1>3, <1>6, <1>7 DEF Disposals, t, u

LEMMA WriteLoses ==
  ASSUME NEW s \in FileStates, NEW live, FileSound(s, live),
         NoneLost(s, live), NEW p \in live, NEW c \in Contents
  PROVE  NoneLost(Written(s, p, c), live)
<1> DEFINE t == Written(s, p, c)
<1>1. PICK L \in SUBSET Pages : FreeListIs(s, L) /\ L \cap live = {}
  BY DEF FileSound
<1>2. p \in Pages /\ p \notin L
  BY <1>1 DEF FileSound
<1>3. /\ t.nextFree = s.nextFree /\ t.numPages = s.numPages
      /\ t.page = [s.page EXCEPT ![p] = c]
      /\ s.page \in [Pages -> Contents]
  BY <1>2, WrittenFields DEF FileStates
<1>4. \A q \in L : t.page[q] = s.page[q]
  BY <1>2, <1>3
<1> HIDE DEF t
<1>5. ASSUME NEW S \in SUBSET Pages, HoldsList(t, S),
             NEW q \in Pages, q < t.numPages
      PROVE  q \in live \cup S
  <2>1. HoldsList(s, S \cap L) /\ S \cap L \in SUBSET Pages
    BY <1>1, <1>3, <1>4, <1>5, HeldBefore DEF HoldsList
  <2> QED  BY <1>3, <1>5, <2>1 DEF NoneLost
<1> QED
  BY <1>5 DEF NoneLost, t

LEMMA NextLoses == AllocInv /\ NoPageLost /\ [AllocNext]_allocVars => NoPageLost'
<1> SUFFICES ASSUME AllocInv, NoPageLost, [AllocNext]_allocVars
             PROVE  NoneLost(theFile', owned')
  BY LostIsLostPrime
<1>1. theFile \in FileStates /\ FileSound(theFile, owned) /\ NoneLost(theFile, owned)
  BY LostIsLost DEF AllocInv, AllocTypeOK, Sound
<1>2. CASE AllocatePage
  <2>1. PICK a \in Allocations(theFile) :
          /\ theFile' = a.file
          /\ owned' = IF a.status = "OK" THEN owned \cup {a.pageNo} ELSE owned
    BY <1>2 DEF AllocatePage
  <2> QED  BY <1>1, <2>1, AllocationLoses
<1>3. ASSUME NEW p \in Pages, ReturnPage(p)
      PROVE  NoneLost(theFile', owned')
  <2>1. PICK d \in Disposals(theFile, p) :
          /\ theFile' = d.file
          /\ owned' = IF d.status = "OK" THEN owned \ {p} ELSE owned
    BY <1>3 DEF ReturnPage
  <2> QED  BY <1>1, <1>3, <2>1, DisposalLoses DEF ReturnPage
<1>4. ASSUME NEW p \in Pages, NEW c \in Data, WritePage(p, c)
      PROVE  NoneLost(theFile', owned')
  BY <1>1, <1>4, WriteLoses DEF WritePage, Contents
<1>5. CASE UNCHANGED allocVars
  BY <1>1, <1>5 DEF allocVars
<1> QED
  BY <1>2, <1>3, <1>4, <1>5 DEF AllocNext

\* No page of a database file is lost: whatever write of allocatePage and
\* disposePage (db.C) fails, a page the header counts is in use or the free list
\* leads to it.
THEOREM NoPageEverLost == AllocSpec => []NoPageLost
<1>1. AllocInit => NoPageLost
  <2> SUFFICES ASSUME AllocInit PROVE NoneLost(theFile, owned)
    BY LostIsLost
  <2> QED  BY MaxPageAssumption DEF AllocInit, Created, NoneLost, Pages
<1> QED
  BY InitAllocInv, NextAllocInv, <1>1, NextLoses, PTL DEF AllocSpec
=============================================================================
