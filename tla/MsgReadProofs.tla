----------------------------- MODULE MsgReadProofs -----------------------------
(***************************************************************************)
(* Content of messages: what was appended is read back, and the data of the *)
(* application stay.                                                        *)
(*                                                                          *)
(* A message not used again after clear() has its pages in the order of an  *)
(* array a (Tidy), with the text behind the reserve (Content).  Kept says   *)
(* that for one object and text; TextInv says it for all of them, and       *)
(* IInv /\ TextInv is inductive.  A reader goes a Route of pages, which is   *)
(* that array when the message is fresh, and ends somewhere in any case: a  *)
(* message may be read into another one whatever became of it.              *)
(***************************************************************************)
EXTENDS InternalMsgProofs, SequenceTheorems

(***************************************************************************)
(* Where content lies                                                       *)
(***************************************************************************)
\* Bytes in the first k pages.
Base(k) == PageSize * k

\* Every page adds as many; a byte has one place in one page.
LEMMA BaseIs ==
  /\ Base(0) = 0
  /\ \A k \in Nat : Base(k) \in Nat /\ Base(k + 1) = Base(k) + PageSize
  /\ \A j, k \in Nat : j < k => Base(j) + PageSize <= Base(k)
  /\ \A k \in Nat, r \in Cells : (Base(k) + r) % PageSize = r
<1>1. PageSize \in Nat \ {0} BY Sizes
<1>2. Base(0) = 0 BY <1>1 DEF Base
<1>3. \A k \in Nat : Base(k) \in Nat /\ Base(k + 1) = Base(k) + PageSize BY <1>1 DEF Base
<1>4. ASSUME NEW j \in Nat, NEW k \in Nat, j < k PROVE Base(j) + PageSize <= Base(k)
  <2>1. PICK d \in Nat : k = (j + 1) + d
    <3>1. k - (j + 1) \in Nat /\ k = (j + 1) + (k - (j + 1)) BY <1>4
    <3> QED BY <3>1
  <2>2. PageSize * ((j + 1) + d) = PageSize * (j + 1) + PageSize * d /\ PageSize * d \in Nat
    BY <1>1
  <2>3. Base(k) = Base(j + 1) + PageSize * d BY <2>1, <2>2 DEF Base
  <2> QED BY <1>1, <1>3, <2>2, <2>3
<1>5. \A k \in Nat, r \in Cells : (Base(k) + r) % PageSize = r
  BY <1>1, ModUnique DEF Base, Cells
<1> QED BY <1>2, <1>3, <1>4, <1>5

\* A byte has one place.
LEMMA OnePlace ==
  ASSUME NEW j \in Nat, NEW k \in Nat, NEW i \in Cells, NEW r \in Cells,
         Base(j) + i = Base(k) + r
  PROVE  j = k /\ i = r
<1>1. /\ Base(j) \in Nat /\ Base(k) \in Nat /\ PageSize \in Nat
      /\ i \in 0 .. PageSize - 1 /\ r \in 0 .. PageSize - 1
  BY BaseIs, Sizes DEF Cells
<1>2. j < k => Base(j) + PageSize <= Base(k) BY BaseIs
<1>3. k < j => Base(k) + PageSize <= Base(j) BY BaseIs
<1> HIDE DEF Cells
<1>4. j = k BY <1>1, <1>2, <1>3
<1> QED BY <1>1, <1>4

\* How many of the pages of an object the header names.
Low(o) == IF o.pageCnt < LocalStorageSize THEN o.pageCnt ELSE LocalStorageSize

\* The header of o (q is Null) or its index page q.
UsedAt(w, o, q) == IF q = Null THEN o.used ELSE w.index[q].used
NextAt(w, o, q) == IF q = Null THEN o.next ELSE w.index[q].next
PageAt(w, o, q, i) ==
  IF q = Null THEN IF i \in Local THEN o.first[i] ELSE Null
  ELSE IF i < MaxAddressedByPage THEN w.index[q].pages[i] ELSE Null

\* A page with content, and the header or index page and the entry that name it.
Place == [ip : Page, idx : Nat, page : Page]

\* The place that follows on z is x.
Follows(w, o, z, x) ==
  IF z.idx + 1 >= UsedAt(w, o, z.ip) THEN x.ip = NextAt(w, o, z.ip) /\ x.ip # Null /\ x.idx = 0
  ELSE x.ip = z.ip /\ x.idx = z.idx + 1

\* The pages of o in the order in which they were added: a[0], a[1], ...
Way(w, o, a) ==
  LET n == o.pageCnt IN
  /\ a \in [0 .. n - 1 -> Place]
  /\ n # 0 => a[0].ip = Null /\ a[0].idx = 0
  /\ \A k \in 0 .. n - 1 : a[k].page = PageAt(w, o, a[k].ip, a[k].idx)
  /\ \A k \in 0 .. n - 2 : Follows(w, o, a[k], a[k + 1])

\* Each is a page of its own of o, and the last is the one that is named last.
Tidy(w, o, a) ==
  LET n == o.pageCnt IN
  /\ Way(w, o, a)
  /\ \A k \in 0 .. n - 1 : /\ a[k].idx < UsedAt(w, o, a[k].ip)
                           /\ a[k].ip \in OwnedIn(w, o) \cup {Null}
                           /\ a[k].page \in OwnedIn(w, o)
  /\ \A j, k \in 0 .. n - 1 : a[j].page = a[k].page => j = k
  /\ n # 0 => a[n - 1].ip = o.lip /\ a[n - 1].idx + 1 = UsedAt(w, o, o.lip)
  /\ NextAt(w, o, o.lip) = Null
  /\ o.cur # Null => n # 0 /\ o.cur = a[n - 1].page

\* The last page is full, or the current one and not full.
Measured(o) ==
  \/ o.cur = Null /\ o.totalSz = Base(o.pageCnt)
  \/ /\ o.cur # Null /\ o.pageCnt # 0
     /\ o.totalSz \in Base(o.pageCnt - 1) .. Base(o.pageCnt - 1) + PageSize - 1

\* So it is, also with a message that was used again after clear().
Steady(w, o) ==
  /\ Measured(o)
  /\ o.cur # Null => o.cur \in OwnedIn(w, o)
  /\ o.used >= Low(o)

\* The message was not used again after clear().
Fresh(o) == o.used = Low(o)

\* Content begins behind the reserve.
Begun(o, t) == o.totalSz = IF t = <<>> THEN 0 ELSE TotalReserved + Len(t)

\* What the pages in the order of a hold.
Content(w, o, a, t, ap) ==
  /\ \/ t = <<>> /\ o.totalSz = 0
     \/ t # <<>> /\ o.totalSz \in {TotalReserved + Len(t), Len(t)}
  /\ Begun(o, t) =>
       /\ \A k \in 0 .. o.pageCnt - 1, i \in Cells :
            TotalReserved <= Base(k) + i /\ Base(k) + i < o.totalSz =>
              w.data[a[k].page][i] = t[Base(k) + i - TotalReserved + 1]
       /\ ap # Null => /\ o.pageCnt # 0
                       /\ \A i \in AppCells : w.data[a[0].page][i] = ap

\* What is known of an object o with text t and the application's data ap.
Kept(w, o, t, ap) ==
  /\ Steady(w, o)
  /\ Fresh(o) => \E a : Tidy(w, o, a) /\ Content(w, o, a, t, ap)

(***************************************************************************)
(* Other messages                                                           *)
(***************************************************************************)
\* Pages of o are as they were, but for what is stored in front of the first one.
Untouched(w, v, o) ==
  \A r \in OwnedIn(w, o) :
    /\ v.index[r] = w.index[r]
    /\ \A i \in Cells : i >= ObjectSize \/ r # o.first[0] => v.data[r][i] = w.data[r][i]

\* The first page is named first.
LEMMA FirstPage ==
  ASSUME NEW w, NEW o, NEW a, Way(w, o, a), o.pageCnt \in Nat \ {0}
  PROVE  a[0].page = o.first[0]
<1>1. 0 \in 0 .. o.pageCnt - 1 /\ 0 \in Local BY Sizes DEF Local
<1>2. a[0].ip = Null /\ a[0].idx = 0 /\ a[0].page = PageAt(w, o, a[0].ip, a[0].idx)
  BY <1>1 DEF Way
<1> QED BY <1>1, <1>2 DEF PageAt

\* Content then stays what it was.
LEMMA UntouchedKeeps ==
  ASSUME NEW w, NEW o \in Object, Listed(w, o), NEW v, Untouched(w, v, o),
         NEW t, NEW ap, Kept(w, o, t, ap)
  PROVE  Kept(v, o, t, ap)
<1>1. OwnedIn(v, o) = OwnedIn(w, o)
  <2>1. \A q \in Linked(w, o.next) : v.index[q] = w.index[q] BY DEF Untouched, OwnedIn
  <2>2. SameList(o, o) BY DEF SameList
  <2> QED BY <2>1, <2>2, SamePages
<1>2. \A q \in OwnedIn(w, o) \cup {Null} :
        /\ UsedAt(v, o, q) = UsedAt(w, o, q) /\ NextAt(v, o, q) = NextAt(w, o, q)
        /\ \A i : PageAt(v, o, q, i) = PageAt(w, o, q, i)
  BY DEF Untouched, UsedAt, NextAt, PageAt
<1>3. Steady(v, o) BY <1>1 DEF Kept, Steady
<1>4. ASSUME Fresh(o) PROVE \E a : Tidy(v, o, a) /\ Content(v, o, a, t, ap)
  <2>1. PICK a : Tidy(w, o, a) /\ Content(w, o, a, t, ap) BY <1>4 DEF Kept
  <2>2. o.pageCnt \in Nat BY DEF Object
  <2>3. \A k \in 0 .. o.pageCnt - 1 : a[k].ip \in OwnedIn(w, o) \cup {Null}
    BY <2>1 DEF Tidy
  <2>4. Way(v, o, a)
    <3>1. Way(w, o, a) BY <2>1 DEF Tidy
    <3>2. \A k \in 0 .. o.pageCnt - 2 : k \in 0 .. o.pageCnt - 1 BY <2>2
    <3>3. \A k \in 0 .. o.pageCnt - 2 : Follows(v, o, a[k], a[k + 1])
      BY <1>2, <2>3, <3>1, <3>2 DEF Way, Follows
    <3>4. \A k \in 0 .. o.pageCnt - 1 : a[k].page = PageAt(v, o, a[k].ip, a[k].idx)
      BY <1>2, <2>3, <3>1 DEF Way
    <3> QED BY <3>1, <3>3, <3>4 DEF Way
  <2>5. UsedAt(v, o, o.lip) = UsedAt(w, o, o.lip) /\ NextAt(v, o, o.lip) = NextAt(w, o, o.lip)
    <3>1. CASE o.pageCnt = 0
      <4>1. o.lip = Null BY <2>2, <3>1, Sizes, NoIndexPages
      <4> QED BY <1>2, <4>1
    <3>2. CASE o.pageCnt # 0
      <4>1. o.pageCnt - 1 \in 0 .. o.pageCnt - 1 BY <2>2, <3>2
      <4>2. o.lip \in OwnedIn(w, o) \cup {Null} BY <2>1, <2>3, <3>2, <4>1 DEF Tidy
      <4> QED BY <1>2, <4>2
    <3> QED BY <3>1, <3>2
  <2>6. Tidy(v, o, a)
    <3>1. \A k \in 0 .. o.pageCnt - 1 : a[k].idx < UsedAt(v, o, a[k].ip)
      BY <1>2, <2>1, <2>3 DEF Tidy
    <3> QED BY <1>1, <2>1, <2>4, <2>5, <3>1 DEF Tidy
  <2>7. Content(v, o, a, t, ap)
    <3>1. ASSUME NEW k \in 0 .. o.pageCnt - 1, NEW i \in Cells, k = 0 => i >= ObjectSize
          PROVE  v.data[a[k].page][i] = w.data[a[k].page][i]
      <4>1. a[k].page \in OwnedIn(w, o) BY <2>1 DEF Tidy
      <4>2. k # 0 => a[k].page # o.first[0]
        <5>1. 0 \in 0 .. o.pageCnt - 1 /\ o.pageCnt \in Nat \ {0} BY <2>2
        <5>2. a[0].page = o.first[0] BY <2>1, <5>1, FirstPage DEF Tidy
        <5> QED BY <2>1, <5>1, <5>2 DEF Tidy
      <4> QED BY <3>1, <4>1, <4>2 DEF Untouched
    <3>2. ASSUME NEW i \in Cells, TotalReserved <= Base(0) + i PROVE i >= ObjectSize
      BY <3>2, BaseIs, Sizes, PageAssumption DEF Cells, TotalReserved
    <3>3. ASSUME NEW i \in AppCells PROVE i \in Cells /\ i >= ObjectSize
      BY Sizes, PageAssumption DEF AppCells, Cells
    <3>4. o.pageCnt # 0 => 0 \in 0 .. o.pageCnt - 1 BY <2>2
    <3>5. ASSUME NEW k \in 0 .. o.pageCnt - 1, NEW i \in Cells, TotalReserved <= Base(k) + i
          PROVE  v.data[a[k].page][i] = w.data[a[k].page][i]
      BY <3>1, <3>2, <3>5
    <3>6. ASSUME NEW i \in AppCells, o.pageCnt # 0
          PROVE  v.data[a[0].page][i] = w.data[a[0].page][i]
      BY <3>1, <3>3, <3>4, <3>6
    <3> QED BY <2>1, <3>5, <3>6 DEF Content
  <2> QED BY <2>6, <2>7
<1> QED BY <1>3, <1>4 DEF Kept

(***************************************************************************)
(* One more page                                                            *)
(***************************************************************************)
\* Where page p is named: in the header, in a new index page q, or in the last one.
InHeader(w, v, o, x, p) ==
  /\ o.pageCnt < LocalStorageSize /\ v.index = w.index
  /\ x.used = o.used + 1 /\ x.first = [o.first EXCEPT ![o.pageCnt] = p]
  /\ x.next = o.next /\ x.lip = o.lip
InNewIndex(w, v, o, x, p, q) ==
  /\ o.pageCnt >= LocalStorageSize /\ q \in w.free \ {p}
  /\ x.used = o.used /\ x.first = o.first
  /\ x.lip = q /\ x.next = IF o.lip = Null THEN q ELSE o.next
  /\ v.index[q] = IndexPage(1, p) /\ q # o.lip
  /\ \A r \in Pages : r # q /\ r # o.lip => v.index[r] = w.index[r]
  /\ o.lip # Null => v.index[o.lip] = [w.index[o.lip] EXCEPT !.next = q]
InLastIndex(w, v, o, x, p) ==
  /\ o.pageCnt >= LocalStorageSize /\ o.lip # Null
  /\ w.index[o.lip].used # MaxAddressedByPage
  /\ x.used = o.used /\ x.first = o.first /\ x.next = o.next /\ x.lip = o.lip
  /\ v.index[o.lip] = NamedIn(w.index[o.lip], p)
  /\ \A r \in Pages : r # o.lip => v.index[r] = w.index[r]

\* The last index page is one that the object owns.
LEMMA LastIsOwned ==
  ASSUME NEW w, WorldInv(w), NEW m \in Holders, w.obj[m].lip # Null
  PROVE  w.obj[m].lip \in OwnedIn(w, w.obj[m]) /\ w.obj[m].lip \in Pages
<1> DEFINE o == w.obj[m]
<1>1. Listed(w, o) /\ o.pageCnt \in Nat BY DEF WorldInv, Sound, WorldType, Object
<1>2. o.lip \in Pages /\ \E n \in Nat : \E c \in [1 .. n -> Pages] :
        Chain(w, o.next, n, c) /\ n >= 1 /\ o.lip = c[n]
  <2> HIDE DEF o
  <2>1. o.lip # Null BY DEF o
  <2> QED BY <1>1, <2>1, LastIndexPage
<1>3. PICK n \in Nat : \E c \in [1 .. n -> Pages] :
        Chain(w, o.next, n, c) /\ n >= 1 /\ o.lip = c[n]
  BY <1>2
<1>4. n >= 1 => n \in 1 .. n OBVIOUS
<1>5. o.lip \in Linked(w, o.next) BY <1>3, <1>4, LinkedIsChain
<1> QED BY <1>2, <1>5 DEF OwnedIn

\* What implAddPage does to the message and to the index pages.
LEMMA AddPageDoes ==
  ASSUME NEW w, WorldInv(w), NEW m \in Msgs, HasPages(w, m), NEW v, v = AddPage(w, m),
         NEW o, o = w.obj[m], NEW x, x = v.obj[m], NEW p, p = Taken(w), NEW q, q = TakenToo(w)
  PROVE  /\ v.data = w.data /\ \A h \in Holders : h # m => v.obj[h] = w.obj[h]
         /\ x.cur = p /\ x.pageCnt = o.pageCnt + 1 /\ x.totalSz = o.totalSz
         /\ InHeader(w, v, o, x, p) \/ InNewIndex(w, v, o, x, p, q) \/ InLastIndex(w, v, o, x, p)
<1>1. /\ WorldType(w) /\ m \in Holders /\ o \in Object /\ p \in w.free /\ p \in Pages
      /\ LocalStorageSize \in Nat /\ o.pageCnt \in Nat /\ w.index \in [Pages -> Listing]
      /\ o.lip # Null => /\ o.pageCnt > LocalStorageSize /\ o.lip \in Pages
                         /\ o.lip \in OwnedIn(w, o) /\ w.index[o.lip] \in Listing
  <2>1. m \in Holders /\ WorldType(w) BY DEF Holders, WorldInv
  <2> QED BY <2>1, TakenAreFree, SlotsIs, Sizes, LastIsOwned DEF Object, WorldType
<1>2. IsFullUp(w, m) => q \in w.free \ {p} /\ q \in Pages BY <1>1, TakenAreFree
<1>3. CASE o.pageCnt < LocalStorageSize
  <2> DEFINE y == [Grown(o, p) EXCEPT !.first = [@ EXCEPT ![o.pageCnt] = p], !.used = @ + 1]
  <2>1. v = NameInHeader(w, m, p) BY <1>1, <1>3, AddPageCases
  <2>2. v = Took(w, m, {p}, y) BY <2>1 DEF NameInHeader
  <2>3. y \in Object
    <3>1. o.pageCnt \in Local BY <1>1, <1>3 DEF Local
    <3> QED BY <1>1, <3>1, GrownIs
  <2>4. /\ y.cur = p /\ y.pageCnt = o.pageCnt + 1 /\ y.totalSz = o.totalSz
        /\ y.used = o.used + 1 /\ y.first = [o.first EXCEPT ![o.pageCnt] = p]
        /\ y.next = o.next /\ y.lip = o.lip
    BY <1>1 DEF Grown, Object
  <2> HIDE DEF y
  <2>5. /\ v.obj[m] = y /\ v.index = w.index
        /\ \A h \in Holders : h # m => v.obj[h] = w.obj[h]
    BY <1>1, <2>2, <2>3, TookIs
  <2>6. v.data = w.data BY <1>1, <2>2 DEF Took, WorldType
  <2> QED BY <1>3, <2>4, <2>5, <2>6 DEF InHeader
<1>4. CASE o.pageCnt >= LocalStorageSize /\ o.lip = Null
  <2> DEFINE y == [Grown(o, p) EXCEPT !.next = q, !.lip = q]
             u == Took(w, m, {p, q}, y)
             ix == [w.index EXCEPT ![q] = IndexPage(1, p)]
  <2>1. v = NameInFirstIndex(w, m, p, q) BY <1>1, <1>4, AddPageCases
  <2>2. q \in w.free \ {p} /\ q \in Pages BY <1>2, <1>4 DEF IsFullUp
  <2>3. y \in Object BY <1>1, <2>2, GrownIs
  <2>4. /\ y.cur = p /\ y.pageCnt = o.pageCnt + 1 /\ y.totalSz = o.totalSz
        /\ y.used = o.used /\ y.first = o.first /\ y.next = q /\ y.lip = q
    BY <1>1 DEF Grown, Object
  <2>5. v = [u EXCEPT !.index = ix]
    <3>1. u.index = w.index BY <1>1 DEF Took, WorldType
    <3> QED BY <2>1, <3>1 DEF NameInFirstIndex
  <2> HIDE DEF y
  <2>6. /\ WorldType(u) /\ u.obj[m] = y
        /\ \A h \in Holders : h # m => u.obj[h] = w.obj[h]
    BY <1>1, <2>3, TookIs
  <2>7. u.data = w.data BY <1>1 DEF Took, WorldType
  <2> HIDE DEF u
  <2>8. v.obj = u.obj /\ v.data = u.data /\ v.index = ix BY <2>5, <2>6 DEF WorldType
  <2>9. ix[q] = IndexPage(1, p) /\ \A r \in Pages : r # q => ix[r] = w.index[r]
    BY <1>1, <2>2
  <2> HIDE DEF ix
  <2>10. q # o.lip BY <1>4, <2>2, PageAssumption
  <2> QED BY <1>4, <2>2, <2>4, <2>6, <2>7, <2>8, <2>9, <2>10 DEF InNewIndex
<1>5. CASE o.lip # Null /\ IndexIsFull(w, o.lip)
  <2> DEFINE y == [Grown(o, p) EXCEPT !.lip = q]
             u == Took(w, m, {p, q}, y)
             l == [w.index[o.lip] EXCEPT !.next = q]
             ix == [w.index EXCEPT ![q] = IndexPage(1, p), ![o.lip] = l]
  <2>1. v = NameInNewIndex(w, m, p, q) /\ o.pageCnt >= LocalStorageSize
    <3>1. o.pageCnt >= LocalStorageSize BY <1>1, <1>5
    <3> QED BY <1>1, <1>5, <3>1, AddPageCases
  <2>2. q \in w.free \ {p} /\ q \in Pages
    <3>1. IsFullUp(w, m) BY <1>5, <2>1 DEF IsFullUp, IndexIsFull
    <3> QED BY <1>2, <3>1
  <2>3. y \in Object BY <1>1, <2>2, GrownIs
  <2>4. /\ y.cur = p /\ y.pageCnt = o.pageCnt + 1 /\ y.totalSz = o.totalSz
        /\ y.used = o.used /\ y.first = o.first /\ y.next = o.next /\ y.lip = q
    BY <1>1 DEF Grown, Object
  <2>5. v = [u EXCEPT !.index = ix]
    <3>1. u.index = w.index BY <1>1 DEF Took, WorldType
    <3> QED BY <2>1, <3>1 DEF NameInNewIndex
  <2> HIDE DEF y
  <2>6. /\ WorldType(u) /\ u.obj[m] = y
        /\ \A h \in Holders : h # m => u.obj[h] = w.obj[h]
    BY <1>1, <2>3, TookIs
  <2>7. u.data = w.data BY <1>1 DEF Took, WorldType
  <2> HIDE DEF u
  <2>8. v.obj = u.obj /\ v.data = u.data /\ v.index = ix BY <2>5, <2>6 DEF WorldType
  <2>9. q # o.lip
    <3>1. Covered(w) BY DEF WorldInv
    <3> QED BY <1>1, <1>5, <2>2, <3>1 DEF Covered
  <2>10. /\ ix[q] = IndexPage(1, p) /\ ix[o.lip] = l
         /\ \A r \in Pages : r # q /\ r # o.lip => ix[r] = w.index[r]
    <3> HIDE DEF l
    <3>1. ix = [[w.index EXCEPT ![q] = IndexPage(1, p)] EXCEPT ![o.lip] = l] OBVIOUS
    <3> HIDE DEF ix
    <3> QED BY <1>1, <1>5, <2>2, <2>9, <3>1
  <2> HIDE DEF ix
  <2> QED BY <1>5, <2>1, <2>2, <2>4, <2>6, <2>7, <2>8, <2>9, <2>10 DEF InNewIndex
<1>6. CASE o.lip # Null /\ ~IndexIsFull(w, o.lip)
  <2> DEFINE y == Grown(o, p)
             u == Took(w, m, {p}, y)
             l == NamedIn(w.index[o.lip], p)
             ix == [w.index EXCEPT ![o.lip] = l]
  <2>1. v = NameInLastIndex(w, m, p) /\ o.pageCnt >= LocalStorageSize
    <3>1. o.pageCnt >= LocalStorageSize BY <1>1, <1>6
    <3> QED BY <1>1, <1>6, <3>1, AddPageCases
  <2>3. y \in Object BY <1>1, GrownIs
  <2>4. /\ y.cur = p /\ y.pageCnt = o.pageCnt + 1 /\ y.totalSz = o.totalSz
        /\ y.used = o.used /\ y.first = o.first /\ y.next = o.next /\ y.lip = o.lip
    BY <1>1 DEF Grown, Object
  <2>5. v = [u EXCEPT !.index = ix]
    <3>1. u.index = w.index BY <1>1 DEF Took, WorldType
    <3> QED BY <2>1, <3>1 DEF NameInLastIndex
  <2> HIDE DEF y
  <2>6. /\ WorldType(u) /\ u.obj[m] = y
        /\ \A h \in Holders : h # m => u.obj[h] = w.obj[h]
    BY <1>1, <2>3, TookIs
  <2>7. u.data = w.data BY <1>1 DEF Took, WorldType
  <2> HIDE DEF u
  <2>8. v.obj = u.obj /\ v.data = u.data /\ v.index = ix BY <2>5, <2>6 DEF WorldType
  <2>9. ix[o.lip] = l /\ \A r \in Pages : r # o.lip => ix[r] = w.index[r]
    <3> HIDE DEF l
    <3> QED BY <1>1, <1>6
  <2> HIDE DEF ix
  <2> QED BY <1>6, <2>1, <2>4, <2>6, <2>7, <2>8, <2>9 DEF InLastIndex, IndexIsFull
<1> QED BY <1>1, <1>3, <1>4, <1>5, <1>6

\* Nothing of other holders changed.
Apart(w, v, m) ==
  \A h \in Holders : h # m =>
    /\ v.obj[h] = w.obj[h]
    /\ \A r \in OwnedIn(w, w.obj[h]) : v.index[r] = w.index[r] /\ v.data[r] = w.data[r]

\* They own the same pages then.
LEMMA OthersOwn ==
  ASSUME NEW w, WorldInv(w), NEW v, NEW m, Apart(w, v, m), NEW h \in Holders, h # m
  PROVE  OwnedIn(v, v.obj[h]) = OwnedIn(w, w.obj[h])
<1>1. Listed(w, w.obj[h]) /\ v.obj[h] = w.obj[h] BY DEF WorldInv, Sound, Apart
<1>2. \A q \in Linked(w, w.obj[h].next) : v.index[q] = w.index[q] BY DEF Apart, OwnedIn
<1> DEFINE o == w.obj[h]
           x == v.obj[h]
<1>3. SameList(o, x) /\ Listed(w, o) BY <1>1 DEF SameList
<1> HIDE DEF o, x
<1>4. \A q \in Linked(w, o.next) : v.index[q] = w.index[q] BY <1>2 DEF o
<1>5. /\ Linked(v, x.next) = Linked(w, o.next) /\ Payload(v, x) = Payload(w, o)
      /\ OwnedIn(v, x) = OwnedIn(w, o) /\ Listed(v, x)
  BY <1>3, <1>4, SamePages
<1> QED BY <1>5 DEF o, x

\* Two such changes are one.
LEMMA ApartTwice ==
  ASSUME NEW w, WorldInv(w), NEW u, NEW v, NEW m, Apart(w, u, m), Apart(u, v, m)
  PROVE  Apart(w, v, m)
<1> SUFFICES ASSUME NEW h \in Holders, h # m
             PROVE  /\ v.obj[h] = w.obj[h]
                    /\ \A r \in OwnedIn(w, w.obj[h]) :
                         v.index[r] = w.index[r] /\ v.data[r] = w.data[r]
  BY DEF Apart
<1>1. OwnedIn(u, u.obj[h]) = OwnedIn(w, w.obj[h]) BY OthersOwn
<1> QED BY <1>1 DEF Apart

\* What changed nothing else leaves m what it had, and gave it what is no longer free.
LEMMA OwnedGrows ==
  ASSUME NEW w, WorldInv(w), NEW v, WorldInv(v), NEW m \in Holders, Apart(w, v, m),
         v.free \subseteq w.free
  PROVE  OwnedIn(v, v.obj[m]) = OwnedIn(w, w.obj[m]) \cup (w.free \ v.free)
<1>1. \A h \in Holders : h # m => OwnedIn(v, v.obj[h]) = OwnedIn(w, w.obj[h])
  BY OthersOwn
<1>2. /\ OwnedIn(v, v.obj[m]) \subseteq Pages /\ OwnedIn(w, w.obj[m]) \subseteq Pages
      /\ w.free \subseteq Pages
  BY OwnedArePages DEF WorldInv, WorldType, Sound, Numbered
<1>3. ASSUME NEW p \in Pages
      PROVE  p \in OwnedIn(v, v.obj[m]) <=> p \in OwnedIn(w, w.obj[m]) \cup (w.free \ v.free)
  <2>1. p \in w.free <=> \A h \in Holders : p \notin OwnedIn(w, w.obj[h])
    BY DEF WorldInv, Covered
  <2>2. p \in v.free <=> \A h \in Holders : p \notin OwnedIn(v, v.obj[h])
    BY DEF WorldInv, Covered
  <2>3. p \in OwnedIn(w, w.obj[m]) => \A h \in Holders : h # m => p \notin OwnedIn(w, w.obj[h])
    BY DEF WorldInv, Separate
  <2>4. p \in OwnedIn(v, v.obj[m]) => \A h \in Holders : h # m => p \notin OwnedIn(v, v.obj[h])
    BY DEF WorldInv, Separate
  <2> QED BY <1>1, <2>1, <2>2, <2>3, <2>4
<1> QED BY <1>2, <1>3

\* The world's payload is a function.
DataType(w) == w.data = [p \in Pages |-> w.data[p]]

\* implAddPage is about m, free pages and the list of m only.
LEMMA AddPageApart ==
  ASSUME NEW w, WorldInv(w), NEW m \in Msgs, HasPages(w, m), NEW v, v = AddPage(w, m)
  PROVE  /\ WorldInv(v) /\ Apart(w, v, m) /\ v.data = w.data
         /\ Taken(w) \in w.free /\ Taken(w) \in Pages
         /\ OwnedIn(v, v.obj[m]) = OwnedIn(w, w.obj[m]) \cup (w.free \ v.free)
         /\ v.free = w.free \ (IF IsFullUp(w, m) THEN {Taken(w), TakenToo(w)} ELSE {Taken(w)})
<1> DEFINE o == w.obj[m]
           x == v.obj[m]
           p == Taken(w)
           q == TakenToo(w)
<1>1. /\ WorldInv(v)
      /\ v.free = w.free \ (IF IsFullUp(w, m) THEN {p, q} ELSE {p})
  BY AddPageKeeps
<1>2. /\ v.data = w.data /\ \A h \in Holders : h # m => v.obj[h] = w.obj[h]
      /\ InHeader(w, v, o, x, p) \/ InNewIndex(w, v, o, x, p, q) \/ InLastIndex(w, v, o, x, p)
  BY AddPageDoes
<1>3. m \in Holders /\ WorldType(w) BY DEF Holders, WorldInv
<1>4. p \in w.free /\ p \in Pages BY <1>3, TakenAreFree
<1> HIDE DEF o, x, p, q
<1>5. ASSUME NEW h \in Holders, h # m, NEW r \in OwnedIn(w, w.obj[h])
      PROVE  v.index[r] = w.index[r]
  <2>1. r \in Pages BY OwnedArePages DEF WorldInv, Sound, Numbered
  <2>2. r \notin w.free BY <2>1 DEF WorldInv, Covered
  <2>3. r \notin OwnedIn(w, o) BY <1>3, <1>5 DEF WorldInv, Separate, o
  <2>4. o.lip # Null => r # o.lip BY <1>3, <2>3, LastIsOwned DEF o
  <2>5. r # Null BY <2>1, PageAssumption
  <2> QED BY <1>2, <2>1, <2>2, <2>4, <2>5 DEF InHeader, InNewIndex, InLastIndex
<1>6. Apart(w, v, m) BY <1>2, <1>5 DEF Apart
<1>7. v.free \subseteq w.free BY <1>1
<1>8. OwnedIn(v, v.obj[m]) = OwnedIn(w, w.obj[m]) \cup (w.free \ v.free)
  BY <1>1, <1>3, <1>6, <1>7, OwnedGrows
<1> QED BY <1>1, <1>2, <1>4, <1>6, <1>8 DEF p, q

\* A way a of o is one of x with one place more.
Lengthened(w, v, o, x, a, b) ==
  /\ Tidy(v, x, b) /\ x.pageCnt = o.pageCnt + 1
  /\ \A k \in 0 .. o.pageCnt - 1 : b[k] = a[k]

\* When the others are found where they were, and z behind them.
LEMMA OnePlaceMore ==
  ASSUME NEW w, NEW v, NEW o \in Object, NEW x, NEW a, Tidy(w, o, a), NEW z \in Place,
         x.pageCnt = o.pageCnt + 1, z.page = x.cur, z.page \in OwnedIn(v, x) \ OwnedIn(w, o),
         OwnedIn(w, o) \subseteq OwnedIn(v, x), z.ip \in OwnedIn(v, x) \cup {Null},
         z.page = PageAt(v, x, z.ip, z.idx),
         z.ip = x.lip, z.idx + 1 = UsedAt(v, x, z.ip), NextAt(v, x, z.ip) = Null,
         \A k \in 0 .. o.pageCnt - 1 :
           /\ a[k].page = PageAt(v, x, a[k].ip, a[k].idx)
           /\ a[k].idx < UsedAt(v, x, a[k].ip),
         \A k \in 0 .. o.pageCnt - 2 : Follows(v, x, a[k], a[k + 1]),
         o.pageCnt # 0 => Follows(v, x, a[o.pageCnt - 1], z),
         o.pageCnt = 0 => z.ip = Null /\ z.idx = 0
  PROVE  \E b : Lengthened(w, v, o, x, a, b)
<1> DEFINE n == o.pageCnt
           b == [k \in 0 .. n |-> IF k = n THEN z ELSE a[k]]
<1>1. n \in Nat /\ x.pageCnt = n + 1 /\ x.pageCnt - 1 = n /\ x.pageCnt - 2 = n - 1
      /\ x.pageCnt # 0
  BY DEF Object
<1>2. a \in [0 .. n - 1 -> Place] BY DEF Tidy, Way
<1>3. b[n] = z /\ \A k \in 0 .. n - 1 : b[k] = a[k] /\ k \in 0 .. n /\ k # n
  BY <1>1
<1>4. \A k \in 0 .. n : k = n \/ k \in 0 .. n - 1 BY <1>1
<1>5. b \in [0 .. n -> Place] BY <1>1, <1>2
<1>8. z.idx < UsedAt(v, x, z.ip)
  <2>1. z.idx \in Nat BY DEF Place
  <2> QED BY <2>1
<1> HIDE DEF b
<1>6. Way(v, x, b)
  <2>1. b[0].ip = Null /\ b[0].idx = 0
    <3>1. CASE n = 0 BY <1>3, <3>1
    <3>2. CASE n # 0
      <4>1. 0 \in 0 .. n - 1 BY <1>1, <3>2
      <4> QED BY <1>3, <3>2, <4>1 DEF Tidy, Way
    <3> QED BY <3>1, <3>2
  <2>2. \A k \in 0 .. n : b[k].page = PageAt(v, x, b[k].ip, b[k].idx)
    BY <1>3, <1>4
  <2>3. ASSUME NEW k \in 0 .. n - 1 PROVE Follows(v, x, b[k], b[k + 1])
    <3>1. CASE k = n - 1
      <4>1. b[k] = a[n - 1] /\ b[k + 1] = z /\ n # 0 BY <1>1, <1>3, <3>1
      <4> QED BY <4>1
    <3>2. CASE k # n - 1
      <4>1. k \in 0 .. n - 2 /\ k + 1 \in 0 .. n - 1 BY <1>1, <3>2
      <4> QED BY <1>3, <4>1
    <3> QED BY <3>1, <3>2
  <2> HIDE DEF n
  <2> QED BY <1>1, <1>5, <2>1, <2>2, <2>3 DEF Way
<1>7. \A k \in 0 .. n : /\ b[k].idx < UsedAt(v, x, b[k].ip)
                        /\ b[k].ip \in OwnedIn(v, x) \cup {Null}
                        /\ b[k].page \in OwnedIn(v, x)
  BY <1>3, <1>4, <1>8 DEF Tidy
<1>9. \A j, k \in 0 .. n : b[j].page = b[k].page => j = k
  BY <1>3, <1>4 DEF Tidy
<1>10. Tidy(v, x, b)
  <2> HIDE DEF n
  <2> QED BY <1>1, <1>3, <1>6, <1>7, <1>9 DEF Tidy
<1> QED BY <1>1, <1>3, <1>10 DEF Lengthened

\* A page named in the header follows on the others.
LEMMA HeaderFollows ==
  ASSUME NEW w, NEW v, NEW o \in Object, NEW x, NEW p \in Pages, InHeader(w, v, o, x, p),
         NEW a, Tidy(w, o, a), Fresh(o), o.lip = Null,
         x.cur = p, x.pageCnt = o.pageCnt + 1,
         OwnedIn(w, o) \subseteq OwnedIn(v, x), p \in OwnedIn(v, x) \ OwnedIn(w, o)
  PROVE  \E b : Lengthened(w, v, o, x, a, b)
<1> DEFINE n == o.pageCnt
           z == [ip |-> Null, idx |-> n, page |-> p]
<1>1. /\ n \in Nat /\ o.used = n /\ x.used = n + 1 /\ n \in Local
      /\ LocalStorageSize \in Nat /\ p \in Page /\ Null \in Page
      /\ x.first = [o.first EXCEPT ![n] = p] /\ o.first \in [Local -> Page]
  BY Sizes DEF Object, InHeader, Fresh, Low, Local, Page
<1>2. v.index = w.index /\ x.next = o.next /\ x.lip = Null BY DEF InHeader
<1>3. o.next = Null BY DEF Tidy, NextAt
<1>4. z \in Place /\ z.ip = Null /\ z.idx = n /\ z.page = p BY <1>1 DEF Place
<1> HIDE DEF z
<1>5. p = PageAt(v, x, Null, n) BY <1>1 DEF PageAt
<1>6. n + 1 = UsedAt(v, x, Null) /\ NextAt(v, x, Null) = Null
  BY <1>1, <1>2, <1>3 DEF UsedAt, NextAt
<1>7. \A k \in 0 .. n - 1 : a[k] \in Place /\ a[k].idx \in Nat /\ a[k].idx < UsedAt(w, o, a[k].ip)
  BY DEF Tidy, Way, Place
<1>8. ASSUME NEW k \in 0 .. n - 1
      PROVE  /\ a[k].page = PageAt(v, x, a[k].ip, a[k].idx)
             /\ a[k].idx < UsedAt(v, x, a[k].ip)
  <2>1. a[k].page = PageAt(w, o, a[k].ip, a[k].idx) BY DEF Tidy, Way
  <2>2. CASE a[k].ip = Null
    <3>1. a[k].idx < n BY <1>1, <1>7, <2>2 DEF UsedAt
    <3>2. a[k].idx \in Local BY <1>1, <1>7, <3>1 DEF Local
    <3>3. a[k].page = o.first[a[k].idx] BY <2>1, <2>2, <3>2 DEF PageAt
    <3>4. x.first[a[k].idx] = o.first[a[k].idx] BY <1>1, <1>7, <3>1, <3>2
    <3>5. a[k].page = PageAt(v, x, a[k].ip, a[k].idx) BY <2>2, <3>2, <3>3, <3>4 DEF PageAt
    <3>6. a[k].idx < UsedAt(v, x, a[k].ip) BY <1>1, <1>7, <2>2, <3>1 DEF UsedAt
    <3> QED BY <3>5, <3>6
  <2>3. CASE a[k].ip # Null BY <1>2, <1>7, <2>1, <2>3 DEF PageAt, UsedAt
  <2> QED BY <2>2, <2>3
<1>9. ASSUME NEW k \in 0 .. n - 2 PROVE Follows(v, x, a[k], a[k + 1])
  <2>1. Follows(w, o, a[k], a[k + 1]) /\ k \in 0 .. n - 1 BY <1>1 DEF Tidy, Way
  <2>2. a[k].idx \in Nat BY <1>7, <2>1
  <2>3. CASE a[k].ip = Null
    <3>1. ~(a[k].idx + 1 >= o.used) BY <1>3, <2>1, <2>3 DEF Follows, UsedAt, NextAt
    <3> QED BY <1>1, <2>1, <2>2, <2>3, <3>1 DEF Follows, UsedAt
  <2>4. CASE a[k].ip # Null BY <1>2, <2>1, <2>4 DEF Follows, UsedAt, NextAt
  <2> QED BY <2>3, <2>4
<1>10. ASSUME n # 0 PROVE Follows(v, x, a[n - 1], z)
  <2>1. a[n - 1].ip = Null /\ a[n - 1].idx + 1 = n BY <1>1, <1>10 DEF Tidy, UsedAt
  <2>2. n - 1 \in 0 .. n - 1 BY <1>1, <1>10
  <2>3. a[n - 1].idx \in Nat BY <1>7, <2>2
  <2> QED BY <1>1, <1>4, <2>1, <2>3 DEF Follows, UsedAt
<1> QED BY <1>2, <1>4, <1>5, <1>6, <1>8, <1>9, <1>10, OnePlaceMore

\* So does one named in a new index page.
LEMMA NewIndexFollows ==
  ASSUME NEW w, NEW v, NEW o \in Object, NEW x, NEW p \in Pages, NEW q \in Pages,
         InNewIndex(w, v, o, x, p, q), NEW a, Tidy(w, o, a),
         OwnedIn(w, o) \subseteq Pages, q \notin OwnedIn(w, o), q \in OwnedIn(v, x),
         o.lip # Null => o.lip \in Pages /\ w.index[o.lip] \in Listing,
         x.cur = p, x.pageCnt = o.pageCnt + 1,
         OwnedIn(w, o) \subseteq OwnedIn(v, x), p \in OwnedIn(v, x) \ OwnedIn(w, o)
  PROVE  \E b : Lengthened(w, v, o, x, a, b)
<1> DEFINE n == o.pageCnt
           z == [ip |-> q, idx |-> 0, page |-> p]
<1>1. /\ n \in Nat /\ n # 0 /\ x.used = o.used /\ x.first = o.first /\ x.lip = q
      /\ p \in Page /\ q \in Page /\ q # Null
      /\ MaxAddressedByPage \in Nat \ {0}
  BY Sizes, PageAssumption DEF Object, InNewIndex, Page
<1>2. /\ x.next = (IF o.lip = Null THEN q ELSE o.next) /\ v.index[q] = IndexPage(1, p) /\ q # o.lip
      /\ \A r \in Pages : r # q /\ r # o.lip => v.index[r] = w.index[r]
      /\ o.lip # Null => v.index[o.lip] = [w.index[o.lip] EXCEPT !.next = q]
  BY DEF InNewIndex
<1>3. NextAt(w, o, o.lip) = Null BY DEF Tidy
<1>4. z \in Place /\ z.ip = q /\ z.idx = 0 /\ z.page = p BY <1>1 DEF Place
<1> HIDE DEF z
<1>5. p = PageAt(v, x, q, 0) /\ 0 + 1 = UsedAt(v, x, q) /\ NextAt(v, x, q) = Null
  BY <1>1, <1>2 DEF PageAt, UsedAt, NextAt, IndexPage
<1>6. o.lip # Null => /\ v.index[o.lip].used = w.index[o.lip].used
                      /\ v.index[o.lip].pages = w.index[o.lip].pages
                      /\ v.index[o.lip].next = q
  BY <1>2 DEF Listing
<1>7. ASSUME NEW r \in OwnedIn(w, o) \cup {Null}
      PROVE  /\ UsedAt(v, x, r) = UsedAt(w, o, r)
             /\ r # o.lip => NextAt(v, x, r) = NextAt(w, o, r)
             /\ r = o.lip => NextAt(v, x, r) = q
             /\ \A i : PageAt(v, x, r, i) = PageAt(w, o, r, i)
  <2>1. CASE r = Null BY <1>1, <1>2, <2>1 DEF UsedAt, NextAt, PageAt
  <2>2. CASE r # Null
    <3>1. r \in Pages /\ r # q BY <2>2
    <3> QED BY <1>2, <1>6, <2>2, <3>1 DEF UsedAt, NextAt, PageAt
  <2> QED BY <2>1, <2>2
<1>8. \A k \in 0 .. n - 1 : /\ a[k] \in Place /\ a[k].idx \in Nat
                            /\ a[k].ip \in OwnedIn(w, o) \cup {Null}
                            /\ a[k].idx < UsedAt(w, o, a[k].ip)
                            /\ a[k].page = PageAt(w, o, a[k].ip, a[k].idx)
  BY DEF Tidy, Way, Place
<1>9. \A k \in 0 .. n - 1 : /\ a[k].page = PageAt(v, x, a[k].ip, a[k].idx)
                            /\ a[k].idx < UsedAt(v, x, a[k].ip)
  BY <1>7, <1>8
<1>10. ASSUME NEW k \in 0 .. n - 2 PROVE Follows(v, x, a[k], a[k + 1])
  <2>1. Follows(w, o, a[k], a[k + 1]) /\ k \in 0 .. n - 1 BY <1>1 DEF Tidy, Way
  <2>2. a[k].ip = o.lip => ~(a[k].idx + 1 >= UsedAt(w, o, a[k].ip))
    BY <1>3, <2>1 DEF Follows
  <2> QED BY <1>7, <1>8, <2>1, <2>2 DEF Follows
<1>11. Follows(v, x, a[n - 1], z)
  <2>1. a[n - 1].ip = o.lip /\ a[n - 1].idx + 1 = UsedAt(w, o, o.lip) BY <1>1 DEF Tidy
  <2>2. n - 1 \in 0 .. n - 1 BY <1>1
  <2>3. a[n - 1].idx + 1 >= UsedAt(w, o, o.lip) BY <1>8, <2>1, <2>2
  <2> QED BY <1>1, <1>4, <1>7, <1>8, <2>1, <2>2, <2>3 DEF Follows
<1> QED BY <1>1, <1>4, <1>5, <1>9, <1>10, <1>11, OnePlaceMore

\* And one named behind the others in the last index page.
LEMMA LastIndexFollows ==
  ASSUME NEW w, NEW v, NEW o \in Object, NEW x, NEW p \in Pages,
         InLastIndex(w, v, o, x, p), NEW a, Tidy(w, o, a),
         OwnedIn(w, o) \subseteq Pages, o.lip \in OwnedIn(w, o), w.index[o.lip] \in Listing,
         x.cur = p, x.pageCnt = o.pageCnt + 1,
         OwnedIn(w, o) \subseteq OwnedIn(v, x), p \in OwnedIn(v, x) \ OwnedIn(w, o)
  PROVE  \E b : Lengthened(w, v, o, x, a, b)
<1> DEFINE n == o.pageCnt
           q == o.lip
           l == w.index[q]
           z == [ip |-> q, idx |-> l.used, page |-> p]
<1>1. /\ n \in Nat /\ n # 0 /\ x.used = o.used /\ x.first = o.first /\ x.next = o.next
      /\ x.lip = q /\ q \in Pages /\ p \in Page /\ q \in Page /\ q # Null
      /\ MaxAddressedByPage \in Nat \ {0}
  BY Sizes, PageAssumption DEF Object, InLastIndex, Page
<1>2. v.index[q] = NamedIn(l, p) /\ \A r \in Pages : r # q => v.index[r] = w.index[r]
  BY DEF InLastIndex
<1>3. NextAt(w, o, q) = Null BY DEF Tidy
<1>4. l.used \in 0 .. MaxAddressedByPage - 1 /\ l.pages \in [0 .. MaxAddressedByPage - 1 -> Page]
  BY <1>1 DEF Listing, InLastIndex
<1>5. z \in Place /\ z.ip = q /\ z.idx = l.used /\ z.page = p BY <1>1, <1>4 DEF Place
<1>6. /\ v.index[q].used = l.used + 1 /\ v.index[q].next = l.next
      /\ v.index[q].pages = [l.pages EXCEPT ![l.used] = p]
  BY <1>2 DEF NamedIn, Listing
<1> HIDE DEF z
<1>7. p = PageAt(v, x, q, l.used) /\ l.used + 1 = UsedAt(v, x, q) /\ NextAt(v, x, q) = Null
  <2>1. v.index[q].pages[l.used] = p BY <1>4, <1>6
  <2>2. l.used < MaxAddressedByPage BY <1>1, <1>4
  <2> HIDE DEF l, q
  <2> QED BY <1>1, <1>3, <1>6, <2>1, <2>2 DEF PageAt, UsedAt, NextAt, l
<1>8. ASSUME NEW r \in OwnedIn(w, o) \cup {Null}, r # q
      PROVE  /\ UsedAt(v, x, r) = UsedAt(w, o, r) /\ NextAt(v, x, r) = NextAt(w, o, r)
             /\ \A i : PageAt(v, x, r, i) = PageAt(w, o, r, i)
  BY <1>1, <1>2, <1>8 DEF UsedAt, NextAt, PageAt
<1>9. UsedAt(v, x, q) = UsedAt(w, o, q) + 1 /\ UsedAt(w, o, q) = l.used
  BY <1>1, <1>6 DEF UsedAt
<1>10. \A i \in Nat : i < l.used => PageAt(v, x, q, i) = PageAt(w, o, q, i)
  <2> HIDE DEF l, q
  <2> QED BY <1>1, <1>4, <1>6 DEF PageAt, l
<1>11. \A k \in 0 .. n - 1 : /\ a[k] \in Place /\ a[k].idx \in Nat
                             /\ a[k].ip \in OwnedIn(w, o) \cup {Null}
                             /\ a[k].idx < UsedAt(w, o, a[k].ip)
                             /\ a[k].page = PageAt(w, o, a[k].ip, a[k].idx)
  BY DEF Tidy, Way, Place
<1> HIDE DEF l, q
<1>12. ASSUME NEW k \in 0 .. n - 1
       PROVE  /\ a[k].page = PageAt(v, x, a[k].ip, a[k].idx)
              /\ a[k].idx < UsedAt(v, x, a[k].ip)
  <2>1. CASE a[k].ip = q BY <1>4, <1>9, <1>10, <1>11, <2>1
  <2>2. CASE a[k].ip # q BY <1>8, <1>11, <2>2
  <2> QED BY <2>1, <2>2
<1>13. ASSUME NEW k \in 0 .. n - 2 PROVE Follows(v, x, a[k], a[k + 1])
  <2>1. Follows(w, o, a[k], a[k + 1]) /\ k \in 0 .. n - 1 BY <1>1 DEF Tidy, Way
  <2>2. CASE a[k].ip = q
    <3>1. ~(a[k].idx + 1 >= UsedAt(w, o, q)) BY <1>3, <2>1, <2>2 DEF Follows
    <3>2. ~(a[k].idx + 1 >= UsedAt(v, x, q)) BY <1>4, <1>9, <1>11, <2>1, <3>1
    <3> QED BY <2>1, <2>2, <3>1, <3>2 DEF Follows
  <2>3. CASE a[k].ip # q BY <1>8, <1>11, <2>1, <2>3 DEF Follows
  <2> QED BY <2>2, <2>3
<1>14. Follows(v, x, a[n - 1], z)
  <2>1. a[n - 1].ip = q /\ a[n - 1].idx + 1 = l.used BY <1>1, <1>9 DEF Tidy, q
  <2>2. ~(a[n - 1].idx + 1 >= UsedAt(v, x, q)) BY <1>4, <1>9, <2>1
  <2> QED BY <1>5, <2>1, <2>2 DEF Follows
<1>15. z.ip \in OwnedIn(v, x) BY <1>5 DEF q
<1> QED BY <1>1, <1>5, <1>7, <1>12, <1>13, <1>14, <1>15, OnePlaceMore

\* implAddPage: one more place behind the others; a message used again after clear() stays one.
LEMMA AddPageFollows ==
  ASSUME NEW w, WorldInv(w), NEW m \in Msgs, HasPages(w, m), NEW v, v = AddPage(w, m),
         NEW o, o = w.obj[m], NEW x, x = v.obj[m]
  PROVE  /\ o.used >= Low(o) => x.used >= Low(x) /\ (Fresh(x) <=> Fresh(o))
         /\ Fresh(o) => \A a : Tidy(w, o, a) => \E b : Lengthened(w, v, o, x, a, b)
<1> DEFINE p == Taken(w)
           q == TakenToo(w)
<1>1. /\ WorldInv(v) /\ p \in w.free /\ p \in Pages
      /\ OwnedIn(v, x) = OwnedIn(w, o) \cup (w.free \ v.free)
      /\ v.free = w.free \ (IF IsFullUp(w, m) THEN {p, q} ELSE {p})
  BY AddPageApart
<1>2. /\ x.cur = p /\ x.pageCnt = o.pageCnt + 1
      /\ InHeader(w, v, o, x, p) \/ InNewIndex(w, v, o, x, p, q) \/ InLastIndex(w, v, o, x, p)
  BY AddPageDoes
<1>3. /\ m \in Holders /\ WorldType(w) /\ o \in Object /\ x \in Object /\ Listed(w, o)
      /\ OwnedIn(w, o) \subseteq Pages /\ w.index \in [Pages -> Listing]
  <2>1. m \in Holders /\ WorldType(w) BY DEF Holders, WorldInv
  <2>2. Listed(w, o) /\ Payload(w, o) \subseteq Pages BY <2>1 DEF WorldInv, Sound, Numbered
  <2>3. OwnedIn(w, o) \subseteq Pages BY <2>2, OwnedArePages
  <2> QED BY <1>1, <2>1, <2>2, <2>3, MsgIs DEF WorldType
<1>4. o.lip # Null => o.lip \in OwnedIn(w, o) /\ o.lip \in Pages BY <1>3, LastIsOwned
<1>5. OwnedIn(w, o) \cap w.free = {} BY <1>3 DEF WorldInv, Covered
<1>6. IsFullUp(w, m) => q \in w.free \ {p} /\ q \in Pages BY <1>3, TakenAreFree
<1> HIDE DEF p, q
<1>7. o.used \in Nat /\ o.pageCnt \in Nat /\ LocalStorageSize \in Nat \ {0}
  BY <1>3, Sizes DEF Object
<1>8. ASSUME o.used >= Low(o) PROVE x.used >= Low(x) /\ (Fresh(x) <=> Fresh(o))
  <2>1. CASE InHeader(w, v, o, x, p)
    BY <1>2, <1>7, <1>8, <2>1 DEF InHeader, Fresh, Low
  <2>2. CASE o.pageCnt >= LocalStorageSize /\ x.used = o.used
    BY <1>2, <1>7, <1>8, <2>2 DEF Fresh, Low
  <2> QED BY <1>2, <2>1, <2>2 DEF InNewIndex, InLastIndex
<1>9. ASSUME Fresh(o), NEW a, Tidy(w, o, a)
      PROVE  \E b : Lengthened(w, v, o, x, a, b)
  <2>1. /\ OwnedIn(w, o) \subseteq OwnedIn(v, x) /\ p \in OwnedIn(v, x) \ OwnedIn(w, o)
    BY <1>1, <1>5
  <2>2. CASE InHeader(w, v, o, x, p)
    <3>1. o.lip = Null
      <4>1. o.pageCnt <= LocalStorageSize BY <1>7, <2>2 DEF InHeader
      <4> QED BY <1>3, <4>1, NoIndexPages
    <3> QED BY <1>1, <1>2, <1>3, <1>9, <2>1, <2>2, <3>1, HeaderFollows
  <2>3. CASE InNewIndex(w, v, o, x, p, q)
    <3>1. q \in w.free /\ q \in Pages BY <1>3, <2>3 DEF InNewIndex, WorldType
    <3>2. q \notin OwnedIn(w, o) BY <1>5, <3>1
    <3>3. q \in OwnedIn(v, x)
      <4>1. x.lip = q BY <2>3 DEF InNewIndex
      <4>2. x.lip # Null BY <3>1, <4>1, PageAssumption
      <4>3. v.obj[m].lip \in OwnedIn(v, v.obj[m]) BY <1>1, <1>3, <4>2, LastIsOwned
      <4> QED BY <4>1, <4>3
    <3>4. o.lip # Null => o.lip \in Pages /\ w.index[o.lip] \in Listing BY <1>3, <1>4
    <3> QED BY <1>1, <1>2, <1>3, <1>9, <2>1, <2>3, <3>1, <3>2, <3>3, <3>4, NewIndexFollows
  <2>4. CASE InLastIndex(w, v, o, x, p)
    <3>1. o.lip \in OwnedIn(w, o) /\ w.index[o.lip] \in Listing
      BY <1>3, <1>4, <2>4 DEF InLastIndex
    <3> QED BY <1>1, <1>2, <1>3, <1>9, <2>1, <2>4, <3>1, LastIndexFollows
  <2> QED BY <1>2, <2>2, <2>3, <2>4
<1> QED BY <1>8, <1>9

\* A page taken when the last one is full, or when there is none.
LEMMA AddPageSteady ==
  ASSUME NEW w, WorldInv(w), NEW m \in Msgs, HasPages(w, m), NEW v, v = AddPage(w, m),
         NEW o, o = w.obj[m], NEW x, x = v.obj[m], Steady(w, o), o.cur = Null
  PROVE  /\ Steady(v, x) /\ x.cur # Null /\ x.totalSz = o.totalSz
         /\ x.totalSz = Base(x.pageCnt - 1) /\ x.pageCnt - 1 = o.pageCnt /\ o.pageCnt \in Nat
<1> DEFINE p == Taken(w)
<1>1. /\ WorldInv(v) /\ p \in w.free /\ p \in Pages
      /\ OwnedIn(v, x) = OwnedIn(w, o) \cup (w.free \ v.free)
      /\ v.free = w.free \ (IF IsFullUp(w, m) THEN {p, TakenToo(w)} ELSE {p})
  BY AddPageApart
<1>2. x.cur = p /\ x.pageCnt = o.pageCnt + 1 /\ x.totalSz = o.totalSz
  BY AddPageDoes
<1> HIDE DEF p
<1>3. o.pageCnt \in Nat BY MsgIs
<1>4. o.totalSz = Base(o.pageCnt) BY DEF Steady, Measured
<1>5. x.pageCnt - 1 = o.pageCnt /\ x.pageCnt # 0 BY <1>2, <1>3
<1>6. p # Null BY <1>1, PageAssumption
<1>7. Measured(x) BY <1>2, <1>3, <1>4, <1>5, <1>6, BaseIs, Sizes DEF Measured
<1>8. x.cur \in OwnedIn(v, x) BY <1>1, <1>2
<1>9. x.used >= Low(x) BY AddPageFollows DEF Steady
<1> QED BY <1>2, <1>3, <1>4, <1>5, <1>6, <1>7, <1>8, <1>9 DEF Steady

(***************************************************************************)
(* Appending                                                                *)
(***************************************************************************)
\* What it owns, too, while the index pages are what they were.
LEMMA OwnedSame ==
  ASSUME NEW w, NEW v, NEW o, NEW x, Listed(w, o), SameList(o, x), v.index = w.index
  PROVE  OwnedIn(v, x) = OwnedIn(w, o)
<1>1. \A q \in Linked(w, o.next) : v.index[q] = w.index[q] OBVIOUS
<1>2. /\ Linked(v, x.next) = Linked(w, o.next) /\ Payload(v, x) = Payload(w, o)
      /\ OwnedIn(v, x) = OwnedIn(w, o) /\ Listed(v, x)
  BY <1>1, SamePages
<1> QED BY <1>2

\* The pages are where they were while the list and the counts are what they were.
LEMMA TidySame ==
  ASSUME NEW w, NEW v, NEW o, NEW x, Listed(w, o), SameList(o, x), x.used = o.used,
         x.cur = o.cur \/ x.cur = Null, v.index = w.index, NEW a, Tidy(w, o, a)
  PROVE  Tidy(v, x, a) /\ OwnedIn(v, x) = OwnedIn(w, o)
<1>1. /\ Linked(v, x.next) = Linked(w, o.next) /\ Payload(v, x) = Payload(w, o)
      /\ OwnedIn(v, x) = OwnedIn(w, o) /\ Listed(v, x)
  BY SamePages
<1>2. \A q : /\ UsedAt(v, x, q) = UsedAt(w, o, q) /\ NextAt(v, x, q) = NextAt(w, o, q)
             /\ \A i : PageAt(v, x, q, i) = PageAt(w, o, q, i)
  BY DEF UsedAt, NextAt, PageAt, SameList
<1>3. x.pageCnt = o.pageCnt /\ x.lip = o.lip BY DEF SameList
<1>4. Way(v, x, a) BY <1>2, <1>3 DEF Tidy, Way, Follows
<1> QED BY <1>1, <1>2, <1>3, <1>4 DEF Tidy

\* Where the next byte goes.
Start(o) == IF o.cur = Null /\ o.totalSz = 0 THEN TotalReserved ELSE o.totalSz

\* The pages of m in w are the first ones in v.
Extended(w, v, m, a, b) ==
  /\ Tidy(v, v.obj[m], b) /\ w.obj[m].pageCnt <= v.obj[m].pageCnt
  /\ \A k \in 0 .. w.obj[m].pageCnt - 1 : b[k] = a[k]
Extends(w, v, m) ==
  /\ Fresh(v.obj[m]) <=> Fresh(w.obj[m])
  /\ Fresh(w.obj[m]) => \A a : Tidy(w, w.obj[m], a) => \E b : Extended(w, v, m, a, b)

\* With something to write and no page for it, there are pages to take.
LEMMA CreditIsPages ==
  ASSUME NEW w, WorldInv(w), NEW m \in Msgs, NEW r \in Nat \ {0}, Credit(w, m, r),
         w.obj[m].cur = Null
  PROVE  HasPages(w, m)
<1>1. PICK k \in Nat : \E j \in Nat : Enough(w, m, r, k, j) BY DEF Credit
<1>2. PICK j \in Nat : Enough(w, m, r, k, j) BY <1>1
<1>3. Room(w.obj[m]) <= 0 /\ Room(w.obj[m]) \in Int BY Sizes DEF Room
<1>4. k >= 1
  <2>1. k # 0 BY <1>2, <1>3, Sizes DEF Enough
  <2> QED BY <2>1
<1> DEFINE v == AddPage(w, m)
<1>5. v = AddPage(w, m) OBVIOUS
<1> HIDE DEF v
<1> QED BY <1>2, <1>4, <1>5, OneMorePage DEF Enough

\* The page to write to is the last one.
LEMMA PageToWriteDoes ==
  ASSUME NEW w, WorldInv(w), NEW m \in Msgs, NEW r \in Nat \ {0}, Credit(w, m, r),
         NEW v, v = PageToWrite(w, m), NEW o, o = w.obj[m], NEW x, x = v.obj[m], Steady(w, o)
  PROVE  /\ Apart(w, v, m) /\ v.data = w.data /\ Steady(v, x) /\ Extends(w, v, m)
         /\ x.cur # Null /\ x.totalSz = Start(o)
<1>1. m \in Holders /\ o.pageCnt \in Nat /\ o \in Object BY MsgIs
<1>2. CASE o.cur # Null
  <2>1. v = w BY <1>2 DEF PageToWrite
  <2>2. \A a : Tidy(w, o, a) => Extended(w, v, m, a, a) BY <1>1, <2>1 DEF Extended
  <2>3. Extends(w, v, m) BY <2>1, <2>2 DEF Extends
  <2> QED BY <1>2, <2>1, <2>3 DEF Apart, Start
<1> DEFINE u == AddPage(w, m)
           y == u.obj[m]
<1>3. ASSUME o.cur = Null
      PROVE  /\ WorldInv(u) /\ Apart(w, u, m) /\ u.data = w.data /\ Steady(u, y) /\ Extends(w, u, m)
             /\ y.cur # Null /\ y.totalSz = o.totalSz
             /\ y.totalSz = Base(y.pageCnt - 1) /\ y.pageCnt - 1 \in Nat
  <2>1. HasPages(w, m) BY <1>3, CreditIsPages
  <2>2. u = AddPage(w, m) /\ y = u.obj[m] OBVIOUS
  <2> HIDE DEF u, y
  <2>3. WorldInv(u) /\ Apart(w, u, m) /\ u.data = w.data BY <2>1, <2>2, AddPageApart
  <2>4. /\ Steady(u, y) /\ y.cur # Null /\ y.totalSz = o.totalSz
        /\ y.totalSz = Base(y.pageCnt - 1) /\ y.pageCnt - 1 = o.pageCnt
    BY <1>3, <2>1, <2>2, AddPageSteady
  <2>5. /\ Fresh(y) <=> Fresh(o)
        /\ Fresh(o) => \A a : Tidy(w, o, a) => \E b : Lengthened(w, u, o, y, a, b)
    BY <2>1, <2>2, AddPageFollows DEF Steady
  <2>6. \A a, b : Lengthened(w, u, o, y, a, b) => Extended(w, u, m, a, b)
    BY <1>1, <2>2 DEF Lengthened, Extended
  <2>7. Extends(w, u, m) BY <2>2, <2>5, <2>6 DEF Extends
  <2> QED BY <1>1, <2>3, <2>4, <2>7
<1>4. CASE o.cur = Null /\ o.totalSz # 0
  <2>1. v = u BY <1>4 DEF PageToWrite
  <2> HIDE DEF u
  <2> QED BY <1>3, <1>4, <2>1 DEF Start
<1>5. CASE o.cur = Null /\ o.totalSz = 0
  <2> DEFINE z == [y EXCEPT !.totalSz = @ + TotalReserved]
  <2>1. v = [u EXCEPT !.obj = [@ EXCEPT ![m] = z]] BY <1>5 DEF PageToWrite, Reserve
  <2>2. /\ WorldInv(u) /\ Apart(w, u, m) /\ u.data = w.data /\ Steady(u, y) /\ Extends(w, u, m)
        /\ y.cur # Null /\ y.totalSz = 0
        /\ y.totalSz = Base(y.pageCnt - 1) /\ y.pageCnt - 1 \in Nat
    BY <1>3, <1>5
  <2> HIDE DEF u
  <2>3. y \in Object /\ Listed(u, y) /\ u.obj \in [Holders -> Object]
    BY <1>1, <2>2, MsgIs DEF WorldInv, Sound, WorldType
  <2>4. /\ z \in Object /\ SameList(y, z) /\ z.used = y.used /\ z.cur = y.cur
        /\ z.totalSz = TotalReserved
    BY <2>2, <2>3, Sizes DEF Object, SameList
  <2> HIDE DEF y, z
  <2>5. /\ v.index = u.index /\ v.data = u.data /\ x = z
        /\ \A h \in Holders : h # m => v.obj[h] = u.obj[h]
    BY <1>1, <2>1, <2>2, <2>3 DEF WorldInv, WorldType
  <2>6. Apart(w, v, m) BY <2>2, <2>5 DEF Apart
  <2>7. OwnedIn(v, x) = OwnedIn(u, y) BY <2>3, <2>4, <2>5, OwnedSame
  <2>8. Steady(v, x)
    <3>1. x.pageCnt = y.pageCnt BY <2>4, <2>5 DEF SameList
    <3>2. Measured(x)
      <4>1. Base(x.pageCnt - 1) = 0 BY <2>2, <3>1
      <4>2. x.pageCnt # 0 /\ x.cur # Null
        <5>1. x.pageCnt - 1 \in Nat /\ x.pageCnt \in Int BY <2>2, <2>3, <3>1 DEF Object
        <5> QED BY <2>2, <2>4, <2>5, <5>1
      <4>3. x.totalSz \in 0 .. 0 + PageSize - 1 BY <2>4, <2>5, Sizes
      <4> QED BY <4>1, <4>2, <4>3 DEF Measured
    <3>3. x.used >= Low(x) BY <2>2, <2>4, <2>5, <3>1 DEF Steady, Low
    <3> QED BY <2>2, <2>4, <2>5, <2>7, <3>2, <3>3 DEF Steady
  <2>9. Extends(w, v, m)
    <3>1. x.pageCnt = y.pageCnt BY <2>4, <2>5 DEF SameList
    <3>2. Fresh(x) <=> Fresh(y) BY <2>4, <2>5, <3>1 DEF Fresh, Low
    <3>3. \A b : Tidy(u, y, b) => Tidy(v, x, b)
      BY <2>3, <2>4, <2>5, TidySame
    <3>4. \A a, b : Extended(w, u, m, a, b) => Extended(w, v, m, a, b)
      BY <3>1, <3>3 DEF Extended, y
    <3> QED BY <2>2, <3>2, <3>4 DEF Extends, y
  <2> QED BY <1>5, <2>2, <2>4, <2>5, <2>6, <2>8, <2>9 DEF Start
<1> QED BY <1>2, <1>4, <1>5

\* Before where the next byte goes nothing changed; from there on s was written.
Written(w, v, m, a, b, s) ==
  LET o == w.obj[m]
      x == v.obj[m]
  IN
  /\ \A k \in 0 .. o.pageCnt - 1, i \in Cells : Base(k) + i < o.totalSz =>
       v.data[a[k].page][i] = w.data[a[k].page][i]
  /\ \A k \in 0 .. x.pageCnt - 1, i \in Cells :
       Start(o) <= Base(k) + i /\ Base(k) + i < x.totalSz =>
         v.data[b[k].page][i] = s[Base(k) + i - Start(o) + 1]

\* The first d bytes of s were appended to m.
Puts(w, v, m, s, d) ==
  LET o == w.obj[m]
      x == v.obj[m]
  IN
  /\ Apart(w, v, m) /\ DataType(v) /\ Steady(v, x)
  /\ x.totalSz = Start(o) + d
  /\ Fresh(x) <=> Fresh(o)
  /\ Fresh(o) => \A a : Tidy(w, o, a) => \E b : Extended(w, v, m, a, b) /\ Written(w, v, m, a, b, s)

\* Where in the current page the next byte goes.
LEMMA CurrentPage ==
  ASSUME NEW w, NEW o \in Object, Steady(w, o), o.cur # Null
  PROVE  \E e \in Nat : \E off \in Cells :
           /\ o.pageCnt = e + 1 /\ o.totalSz = Base(e) + off
           /\ OffsetInCurrentPage(o) = off /\ RemainingSizeInCurrentPage(o) = PageSize - off
<1> DEFINE e == o.pageCnt - 1
           off == o.totalSz - Base(e)
<1>1. o.pageCnt # 0 /\ o.totalSz \in Base(e) .. Base(e) + PageSize - 1 BY DEF Steady, Measured
<1>2. e \in Nat /\ o.pageCnt = e + 1 /\ o.totalSz \in Nat BY <1>1 DEF Object
<1> HIDE DEF e
<1>3. Base(e) \in Nat /\ PageSize \in Nat BY <1>2, BaseIs, Sizes
<1>4. off \in Cells /\ o.totalSz = Base(e) + off BY <1>1, <1>2, <1>3 DEF Cells
<1> HIDE DEF off
<1>5. (Base(e) + off) % PageSize = off BY <1>2, <1>4, BaseIs
<1> QED BY <1>2, <1>4, <1>5 DEF OffsetInCurrentPage, RemainingSizeInCurrentPage

\* c is after a first part of s was appended, to the end of s or of a page.
PutSome(w, m, s, c) ==
  \E n \in 1 .. Len(s) :
    /\ c.s = SubSeq(s, n + 1, Len(s)) /\ Puts(w, c.w, m, s, n)
    /\ n = Len(s) \/ c.w.obj[m].cur = Null
    /\ w.obj[m].cur = Null /\ w.obj[m].totalSz # 0 => n = Len(s) \/ n = PageSize

\* One round of append.
LEMMA PutChunkDoes ==
  ASSUME NEW w, WorldInv(w), DataType(w), NEW m \in Msgs, Steady(w, w.obj[m]),
         NEW S, NEW s \in Seq(S), s # <<>>, Credit(w, m, Len(s)), NEW c, c = PutChunk(w, m, s)
  PROVE  PutSome(w, m, s, c)
<1> DEFINE o == w.obj[m]
           v == PageToWrite(w, m)
           y == v.obj[m]
           room == RemainingSizeInCurrentPage(y)
           n == Min({Len(s), room})
           x == [y EXCEPT !.totalSz = @ + n, !.cur = IF n = room THEN Null ELSE @]
<1>1. Len(s) \in Nat \ {0} OBVIOUS
<1>2. /\ Apart(w, v, m) /\ v.data = w.data /\ Steady(v, y) /\ Extends(w, v, m)
      /\ y.cur # Null /\ y.totalSz = Start(o) /\ WorldInv(v)
  <2> HIDE DEF v
  <2>1. v = PageToWrite(w, m) BY DEF v
  <2>2. WorldInv(v) BY <1>1, <2>1, PageToWriteKeeps
  <2> QED BY <1>1, <2>1, <2>2, PageToWriteDoes
<1>3. /\ y \in Object /\ m \in Holders /\ Listed(v, y) /\ Payload(v, y) \subseteq Pages
      /\ WorldType(v) /\ o.pageCnt \in Nat /\ o.totalSz \in Nat
  <2> HIDE DEF v
  <2>1. m \in Holders /\ y \in Object /\ o \in Object BY <1>2, MsgIs
  <2> QED BY <1>2, <2>1 DEF WorldInv, Sound, Numbered, Object
<1> HIDE DEF v
<1>4. PICK e \in Nat : \E off \in Cells :
        /\ y.pageCnt = e + 1 /\ y.totalSz = Base(e) + off
        /\ OffsetInCurrentPage(y) = off /\ room = PageSize - off
  <2> HIDE DEF y
  <2> QED BY <1>2, <1>3, CurrentPage
<1>5. PICK off \in Cells :
        /\ y.pageCnt = e + 1 /\ y.totalSz = Base(e) + off
        /\ OffsetInCurrentPage(y) = off /\ room = PageSize - off
  BY <1>4
<1> DEFINE cells == [i \in Cells |->
                       IF i \in off .. off + n - 1 THEN s[i - off + 1] ELSE v.data[y.cur][i]]
           da == [v.data EXCEPT ![y.cur] = cells]
           u == c.w
<1>6. u = [v EXCEPT !.obj = [@ EXCEPT ![m] = x], !.data = da] /\ c.s = SubSeq(s, n + 1, Len(s))
  BY <1>5 DEF PutChunk, v
<1>7. /\ PageSize \in Nat \ {0} /\ off \in 0 .. PageSize - 1 /\ Base(e) \in Nat
      /\ Base(e + 1) = Base(e) + PageSize
  BY BaseIs, Sizes DEF Cells
<1> HIDE DEF room
<1>8. n \in 1 .. Len(s) /\ n \in 1 .. room /\ (n = Len(s) \/ n = room) /\ room \in 1 .. PageSize
  <2>1. room \in 1 .. PageSize BY <1>5, <1>7
  <2>2. n = IF Len(s) <= room THEN Len(s) ELSE room BY <1>1, <2>1, MinOfTwo
  <2> HIDE DEF n
  <2> QED BY <1>1, <2>1, <2>2
<1> HIDE DEF n
<1>9. /\ SameList(y, x) /\ x.used = y.used /\ x.totalSz = y.totalSz + n /\ x.pageCnt = y.pageCnt
      /\ x.cur = IF n = room THEN Null ELSE y.cur
  BY <1>3 DEF Object, SameList
<1> HIDE DEF x, y, cells
<1>10. y.cur \in OwnedIn(v, y) /\ OwnedIn(v, y) \subseteq Pages
  <2>1. OwnedIn(v, y) \subseteq Pages BY <1>3, OwnedArePages
  <2> QED BY <1>2, <2>1 DEF Steady
<1>11. /\ da = [p \in Pages |-> da[p]] /\ da[y.cur] = cells
       /\ \A r \in Pages : r # y.cur => da[r] = v.data[r]
  BY <1>2, <1>10 DEF DataType
<1> HIDE DEF da
<1>12. /\ u.obj[m] = x /\ u.index = v.index /\ u.data = da
       /\ \A h \in Holders : h # m => u.obj[h] = v.obj[h]
  BY <1>3, <1>6 DEF WorldType
<1> HIDE DEF u
<1>13. Apart(w, u, m)
  <2>1. ASSUME NEW h \in Holders, h # m, NEW r \in OwnedIn(v, v.obj[h])
        PROVE  u.data[r] = v.data[r]
    <3>1. OwnedIn(v, v.obj[h]) \subseteq Pages
      BY <1>2, OwnedArePages DEF WorldInv, Sound, Numbered
    <3>2. r # y.cur BY <1>2, <1>3, <1>10, <2>1 DEF WorldInv, Separate, y
    <3> QED BY <1>11, <1>12, <3>1, <3>2
  <2>2. Apart(v, u, m) BY <1>12, <2>1 DEF Apart
  <2> QED BY <1>2, <2>2, ApartTwice
<1>14. DataType(u) BY <1>11, <1>12 DEF DataType
<1>15. x.totalSz = Base(e) + off + n BY <1>5, <1>9
<1>16. Steady(u, x)
  <2>1. OwnedIn(u, x) = OwnedIn(v, y) BY <1>3, <1>9, <1>12, OwnedSame
  <2>2. Measured(x)
    <3>1. x.pageCnt = e + 1 /\ x.pageCnt - 1 = e /\ x.pageCnt # 0 BY <1>5, <1>9
    <3>2. CASE n = room
      <4>1. x.cur = Null BY <1>9, <3>2
      <4>2. x.totalSz = Base(e + 1) BY <1>5, <1>7, <1>15, <3>2
      <4> QED BY <3>1, <4>1, <4>2 DEF Measured
    <3>3. CASE n # room
      <4>1. x.cur # Null BY <1>2, <1>9, <3>3
      <4>2. x.totalSz \in Base(e) .. Base(e) + PageSize - 1 BY <1>5, <1>7, <1>8, <1>15, <3>3
      <4> QED BY <3>1, <4>1, <4>2 DEF Measured
    <3> QED BY <3>2, <3>3
  <2>3. x.used >= Low(x) BY <1>2, <1>9 DEF Steady, Low
  <2> QED BY <1>2, <1>9, <2>1, <2>2, <2>3 DEF Steady
<1>17. Fresh(x) <=> Fresh(o)
  <2>1. Fresh(y) <=> Fresh(o) BY <1>2 DEF Extends, y
  <2> QED BY <1>9, <2>1 DEF Fresh, Low
<1>18. ASSUME Fresh(o), NEW a, Tidy(w, o, a)
       PROVE  \E b : Extended(w, u, m, a, b) /\ Written(w, u, m, a, b, s)
  <2>1. PICK b : Extended(w, v, m, a, b) BY <1>2, <1>18 DEF Extends
  <2>2. /\ Tidy(v, y, b) /\ o.pageCnt <= y.pageCnt
        /\ \A k \in 0 .. o.pageCnt - 1 : b[k] = a[k]
    BY <2>1 DEF Extended, y
  <2>3. Tidy(u, x, b)
    <3>1. x.cur = y.cur \/ x.cur = Null BY <1>9
    <3> QED BY <1>3, <1>9, <1>12, <2>2, <3>1, TidySame
  <2>4. Extended(w, u, m, a, b) BY <1>9, <1>12, <2>2, <2>3 DEF Extended
  <2>5. y.pageCnt - 1 = e /\ e \in 0 .. e /\ y.pageCnt - 1 \in 0 .. y.pageCnt - 1 BY <1>5
  <2>6. y.cur = b[e].page BY <1>2, <2>2, <2>5 DEF Tidy
  <2>7. ASSUME NEW k \in 0 .. e
        PROVE  /\ b[k].page \in Pages
               /\ b[k].page = y.cur => k = e
               /\ k # e => u.data[b[k].page] = v.data[b[k].page]
    <3>1. b[k].page \in OwnedIn(v, y) BY <2>2, <2>5 DEF Tidy
    <3>2. b[k].page = b[e].page => k = e BY <2>2, <2>5 DEF Tidy
    <3> QED BY <1>10, <1>11, <1>12, <2>6, <3>1, <3>2
  <2>8. u.data[b[e].page] = cells BY <1>11, <1>12, <2>6
  <2>9. ASSUME NEW k \in 0 .. o.pageCnt - 1, NEW i \in Cells, Base(k) + i < o.totalSz
        PROVE  u.data[a[k].page][i] = w.data[a[k].page][i]
    <3>1. k \in 0 .. e /\ a[k] = b[k] /\ k \in Nat BY <1>3, <1>5, <2>2
    <3>2. CASE k # e BY <1>2, <2>7, <3>1, <3>2
    <3>3. CASE k = e
      <4>1. o.totalSz <= y.totalSz BY <1>2, <1>3, Sizes DEF Start
      <4>2. i < off
        <5>1. i \in Int BY DEF Cells
        <5> QED BY <1>3, <1>5, <1>7, <2>9, <3>3, <4>1, <5>1
      <4>3. i \notin off .. off + n - 1 BY <1>7, <4>2
      <4>4. cells[i] = v.data[y.cur][i] BY <4>3 DEF cells
      <4> QED BY <1>2, <2>6, <2>8, <3>1, <3>3, <4>4
    <3> QED BY <3>2, <3>3
  <2>10. ASSUME NEW k \in 0 .. x.pageCnt - 1, NEW i \in Cells,
                Start(o) <= Base(k) + i, Base(k) + i < x.totalSz
         PROVE  u.data[b[k].page][i] = s[Base(k) + i - Start(o) + 1]
    <3>1. k \in 0 .. e /\ k \in Nat BY <1>5, <1>9
    <3>2. Start(o) = Base(e) + off BY <1>2, <1>5
    <3>3. i \in 0 .. PageSize - 1 /\ Base(k) \in Nat BY <3>1, BaseIs DEF Cells
    <3>4. k = e
      <4>1. k < e => Base(k) + PageSize <= Base(e) BY <3>1, BaseIs
      <4> QED BY <1>7, <2>10, <3>1, <3>2, <3>3, <4>1
    <3>5. i \in off .. off + n - 1
      <4>1. Base(e) + off <= Base(e) + i /\ Base(e) + i < Base(e) + off + n
        BY <1>15, <2>10, <3>2, <3>4
      <4>2. i \in Int /\ n \in Int /\ off \in Int /\ Base(e) \in Int BY <1>7, <1>8, <3>3
      <4> QED BY <4>1, <4>2
    <3>6. cells[i] = s[i - off + 1] BY <3>5 DEF cells
    <3>7. Base(k) + i - Start(o) + 1 = i - off + 1 BY <1>7, <3>2, <3>3, <3>4
    <3> QED BY <2>8, <3>4, <3>6, <3>7
  <2>11. Written(w, u, m, a, b, s) BY <1>12, <2>9, <2>10 DEF Written
  <2> QED BY <2>4, <2>11
<1>19. Puts(w, u, m, s, n)
  <2>1. x.totalSz = Start(o) + n BY <1>2, <1>9
  <2> QED BY <1>12, <1>13, <1>14, <1>16, <1>17, <1>18, <2>1 DEF Puts
<1>20. n = Len(s) \/ x.cur = Null BY <1>8, <1>9
<1>21. o.cur = Null /\ o.totalSz # 0 => n = Len(s) \/ n = PageSize
  <2> SUFFICES ASSUME o.cur = Null, o.totalSz # 0 PROVE room = PageSize
    BY <1>8
  <2>1. o.totalSz = Base(o.pageCnt) BY DEF Steady, Measured
  <2>2. Base(o.pageCnt) + 0 = Base(e) + off /\ 0 \in Cells
    BY <1>2, <1>5, <1>7, <2>1, <1>3, BaseIs DEF Start, Cells
  <2>3. off = 0 BY <1>3, <2>2, OnePlace
  <2> QED BY <1>5, <1>7, <2>3
<1>22. /\ c.s = SubSeq(s, n + 1, Len(s)) /\ Puts(w, c.w, m, s, n)
       /\ n = Len(s) \/ c.w.obj[m].cur = Null
       /\ w.obj[m].cur = Null /\ w.obj[m].totalSz # 0 => n = Len(s) \/ n = PageSize
  BY <1>6, <1>12, <1>19, <1>20, <1>21 DEF u
<1> QED BY <1>8, <1>22 DEF PutSome

\* Numbers of a byte.
LEMMA ByteIs ==
  ASSUME NEW n \in Int, NEW k \in 0 .. n, NEW i \in Cells
  PROVE  k \in Nat /\ Base(k) \in Nat /\ i \in Nat
<1>1. k \in Nat OBVIOUS
<1>2. Base(k) \in Nat BY <1>1, BaseIs
<1>3. i \in Nat BY Sizes DEF Cells
<1> QED BY <1>1, <1>2, <1>3

\* The pages are enough for the content.
LEMMA Fits ==
  ASSUME NEW o \in Object, Measured(o)
  PROVE  o.totalSz <= Base(o.pageCnt) /\ Base(o.pageCnt) \in Nat
<1>1. o.pageCnt \in Nat /\ o.totalSz \in Nat BY DEF Object
<1>2. Base(o.pageCnt) \in Nat /\ PageSize \in Nat BY <1>1, BaseIs, Sizes
<1>3. CASE o.cur = Null BY <1>2, <1>3 DEF Measured
<1>4. CASE o.cur # Null
  <2> DEFINE e == o.pageCnt - 1
  <2>1. o.totalSz \in Base(e) .. Base(e) + PageSize - 1 /\ o.pageCnt # 0
    BY <1>4 DEF Measured
  <2>2. e \in Nat /\ e + 1 = o.pageCnt BY <1>1, <2>1
  <2>3. Base(e) \in Nat /\ Base(e + 1) = Base(e) + PageSize BY <2>2, BaseIs
  <2> HIDE DEF e
  <2> QED BY <1>1, <1>2, <2>1, <2>2, <2>3
<1> QED BY <1>2, <1>3, <1>4

\* What is before the end of the content is in one of the pages.
LEMMA WithinPages ==
  ASSUME NEW o \in Object, Measured(o), NEW k \in Nat, NEW i \in Cells, Base(k) + i < o.totalSz
  PROVE  k \in 0 .. o.pageCnt - 1
<1>1. o.pageCnt \in Nat /\ o.totalSz \in Nat BY DEF Object
<1>2. /\ Base(k) \in Nat /\ Base(o.pageCnt) \in Nat /\ i \in 0 .. PageSize - 1 /\ PageSize \in Nat
  BY <1>1, BaseIs, Sizes DEF Cells
<1>3. o.totalSz <= Base(o.pageCnt) BY Fits
<1>4. k # o.pageCnt /\ ~(o.pageCnt < k)
  <2>1. o.pageCnt < k => Base(o.pageCnt) + PageSize <= Base(k) BY <1>1, BaseIs
  <2>2. Base(k) < Base(o.pageCnt) BY <1>1, <1>2, <1>3
  <2> QED BY <1>1, <1>2, <2>1, <2>2
<1> QED BY <1>1, <1>4

\* It does not matter what the bytes behind them are.
LEMMA PutsSame ==
  ASSUME NEW w, NEW v, NEW m, NEW s, NEW d \in Nat, Puts(w, v, m, s, d),
         w.obj[m] \in Object, v.obj[m] \in Object,
         NEW x, \A j \in 1 .. d : x[j] = s[j]
  PROVE  Puts(w, v, m, x, d)
<1> DEFINE o == w.obj[m]
           z == v.obj[m]
<1>1. Start(o) \in Nat /\ z.totalSz = Start(o) + d BY Sizes DEF Puts, Start, Object
<1>2. ASSUME NEW a, NEW b, Written(w, v, m, a, b, s) PROVE Written(w, v, m, a, b, x)
  <2>1. ASSUME NEW k \in 0 .. z.pageCnt - 1, NEW i \in Cells,
               Start(o) <= Base(k) + i, Base(k) + i < z.totalSz
        PROVE  v.data[b[k].page][i] = x[Base(k) + i - Start(o) + 1]
    <3> DEFINE j == Base(k) + i - Start(o) + 1
    <3>1. v.data[b[k].page][i] = s[j] BY <1>2, <2>1 DEF Written
    <3>2. Base(k) \in Nat /\ i \in Int
      <4>1. z.pageCnt - 1 \in Int BY DEF Object
      <4> QED BY <4>1, ByteIs
    <3>3. j \in 1 .. d BY <1>1, <2>1, <3>2
    <3> QED BY <3>1, <3>3
  <2> QED BY <1>2, <2>1 DEF Written
<1> QED BY <1>2 DEF Puts

\* What was appended in two steps was appended.
LEMMA PutsOn ==
  ASSUME NEW w, WorldInv(w), NEW u, WorldInv(u), NEW v, WorldInv(v), NEW m \in Msgs,
         NEW s, NEW d \in Nat \ {0}, Puts(w, u, m, s, d),
         NEW e, NEW c \in Nat, Puts(u, v, m, e, c),
         NEW x, \A j \in 1 .. d : x[j] = s[j], \A j \in 1 .. c : x[d + j] = e[j]
  PROVE  Puts(w, v, m, x, d + c)
<1> DEFINE o == w.obj[m]
           y == u.obj[m]
           z == v.obj[m]
<1>1. /\ o \in Object /\ y \in Object /\ z \in Object /\ m \in Holders
      /\ o.totalSz \in Nat /\ y.totalSz \in Nat /\ z.totalSz \in Nat
      /\ o.pageCnt \in Nat /\ y.pageCnt \in Nat /\ z.pageCnt \in Nat
  BY MsgIs
<1>2. Apart(w, v, m) BY ApartTwice DEF Puts
<1>3. /\ Start(o) \in Nat /\ o.totalSz <= Start(o) /\ y.totalSz = Start(o) + d
      /\ Start(y) = y.totalSz /\ z.totalSz = y.totalSz + c
  <2>1. Start(o) \in Nat /\ o.totalSz <= Start(o) BY <1>1, Sizes DEF Start
  <2>2. y.totalSz = Start(o) + d BY DEF Puts
  <2>3. y.totalSz # 0 BY <2>1, <2>2
  <2>4. Start(y) = y.totalSz BY <2>3 DEF Start
  <2> QED BY <2>1, <2>2, <2>4 DEF Puts
<1>4. Fresh(z) <=> Fresh(o) BY DEF Puts
<1>5. ASSUME Fresh(o), NEW a, Tidy(w, o, a)
      PROVE  \E g : Extended(w, v, m, a, g) /\ Written(w, v, m, a, g, x)
  <2>1. PICK b : Extended(w, u, m, a, b) /\ Written(w, u, m, a, b, s) BY <1>5 DEF Puts
  <2>2. Tidy(u, y, b) /\ Fresh(y) BY <1>5, <2>1 DEF Extended, Puts
  <2>3. PICK g : Extended(u, v, m, b, g) /\ Written(u, v, m, b, g, e) BY <2>2 DEF Puts
  <2>4. /\ o.pageCnt <= y.pageCnt /\ y.pageCnt <= z.pageCnt /\ Tidy(v, z, g)
        /\ \A k \in 0 .. o.pageCnt - 1 : b[k] = a[k]
        /\ \A k \in 0 .. y.pageCnt - 1 : g[k] = b[k]
    BY <2>1, <2>3 DEF Extended
  <2>5. \A k \in 0 .. o.pageCnt - 1 : k \in 0 .. y.pageCnt - 1 BY <1>1, <2>4
  <2>6. Extended(w, v, m, a, g)
    <3>1. o.pageCnt <= z.pageCnt BY <1>1, <2>4
    <3> QED BY <2>4, <2>5, <3>1 DEF Extended
  <2>7. ASSUME NEW k \in 0 .. y.pageCnt - 1, NEW i \in Cells, Base(k) + i < y.totalSz
        PROVE  v.data[b[k].page][i] = u.data[b[k].page][i]
    BY <2>3, <2>7 DEF Written
  <2>8. ASSUME NEW k \in 0 .. o.pageCnt - 1, NEW i \in Cells, Base(k) + i < o.totalSz
        PROVE  v.data[a[k].page][i] = w.data[a[k].page][i]
    <3>1. u.data[a[k].page][i] = w.data[a[k].page][i] BY <2>1, <2>8 DEF Written
    <3>2. Base(k) \in Nat /\ i \in Nat
      <4>1. o.pageCnt - 1 \in Int BY <1>1
      <4> QED BY <4>1, ByteIs
    <3>3. Base(k) + i < y.totalSz BY <1>1, <1>3, <2>8, <3>2
    <3> QED BY <2>4, <2>5, <2>7, <3>1, <3>3
  <2>9. ASSUME NEW k \in 0 .. z.pageCnt - 1, NEW i \in Cells,
               Start(o) <= Base(k) + i, Base(k) + i < z.totalSz
        PROVE  v.data[g[k].page][i] = x[Base(k) + i - Start(o) + 1]
    <3>1. k \in Nat /\ Base(k) \in Nat /\ i \in Nat
      <4>1. z.pageCnt - 1 \in Int BY <1>1
      <4> QED BY <4>1, ByteIs
    <3>2. CASE Base(k) + i < y.totalSz
      <4>1. k \in 0 .. y.pageCnt - 1 BY <1>1, <3>1, <3>2, WithinPages DEF Puts, Steady
      <4>2. u.data[b[k].page][i] = s[Base(k) + i - Start(o) + 1]
        BY <2>1, <2>9, <3>2, <4>1 DEF Written
      <4>3. Base(k) + i - Start(o) + 1 \in 1 .. d BY <1>3, <2>9, <3>1, <3>2
      <4> QED BY <2>4, <2>7, <3>2, <4>1, <4>2, <4>3
    <3>3. CASE ~(Base(k) + i < y.totalSz)
      <4> DEFINE j == Base(k) + i - Start(y) + 1
      <4>1. Start(y) <= Base(k) + i BY <1>1, <1>3, <3>1, <3>3
      <4>2. v.data[g[k].page][i] = e[j] BY <2>3, <2>9, <4>1 DEF Written
      <4>3. j \in 1 .. c /\ d + j = Base(k) + i - Start(o) + 1
        BY <1>1, <1>3, <2>9, <3>1, <4>1
      <4> HIDE DEF j
      <4> QED BY <4>2, <4>3
    <3> QED BY <3>2, <3>3
  <2>10. Written(w, v, m, a, g, x) BY <2>8, <2>9 DEF Written
  <2> QED BY <2>6, <2>10
<1>6. z.totalSz = Start(o) + (d + c) BY <1>3
<1> QED BY <1>2, <1>4, <1>5, <1>6 DEF Puts

\* d bytes of s were appended, or none yet.
PutSoFar(w, u, m, s, d) == IF d = 0 THEN u = w ELSE Puts(w, u, m, s, d)

\* And then more.
LEMMA PutSoFarOn ==
  ASSUME NEW w, WorldInv(w), NEW u, WorldInv(u), NEW v, WorldInv(v), NEW m \in Msgs,
         NEW s, NEW d \in Nat, PutSoFar(w, u, m, s, d),
         NEW e, NEW c \in Nat, Puts(u, v, m, e, c),
         NEW x, \A j \in 1 .. d : x[j] = s[j], \A j \in 1 .. c : x[d + j] = e[j]
  PROVE  Puts(w, v, m, x, d + c)
<1>1. CASE d = 0
  <2>1. Puts(w, v, m, e, c) BY <1>1 DEF PutSoFar
  <2>2. \A j \in 1 .. c : x[j] = e[j]
    <3>1. \A j \in 1 .. c : d + j = j BY <1>1
    <3> QED BY <3>1
  <2>3. w.obj[m] \in Object /\ v.obj[m] \in Object BY MsgIs
  <2>4. Puts(w, v, m, x, c) BY <2>1, <2>2, <2>3, PutsSame
  <2>5. d + c = c BY <1>1
  <2> QED BY <2>4, <2>5
<1>2. CASE d # 0
  <2>1. d \in Nat \ {0} /\ Puts(w, u, m, s, d) BY <1>2 DEF PutSoFar
  <2> QED BY <2>1, PutsOn
<1> QED BY <1>1, <1>2

\* The end of a sequence.
LEMMA SubSeqAt ==
  ASSUME NEW S, NEW s \in Seq(S), NEW d \in 0 .. Len(s), NEW e, e = SubSeq(s, d + 1, Len(s))
  PROVE  /\ e \in Seq(S) /\ Len(e) = Len(s) - d
         /\ \A j \in 1 .. Len(e) : e[j] = s[d + j]
<1>1. Len(s) \in Nat /\ \A j \in d + 1 .. Len(s) : s[j] \in S OBVIOUS
<1>2. /\ e \in Seq(S)
      /\ Len(e) = IF d + 1 <= Len(s) THEN Len(s) - (d + 1) + 1 ELSE 0
      /\ \A j \in 1 .. Len(s) - (d + 1) + 1 : e[j] = s[d + 1 + j - 1]
  BY <1>1, SubSeqProperties
<1>3. Len(e) = Len(s) - d BY <1>1, <1>2
<1>4. \A j \in 1 .. Len(e) : d + 1 + j - 1 = d + j /\ j \in 1 .. Len(s) - (d + 1) + 1
  BY <1>1, <1>3
<1> QED BY <1>2, <1>3, <1>4

\* What is left of what is left.
LEMMA RestOfRest ==
  ASSUME NEW S, NEW s \in Seq(S), NEW d \in 0 .. Len(s), NEW e, e = SubSeq(s, d + 1, Len(s)),
         NEW n \in 0 .. Len(e)
  PROVE  /\ e \in Seq(S) /\ Len(e) = Len(s) - d /\ d + n \in 0 .. Len(s)
         /\ \A j \in 1 .. Len(e) : e[j] = s[d + j]
         /\ SubSeq(e, n + 1, Len(e)) = SubSeq(s, d + n + 1, Len(s))
<1> DEFINE f == SubSeq(e, n + 1, Len(e))
           g == SubSeq(s, d + n + 1, Len(s))
<1>1. Len(s) \in Nat OBVIOUS
<1>2. /\ e \in Seq(S) /\ Len(e) = Len(s) - d
      /\ \A j \in 1 .. Len(e) : e[j] = s[d + j]
  BY SubSeqAt
<1>3. d + n \in 0 .. Len(s) BY <1>1, <1>2
<1>5. f = SubSeq(e, n + 1, Len(e)) /\ g = SubSeq(s, d + n + 1, Len(s)) OBVIOUS
<1> HIDE DEF f, g
<1>6. f \in Seq(S) /\ Len(f) = Len(e) - n /\ \A j \in 1 .. Len(f) : f[j] = e[n + j]
  BY <1>2, <1>5, SubSeqAt
<1>7. g \in Seq(S) /\ Len(g) = Len(s) - (d + n) /\ \A j \in 1 .. Len(g) : g[j] = s[d + n + j]
  BY <1>3, <1>5, SubSeqAt
<1>8. Len(f) = Len(g) BY <1>1, <1>2, <1>6, <1>7
<1>9. ASSUME NEW j \in 1 .. Len(f) PROVE f[j] = g[j]
  <2>1. n + j \in 1 .. Len(e) /\ d + (n + j) = d + n + j BY <1>1, <1>2, <1>6
  <2> QED BY <1>2, <1>6, <1>7, <1>8, <2>1
<1>10. f = g BY <1>6, <1>7, <1>8, <1>9, SeqEqual
<1> QED BY <1>2, <1>3, <1>10 DEF f, g

\* After k rounds of append: every round but the first and the last wrote a page.
Putting(w, m, s, k, r) ==
  /\ WorldInv(r.w) /\ DataType(r.w) /\ Steady(r.w, r.w.obj[m]) /\ Credit(r.w, m, Len(r.s))
  /\ \E d \in 0 .. Len(s) :
       /\ r.s = SubSeq(s, d + 1, Len(s)) /\ PutSoFar(w, r.w, m, s, d)
       /\ k = 0 \/ d = Len(s) \/ (r.w.obj[m].cur = Null /\ d > Base(k - 1))

\* One more round.
LEMMA PuttingOn ==
  ASSUME NEW w, WorldInv(w), NEW m \in Msgs, NEW S, NEW s \in Seq(S), NEW k \in Nat,
         NEW r, Putting(w, m, s, k, r), NEW v, v = NextRound(m, r)
  PROVE  Putting(w, m, s, k + 1, v)
<1> DEFINE u == r.w
           e == r.s
           x == v.w
<1>1. /\ WorldInv(u) /\ DataType(u) /\ Steady(u, u.obj[m]) /\ Credit(u, m, Len(e))
  BY DEF Putting
<1>2. PICK d \in 0 .. Len(s) :
        /\ e = SubSeq(s, d + 1, Len(s)) /\ PutSoFar(w, u, m, s, d)
        /\ k = 0 \/ d = Len(s) \/ (u.obj[m].cur = Null /\ d > Base(k - 1))
  BY DEF Putting
<1>3. /\ e \in Seq(S) /\ Len(e) = Len(s) - d /\ \A j \in 1 .. Len(e) : e[j] = s[d + j]
      /\ Len(s) \in Nat
  <2> HIDE DEF e
  <2>1. Len(s) \in Nat OBVIOUS
  <2> QED BY <1>2, <2>1, SubSeqAt
<1>4. CASE e = <<>>
  <2>1. v = r BY <1>4 DEF NextRound
  <2>2. d = Len(s) BY <1>3, <1>4
  <2> QED BY <1>1, <1>2, <2>1, <2>2 DEF Putting
<1>5. CASE e # <<>>
  <2>1. v = PutChunk(u, m, e) BY <1>5 DEF NextRound
  <2> HIDE DEF u, e
  <2>2. PICK n \in 1 .. Len(e) :
          /\ v.s = SubSeq(e, n + 1, Len(e)) /\ Puts(u, x, m, e, n)
          /\ n = Len(e) \/ x.obj[m].cur = Null
          /\ u.obj[m].cur = Null /\ u.obj[m].totalSz # 0 => n = Len(e) \/ n = PageSize
    <3>1. WorldInv(u) /\ DataType(u) /\ Steady(u, u.obj[m]) BY <1>1
    <3>2. e \in Seq(S) /\ e # <<>> /\ Credit(u, m, Len(e)) BY <1>1, <1>3, <1>5
    <3> HIDE DEF x
    <3>3. PutSome(u, m, e, v) BY <2>1, <3>1, <3>2, PutChunkDoes
    <3> QED BY <3>3 DEF PutSome, x
  <2>3. /\ n \in 0 .. Len(e) /\ Len(e) \in Nat /\ n \in Nat /\ d \in Nat /\ d + n \in Nat
        /\ d + n # 0
    BY <1>3, <2>2
  <2>4. /\ d + n \in 0 .. Len(s)
        /\ SubSeq(e, n + 1, Len(e)) = SubSeq(s, d + n + 1, Len(s))
    BY <1>2, <2>3, RestOfRest
  <2>5. WorldInv(x) /\ Credit(x, m, Len(v.s))
    <3>1. Len(e) + 0 = Len(e) /\ Len(v.s) + 0 = Len(v.s)
      <4>1. v.s \in Seq(S) BY <1>3, <2>2, <2>3, SubSeqAt
      <4> QED BY <2>3, <4>1
    <3>2. Credit(u, m, Len(e) + 0) /\ 0 \in Nat BY <1>1, <3>1
    <3>3. WorldInv(v.w) /\ Credit(v.w, m, Len(v.s) + 0)
      BY <1>1, <1>3, <1>5, <2>1, <3>2, PutChunkKeeps
    <3> QED BY <3>1, <3>3
  <2>6. Puts(w, x, m, s, d + n)
    <3>1. \A j \in 1 .. n : s[d + j] = e[j] BY <1>3, <2>2
    <3> HIDE DEF x
    <3>2. \A j \in 1 .. d : s[j] = s[j] OBVIOUS
    <3>3. PutSoFar(w, u, m, s, d) /\ Puts(u, x, m, e, n) BY <1>2, <2>2
    <3>4. WorldInv(u) /\ WorldInv(x) /\ d \in Nat /\ n \in Nat BY <1>1, <2>3, <2>5
    <3> QED BY <3>1, <3>2, <3>3, <3>4, PutSoFarOn
  <2>7. d + n = Len(s) \/ (x.obj[m].cur = Null /\ d + n > Base((k + 1) - 1))
    <3>1. CASE n = Len(e) BY <1>3, <2>3, <3>1
    <3>2. CASE n # Len(e) /\ k = 0
      <4>1. (k + 1) - 1 = 0 /\ Base(0) = 0 BY <3>2, BaseIs
      <4> QED BY <2>2, <2>3, <3>2, <4>1
    <3>3. CASE n # Len(e) /\ k # 0
      <4>1. d # Len(s) BY <1>3, <2>2, <2>3, <3>3
      <4>2. u.obj[m].cur = Null /\ d > Base(k - 1) BY <1>2, <3>3, <4>1
      <4>3. k - 1 \in Nat /\ (k - 1) + 1 = k /\ (k + 1) - 1 = k BY <3>3
      <4>4. Base(k - 1) \in Nat /\ Base(k) = Base(k - 1) + PageSize
        <5> DEFINE j == k - 1
        <5>1. j \in Nat /\ k = j + 1 BY <4>3
        <5> HIDE DEF j
        <5>2. Base(j) \in Nat /\ Base(j + 1) = Base(j) + PageSize BY <5>1, BaseIs
        <5> QED BY <5>1, <5>2 DEF j
      <4>5. d # 0 BY <2>3, <4>2, <4>4
      <4>6. u.obj[m].totalSz # 0
        <5>1. Puts(w, u, m, s, d) BY <1>2, <4>5 DEF PutSoFar
        <5>2. Start(w.obj[m]) \in Nat BY MsgIs, Sizes DEF Start
        <5> QED BY <2>3, <4>5, <5>1, <5>2 DEF Puts
      <4>7. n = PageSize BY <2>2, <3>3, <4>2, <4>6
      <4> QED BY <2>2, <2>3, <3>3, <4>2, <4>3, <4>4, <4>7, Sizes
    <3> QED BY <3>1, <3>2, <3>3
  <2>8. DataType(x) /\ Steady(x, x.obj[m]) BY <2>6 DEF Puts
  <2>9. PutSoFar(w, x, m, s, d + n) BY <2>3, <2>6 DEF PutSoFar
  <2>10. v.s = SubSeq(s, (d + n) + 1, Len(s)) BY <2>2, <2>4
  <2> QED BY <2>4, <2>5, <2>7, <2>8, <2>9, <2>10 DEF Putting
<1> QED BY <1>4, <1>5

\* Pages that n bytes can lie in are one more than they fill.
LEMMA PagesAre ==
  ASSUME NEW n \in Nat
  PROVE  PagesOf(n) \in Nat /\ PagesOf(n) - 1 \in Nat /\ PagesOf(n) # 0 /\ n < Base(PagesOf(n) - 1)
<1> DEFINE q == n \div PageSize
           r == n % PageSize
<1>1. q \in Nat /\ r \in 0 .. PageSize - 1 /\ n = PageSize * q + r BY Sizes, DivMod
<1>2. PagesOf(n) = q + 2 BY DEF PagesOf
<1> HIDE DEF q, r
<1>3. (q + 2) - 1 = q + 1 BY <1>1
<1>4. Base(q) = PageSize * q /\ Base(q + 1) = Base(q) + PageSize /\ Base(q) \in Nat
  BY <1>1, BaseIs DEF Base
<1>5. n < Base(q + 1) BY <1>1, <1>4, Sizes
<1> QED BY <1>1, <1>2, <1>3, <1>5

\* append( buff, sz ) puts all of it behind the content.
LEMMA PutDoes ==
  ASSUME NEW w, WorldInv(w), DataType(w), NEW m \in Msgs, Steady(w, w.obj[m]),
         NEW S, NEW s \in Seq(S), s # <<>>, Credit(w, m, Len(s)), NEW v, v = Put(w, m, s)
  PROVE  Puts(w, v, m, s, Len(s))
<1> DEFINE K == PagesOf(Len(s))
           start == [w |-> w, s |-> s]
           f == CHOOSE round : round = [k \in 0 .. K |->
                  IF k = 0 THEN [w |-> w, s |-> s]
                  ELSE LET r == round[k - 1] IN IF r.s = <<>> THEN r ELSE PutChunk(r.w, m, r.s)]
           Bad == {k \in 0 .. K : ~Putting(w, m, s, k, f[k])}
<1>1. Len(s) \in Nat \ {0} OBVIOUS
<1>2. K \in Nat /\ K - 1 \in Nat /\ K # 0 /\ Len(s) < Base(K - 1) BY <1>1, PagesAre
<1>3. v = f[K].w BY DEF Put
<1>4. IsLoop(f, "round", m, start, K)
  <2> HIDE DEF K
  <2>1. \E round : round = [k \in 0 .. K |->
                  IF k = 0 THEN [w |-> w, s |-> s]
                  ELSE LET r == round[k - 1] IN IF r.s = <<>> THEN r ELSE PutChunk(r.w, m, r.s)]
    <3>1. PICK h : IsLoop(h, "round", m, [w |-> w, s |-> s], K) BY <1>2, LoopsAre
    <3>2. h = [k \in 0 .. K |->
                  IF k = 0 THEN [w |-> w, s |-> s]
                  ELSE LET r == h[k - 1] IN IF r.s = <<>> THEN r ELSE PutChunk(r.w, m, r.s)]
      BY <3>1, Zenon DEF IsLoop, Step, NextRound
    <3> QED BY <3>2
  <2>2. f = [k \in 0 .. K |->
                  IF k = 0 THEN [w |-> w, s |-> s]
                  ELSE LET r == f[k - 1] IN IF r.s = <<>> THEN r ELSE PutChunk(r.w, m, r.s)]
    BY <2>1, Zenon
  <2> HIDE DEF f
  <2> QED BY <2>2 DEF IsLoop, Step, NextRound
<1>5. Putting(w, m, s, 0, start)
  <2>1. start.w = w /\ start.s = s OBVIOUS
  <2> HIDE DEF start
  <2>2. s = SubSeq(s, 0 + 1, Len(s)) BY SubSeqFull
  <2>3. 0 \in 0 .. Len(s) BY <1>1
  <2>4. PutSoFar(w, w, m, s, 0) BY DEF PutSoFar
  <2>5. \E d \in 0 .. Len(s) : s = SubSeq(s, d + 1, Len(s)) /\ PutSoFar(w, w, m, s, d)
    BY <2>2, <2>3, <2>4
  <2> QED BY <2>1, <2>5 DEF Putting
<1> HIDE DEF K, f, start
<1>6. ASSUME NEW k \in Bad PROVE \E j \in Bad : j < k
  <2>1. k \in 0 .. K /\ ~Putting(w, m, s, k, f[k]) OBVIOUS
  <2>2. f[k] = IF k = 0 THEN start ELSE NextRound(m, f[k - 1])
    BY <1>4, <2>1 DEF IsLoop, Step
  <2>3. k # 0 BY <1>5, <2>1, <2>2
  <2>4. k - 1 \in 0 .. K /\ k - 1 < k /\ k - 1 \in Nat /\ (k - 1) + 1 = k BY <1>2, <2>1, <2>3
  <2>5. ASSUME Putting(w, m, s, k - 1, f[k - 1]) PROVE Putting(w, m, s, k, f[k])
    <3>1. Putting(w, m, s, (k - 1) + 1, f[k]) BY <2>2, <2>3, <2>4, <2>5, PuttingOn
    <3> QED BY <2>4, <3>1
  <2> QED BY <2>1, <2>4, <2>5
<1>7. Bad = {}
  <2>1. Bad \subseteq Nat OBVIOUS
  <2> HIDE DEF Bad
  <2> QED BY <1>6, <2>1, NoSmallest
<1>8. Putting(w, m, s, K, f[K])
  <2>1. K \in 0 .. K BY <1>2
  <2> QED BY <1>7, <2>1
<1>9. PICK d \in 0 .. Len(s) :
        PutSoFar(w, v, m, s, d) /\ (d = Len(s) \/ d > Base(K - 1))
  BY <1>2, <1>3, <1>8 DEF Putting
<1>10. d = Len(s)
  <2>1. Base(K - 1) \in Nat BY <1>2, BaseIs
  <2> QED BY <1>1, <1>2, <1>9, <2>1
<1> QED BY <1>1, <1>9, <1>10 DEF PutSoFar

(***************************************************************************)
(* Where a reader goes                                                      *)
(***************************************************************************)
\* Where a reader is, and where it goes when a page is used up.
At(i) == [ip |-> i.ip, idx |-> i.idx, page |-> i.page]
After(w, z) ==
  LET last == AtLastPage(w, z.ip, z.idx)
      ip == IF last THEN HeaderNext(w, z.ip) ELSE z.ip
      idx == IF last THEN 0 ELSE z.idx + 1
  IN [ip |-> ip, idx |-> idx, page |-> HeaderPage(w, ip, idx)]

\* A reader calls the header by the message.
Named(m, z) == [ip |-> IF z.ip = Null THEN m ELSE z.ip, idx |-> z.idx, page |-> z.page]

\* It goes from page to page in the order in which they were added.
LEMMA AfterIsNext ==
  ASSUME NEW w, NEW m \in Msgs, NEW o, o = w.obj[m], OwnedIn(w, o) \subseteq Pages,
         NEW a, Tidy(w, o, a), o.pageCnt \in Nat, NEW k \in 0 .. o.pageCnt - 2
  PROVE  After(w, Named(m, a[k])) = Named(m, a[k + 1])
<1>1. k \in 0 .. o.pageCnt - 1 /\ k + 1 \in 0 .. o.pageCnt - 1 OBVIOUS
<1>2. m \notin Pages /\ m # Null /\ \A q \in Pages : q # Null /\ q \notin Msgs
  BY PageAssumption
<1> DEFINE head(q) == IF q = Null THEN m ELSE q
<1>3. ASSUME NEW q \in Pages \cup {Null}
      PROVE  /\ HeaderUsed(w, head(q)) = UsedAt(w, o, q)
             /\ HeaderNext(w, head(q)) = NextAt(w, o, q)
             /\ \A i : HeaderPage(w, head(q), i) = PageAt(w, o, q, i)
  <2>1. CASE q = Null
    BY <1>2, <2>1 DEF HeaderUsed, HeaderNext, HeaderPage, UsedAt, NextAt, PageAt
  <2>2. CASE q # Null
    BY <1>2, <2>2 DEF HeaderUsed, HeaderNext, HeaderPage, UsedAt, NextAt, PageAt
  <2> QED BY <2>1, <2>2
<1>4. /\ a[k].ip \in Pages \cup {Null} /\ a[k + 1].ip \in Pages \cup {Null}
      /\ a[k + 1].page = PageAt(w, o, a[k + 1].ip, a[k + 1].idx)
      /\ Follows(w, o, a[k], a[k + 1])
  BY <1>1 DEF Tidy, Way
<1> DEFINE z == a[k]
           y == a[k + 1]
<1>5. Named(m, z).ip = head(z.ip) /\ Named(m, z).idx = z.idx BY DEF Named
<1>6. Named(m, y) = [ip |-> head(y.ip), idx |-> y.idx, page |-> y.page] BY DEF Named
<1>7. y.page = HeaderPage(w, head(y.ip), y.idx) BY <1>3, <1>4
<1>8. AtLastPage(w, Named(m, z).ip, Named(m, z).idx) <=> z.idx + 1 >= UsedAt(w, o, z.ip)
  BY <1>3, <1>4, <1>5 DEF AtLastPage
<1>9. CASE z.idx + 1 >= UsedAt(w, o, z.ip)
  <2>1. y.ip = NextAt(w, o, z.ip) /\ y.ip # Null /\ y.idx = 0 BY <1>4, <1>9 DEF Follows
  <2>2. HeaderNext(w, Named(m, z).ip) = head(y.ip) BY <1>3, <1>4, <1>5, <2>1
  <2> HIDE DEF z, y, head
  <2>3. After(w, Named(m, z)) = Named(m, y)
    BY <1>6, <1>7, <1>8, <1>9, <2>1, <2>2 DEF After
  <2> QED BY <2>3 DEF z, y
<1>10. CASE ~(z.idx + 1 >= UsedAt(w, o, z.ip))
  <2>1. y.ip = z.ip /\ y.idx = z.idx + 1 BY <1>4, <1>10 DEF Follows
  <2> HIDE DEF z, y, head
  <2>2. After(w, Named(m, z)) = Named(m, y)
    BY <1>5, <1>6, <1>7, <1>8, <1>10, <2>1 DEF After
  <2> QED BY <2>2 DEF z, y
<1> QED BY <1>9, <1>10

\* Where a reader of m goes, to the end of the content or to a place that is no page.
Route(w, m, b, N) ==
  LET o == w.obj[m] IN
  /\ N \in Nat
  /\ N # 0 => b[0] = [ip |-> m, idx |-> 0, page |-> o.first[0]]
  /\ \A k \in 0 .. N - 2 : After(w, b[k]) = b[k + 1]
  /\ \A k \in 0 .. N - 1 : /\ b[k].ip \in {m} \cup OwnedIn(w, o)
                           /\ b[k].page \in OwnedIn(w, o) \cup {Null}
  /\ o.totalSz <= Base(N) \/ (N # 0 /\ b[N - 1].page = Null)

\* Of a message not used again after clear() it is the way of its pages.
LEMMA RouteIsWay ==
  ASSUME NEW w, WorldInv(w), NEW m \in Msgs, NEW o, o = w.obj[m], Measured(o),
         NEW a, Tidy(w, o, a), NEW b, b = [k \in 0 .. o.pageCnt - 1 |-> Named(m, a[k])]
  PROVE  Route(w, m, b, o.pageCnt) /\ o.totalSz <= Base(o.pageCnt)
<1>1. /\ o \in Object /\ o.pageCnt \in Nat /\ o.totalSz \in Nat /\ m \in Holders
      /\ OwnedIn(w, o) \subseteq Pages
  <2>1. m \in Holders /\ o \in Object /\ o.pageCnt \in Nat /\ o.totalSz \in Nat BY MsgIs
  <2>2. Listed(w, o) /\ Payload(w, o) \subseteq Pages BY <2>1 DEF WorldInv, Sound, Numbered
  <2>3. OwnedIn(w, o) \subseteq Pages BY <2>2, OwnedArePages
  <2> QED BY <2>1, <2>3
<1>2. o.pageCnt # 0 => b[0] = [ip |-> m, idx |-> 0, page |-> o.first[0]]
  <2>1. Way(w, o, a) BY DEF Tidy
  <2>2. o.pageCnt # 0 => a[0].page = o.first[0] BY <1>1, <2>1, FirstPage
  <2>3. o.pageCnt # 0 => a[0].ip = Null /\ a[0].idx = 0 /\ 0 \in 0 .. o.pageCnt - 1
    BY <1>1, <2>1 DEF Way
  <2> QED BY <2>2, <2>3 DEF Named
<1>3. ASSUME NEW k \in 0 .. o.pageCnt - 2 PROVE After(w, b[k]) = b[k + 1]
  <2>1. k \in 0 .. o.pageCnt - 1 /\ k + 1 \in 0 .. o.pageCnt - 1 BY <1>1
  <2>2. After(w, Named(m, a[k])) = Named(m, a[k + 1]) BY <1>1, AfterIsNext
  <2> QED BY <2>1, <2>2
<1>4. ASSUME NEW k \in 0 .. o.pageCnt - 1
      PROVE  b[k].ip \in {m} \cup OwnedIn(w, o) /\ b[k].page \in OwnedIn(w, o)
  <2>1. a[k].ip \in OwnedIn(w, o) \cup {Null} /\ a[k].page \in OwnedIn(w, o) BY DEF Tidy
  <2> QED BY <2>1 DEF Named
<1>5. o.totalSz <= Base(o.pageCnt) BY <1>1, Fits
<1> QED BY <1>1, <1>2, <1>3, <1>4, <1>5 DEF Route

\* Of a message that was used again it is the list in the header only, and behind its end
\* there is no page.
LEMMA RouteOfUsed ==
  ASSUME NEW w, WorldInv(w), NEW m \in Msgs, NEW o, o = w.obj[m], Steady(w, o), ~Fresh(o)
  PROVE  \E b : \E N \in Nat : Route(w, m, b, N)
<1> DEFINE n == o.pageCnt
           N == IF n <= LocalStorageSize THEN n ELSE LocalStorageSize + 1
           b == [k \in 0 .. N - 1 |-> [ip |-> m, idx |-> k, page |-> HeaderPage(w, m, k)]]
<1>1. /\ o \in Object /\ n \in Nat /\ o.totalSz \in Nat /\ o.used \in Nat /\ m \in Holders
      /\ m \notin Pages /\ LocalStorageSize \in Nat \ {0}
  BY MsgIs, Sizes DEF Object
<1>2. o.used > Low(o) BY <1>1 DEF Steady, Fresh, Low
<1>3. N \in Nat /\ N - 1 <= Low(o) /\ Low(o) \in Nat BY <1>1 DEF Low
<1>4. \A k \in Local : HeaderPage(w, m, k) = o.first[k] BY <1>1 DEF HeaderPage
<1>5. \A k \in Nat : k \in Local <=> k < LocalStorageSize BY <1>1 DEF Local
<1>6. n <= LocalStorageSize => N = n OBVIOUS
<1>7. ~(n <= LocalStorageSize) => N = LocalStorageSize + 1 OBVIOUS
<1> HIDE DEF N
<1>8. \A k \in 0 .. N - 1 :
        /\ b[k] = [ip |-> m, idx |-> k, page |-> HeaderPage(w, m, k)]
        /\ b[k].ip = m /\ b[k].idx = k /\ b[k].page = HeaderPage(w, m, k) /\ k \in Nat
  BY <1>3
<1> HIDE DEF b
<1>9. N # 0 => b[0] = [ip |-> m, idx |-> 0, page |-> o.first[0]]
  <2>1. 0 \in Local BY <1>1, <1>5
  <2>2. N # 0 => 0 \in 0 .. N - 1 BY <1>3
  <2> QED BY <1>4, <1>8, <2>1, <2>2
<1>10. ASSUME NEW k \in 0 .. N - 2 PROVE After(w, b[k]) = b[k + 1]
  <2>1. k \in 0 .. N - 1 /\ k + 1 \in 0 .. N - 1 BY <1>3
  <2>2. ~(k + 1 >= o.used) BY <1>1, <1>2, <1>3, <2>1
  <2>3. ~AtLastPage(w, b[k].ip, b[k].idx) BY <1>8, <2>1, <2>2 DEF AtLastPage, HeaderUsed
  <2> QED BY <1>8, <2>1, <2>3 DEF After
<1>11. ASSUME NEW k \in 0 .. N - 1
       PROVE  b[k].ip \in {m} \cup OwnedIn(w, o) /\ b[k].page \in OwnedIn(w, o) \cup {Null}
  <2>1. b[k].ip = m /\ b[k].page = HeaderPage(w, m, k) /\ k \in Nat BY <1>8
  <2>2. CASE k \in Local
    <3>1. k < n BY <1>1, <1>3, <1>5, <1>6, <1>7, <2>1, <2>2
    <3>2. o.first[k] \in LocalPages(o) BY <2>2, <3>1, PayloadIs
    <3> QED BY <1>4, <2>1, <2>2, <3>2 DEF OwnedIn, Payload
  <2>3. CASE k \notin Local
    <3>1. HeaderPage(w, m, k) = Null BY <1>1, <2>3 DEF HeaderPage
    <3> QED BY <2>1, <3>1
  <2> QED BY <2>2, <2>3
<1>12. o.totalSz <= Base(N) \/ (N # 0 /\ b[N - 1].page = Null)
  <2>1. CASE n <= LocalStorageSize BY <1>1, <1>6, <2>1, Fits DEF Steady
  <2>2. CASE ~(n <= LocalStorageSize)
    <3>1. N - 1 = LocalStorageSize /\ N # 0 /\ N - 1 \in 0 .. N - 1 BY <1>1, <1>7, <2>2
    <3>2. HeaderPage(w, m, N - 1) = Null
      <4>1. N - 1 \notin Local BY <1>1, <1>5, <3>1
      <4> QED BY <1>1, <4>1 DEF HeaderPage
    <3> QED BY <1>8, <3>1, <3>2
  <2> QED BY <2>1, <2>2
<1>13. Route(w, m, b, N) BY <1>3, <1>9, <1>10, <1>11, <1>12 DEF Route
<1> QED BY <1>3, <1>13

\* It leads the same way in v, to the same bytes.
SameRoute(w, v, m, b, N) ==
  /\ \A k \in 0 .. N - 2 : After(v, b[k]) = After(w, b[k])
  /\ \A k \in 0 .. N - 1, i \in Cells :
       b[k].page # Null /\ Base(k) + i < w.obj[m].totalSz =>
         v.data[b[k].page][i] = w.data[b[k].page][i]

\* It does when only another message changed.
LEMMA ApartRoute ==
  ASSUME NEW w, WorldInv(w), NEW v, NEW m \in Msgs, Apart(w, v, m), NEW from \in Msgs, from # m,
         NEW b, NEW N, Route(w, from, b, N)
  PROVE  SameRoute(w, v, from, b, N)
<1> DEFINE o == w.obj[from]
<1>1. /\ from \in Holders /\ from \notin Pages /\ N \in Nat /\ OwnedIn(w, o) \subseteq Pages
      /\ \A q \in Pages : q \notin Msgs
  <2>1. from \in Holders /\ from \notin Pages BY MsgIs
  <2>2. Listed(w, o) /\ Payload(w, o) \subseteq Pages BY <2>1 DEF WorldInv, Sound, Numbered
  <2>3. OwnedIn(w, o) \subseteq Pages BY <2>2, OwnedArePages
  <2> QED BY <2>1, <2>3, PageAssumption DEF Route
<1>2. /\ v.obj[from] = w.obj[from]
      /\ \A r \in OwnedIn(w, o) : v.index[r] = w.index[r] /\ v.data[r] = w.data[r]
  BY <1>1 DEF Apart
<1> HIDE DEF o
<1>3. ASSUME NEW q \in {from} \cup OwnedIn(w, o)
      PROVE  /\ HeaderUsed(v, q) = HeaderUsed(w, q) /\ HeaderNext(v, q) = HeaderNext(w, q)
             /\ \A i : HeaderPage(v, q, i) = HeaderPage(w, q, i)
  <2>1. CASE q = from BY <1>1, <1>2, <2>1 DEF HeaderUsed, HeaderNext, HeaderPage
  <2>2. CASE q \in OwnedIn(w, o)
    BY <1>1, <1>2, <2>2 DEF HeaderUsed, HeaderNext, HeaderPage
  <2> QED BY <2>1, <2>2
<1>4. ASSUME NEW k \in 0 .. N - 2 PROVE After(v, b[k]) = After(w, b[k])
  <2>1. k \in 0 .. N - 1 /\ k + 1 \in 0 .. N - 1 BY <1>1
  <2>2. b[k].ip \in {from} \cup OwnedIn(w, o) /\ b[k + 1].ip \in {from} \cup OwnedIn(w, o)
    BY <2>1 DEF Route, o
  <2>3. After(w, b[k]).ip \in {from} \cup OwnedIn(w, o) BY <2>2 DEF Route
  <2>4. AtLastPage(v, b[k].ip, b[k].idx) <=> AtLastPage(w, b[k].ip, b[k].idx)
    BY <1>3, <2>2 DEF AtLastPage
  <2>5. CASE AtLastPage(w, b[k].ip, b[k].idx)
    <3>1. HeaderNext(w, b[k].ip) \in {from} \cup OwnedIn(w, o) BY <2>3, <2>5 DEF After
    <3>2. HeaderNext(v, b[k].ip) = HeaderNext(w, b[k].ip) BY <1>3, <2>2
    <3>3. HeaderPage(v, HeaderNext(w, b[k].ip), 0) = HeaderPage(w, HeaderNext(w, b[k].ip), 0)
      BY <1>3, <3>1
    <3> QED BY <2>4, <2>5, <3>2, <3>3 DEF After
  <2>6. CASE ~AtLastPage(w, b[k].ip, b[k].idx) BY <1>3, <2>2, <2>4, <2>6 DEF After
  <2> QED BY <2>5, <2>6
<1>5. ASSUME NEW k \in 0 .. N - 1, b[k].page # Null
      PROVE  v.data[b[k].page] = w.data[b[k].page]
  BY <1>2, <1>5 DEF Route, o
<1> QED BY <1>4, <1>5 DEF SameRoute

\* It does when something was appended to a message not used again after clear().
LEMMA OwnRoute ==
  ASSUME NEW w, WorldInv(w), NEW v, WorldInv(v), NEW m \in Msgs, NEW o, o = w.obj[m],
         Fresh(o), NEW a, Tidy(w, o, a), NEW s, NEW d, Puts(w, v, m, s, d),
         NEW b, b = [k \in 0 .. o.pageCnt - 1 |-> Named(m, a[k])]
  PROVE  SameRoute(w, v, m, b, o.pageCnt)
<1> DEFINE x == v.obj[m]
<1>1. PICK c : Extended(w, v, m, a, c) /\ Written(w, v, m, a, c, s) BY DEF Puts
<1>2. /\ Tidy(v, x, c) /\ o.pageCnt <= x.pageCnt /\ \A k \in 0 .. o.pageCnt - 1 : c[k] = a[k]
  BY <1>1 DEF Extended
<1>3. /\ o.pageCnt \in Nat /\ x.pageCnt \in Nat
      /\ OwnedIn(w, o) \subseteq Pages /\ OwnedIn(v, x) \subseteq Pages
  <2>1. m \in Holders /\ o.pageCnt \in Nat /\ x.pageCnt \in Nat BY MsgIs
  <2>2. Listed(w, o) /\ Payload(w, o) \subseteq Pages BY <2>1 DEF WorldInv, Sound, Numbered
  <2>3. Listed(v, x) /\ Payload(v, x) \subseteq Pages BY <2>1 DEF WorldInv, Sound, Numbered
  <2>4. OwnedIn(w, o) \subseteq Pages BY <2>2, OwnedArePages
  <2>5. OwnedIn(v, x) \subseteq Pages
    <3> HIDE DEF x
    <3> QED BY <2>3, OwnedArePages
  <2> QED BY <2>1, <2>4, <2>5
<1>4. ASSUME NEW k \in 0 .. o.pageCnt - 2 PROVE After(v, b[k]) = After(w, b[k])
  <2>1. /\ k \in 0 .. o.pageCnt - 1 /\ k + 1 \in 0 .. o.pageCnt - 1
        /\ k \in 0 .. x.pageCnt - 2
    BY <1>2, <1>3
  <2>2. After(w, Named(m, a[k])) = Named(m, a[k + 1]) BY <1>3, AfterIsNext
  <2>3. After(v, Named(m, c[k])) = Named(m, c[k + 1]) BY <1>2, <1>3, <2>1, AfterIsNext
  <2>4. c[k] = a[k] /\ c[k + 1] = a[k + 1] /\ b[k] = Named(m, a[k]) BY <1>2, <2>1
  <2> QED BY <2>2, <2>3, <2>4
<1>5. ASSUME NEW k \in 0 .. o.pageCnt - 1, NEW i \in Cells, Base(k) + i < o.totalSz
      PROVE  v.data[b[k].page][i] = w.data[b[k].page][i]
  <2>1. b[k].page = a[k].page BY DEF Named
  <2> QED BY <1>1, <1>5, <2>1 DEF Written
<1> QED BY <1>4, <1>5 DEF SameRoute

\* A reader of m is on its route, or at its end.
On(w, m, b, N, i) ==
  /\ IsIter(i) /\ i.total \in Nat
  /\ \/ i.total = 0 /\ i.rem = 0
     \/ \E k \in 0 .. N - 1 :
          /\ At(i) = b[k] /\ i.off \in Cells
          /\ Base(k) + i.off + i.total = w.obj[m].totalSz
          /\ i.rem = IF i.total <= PageSize - i.off THEN i.total ELSE PageSize - i.off

\* What an iterator becomes.
Went(w, i, n, j) ==
  /\ j.total = i.total - n
  /\ i.total > n /\ i.rem = n =>
       /\ At(j) = After(w, At(i)) /\ j.off = 0
       /\ j.rem = IF i.total - n <= PageSize THEN i.total - n ELSE PageSize
  /\ ~(i.total > n /\ i.rem = n) => At(j) = At(i) /\ j.off = i.off + n /\ j.rem = i.rem - n

\* Reading n bytes of the page, or skipping them, makes that of it.
LEMMA AdvanceIs ==
  ASSUME NEW w, NEW i, IsIter(i), NEW n \in Nat, NEW j, j = Advance(w, i, n)
  PROVE  Went(w, i, n, j)
<1>1. i.total \in Int /\ i.rem \in Nat BY DEF IsIter
<1>2. CASE i.total > n /\ i.rem = n
  <2> DEFINE d == i.total - n
             r == Min({d, PageSize})
             z == After(w, At(i))
  <2>1. d \in Int /\ PageSize \in Int BY <1>1, Sizes
  <2>2. r = IF d <= PageSize THEN d ELSE PageSize
    <3> HIDE DEF d
    <3> QED BY <2>1, MinOfTwo
  <2>3. z = [ip |-> z.ip, idx |-> z.idx, page |-> z.page] BY DEF After
  <2>4. j = [ip |-> z.ip, idx |-> z.idx, page |-> z.page, off |-> 0, total |-> d, rem |-> r]
    BY <1>2 DEF Advance, After, At
  <2> HIDE DEF z, r
  <2>5. At(j) = z BY <2>3, <2>4 DEF At
  <2> QED BY <1>2, <2>2, <2>4, <2>5 DEF z, Went
<1>3. CASE ~(i.total > n /\ i.rem = n)
  <2>1. j = [i EXCEPT !.off = @ + n, !.total = @ - n, !.rem = @ - n] BY <1>3 DEF Advance
  <2>2. /\ j.off = i.off + n /\ j.total = i.total - n /\ j.rem = i.rem - n
        /\ j.ip = i.ip /\ j.idx = i.idx /\ j.page = i.page
    BY <2>1 DEF IsIter
  <2> QED BY <1>3, <2>2 DEF At, Went
<1> QED BY <1>2, <1>3

\* It is the same where the same place follows.
LEMMA AdvanceSame ==
  ASSUME NEW w, NEW v, NEW i, NEW n, i.total > n /\ i.rem = n => After(v, At(i)) = After(w, At(i))
  PROVE  Advance(v, i, n) = Advance(w, i, n)
<1>1. \A u : LET z == After(u, At(i)) IN
        Advance(u, i, n) =
          IF i.total > n /\ i.rem = n
            THEN [ip |-> z.ip, idx |-> z.idx, page |-> z.page, off |-> 0,
                  total |-> i.total - n, rem |-> Min({i.total - n, PageSize})]
            ELSE [i EXCEPT !.off = @ + n, !.total = @ - n, !.rem = @ - n]
  BY DEF Advance, After, At
<1> QED BY <1>1

\* A reader stays on the route; in v it reads the same and goes the same way.
LEMMA OnAdvance ==
  ASSUME NEW w, WorldInv(w), NEW m \in Msgs, NEW b, NEW N, Route(w, m, b, N),
         NEW i, On(w, m, b, N, i), ~Astray(i), NEW n \in 1 .. i.rem,
         NEW v, SameRoute(w, v, m, b, N), NEW j, j = Advance(v, i, n)
  PROVE  /\ On(w, m, b, N, j) /\ j = Advance(w, i, n) /\ Bytes(v, i, n) = Bytes(w, i, n)
         /\ j.total = i.total - n /\ (n = i.rem => j.total = 0 \/ j.off = 0)
<1>1. /\ i.total \in Nat /\ i.rem \in Nat /\ n \in Nat /\ n >= 1 /\ n <= i.rem /\ IsIter(i)
      /\ w.obj[m].totalSz \in Nat /\ N \in Nat
  BY MsgIs DEF On, IsIter, Route
<1>2. PICK k \in 0 .. N - 1 :
        /\ At(i) = b[k] /\ i.off \in Cells
        /\ Base(k) + i.off + i.total = w.obj[m].totalSz
        /\ i.rem = IF i.total <= PageSize - i.off THEN i.total ELSE PageSize - i.off
  BY <1>1 DEF On
<1> DEFINE off == i.off
           t == i.total
           r == i.rem
<1>3. /\ k \in Nat /\ Base(k) \in Nat /\ off \in 0 .. PageSize - 1 /\ PageSize \in Nat \ {0}
      /\ Base(k + 1) = Base(k) + PageSize
  <2>1. k \in Nat BY <1>1
  <2>2. Base(k) \in Nat /\ Base(k + 1) = Base(k) + PageSize BY <2>1, BaseIs
  <2> QED BY <1>2, <2>1, <2>2, Sizes DEF Cells
<1>4. n <= t /\ n <= PageSize - off /\ t # 0 BY <1>1, <1>2, <1>3
<1>5. i.page # Null /\ b[k].page = i.page
  <2>1. i.page # Null BY <1>1, <1>4 DEF Astray
  <2> QED BY <1>2, <2>1 DEF At
<1>6. Bytes(v, i, n) = Bytes(w, i, n)
  <2>1. ASSUME NEW x \in 1 .. n PROVE v.data[i.page][off + x - 1] = w.data[i.page][off + x - 1]
    <3>1. off + x - 1 \in 0 .. PageSize - 1 /\ Base(k) + (off + x - 1) < Base(k) + off + t
      BY <1>1, <1>3, <1>4
    <3>2. off + x - 1 \in Cells /\ Base(k) + (off + x - 1) < w.obj[m].totalSz
      BY <1>2, <3>1 DEF Cells
    <3> QED BY <1>5, <3>2 DEF SameRoute
  <2> QED BY <2>1 DEF Bytes
<1>7. IsIter(j) BY <1>1, AdvanceKeeps
<1>8. /\ j.total = t - n
      /\ t > n /\ r = n =>
           /\ At(j) = After(v, At(i)) /\ j.off = 0
           /\ j.rem = IF t - n <= PageSize THEN t - n ELSE PageSize
      /\ ~(t > n /\ r = n) => At(j) = At(i) /\ j.off = off + n /\ j.rem = r - n
  <2>1. IsIter(i) /\ n \in Nat /\ j = Advance(v, i, n) BY <1>1
  <2>2. Went(v, i, n, j) BY <2>1, AdvanceIs
  <2> QED BY <2>2 DEF Went
<1>9. j.total \in Nat BY <1>1, <1>4, <1>8
<1>10. r = IF t <= PageSize - off THEN t ELSE PageSize - off BY <1>2
<1>11. Base(k) + off + t = w.obj[m].totalSz BY <1>2
<1>12. CASE t > n /\ r = n
  <2>1. n = PageSize - off BY <1>1, <1>3, <1>4, <1>10, <1>12
  <2>2. Base(k + 1) < w.obj[m].totalSz BY <1>1, <1>3, <1>11, <1>12, <2>1
  <2>3. k # N - 1
    <3>1. CASE w.obj[m].totalSz <= Base(N)
      <4>1. k = N - 1 => k + 1 = N BY <1>1
      <4> QED BY <1>1, <1>3, <2>2, <3>1, <4>1
    <3>2. CASE b[N - 1].page = Null BY <1>5, <3>2
    <3> QED BY <3>1, <3>2 DEF Route
  <2>4. k \in 0 .. N - 2 /\ k + 1 \in 0 .. N - 1 BY <1>1, <1>3, <2>3
  <2>5. At(j) = b[k + 1] BY <1>2, <1>8, <1>12, <2>4 DEF Route, SameRoute
  <2>6. j.off = 0 /\ 0 \in Cells BY <1>3, <1>8, <1>12 DEF Cells
  <2>7. Base(k + 1) + 0 + j.total = w.obj[m].totalSz BY <1>1, <1>3, <1>8, <1>11, <2>1
  <2>8. j.rem = IF j.total <= PageSize - 0 THEN j.total ELSE PageSize - 0
    BY <1>3, <1>8, <1>12
  <2>9. On(w, m, b, N, j) BY <1>7, <1>9, <2>4, <2>5, <2>6, <2>7, <2>8 DEF On
  <2>10. Advance(v, i, n) = Advance(w, i, n)
    <3>1. After(v, At(i)) = After(w, At(i)) BY <1>2, <2>4 DEF SameRoute
    <3> QED BY <3>1, AdvanceSame
  <2> QED BY <1>6, <1>8, <2>6, <2>9, <2>10
<1>13. CASE ~(t > n /\ r = n)
  <2>10. Advance(v, i, n) = Advance(w, i, n) BY <1>13, AdvanceSame
  <2>1. At(j) = b[k] /\ j.off = off + n /\ j.rem = r - n BY <1>2, <1>8, <1>13
  <2>2. CASE t = n
    <3>1. r = n BY <1>1, <1>3, <1>10, <2>2
    <3>2. j.total = 0 /\ j.rem = 0 BY <1>1, <1>8, <2>1, <2>2, <3>1
    <3>3. On(w, m, b, N, j) BY <1>7, <1>9, <3>2 DEF On
    <3> QED BY <1>6, <1>8, <2>10, <3>2, <3>3
  <2>3. CASE t # n
    <3>1. r # n BY <1>1, <1>4, <1>13, <2>3
    <3>2. j.off \in Cells BY <1>1, <1>3, <1>10, <2>1, <3>1 DEF Cells
    <3>3. Base(k) + j.off + j.total = w.obj[m].totalSz BY <1>1, <1>3, <1>8, <1>11, <2>1
    <3>4. j.rem = IF j.total <= PageSize - j.off THEN j.total ELSE PageSize - j.off
      BY <1>1, <1>3, <1>8, <1>10, <2>1
    <3>5. On(w, m, b, N, j) BY <1>2, <1>7, <1>9, <2>1, <3>2, <3>3, <3>4 DEF On
    <3> QED BY <1>6, <1>8, <2>10, <3>1, <3>5
  <2> QED BY <2>2, <2>3
<1> QED BY <1>12, <1>13

(***************************************************************************)
(* What is read                                                             *)
(***************************************************************************)
\* A text is a sequence of whatever a cell may hold.
IsSeq(t) == \E S : t \in Seq(S)

\* x is one text behind the other.
InTurn(s, t, x) ==
  /\ IsSeq(x) /\ Len(x) = Len(s) + Len(t) /\ Len(s) \in Nat /\ Len(t) \in Nat
  /\ \A j \in 1 .. Len(s) : x[j] = s[j]
  /\ \A j \in 1 .. Len(t) : x[Len(s) + j] = t[j]

\* \o makes it.
LEMMA Joined ==
  ASSUME NEW s, IsSeq(s), NEW t, IsSeq(t)
  PROVE  InTurn(s, t, s \o t)
<1> DEFINE x == s \o t
<1>1. PICK S : s \in Seq(S) BY DEF IsSeq
<1>2. PICK T : t \in Seq(T) BY DEF IsSeq
<1> DEFINE U == S \cup T
<1>3. s \in Seq(U) /\ t \in Seq(U) BY <1>1, <1>2
<1> HIDE DEF U
<1>4. x \in Seq(U) BY <1>3
<1>5. Len(s) \in Nat /\ Len(t) \in Nat /\ Len(x) = Len(s) + Len(t) BY <1>3
<1>6. \A j \in 1 .. Len(s) : x[j] = s[j] BY <1>3
<1>7. \A j \in 1 .. Len(t) : x[Len(s) + j] = t[j] BY <1>3
<1> HIDE DEF x
<1>8. InTurn(s, t, x) BY <1>4, <1>5, <1>6, <1>7 DEF IsSeq, InTurn
<1> QED BY <1>8 DEF x

\* The bytes of a block.
LEMMA BytesIs ==
  ASSUME NEW w, NEW i, NEW n \in Nat, NEW s, s = Bytes(w, i, n)
  PROVE  /\ IsSeq(s) /\ Len(s) = n
         /\ \A k \in 1 .. n : s[k] = w.data[i.page][i.off + k - 1]
<1> DEFINE S == {w.data[i.page][i.off + k - 1] : k \in 1 .. n}
<1>1. s \in [1 .. n -> S] BY DEF Bytes
<1>2. s \in Seq(S) /\ Len(s) = n
  <2> HIDE DEF S
  <2> QED BY <1>1
<1>3. \A k \in 1 .. n : s[k] = w.data[i.page][i.off + k - 1] BY DEF Bytes
<1> QED BY <1>2, <1>3 DEF IsSeq

\* Putting what is read into m: the world after some blocks.
Copying(w, m, c) ==
  /\ BlocksOk(m, c) /\ DataType(c.w) /\ Steady(c.w, c.w.obj[m])
  /\ IsSeq(c.got) /\ PutSoFar(w, c.w, m, c.got, Len(c.got))

\* One more block.
LEMMA CopyingOn ==
  ASSUME NEW w, WorldInv(w), NEW m \in Msgs, NEW c, Copying(w, m, c), NEW v, v = NextBlock(m, c)
  PROVE  Copying(w, m, v)
<1> DEFINE n == Min({c.left, c.i.rem})
           s == Bytes(c.w, c.i, n)
           x == c.got \o s
           u == Put(c.w, m, s)
<1>1. /\ IsIter(c.i) /\ c.left \in Nat /\ WorldInv(c.w) /\ Credit(c.w, m, c.left)
      /\ DataType(c.w) /\ Steady(c.w, c.w.obj[m]) /\ IsSeq(c.got)
      /\ PutSoFar(w, c.w, m, c.got, Len(c.got)) /\ BlocksOk(m, c)
  BY DEF Copying, BlocksOk
<1>2. m # Null BY PageAssumption
<1>3. n \in Nat /\ n <= c.left
  <2>1. c.left \in Int /\ c.i.rem \in Nat BY <1>1 DEF IsIter
  <2>2. n = IF c.left <= c.i.rem THEN c.left ELSE c.i.rem BY <2>1, MinOfTwo
  <2> QED BY <1>1, <2>1, <2>2
<1>4. BlocksOk(m, v) BY <1>1, NextBlockKeeps
<1> HIDE DEF n
<1>5. CASE n = 0 \/ Astray(c.i)
  <2>1. v = c BY <1>5, Zenon DEF NextBlock, n
  <2> QED BY <2>1
<1>6. CASE ~(n = 0 \/ Astray(c.i))
  <2>1. v = [w |-> u, i |-> Advance(c.w, c.i, n), left |-> c.left - n, got |-> x]
    BY <1>2, <1>6, Zenon DEF NextBlock, n
  <2>2. IsSeq(s) /\ Len(s) = n BY <1>3, BytesIs
  <2> HIDE DEF s
  <2>3. PICK S : s \in Seq(S) BY <2>2 DEF IsSeq
  <2>4. s # <<>> /\ n # 0 BY <1>6, <2>2
  <2>5. Credit(c.w, m, n) BY <1>1, <1>3, LessCredit
  <2> HIDE DEF u
  <2>6. Puts(c.w, u, m, s, n) BY <1>1, <2>2, <2>3, <2>4, <2>5, PutDoes DEF u
  <2> HIDE DEF x
  <2>7. /\ IsSeq(x) /\ Len(x) = Len(c.got) + n /\ Len(c.got) \in Nat
        /\ \A j \in 1 .. Len(c.got) : x[j] = c.got[j]
        /\ \A j \in 1 .. n : x[Len(c.got) + j] = s[j]
    <3>1. InTurn(c.got, s, x) BY <1>1, <2>2, Joined DEF x
    <3> QED BY <2>2, <3>1 DEF InTurn
  <2>8. v.w = u /\ v.got = x BY <2>1
  <2>9. WorldInv(u) BY <1>4, <2>8 DEF BlocksOk
  <2>10. Puts(w, u, m, x, Len(c.got) + n)
    <3> DEFINE d == Len(c.got)
               g == c.got
               y == c.w
    <3>1. /\ d \in Nat /\ PutSoFar(w, y, m, g, d) /\ WorldInv(y)
          /\ \A j \in 1 .. d : x[j] = g[j]
          /\ \A j \in 1 .. n : x[d + j] = s[j]
          /\ Puts(y, u, m, s, n)
      BY <1>1, <2>6, <2>7
    <3> HIDE DEF d, g, y
    <3>2. Puts(w, u, m, x, d + n) BY <1>3, <2>9, <3>1, PutSoFarOn
    <3> QED BY <3>2 DEF d
  <2>11. PutSoFar(w, u, m, x, Len(x))
    <3>1. Len(x) # 0 /\ Len(x) = Len(c.got) + n BY <1>3, <2>4, <2>7
    <3> QED BY <2>10, <3>1 DEF PutSoFar
  <2>12. DataType(u) /\ Steady(u, u.obj[m]) BY <2>6 DEF Puts
  <2> QED BY <1>4, <2>7, <2>8, <2>11, <2>12 DEF Copying
<1> QED BY <1>5, <1>6

\* What was written to m after a route was taken does not change the route of `from`.
\* Where m is the message that is read, it is one not used again after clear().
Readable(w, from, m, b, N) ==
  /\ Route(w, from, b, N)
  /\ from = m => \E a : /\ Fresh(w.obj[m]) /\ Tidy(w, w.obj[m], a) /\ N = w.obj[m].pageCnt
                        /\ b = [k \in 0 .. w.obj[m].pageCnt - 1 |-> Named(m, a[k])]

\* Each copy of a block leaves the route as it is.
LEMMA CopyRoute ==
  ASSUME NEW w, WorldInv(w), NEW m \in Msgs, NEW c, Copying(w, m, c), NEW from \in Msgs,
         NEW b, NEW N, Readable(w, from, m, b, N)
  PROVE  SameRoute(w, c.w, from, b, N)
<1>1. PutSoFar(w, c.w, m, c.got, Len(c.got)) /\ WorldInv(c.w) BY DEF Copying, BlocksOk
<1>2. CASE c.w = w BY <1>2 DEF SameRoute
<1>3. CASE c.w # w
  <2>1. Puts(w, c.w, m, c.got, Len(c.got)) BY <1>1, <1>3 DEF PutSoFar
  <2>2. CASE from # m
    <3>1. Apart(w, c.w, m) BY <2>1 DEF Puts
    <3>2. Route(w, from, b, N) BY DEF Readable
    <3> QED BY <2>2, <3>1, <3>2, ApartRoute
  <2>3. CASE from = m
    <3>1. PICK a : /\ Fresh(w.obj[m]) /\ Tidy(w, w.obj[m], a) /\ N = w.obj[m].pageCnt
                   /\ b = [k \in 0 .. w.obj[m].pageCnt - 1 |-> Named(m, a[k])]
      BY <2>3, Zenon DEF Readable
    <3>2. SameRoute(w, c.w, m, b, w.obj[m].pageCnt) BY <1>1, <2>1, <3>1, OwnRoute
    <3> QED BY <2>3, <3>1, <3>2
  <2> QED BY <2>2, <2>3
<1> QED BY <1>2, <1>3

\* A block copied from the world as it became, and the same block of the world as it was.
Together(w, from, b, N, r, c) ==
  /\ r.w = w /\ r.i = c.i /\ r.left = c.left /\ r.got = c.got /\ On(w, from, b, N, c.i)
  /\ c.left \in Nat

\* The next ones, too.
LEMMA TogetherOn ==
  ASSUME NEW w, WorldInv(w), NEW from \in Msgs, NEW b, NEW N, Route(w, from, b, N),
         NEW c, SameRoute(w, c.w, from, b, N), NEW r, Together(w, from, b, N, r, c),
         NEW m, NEW y, y = NextBlock(Null, r), NEW z, z = NextBlock(m, c)
  PROVE  Together(w, from, b, N, y, z)
<1> DEFINE i == c.i
           n == Min({c.left, c.i.rem})
           u == IF m = Null THEN c.w ELSE Put(c.w, m, Bytes(c.w, c.i, n))
           j == Advance(c.w, c.i, n)
           l == c.left - n
           g == c.got \o Bytes(c.w, c.i, n)
<1>1. /\ r.w = w /\ r.i = i /\ r.left = c.left /\ r.got = c.got /\ On(w, from, b, N, i)
      /\ c.left \in Nat
  BY DEF Together
<1>2. n \in Nat /\ n <= c.left /\ n <= i.rem /\ i.rem \in Nat
  <2>1. c.left \in Int /\ c.i.rem \in Nat BY <1>1 DEF On, IsIter
  <2>2. n = IF c.left <= c.i.rem THEN c.left ELSE c.i.rem BY <2>1, MinOfTwo
  <2> QED BY <1>1, <2>1, <2>2
<1>3. CASE n = 0 \/ Astray(i)
  <2>1. z = c BY <1>3, Zenon DEF NextBlock
  <2>2. y = r BY <1>1, <1>3, Zenon DEF NextBlock
  <2> QED BY <2>1, <2>2
<1>4. CASE ~(n = 0 \/ Astray(i))
  <2>1. z = [w |-> u, i |-> j, left |-> l, got |-> g]
    BY <1>4, Zenon DEF NextBlock
  <2>2. y = [w |-> w, i |-> Advance(w, i, n), left |-> l, got |-> c.got \o Bytes(w, i, n)]
    BY <1>1, <1>4, Zenon DEF NextBlock
  <2>3. l \in Nat BY <1>1, <1>2
  <2> HIDE DEF i, n, u
  <2>4. n \in 1 .. i.rem /\ ~Astray(i) BY <1>2, <1>4
  <2>5. On(w, from, b, N, j) /\ j = Advance(w, i, n) /\ Bytes(c.w, i, n) = Bytes(w, i, n)
    <3>1. j = Advance(c.w, i, n) BY DEF i
    <3> HIDE DEF j
    <3> QED BY <1>1, <2>4, <3>1, OnAdvance
  <2>6. g = c.got \o Bytes(w, i, n)
    <3>1. g = c.got \o Bytes(c.w, i, n) BY DEF i
    <3> QED BY <2>5, <3>1
  <2> HIDE DEF j, l, g
  <2>7. z.i = j /\ z.left = l /\ z.got = g BY <2>1
  <2>8. y = [w |-> w, i |-> j, left |-> l, got |-> g] BY <2>2, <2>5, <2>6
  <2>9. y.w = w /\ y.i = j /\ y.left = l /\ y.got = g BY <2>8
  <2> QED BY <2>3, <2>5, <2>7, <2>9 DEF Together
<1> QED BY <1>3, <1>4

\* What is read is a text.
Reading(r) == IsIter(r.i) /\ r.left \in Nat /\ IsSeq(r.got)

\* One more block of it.
LEMMA ReadingOn ==
  ASSUME NEW r, Reading(r), NEW v, v = NextBlock(Null, r)
  PROVE  Reading(v) /\ v.w = r.w
<1> DEFINE n == Min({r.left, r.i.rem})
           s == Bytes(r.w, r.i, n)
           x == r.got \o s
<1>1. IsIter(r.i) /\ r.left \in Nat /\ IsSeq(r.got) BY DEF Reading
<1>2. n \in Nat
  <2>1. r.left \in Int /\ r.i.rem \in Nat BY <1>1 DEF IsIter
  <2>2. n = IF r.left <= r.i.rem THEN r.left ELSE r.i.rem BY <2>1, MinOfTwo
  <2> QED BY <1>1, <2>1, <2>2
<1>3. BlocksOk(Null, v)
  <2>1. BlocksOk(Null, r) BY <1>1, PageAssumption DEF BlocksOk
  <2> QED BY <2>1, NextBlockKeeps
<1>4. v = IF n = 0 \/ Astray(r.i) THEN r
          ELSE [w |-> r.w, i |-> Advance(r.w, r.i, n), left |-> r.left - n, got |-> x]
  BY Zenon DEF NextBlock
<1>5. IsSeq(x)
  <2>1. IsSeq(s) BY <1>2, BytesIs
  <2> HIDE DEF s
  <2>2. InTurn(r.got, s, x) BY <1>1, <2>1, Joined
  <2> QED BY <2>2 DEF InTurn
<1> HIDE DEF n, x
<1>6. v.w = r.w /\ IsSeq(v.got) BY <1>1, <1>4, <1>5
<1> QED BY <1>3, <1>6 DEF BlocksOk, Reading

\* All of it.
LEMMA ReadIs ==
  ASSUME NEW w, NEW i, IsIter(i), NEW n \in Nat, NEW r, r = Read(w, i, n)
  PROVE  Reading(r) /\ r.w = w
<1> DEFINE K == PagesOf(n)
           start == [w |-> w, i |-> i, left |-> n, got |-> <<>>]
<1>1. K \in Nat BY PagesOfIs
<1>2. PICK g : IsLoop(g, "block", Null, start, K) /\ Blocks(w, i, n, Null) = g[K]
  BY BlocksAreLoop
<1>3. Reading(start) /\ start.w = w
  <2>1. IsSeq(<<>>)
    <3>1. <<>> \in Seq({}) OBVIOUS
    <3> QED BY <3>1 DEF IsSeq
  <2> QED BY <2>1 DEF Reading
<1> HIDE DEF K, start
<1>4. g[0] = start /\ \A k \in 0 .. K - 1 : g[k + 1] = Step("block", Null, g[k])
  BY <1>1, <1>2, LoopGoes, Zenon
<1> DEFINE G == {k \in 0 .. K : Reading(g[k]) /\ g[k].w = w}
<1>5. 0 \in G BY <1>1, <1>3, <1>4
<1>6. ASSUME NEW k \in 0 .. K - 1, k \in G PROVE k + 1 \in G
  <2>1. g[k + 1] = NextBlock(Null, g[k]) BY <1>4 DEF Step
  <2>2. Reading(g[k + 1]) /\ g[k + 1].w = w BY <1>6, <2>1, ReadingOn
  <2>3. k + 1 \in 0 .. K BY <1>1
  <2> QED BY <2>2, <2>3
<1> HIDE DEF G
<1>7. K \in G BY <1>1, <1>5, <1>6, UpTo
<1> QED BY <1>2, <1>7 DEF G, Read

\* Reading goes on along the route.
LEMMA ReadOn ==
  ASSUME NEW w, WorldInv(w), NEW from \in Msgs, NEW b, NEW N, Route(w, from, b, N),
         NEW i, On(w, from, b, N, i), NEW n \in Nat
  PROVE  On(w, from, b, N, Read(w, i, n).i)
<1> DEFINE K == PagesOf(n)
           start == [w |-> w, i |-> i, left |-> n, got |-> <<>>]
<1>1. K \in Nat BY PagesOfIs
<1>2. PICK g : IsLoop(g, "block", Null, start, K) /\ Blocks(w, i, n, Null) = g[K]
  BY BlocksAreLoop
<1>3. Together(w, from, b, N, start, start) BY DEF Together
<1> HIDE DEF K, start
<1>4. g[0] = start /\ \A k \in 0 .. K - 1 : g[k + 1] = Step("block", Null, g[k])
  BY <1>1, <1>2, LoopGoes, Zenon
<1> DEFINE G == {k \in 0 .. K : Together(w, from, b, N, g[k], g[k])}
<1>5. 0 \in G BY <1>1, <1>3, <1>4
<1>6. ASSUME NEW k \in 0 .. K - 1, k \in G PROVE k + 1 \in G
  <2>1. g[k + 1] = NextBlock(Null, g[k]) BY <1>4 DEF Step
  <2>2. Together(w, from, b, N, g[k], g[k]) BY <1>6
  <2>3. SameRoute(w, g[k].w, from, b, N) BY <2>2 DEF Together, SameRoute
  <2>4. Together(w, from, b, N, g[k + 1], g[k + 1]) BY <2>1, <2>2, <2>3, TogetherOn
  <2>5. k + 1 \in 0 .. K BY <1>1
  <2> QED BY <2>4, <2>5
<1> HIDE DEF G
<1>7. K \in G BY <1>1, <1>5, <1>6, UpTo
<1> QED BY <1>2, <1>7 DEF G, Read, Together

\* append( it, sz ) puts into m what the iterator would have read before it.
LEMMA CopyDoes ==
  ASSUME NEW w, WorldInv(w), DataType(w), NEW m \in Msgs, Steady(w, w.obj[m]),
         NEW i, IsIter(i), NEW n \in Nat, Credit(w, m, n), NEW c, c = Blocks(w, i, n, m)
  PROVE  /\ Copying(w, m, c)
         /\ \A from \in Msgs : \A b, N :
              Readable(w, from, m, b, N) /\ On(w, from, b, N, i) => c.got = Read(w, i, n).got
<1> DEFINE K == PagesOf(n)
           start == [w |-> w, i |-> i, left |-> n, got |-> <<>>]
<1>1. K \in Nat BY PagesOfIs
<1>2. PICK f : IsLoop(f, "block", m, start, K) /\ Blocks(w, i, n, m) = f[K]
  BY BlocksAreLoop
<1>3. PICK g : IsLoop(g, "block", Null, start, K) /\ Blocks(w, i, n, Null) = g[K]
  BY BlocksAreLoop
<1>4. Copying(w, m, start)
  <2>1. IsSeq(<<>>) /\ Len(<<>>) = 0
    <3>1. <<>> \in Seq({}) /\ Len(<<>>) = 0 OBVIOUS
    <3> QED BY <3>1 DEF IsSeq
  <2> QED BY <2>1 DEF Copying, BlocksOk, PutSoFar
<1>5. \A from, b, N : On(w, from, b, N, i) => Together(w, from, b, N, start, start)
  BY DEF Together
<1> HIDE DEF K, start
<1>6. f[0] = start /\ \A k \in 0 .. K - 1 : f[k + 1] = Step("block", m, f[k])
  BY <1>1, <1>2, LoopGoes, Zenon
<1>7. g[0] = start /\ \A k \in 0 .. K - 1 : g[k + 1] = Step("block", Null, g[k])
  BY <1>1, <1>3, LoopGoes, Zenon
<1>8. Copying(w, m, f[K])
  <2> DEFINE G == {k \in 0 .. K : Copying(w, m, f[k])}
  <2>1. 0 \in G BY <1>1, <1>4, <1>6
  <2>2. ASSUME NEW k \in 0 .. K - 1, k \in G PROVE k + 1 \in G
    <3>1. f[k + 1] = NextBlock(m, f[k]) BY <1>6 DEF Step
    <3>2. Copying(w, m, f[k + 1]) BY <2>2, <3>1, CopyingOn
    <3>3. k + 1 \in 0 .. K BY <1>1
    <3> QED BY <3>2, <3>3
  <2> HIDE DEF G
  <2>3. K \in G BY <1>1, <2>1, <2>2, UpTo
  <2> QED BY <2>3 DEF G
<1>9. ASSUME NEW from \in Msgs, NEW b, NEW N, Readable(w, from, m, b, N), On(w, from, b, N, i)
      PROVE  f[K].got = g[K].got
  <2> DEFINE G == {k \in 0 .. K : Copying(w, m, f[k]) /\ Together(w, from, b, N, g[k], f[k])}
  <2>1. 0 \in G BY <1>1, <1>4, <1>5, <1>6, <1>7, <1>9
  <2>2. ASSUME NEW k \in 0 .. K - 1, k \in G PROVE k + 1 \in G
    <3>1. f[k + 1] = NextBlock(m, f[k]) BY <1>6 DEF Step
    <3>2. g[k + 1] = NextBlock(Null, g[k]) BY <1>7 DEF Step
    <3>3. Copying(w, m, f[k]) /\ Together(w, from, b, N, g[k], f[k]) BY <2>2
    <3>4. Copying(w, m, f[k + 1]) BY <3>1, <3>3, CopyingOn
    <3>5. SameRoute(w, f[k].w, from, b, N) BY <1>9, <3>3, CopyRoute
    <3>6. Route(w, from, b, N) BY <1>9 DEF Readable
    <3>7. Together(w, from, b, N, g[k + 1], f[k + 1]) BY <3>1, <3>2, <3>3, <3>5, <3>6, TogetherOn
    <3>8. k + 1 \in 0 .. K BY <1>1
    <3> QED BY <3>4, <3>7, <3>8
  <2> HIDE DEF G
  <2>3. K \in G BY <1>1, <2>1, <2>2, UpTo
  <2> QED BY <2>3 DEF G, Together
<1> QED BY <1>2, <1>3, <1>8, <1>9 DEF Read

\* A reader begins at the first page of the route.
LEMMA BeginsOn ==
  ASSUME NEW w, WorldInv(w), NEW m \in Msgs, NEW b, NEW N, Route(w, m, b, N),
         w.obj[m].totalSz \notin 1 .. TotalReserved - 1, NEW i, i = GetReadIter(w, m)
  PROVE  On(w, m, b, N, i)
<1> DEFINE o == w.obj[m]
           t == o.totalSz
           sz == IF t = 0 THEN 0 ELSE t - TotalReserved
           c == Min({sz, PageSize - TotalReserved})
<1>1. t \in Nat /\ m \in Holders BY MsgIs
<1>2. /\ PageSize \in Nat \ {0} /\ TotalReserved \in 0 .. PageSize - 1 /\ TotalReserved \in Nat
      /\ TotalReserved \in Cells
  BY Sizes DEF Cells
<1>3. i = [ip |-> m, idx |-> 0, page |-> o.first[0], off |-> TotalReserved,
           total |-> sz, rem |-> c]
  BY Zenon DEF GetReadIter
<1>4. sz \in Nat BY <1>1, <1>2
<1>5. c = IF sz <= PageSize - TotalReserved THEN sz ELSE PageSize - TotalReserved
  <2> HIDE DEF sz
  <2>1. sz \in Int /\ PageSize - TotalReserved \in Int BY <1>2, <1>4
  <2> QED BY <2>1, MinOfTwo
<1>6. IsIter(i) BY <1>1, GetReadIterIs
<1>7. CASE t = 0
  <2>1. sz = 0 BY <1>7
  <2>2. c = 0 BY <1>2, <1>5, <2>1
  <2> HIDE DEF sz, c
  <2>3. i.total = 0 /\ i.rem = 0 BY <1>3, <2>1, <2>2
  <2> QED BY <1>6, <2>3 DEF On
<1>8. CASE t # 0
  <2>1. sz = t - TotalReserved BY <1>8
  <2> HIDE DEF sz, c
  <2>2. /\ i.off = TotalReserved /\ i.total = sz /\ i.rem = c
        /\ At(i) = [ip |-> m, idx |-> 0, page |-> o.first[0]]
    BY <1>3 DEF At
  <2>3. N # 0 /\ N \in Nat
    <3>1. t <= Base(N) \/ N # 0 BY DEF Route
    <3>2. Base(0) = 0 BY BaseIs
    <3> QED BY <1>1, <1>8, <3>1, <3>2 DEF Route
  <2>4. At(i) = b[0] /\ 0 \in 0 .. N - 1 BY <2>2, <2>3 DEF Route
  <2>5. Base(0) + i.off + i.total = t
    <3>1. Base(0) = 0 BY BaseIs
    <3> QED BY <1>1, <1>2, <2>1, <2>2, <3>1
  <2>6. i.rem = IF i.total <= PageSize - i.off THEN i.total ELSE PageSize - i.off
    BY <1>5, <2>2
  <2>7. i.off \in Cells /\ i.total \in Nat BY <1>2, <1>4, <2>2
  <2> HIDE DEF o, t
  <2>8. \E k \in 0 .. N - 1 :
           /\ At(i) = b[k] /\ i.off \in Cells
           /\ Base(k) + i.off + i.total = t
           /\ i.rem = IF i.total <= PageSize - i.off THEN i.total ELSE PageSize - i.off
    BY <2>4, <2>5, <2>6, <2>7
  <2> QED BY <1>6, <2>7, <2>8, Zenon DEF On, t, o
<1> QED BY <1>7, <1>8

(***************************************************************************)
(* The text of a message                                                    *)
(***************************************************************************)
\* The message object takes room, so the reserve is not empty.
LEMMA Reserved ==
  TotalReserved \in Nat \ {0} /\ TotalReserved \in Cells /\ AppCells \subseteq Cells
  /\ \A i \in AppCells : i \in Nat /\ ObjectSize <= i /\ i < TotalReserved
BY PageAssumption DEF TotalReserved, Cells, AppCells

\* The text of a message to which s was appended.
LEMMA MoreContent ==
  ASSUME NEW w, WorldInv(w), NEW v, WorldInv(v), NEW m \in Msgs, Measured(w.obj[m]),
         NEW t, IsSeq(t), NEW s, IsSeq(s), s # <<>>, NEW y, InTurn(t, s, y),
         NEW a, NEW b, Extended(w, v, m, a, b), Written(w, v, m, a, b, s),
         v.obj[m].totalSz = Start(w.obj[m]) + Len(s), NEW ap, Content(w, w.obj[m], a, t, ap)
  PROVE  Content(v, v.obj[m], b, y, ap)
<1> SUFFICES ASSUME NEW o, o = w.obj[m], NEW x, x = v.obj[m], Measured(o),
                    x.totalSz = Start(o) + Len(s), Content(w, o, a, t, ap)
             PROVE  Content(v, x, b, y, ap)
  BY Zenon
<1> DEFINE R == TotalReserved
<1>1. /\ o \in Object /\ o.totalSz \in Nat /\ o.pageCnt \in Nat
      /\ x \in Object /\ x.totalSz \in Nat /\ x.pageCnt \in Nat
  BY MsgIs
<1>2. R \in Nat \ {0} BY Reserved
<1>3. /\ IsSeq(y) /\ Len(y) = Len(t) + Len(s) /\ Len(s) \in Nat \ {0} /\ Len(t) \in Nat
      /\ \A j \in 1 .. Len(t) : y[j] = t[j]
      /\ \A j \in 1 .. Len(s) : y[Len(t) + j] = s[j]
      /\ y # <<>> /\ (t = <<>> <=> Len(t) = 0)
  <2>1. Len(s) # 0 /\ (t = <<>> <=> Len(t) = 0)
    <3>1. \A S : \A e \in Seq(S) : Len(e) = 0 <=> e = <<>> OBVIOUS
    <3> QED BY <3>1 DEF IsSeq
  <2>2. y # <<>>
    <3>1. Len(<<>>) = 0 OBVIOUS
    <3>2. Len(y) # 0 BY <2>1 DEF InTurn
    <3> QED BY <3>1, <3>2
  <2> QED BY <2>1, <2>2 DEF InTurn
<1>4. \/ t = <<>> /\ o.totalSz = 0
      \/ t # <<>> /\ o.totalSz \in {R + Len(t), Len(t)}
  BY DEF Content
<1>5. Start(o) = IF o.cur = Null /\ o.totalSz = 0 THEN R ELSE o.totalSz BY DEF Start
<1>6. x.totalSz = R + Len(y) \/ x.totalSz = Len(y)
  <2> DEFINE h == Start(o)
             l == Len(t)
             z == o.totalSz
  <2>1. x.totalSz = h + Len(s) OBVIOUS
  <2>2. /\ h = IF o.cur = Null /\ z = 0 THEN R ELSE z
        /\ t = <<>> => l = 0 /\ z = 0
        /\ t # <<>> => z = R + l \/ z = l
        /\ l \in Nat /\ z \in Nat
    BY <1>1, <1>3, <1>4, <1>5
  <2> HIDE DEF h, R, l, z
  <2>3. h = l \/ h = R + l BY <1>2, <2>2
  <2>4. Len(y) = l + Len(s) /\ Len(s) \in Nat BY <1>3 DEF l
  <2> QED BY <1>2, <2>1, <2>2, <2>3, <2>4
<1>7. ASSUME Begun(x, y)
      PROVE  /\ Begun(o, t) /\ Start(o) = R + Len(t)
             /\ t = <<>> => o.pageCnt = 0
             /\ t # <<>> => o.totalSz = R + Len(t)
  <2>1. x.totalSz = R + Len(y) BY <1>3, <1>7 DEF Begun
  <2>2. Start(o) = R + Len(t) BY <1>1, <1>2, <1>3, <1>4, <1>5, <2>1
  <2>3. CASE t = <<>>
    <3>1. o.totalSz = 0 /\ o.cur = Null BY <1>1, <1>2, <1>3, <1>4, <1>5, <2>2, <2>3
    <3>2. o.pageCnt = 0
      <4> DEFINE n == o.pageCnt
      <4>1. Base(n) = 0 /\ n \in Nat BY <1>1, <3>1 DEF Measured
      <4> HIDE DEF n
      <4>2. n # 0 => 0 < n /\ 0 \in Nat BY <4>1
      <4>3. n # 0 => Base(0) + PageSize <= Base(n) BY <4>1, <4>2, BaseIs
      <4>4. Base(0) = 0 /\ PageSize \in Nat \ {0} BY BaseIs, Sizes
      <4>5. n = 0 BY <4>1, <4>3, <4>4
      <4> QED BY <4>5 DEF n
    <3> QED BY <2>2, <2>3, <3>1, <3>2 DEF Begun
  <2>4. CASE t # <<>>
    <3>1. o.totalSz = R + Len(t) BY <1>1, <1>2, <1>3, <1>4, <1>5, <2>2, <2>4
    <3> QED BY <2>2, <2>4, <3>1 DEF Begun
  <2> QED BY <2>3, <2>4
<1>8. /\ w.obj[m].pageCnt <= v.obj[m].pageCnt
      /\ \A k \in 0 .. o.pageCnt - 1 : b[k] = a[k]
  BY DEF Extended
<1>9. /\ \A k \in 0 .. o.pageCnt - 1, i \in Cells : Base(k) + i < o.totalSz =>
           v.data[a[k].page][i] = w.data[a[k].page][i]
      /\ \A k \in 0 .. x.pageCnt - 1, i \in Cells :
           Start(o) <= Base(k) + i /\ Base(k) + i < x.totalSz =>
             v.data[b[k].page][i] = s[Base(k) + i - Start(o) + 1]
  BY Zenon DEF Written
<1>13. Begun(o, t) =>
         \A k \in 0 .. o.pageCnt - 1, i \in Cells :
           TotalReserved <= Base(k) + i /\ Base(k) + i < o.totalSz =>
             w.data[a[k].page][i] = t[Base(k) + i - TotalReserved + 1]
  BY Zenon DEF Content
<1>10. ASSUME Begun(x, y), NEW k \in 0 .. x.pageCnt - 1, NEW i \in Cells,
              R <= Base(k) + i, Base(k) + i < x.totalSz
       PROVE  v.data[b[k].page][i] = y[Base(k) + i - R + 1]
  <2> DEFINE e == Base(k) + i
  <2>1. /\ k \in Nat /\ e \in Nat /\ e >= R /\ e < x.totalSz
        /\ e - R + 1 = Base(k) + i - R + 1
    <3>1. k \in 0 .. x.pageCnt - 1 /\ x.pageCnt - 1 \in Int /\ k \in 0 .. x.pageCnt BY <1>1
    <3>2. k \in Nat /\ Base(k) \in Nat /\ i \in Nat BY <1>1, <3>1, ByteIs
    <3> QED BY <1>2, <1>10, <3>2
  <2>2. CASE e < Start(o)
    <3>1. t # <<>> /\ o.totalSz = R + Len(t) /\ Begun(o, t)
      BY <1>2, <1>3, <1>7, <1>10, <2>1, <2>2
    <3>2. e < o.totalSz BY <1>7, <1>10, <2>2, <3>1
    <3>3. k \in 0 .. o.pageCnt - 1 BY <1>1, <2>1, <3>2, WithinPages
    <3>4. v.data[b[k].page][i] = w.data[a[k].page][i] BY <1>8, <1>9, <3>2, <3>3
    <3>5. w.data[a[k].page][i] = t[e - R + 1]
      <4>1. R <= Base(k) + i /\ Base(k) + i < o.totalSz BY <2>1, <3>2
      <4>2. w.data[a[k].page][i] = t[Base(k) + i - R + 1]
        BY <1>13, <3>1, <3>3, <4>1, Zenon
      <4> QED BY <2>1, <4>2, Zenon
    <3> HIDE DEF e
    <3>6. e - R + 1 \in 1 .. Len(t) BY <1>2, <1>3, <2>1, <3>1, <3>2
    <3>7. v.data[b[k].page][i] = y[e - R + 1] BY <1>3, <3>4, <3>5, <3>6
    <3> QED BY <2>1, <3>7, Zenon DEF e
  <2>3. CASE ~(e < Start(o))
    <3> DEFINE z == e - Start(o) + 1
    <3>1. Start(o) = R + Len(t) /\ Start(o) \in Nat BY <1>2, <1>3, <1>7, <1>10
    <3>2. v.data[b[k].page][i] = s[z]
      <4>1. Start(o) <= Base(k) + i BY <2>1, <2>3, <3>1
      <4>2. v.data[b[k].page][i] = s[Base(k) + i - Start(o) + 1]
        BY <1>9, <1>10, <4>1, Zenon
      <4>3. Base(k) + i - Start(o) + 1 = z
        <5>1. Base(k) \in Nat /\ i \in Nat
          <6>1. k \in 0 .. x.pageCnt /\ x.pageCnt \in Int BY <1>1
          <6> QED BY <6>1, ByteIs
        <5> QED BY <3>1, <5>1
      <4> QED BY <4>2, <4>3, Zenon
    <3> HIDE DEF e
    <3>3. z \in 1 .. Len(s) /\ Len(t) + z = e - R + 1
      BY <1>1, <1>2, <1>3, <2>1, <2>3, <3>1
    <3>4. v.data[b[k].page][i] = y[e - R + 1]
      <4>1. y[Len(t) + z] = s[z] BY <1>3, <3>3
      <4> QED BY <3>2, <3>3, <4>1
    <3> QED BY <2>1, <3>4, Zenon DEF e
  <2> QED BY <2>2, <2>3
<1>11. ASSUME Begun(x, y), ap # Null
       PROVE  x.pageCnt # 0 /\ \A i \in AppCells : v.data[b[0].page][i] = ap
  <2>1. Begun(o, t) /\ (t = <<>> => o.pageCnt = 0) /\ (t # <<>> => o.totalSz = R + Len(t))
    BY <1>7, <1>11
  <2>2. o.pageCnt # 0 /\ \A i \in AppCells : w.data[a[0].page][i] = ap
    BY <1>11, <2>1 DEF Content
  <2>3. o.totalSz = R + Len(t) BY <2>1, <2>2
  <2>4. 0 \in 0 .. o.pageCnt - 1 /\ x.pageCnt # 0 BY <1>1, <1>8, <2>2
  <2>5. ASSUME NEW i \in AppCells PROVE v.data[b[0].page][i] = ap
    <3>1. i \in Cells /\ i \in Nat /\ i < R BY Reserved
    <3>2. Base(0) + i < o.totalSz
      <4>1. Base(0) = 0 BY BaseIs
      <4> QED BY <1>2, <1>3, <2>3, <3>1, <4>1
    <3>3. v.data[a[0].page][i] = w.data[a[0].page][i] BY <1>9, <2>4, <3>1, <3>2
    <3> QED BY <1>8, <2>2, <2>4, <3>3
  <2> QED BY <2>4, <2>5
<1> HIDE DEF R
<1>12. Begun(x, y) =>
         /\ \A k \in 0 .. x.pageCnt - 1, i \in Cells :
              R <= Base(k) + i /\ Base(k) + i < x.totalSz =>
                v.data[b[k].page][i] = y[Base(k) + i - R + 1]
         /\ ap # Null => /\ x.pageCnt # 0
                         /\ \A i \in AppCells : v.data[b[0].page][i] = ap
  BY <1>10, <1>11
<1> QED BY <1>3, <1>6, <1>12 DEF Content, R

\* So a message keeps what was appended to it, and s behind it.
LEMMA PutKept ==
  ASSUME NEW w, WorldInv(w), NEW v, WorldInv(v), NEW m \in Msgs, NEW s, IsSeq(s), s # <<>>,
         Puts(w, v, m, s, Len(s)), NEW t, IsSeq(t), NEW ap, Kept(w, w.obj[m], t, ap),
         NEW y, Fresh(w.obj[m]) => InTurn(t, s, y)
  PROVE  Kept(v, v.obj[m], y, ap)
<1> SUFFICES ASSUME NEW o, o = w.obj[m], NEW x, x = v.obj[m], Kept(w, o, t, ap),
                    Fresh(o) => InTurn(t, s, y)
             PROVE  Kept(v, x, y, ap)
  BY Zenon
<1>1. /\ Steady(v, x) /\ x.totalSz = Start(o) + Len(s) /\ (Fresh(x) <=> Fresh(o))
      /\ Fresh(o) => \A a : Tidy(w, o, a) =>
           \E b : Extended(w, v, m, a, b) /\ Written(w, v, m, a, b, s)
  BY Zenon DEF Puts
<1>2. Measured(o) BY DEF Kept, Steady
<1>3. ASSUME Fresh(x) PROVE \E b : Tidy(v, x, b) /\ Content(v, x, b, y, ap)
  <2>1. Fresh(o) /\ InTurn(t, s, y) BY <1>1, <1>3
  <2>2. PICK a : Tidy(w, o, a) /\ Content(w, o, a, t, ap) BY <2>1, Zenon DEF Kept
  <2>3. PICK b : Extended(w, v, m, a, b) /\ Written(w, v, m, a, b, s) BY <1>1, <2>1, <2>2
  <2>4. Content(v, x, b, y, ap)
    <3>1. x.totalSz = Start(o) + Len(s) BY <1>1
    <3> QED BY <1>2, <2>1, <2>2, <2>3, <3>1, MoreContent
  <2>5. Tidy(v, x, b) BY <2>3 DEF Extended
  <2> QED BY <2>4, <2>5
<1> QED BY <1>1, <1>3 DEF Kept

\* What the messages hold is tt, and aa of the application.
KeptAll(w, tt, aa) ==
  /\ DataType(w)
  /\ tt = [h \in Holders |-> tt[h]] /\ aa = [h \in Holders |-> aa[h]]
  /\ \A h \in Holders : IsSeq(tt[h]) /\ Kept(w, w.obj[h], tt[h], aa[h])

\* Whatever happens to m, the others keep theirs.
LEMMA ApartKept ==
  ASSUME NEW w, WorldInv(w), NEW v, NEW m \in Holders, Apart(w, v, m), DataType(v),
         NEW tt, NEW aa, KeptAll(w, tt, aa), NEW y, IsSeq(y), NEW q, Kept(v, v.obj[m], y, q)
  PROVE  KeptAll(v, [tt EXCEPT ![m] = y], [aa EXCEPT ![m] = q])
<1> DEFINE ty == [tt EXCEPT ![m] = y]
           aq == [aa EXCEPT ![m] = q]
<1>1. /\ tt = [h \in Holders |-> tt[h]] /\ aa = [h \in Holders |-> aa[h]]
      /\ \A h \in Holders : IsSeq(tt[h]) /\ Kept(w, w.obj[h], tt[h], aa[h])
  BY DEF KeptAll
<1>2. /\ ty = [h \in Holders |-> ty[h]] /\ aq = [h \in Holders |-> aq[h]]
      /\ ty[m] = y /\ aq[m] = q /\ \A h \in Holders : h # m => ty[h] = tt[h] /\ aq[h] = aa[h]
  BY <1>1
<1> HIDE DEF ty, aq
<1>3. ASSUME NEW h \in Holders PROVE IsSeq(ty[h]) /\ Kept(v, v.obj[h], ty[h], aq[h])
  <2>1. CASE h = m BY <1>2, <2>1
  <2>2. CASE h # m
    <3> DEFINE o == w.obj[h]
    <3>1. o \in Object /\ Listed(w, o) BY DEF WorldInv, Sound, WorldType
    <3>2. v.obj[h] = o /\ Untouched(w, v, o) BY <2>2 DEF Apart, Untouched
    <3>3. Kept(w, o, tt[h], aa[h]) BY <1>1
    <3> HIDE DEF o
    <3>4. Kept(v, o, tt[h], aa[h]) BY <3>1, <3>2, <3>3, UntouchedKeeps
    <3> QED BY <1>1, <1>2, <2>2, <3>2, <3>4
  <2> QED BY <2>1, <2>2
<1>4. KeptAll(v, ty, aq) BY <1>2, <1>3 DEF KeptAll
<1> QED BY <1>4 DEF ty, aq

\* An object without pages keeps nothing.
LEMMA EmptyKept ==
  ASSUME NEW w, NEW o \in Object, Empty(o)
  PROVE  Kept(w, o, <<>>, Null)
<1>1. /\ o.next = Null /\ o.lip = Null /\ o.cur = Null /\ o.totalSz = 0 /\ o.pageCnt = 0
      /\ o.used \in Nat /\ LocalStorageSize \in Nat \ {0} /\ Base(0) = 0
  BY Sizes, BaseIs DEF Empty, Object
<1> DEFINE a == [k \in 0 .. 0 - 1 |-> [ip |-> Null, idx |-> 0, page |-> Null]]
<1>2. Steady(w, o) BY <1>1 DEF Steady, Measured, Low
<1>3. \A k : k \notin 0 .. o.pageCnt - 1 /\ k \notin 0 .. o.pageCnt - 2 BY <1>1
<1>4. a \in [0 .. o.pageCnt - 1 -> Place] BY <1>1
<1> HIDE DEF a
<1>5. Way(w, o, a) BY <1>1, <1>3, <1>4 DEF Way
<1>6. Tidy(w, o, a) BY <1>1, <1>3, <1>5 DEF Tidy, NextAt
<1>7. Content(w, o, a, <<>>, Null) BY <1>1, <1>3 DEF Content
<1> QED BY <1>2, <1>6, <1>7 DEF Kept

\* clear() and the destructor leave the others alone.
LEMMA ClearApart ==
  ASSUME NEW w, WorldInv(w), DataType(w), NEW m \in Msgs, NEW v, v = Clear(w, m),
         NEW z, z = [v EXCEPT !.obj = [@ EXCEPT ![m] = Zeroed]]
  PROVE  /\ Apart(w, v, m) /\ DataType(v) /\ Empty(v.obj[m]) /\ v.obj[m] \in Object
         /\ Apart(w, z, m) /\ DataType(z) /\ Empty(z.obj[m]) /\ z.obj[m] \in Object
<1> DEFINE gone == Released(w, w.obj[m])
           da == [p \in Pages |-> IF p \in gone THEN Unwritten ELSE w.data[p]]
<1>1. m \in Holders /\ w.obj[m] \in Object /\ WorldType(w) /\ Listed(w, w.obj[m])
  BY MsgIs DEF WorldInv, Sound
<1>2. Emptied(w, v, m) /\ Emptied(w, z, m) BY ClearIs
<1>3. gone = OwnedIn(w, w.obj[m]) BY <1>1, ReleasedIs
<1>4. v.data = da /\ z.data = da BY <1>1 DEF Clear, WorldType
<1>5. da = [p \in Pages |-> da[p]] /\ \A r \in Pages : r \notin gone => da[r] = w.data[r]
  OBVIOUS
<1> HIDE DEF gone, da
<1>6. \A h \in Holders : h # m =>
        \A r \in OwnedIn(w, w.obj[h]) : r \in Pages /\ r \notin OwnedIn(w, w.obj[m])
  <2> SUFFICES ASSUME NEW h \in Holders, h # m, NEW r \in OwnedIn(w, w.obj[h])
               PROVE  r \in Pages /\ r \notin OwnedIn(w, w.obj[m])
    OBVIOUS
  <2>1. OwnedIn(w, w.obj[h]) \subseteq Pages
    <3>1. Listed(w, w.obj[h]) /\ Payload(w, w.obj[h]) \subseteq Pages
      BY DEF WorldInv, Sound, Numbered
    <3> QED BY <3>1, OwnedArePages
  <2>2. OwnedIn(w, w.obj[h]) \cap OwnedIn(w, w.obj[m]) = {} BY <1>1 DEF WorldInv, Separate
  <2> QED BY <2>1, <2>2
<1>7. Apart(w, v, m) /\ Apart(w, z, m)
  BY <1>2, <1>3, <1>4, <1>5, <1>6 DEF Apart, Emptied
<1>8. DataType(v) /\ DataType(z) BY <1>4, <1>5 DEF DataType
<1>9. /\ Empty(v.obj[m]) /\ v.obj[m] \in Object /\ Empty(z.obj[m]) /\ z.obj[m] \in Object
  BY <1>1, <1>2 DEF Emptied, WorldType
<1> QED BY <1>7, <1>8, <1>9

\* An object goes to another variable with its text.
LEMMA HandedKept ==
  ASSUME NEW u, WorldInv(u), NEW v, NEW from \in Holders, NEW to \in Holders, from # to,
         HandedOver(u, v, from, to), DataType(v),
         \A h \in Holders : h # to => Untouched(u, v, u.obj[h]),
         NEW tt, NEW aa, KeptAll(u, tt, aa)
  PROVE  KeptAll(v, [tt EXCEPT ![to] = tt[from], ![from] = <<>>],
                 [aa EXCEPT ![to] = aa[from], ![from] = Null])
<1> DEFINE ty == [tt EXCEPT ![to] = tt[from], ![from] = <<>>]
           aq == [aa EXCEPT ![to] = aa[from], ![from] = Null]
<1>1. /\ tt = [h \in Holders |-> tt[h]] /\ aa = [h \in Holders |-> aa[h]]
      /\ \A h \in Holders : IsSeq(tt[h]) /\ Kept(u, u.obj[h], tt[h], aa[h])
  BY DEF KeptAll
<1>2. /\ ty = [h \in Holders |-> ty[h]] /\ aq = [h \in Holders |-> aq[h]]
      /\ ty[to] = tt[from] /\ aq[to] = aa[from] /\ ty[from] = <<>> /\ aq[from] = Null
      /\ \A h \in Holders : h # to /\ h # from => ty[h] = tt[h] /\ aq[h] = aa[h]
  BY <1>1
<1> HIDE DEF ty, aq
<1>3. ASSUME NEW h \in Holders, h # to PROVE Kept(v, u.obj[h], tt[h], aa[h])
  <2> DEFINE o == u.obj[h]
  <2>1. o \in Object /\ Listed(u, o) BY DEF WorldInv, Sound, WorldType
  <2>2. Untouched(u, v, o) /\ Kept(u, o, tt[h], aa[h]) BY <1>1, <1>3
  <2> HIDE DEF o
  <2>3. Kept(v, o, tt[h], aa[h]) BY <2>1, <2>2, UntouchedKeeps
  <2> QED BY <2>3 DEF o
<1>4. IsSeq(<<>>)
  <2>1. <<>> \in Seq({}) OBVIOUS
  <2> QED BY <2>1 DEF IsSeq
<1>5. ASSUME NEW h \in Holders PROVE IsSeq(ty[h]) /\ Kept(v, v.obj[h], ty[h], aq[h])
  <2>1. CASE h = from
    <3>1. v.obj[h] = Zeroed BY <2>1 DEF HandedOver
    <3>2. Kept(v, Zeroed, <<>>, Null) BY ZeroedIs, EmptyKept
    <3> QED BY <1>2, <1>4, <2>1, <3>1, <3>2
  <2>2. CASE h = to
    <3>1. v.obj[h] = u.obj[from] BY <2>2 DEF HandedOver
    <3>2. Kept(v, u.obj[from], tt[from], aa[from]) BY <1>3
    <3> QED BY <1>1, <1>2, <2>2, <3>1, <3>2
  <2>3. CASE h # from /\ h # to
    <3>1. v.obj[h] = u.obj[h] BY <2>3 DEF HandedOver
    <3>2. Kept(v, u.obj[h], tt[h], aa[h]) BY <1>3, <2>3
    <3> QED BY <1>1, <1>2, <2>3, <3>1, <3>2
  <2> QED BY <2>1, <2>2, <2>3
<1>6. KeptAll(v, ty, aq) BY <1>2, <1>5 DEF KeptAll
<1> QED BY <1>6 DEF ty, aq

\* In front of the first page are the application's data, and all else is as it was.
AppInFront(w, z, p) ==
  /\ z.index = w.index /\ z.obj = w.obj /\ DataType(z)
  /\ \A r \in Pages : r # p => z.data[r] = w.data[r]
  /\ \A i \in AppCells : z.data[p][i] = "app"
  /\ \A i \in Cells : TotalReserved <= i => z.data[p][i] = w.data[p][i]

\* No text changes by that.
LEMMA FrontKept ==
  ASSUME NEW w, WorldInv(w), NEW m \in Msgs, w.obj[m].pageCnt # 0,
         NEW tt, NEW aa, KeptAll(w, tt, aa), NEW p, p = w.obj[m].first[0],
         NEW z, AppInFront(w, z, p)
  PROVE  KeptAll(z, [tt EXCEPT ![m] = tt[m]], [aa EXCEPT ![m] = "app"])
<1> DEFINE o == w.obj[m]
<1>1. /\ m \in Holders /\ o \in Object /\ o.pageCnt \in Nat \ {0} /\ WorldType(w)
      /\ Listed(w, o) /\ Payload(w, o) \subseteq Pages
  BY MsgIs DEF WorldInv, Sound, Numbered
<1>2. /\ DataType(w) /\ IsSeq(tt[m]) /\ Kept(w, o, tt[m], aa[m]) BY <1>1 DEF KeptAll
<1>3. p \in OwnedIn(w, o) /\ p \in Pages
  <2>1. 0 \in Local /\ 0 < o.pageCnt BY <1>1, Sizes DEF Local
  <2>2. p \in LocalPages(o) BY <2>1, PayloadIs
  <2> QED BY <1>1, <2>2 DEF OwnedIn, Payload
<1>4. /\ z.index = w.index /\ z.obj = w.obj /\ DataType(z)
      /\ \A r \in Pages : r # p => z.data[r] = w.data[r]
      /\ \A i \in AppCells : z.data[p][i] = "app"
      /\ \A i \in Cells : TotalReserved <= i => z.data[p][i] = w.data[p][i]
  BY Zenon DEF AppInFront
<1>5. Apart(w, z, m)
  <2> SUFFICES ASSUME NEW h \in Holders, h # m, NEW r \in OwnedIn(w, w.obj[h])
               PROVE  z.data[r] = w.data[r]
    BY <1>4 DEF Apart
  <2>1. OwnedIn(w, w.obj[h]) \subseteq Pages
    <3>1. Listed(w, w.obj[h]) /\ Payload(w, w.obj[h]) \subseteq Pages
      BY DEF WorldInv, Sound, Numbered
    <3> QED BY <3>1, OwnedArePages
  <2>2. OwnedIn(w, w.obj[h]) \cap OwnedIn(w, w.obj[m]) = {} BY <1>1 DEF WorldInv, Separate
  <2> QED BY <1>3, <1>4, <2>1, <2>2
<1>6. SameList(o, o) /\ OwnedIn(z, o) = OwnedIn(w, o)
  <2>1. SameList(o, o) BY Zenon DEF SameList
  <2>2. z.index = w.index /\ Listed(w, o) BY <1>1, <1>4
  <2> HIDE DEF o
  <2> QED BY <2>1, <2>2, OwnedSame
<1>7. Steady(z, o) BY <1>2, <1>6, Zenon DEF Kept, Steady
<1>8. ASSUME Fresh(o) PROVE \E a : Tidy(z, o, a) /\ Content(z, o, a, tt[m], "app")
  <2> DEFINE t == tt[m]
  <2>1. PICK a : Tidy(w, o, a) /\ Content(w, o, a, t, aa[m]) BY <1>2, <1>8, Zenon DEF Kept
  <2>2. Tidy(z, o, a)
    <3> HIDE DEF o
    <3> QED BY <1>1, <1>4, <1>6, <2>1, TidySame
  <2>3. a[0].page = p
    <3>1. Way(w, o, a) BY <2>1, Zenon DEF Tidy
    <3> QED BY <1>1, <3>1, FirstPage
  <2>4. \A j, k \in 0 .. o.pageCnt - 1 : a[j].page = a[k].page => j = k BY <2>1 DEF Tidy
  <2>5. \A k \in 0 .. o.pageCnt - 1 : a[k].page \in Pages
    <3>1. OwnedIn(w, o) \subseteq Pages BY <1>1, OwnedArePages
    <3> QED BY <2>1, <3>1 DEF Tidy
  <2>6. 0 \in 0 .. o.pageCnt - 1 BY <1>1
  <2>7. ASSUME NEW k \in 0 .. o.pageCnt - 1, NEW i \in Cells, TotalReserved <= Base(k) + i
        PROVE  z.data[a[k].page][i] = w.data[a[k].page][i]
    <3>1. CASE a[k].page = p
      <4>1. k = 0 BY <2>3, <2>4, <2>6, <3>1, Zenon
      <4>2. Base(k) = 0 /\ i \in Nat BY <4>1, BaseIs DEF Cells
      <4>3. TotalReserved <= i BY <2>7, <4>2
      <4>4. z.data[p][i] = w.data[p][i] BY <1>4, <4>3
      <4> QED BY <3>1, <4>4, Zenon
    <3>2. CASE a[k].page # p
      <4>1. z.data[a[k].page] = w.data[a[k].page] BY <1>4, <2>5, <3>2, Zenon
      <4> QED BY <4>1, Zenon
    <3> QED BY <3>1, <3>2
  <2>8. \A i \in AppCells : z.data[a[0].page][i] = "app" BY <1>4, <2>3, Zenon
  <2>9. Content(z, o, a, t, "app")
    <3> HIDE DEF t, o
    <3>1. /\ \/ t = <<>> /\ o.totalSz = 0
             \/ t # <<>> /\ o.totalSz \in {TotalReserved + Len(t), Len(t)}
          /\ Begun(o, t) =>
               \A k \in 0 .. o.pageCnt - 1, i \in Cells :
                 TotalReserved <= Base(k) + i /\ Base(k) + i < o.totalSz =>
                   w.data[a[k].page][i] = t[Base(k) + i - TotalReserved + 1]
      BY <2>1, Zenon DEF Content
    <3>2. Begun(o, t) =>
            \A k \in 0 .. o.pageCnt - 1, i \in Cells :
              TotalReserved <= Base(k) + i /\ Base(k) + i < o.totalSz =>
                z.data[a[k].page][i] = t[Base(k) + i - TotalReserved + 1]
      BY <2>7, <3>1
    <3>3. o.pageCnt # 0 BY <1>1
    <3> QED BY <2>8, <3>1, <3>2, <3>3, Zenon DEF Content
  <2> QED BY <2>2, <2>9, Zenon
<1>9. Kept(z, z.obj[m], tt[m], "app")
  <2>1. Kept(z, o, tt[m], "app") BY <1>7, <1>8, Zenon DEF Kept
  <2> QED BY <1>4, <2>1
<1> QED BY <1>1, <1>2, <1>4, <1>5, <1>9, ApartKept

\* The application writes its data in front of the first page.
LEMMA AppWritten ==
  ASSUME NEW w, WorldInv(w), NEW m \in Msgs, w.obj[m].pageCnt # 0,
         NEW tt, NEW aa, KeptAll(w, tt, aa), NEW p, p = w.obj[m].first[0],
         NEW page, page = [i \in Cells |-> IF i \in AppCells THEN "app" ELSE w.data[p][i]],
         NEW z, z.index = w.index, z.obj = w.obj, z.data = [w.data EXCEPT ![p] = page]
  PROVE  KeptAll(z, [tt EXCEPT ![m] = tt[m]], [aa EXCEPT ![m] = "app"])
<1>1. DataType(w) BY Zenon DEF KeptAll
<1>2. p \in Pages
  <2> DEFINE o == w.obj[m]
  <2>1. /\ m \in Holders /\ o \in Object /\ o.pageCnt \in Nat \ {0}
        /\ Listed(w, o) /\ Payload(w, o) \subseteq Pages
    BY MsgIs DEF WorldInv, Sound, Numbered
  <2>2. 0 \in Local /\ 0 < o.pageCnt BY <2>1, Sizes DEF Local
  <2>3. p \in LocalPages(o) BY <2>2, PayloadIs
  <2> QED BY <2>1, <2>3 DEF Payload
<1>3. /\ z.data = [r \in Pages |-> z.data[r]] /\ z.data[p] = page
      /\ \A r \in Pages : r # p => z.data[r] = w.data[r]
  BY <1>1, <1>2 DEF DataType
<1>4. DataType(z) BY <1>3, Zenon DEF DataType
<1>5. \A i \in AppCells : page[i] = "app" BY Reserved
<1>6. \A i \in Cells : TotalReserved <= i => page[i] = w.data[p][i]
  <2> SUFFICES ASSUME NEW i \in Cells, TotalReserved <= i PROVE page[i] = w.data[p][i]
    OBVIOUS
  <2>1. i \in Nat /\ TotalReserved \in Nat BY Reserved DEF Cells
  <2>2. i \notin AppCells BY <2>1, Reserved
  <2> QED BY <2>2
<1>7. AppInFront(w, z, p) BY <1>3, <1>4, <1>5, <1>6, Zenon DEF AppInFront
<1> QED BY <1>7, FrontKept

\* appWriteData gives an empty message its first page; it is as empty as before.
LEMMA FirstPageKept ==
  ASSUME NEW w, WorldInv(w), NEW m \in Msgs, HasPages(w, m), w.obj[m].totalSz = 0,
         w.obj[m].cur = Null, NEW tt, NEW aa, KeptAll(w, tt, aa), NEW v, v = AddPage(w, m)
  PROVE  /\ KeptAll(v, [tt EXCEPT ![m] = tt[m]], [aa EXCEPT ![m] = aa[m]])
         /\ v.obj[m].pageCnt # 0
<1> DEFINE o == w.obj[m]
           x == v.obj[m]
           t == tt[m]
           ap == aa[m]
<1>1. m \in Holders /\ o \in Object BY MsgIs
<1>2. DataType(w) /\ IsSeq(t) /\ Kept(w, o, t, ap) BY <1>1 DEF KeptAll
<1>3. Steady(w, o) BY <1>2 DEF Kept
<1>4. Apart(w, v, m) /\ v.data = w.data BY AddPageApart
<1>5. DataType(v) BY <1>2, <1>4 DEF DataType
<1>6. /\ Steady(v, x) /\ x.cur # Null /\ x.totalSz = o.totalSz
      /\ x.totalSz = Base(x.pageCnt - 1) /\ x.pageCnt - 1 = o.pageCnt /\ o.pageCnt \in Nat
  BY <1>3, AddPageSteady
<1>7. x.pageCnt # 0 /\ x.pageCnt \in Nat
  <2>1. x \in Object BY <1>1, AddPageApart DEF WorldInv, WorldType
  <2>2. x.pageCnt \in Nat BY <2>1 DEF Object
  <2> QED BY <1>6, <2>2
<1>8. ASSUME Fresh(x) PROVE \E b : Tidy(v, x, b) /\ Content(v, x, b, t, ap)
  <2>1. /\ o.used >= Low(o) => (Fresh(x) <=> Fresh(o))
        /\ Fresh(o) => \A a : Tidy(w, o, a) => \E b : Lengthened(w, v, o, x, a, b)
    BY AddPageFollows
  <2>2. Fresh(o) BY <1>3, <1>8, <2>1 DEF Steady
  <2>3. PICK a : Tidy(w, o, a) /\ Content(w, o, a, t, ap) BY <1>2, <2>2, Zenon DEF Kept
  <2>4. PICK b : Lengthened(w, v, o, x, a, b) BY <2>1, <2>2, <2>3
  <2>5. o.pageCnt = 0 /\ TotalReserved \in Nat \ {0}
    <3> DEFINE n == o.pageCnt
    <3>1. Base(n) = 0 /\ n \in Nat BY <1>3, <1>6 DEF Steady, Measured
    <3> HIDE DEF n
    <3>2. n # 0 => 0 < n /\ 0 \in Nat BY <3>1
    <3>3. n # 0 => Base(0) + PageSize <= Base(n) BY <3>1, <3>2, BaseIs
    <3>4. Base(0) = 0 /\ PageSize \in Nat \ {0} BY BaseIs, Sizes
    <3>5. n = 0 BY <3>1, <3>3, <3>4
    <3> QED BY <3>5, Reserved DEF n
  <2>6. t = <<>>
    <3>1. t # <<>> => Len(t) \in Nat \ {0}
      <4>1. \A S : \A e \in Seq(S) : e # <<>> => Len(e) \in Nat \ {0} OBVIOUS
      <4> QED BY <1>2, <4>1 DEF IsSeq
    <3>2. \/ t = <<>>
          \/ o.totalSz \in {TotalReserved + Len(t), Len(t)}
      BY <2>3 DEF Content
    <3> HIDE DEF t
    <3> QED BY <2>5, <3>1, <3>2
  <2>7. ap = Null
    <3>1. Begun(o, t) BY <2>6 DEF Begun
    <3> QED BY <2>3, <2>5, <3>1 DEF Content
  <2>8. Content(v, x, b, t, ap)
    <3>1. x.totalSz = 0 BY <1>6
    <3> DEFINE n == x.pageCnt
    <3>2. \A k \in 0 .. n - 1, i \in Cells : ~(Base(k) + i < 0)
      <4> SUFFICES ASSUME NEW k \in 0 .. n - 1, NEW i \in Cells PROVE ~(Base(k) + i < 0)
        OBVIOUS
      <4>1. n \in Int /\ k \in 0 .. n BY <1>7
      <4>2. Base(k) \in Nat /\ i \in Nat
        <5> HIDE DEF n
        <5> QED BY <4>1, ByteIs
      <4> QED BY <4>2
    <3> QED BY <2>6, <2>7, <3>1, <3>2 DEF Content
  <2>9. Tidy(v, x, b) BY <2>4 DEF Lengthened
  <2> QED BY <2>8, <2>9
<1>9. Kept(v, x, t, ap) BY <1>6, <1>8 DEF Kept
<1> QED BY <1>1, <1>2, <1>4, <1>5, <1>7, <1>9, ApartKept

(***************************************************************************)
(* Calls                                                                    *)
(***************************************************************************)
\* So it is with all messages and all pages that hold an object.
TextInv == KeptAll(World, text, app)

\* A call that makes a world with those texts of it.
LEMMA BecomeText ==
  ASSUME NEW w, WorldInv(w), Become(w), KeptAll(w, text', app')
  PROVE  TextInv'
<1>1. World' = w BY DEF WorldInv, WorldType, World, Become
<1> QED BY <1>1 DEF TextInv

\* When s was appended to m.
LEMMA PutText ==
  ASSUME IInv, TextInv, NEW m \in Msgs, NEW w, WorldInv(w), Become(w),
         NEW s, IsSeq(s), s # <<>>, Puts(World, w, m, s, Len(s)),
         NEW y, IsSeq(y), Fresh(obj[m]) => InTurn(text[m], s, y),
         text' = [text EXCEPT ![m] = y], UNCHANGED app
  PROVE  TextInv'
<1> DEFINE u == World
<1>1. WorldInv(u) /\ KeptAll(u, text, app) /\ u.obj = obj /\ m \in Holders
  BY MsgIs DEF IInv, TextInv, World
<1>2. IsSeq(text[m]) /\ Kept(u, u.obj[m], text[m], app[m]) BY <1>1 DEF KeptAll
<1>3. Puts(u, w, m, s, Len(s)) OBVIOUS
<1> HIDE DEF u
<1>4. Fresh(u.obj[m]) => InTurn(text[m], s, y) BY <1>1
<1>6. Kept(w, w.obj[m], y, app[m]) BY <1>1, <1>2, <1>3, <1>4, PutKept
<1>7. Apart(u, w, m) /\ DataType(w) BY <1>3 DEF Puts
<1>8. KeptAll(w, [text EXCEPT ![m] = y], [app EXCEPT ![m] = app[m]])
  BY <1>1, <1>6, <1>7, ApartKept
<1>9. app' = [app EXCEPT ![m] = app[m]] BY <1>1 DEF KeptAll
<1> QED BY <1>8, <1>9, BecomeText

\* append( buff, sz ) and appendUint8.
LEMMA AppendText ==
  ASSUME IInv, TextInv, NEW m \in Msgs, NEW n \in Nat \ {0},
         AppendBuff(m, n) \/ (n = 1 /\ AppendUint8(m))
  PROVE  TextInv'
<1> DEFINE s == NewBytes(m, n)
           S == {s[k] : k \in 1 .. n}
           y == text[m] \o s
<1>1. s \in Seq(S) /\ Len(s) = n
  <2>1. s = [k \in 1 .. n |-> s[k]] BY DEF NewBytes
  <2> HIDE DEF s
  <2>2. s \in [1 .. n -> S] BY <2>1
  <2> HIDE DEF S
  <2> QED BY <2>2
<1>2. WorldInv(World) /\ World.obj = obj /\ m \in Holders BY MsgIs DEF IInv, World
<1>3. Credit(World, m, n)
  <2>1. MayGrow(m, n) BY DEF AppendBuff, AppendUint8
  <2> QED BY <1>2, <2>1, MayGrowIs DEF Credit
<1>4. /\ IsSeq(text[m]) /\ DataType(World) /\ Steady(World, World.obj[m])
  BY <1>2 DEF TextInv, KeptAll, Kept
<1>5. text' = [text EXCEPT ![m] = y] /\ UNCHANGED app BY DEF AppendBuff, AppendUint8
<1>6. Become(Put(World, m, s)) \/ (n = 1 /\ Become(PutChunk(World, m, s).w))
  BY DEF AppendBuff, AppendUint8
<1>7. IsSeq(s) /\ s # <<>> BY <1>1 DEF IsSeq
<1> HIDE DEF s, S
<1>8. InTurn(text[m], s, y) BY <1>4, <1>7, Joined
<1> HIDE DEF y
<1>9. IsSeq(y) BY <1>8 DEF InTurn
<1>10. n + 0 = n OBVIOUS
<1>11. CASE Become(Put(World, m, s))
  <2> DEFINE v == Put(World, m, s)
  <2>1. Puts(World, v, m, s, Len(s)) BY <1>1, <1>2, <1>3, <1>4, <1>7, PutDoes
  <2>2. WorldInv(v) BY <1>1, <1>2, <1>3, <1>10, PutKeeps
  <2>3. Become(v) BY <1>11
  <2> HIDE DEF v
  <2> QED BY <1>5, <1>7, <1>8, <1>9, <2>1, <2>2, <2>3, PutText
<1>12. CASE n = 1 /\ Become(PutChunk(World, m, s).w)
  <2> DEFINE c == PutChunk(World, m, s)
  <2>1. PutSome(World, m, s, c) BY <1>1, <1>2, <1>3, <1>4, <1>7, PutChunkDoes
  <2>2. c = PutChunk(World, m, s) /\ Become(c.w) BY <1>12
  <2> HIDE DEF c
  <2>3. WorldInv(c.w) BY <1>1, <1>2, <1>3, <1>7, <1>10, <2>2, PutChunkKeeps
  <2>4. Puts(World, c.w, m, s, Len(s))
    <3>1. PICK l \in 1 .. Len(s) : Puts(World, c.w, m, s, l) BY <2>1 DEF PutSome
    <3>2. l = Len(s) BY <1>1, <1>12
    <3> QED BY <3>1, <3>2
  <2> QED BY <1>5, <1>7, <1>8, <1>9, <2>2, <2>3, <2>4, PutText
<1> QED BY <1>6, <1>11, <1>12

\* A reader that has read some of a message is on a route of it.
LEMMA IsReadable ==
  ASSUME NEW w, WorldInv(w), NEW from \in Msgs, NEW m \in Msgs, NEW t, NEW ap,
         Kept(w, w.obj[from], t, ap), from # m \/ Fresh(w.obj[m])
  PROVE  \E b, N : Readable(w, from, m, b, N)
<1> DEFINE o == w.obj[from]
<1>1. Steady(w, o) /\ Measured(o) BY DEF Kept, Steady
<1>2. CASE Fresh(o)
  <2>1. PICK a : Tidy(w, o, a) BY <1>2, Zenon DEF Kept
  <2> DEFINE b == [k \in 0 .. o.pageCnt - 1 |-> Named(from, a[k])]
  <2>2. Route(w, from, b, o.pageCnt)
    <3> DEFINE n == o.pageCnt
    <3>1. o = w.obj[from] /\ b = [k \in 0 .. o.pageCnt - 1 |-> Named(from, a[k])] OBVIOUS
    <3> HIDE DEF o, b
    <3> QED BY <1>1, <2>1, <3>1, RouteIsWay
  <2>3. ASSUME from = m
        PROVE  /\ Fresh(w.obj[m]) /\ Tidy(w, w.obj[m], a) /\ o.pageCnt = w.obj[m].pageCnt
               /\ b = [k \in 0 .. w.obj[m].pageCnt - 1 |-> Named(m, a[k])]
    BY <1>2, <2>1, <2>3
  <2> HIDE DEF o, b
  <2>4. Readable(w, from, m, b, o.pageCnt) BY <2>2, <2>3 DEF Readable
  <2> QED BY <2>4
<1>3. CASE ~Fresh(o)
  <2>1. from # m BY <1>3
  <2>2. o = w.obj[from] OBVIOUS
  <2> HIDE DEF o
  <2>3. PICK b : \E N \in Nat : Route(w, from, b, N) BY <1>1, <1>3, <2>2, RouteOfUsed
  <2>4. PICK N \in Nat : Route(w, from, b, N) BY <2>3
  <2>5. Readable(w, from, m, b, N) BY <2>1, <2>4 DEF Readable
  <2> QED BY <2>5
<1> QED BY <1>2, <1>3

\* append( it, sz ), of a message to itself as well.
LEMMA AppendIterText ==
  ASSUME IInv, TextInv, NEW m \in Msgs, NEW from \in Msgs, NEW k \in Nat, NEW n \in Nat,
         AppendIter(m, from, k, n)
  PROVE  TextInv'
<1> DEFINE g == GetReadIter(World, from)
           i == Read(World, g, k).i
           c == Blocks(World, i, n, m)
           e == Read(World, i, n).got
           y == text[m] \o e
<1>1. WorldInv(World) /\ World.obj = obj /\ m \in Holders /\ from \in Holders
  BY MsgIs DEF IInv, World
<1>2. /\ IsSeq(text[m]) /\ DataType(World) /\ Steady(World, World.obj[m])
      /\ Kept(World, World.obj[m], text[m], app[m])
      /\ Kept(World, World.obj[from], text[from], app[from])
      /\ app' = [app EXCEPT ![m] = app[m]] /\ KeptAll(World, text, app)
  BY <1>1 DEF TextInv, KeptAll, Kept, AppendIter
<1>3. World.obj[from].totalSz \notin 1 .. TotalReserved - 1 BY <1>1 DEF AppendIter
<1>4. Credit(World, m, n)
  <2>1. MayGrow(m, n) BY DEF AppendIter
  <2> QED BY <1>1, <2>1, MayGrowIs DEF Credit
<1>5. IsIter(g)
  <2>1. World.obj[from].totalSz \in Nat BY <1>1, MsgIs
  <2> QED BY <1>3, <2>1, GetReadIterIs
<1>6. Become(c.w) /\ text' = [text EXCEPT ![m] = y] /\ UNCHANGED app
  BY DEF AppendIter, Read, PutFrom
<1>7. \A b, N : Route(World, from, b, N) => On(World, from, b, N, g)
  BY <1>1, <1>3, BeginsOn
<1> HIDE DEF g
<1>8. IsIter(i) BY <1>5, ReadIs DEF Reading
<1>9. \A b, N : Route(World, from, b, N) => On(World, from, b, N, i)
  BY <1>1, <1>7, ReadOn
<1> HIDE DEF i
<1>10. IsSeq(e) BY <1>8, ReadIs DEF Reading
<1>11. /\ Copying(World, m, c)
       /\ \A b, N : Readable(World, from, m, b, N) /\ On(World, from, b, N, i) => c.got = e
  BY <1>1, <1>2, <1>4, <1>8, CopyDoes
<1> HIDE DEF c, e
<1>12. from # m \/ Fresh(World.obj[m]) => c.got = e
  <2> SUFFICES ASSUME from # m \/ Fresh(World.obj[m]) PROVE c.got = e
    OBVIOUS
  <2>1. PICK b, N : Readable(World, from, m, b, N) BY <1>1, <1>2, IsReadable
  <2>2. Route(World, from, b, N) BY <2>1 DEF Readable
  <2> QED BY <1>9, <1>11, <2>1, <2>2
<1>13. InTurn(text[m], e, y) BY <1>2, <1>10, Joined
<1>14. WorldInv(c.w) /\ IsSeq(c.got) /\ PutSoFar(World, c.w, m, c.got, Len(c.got))
  BY <1>11 DEF Copying, BlocksOk
<1>15. CASE Len(c.got) = 0
  <2>1. c.w = World BY <1>14, <1>15 DEF PutSoFar
  <2>2. Fresh(World.obj[m]) => y = text[m]
    <3> SUFFICES ASSUME Fresh(World.obj[m]) PROVE y = text[m]
      OBVIOUS
    <3>1. Len(e) = 0 BY <1>12, <1>15
    <3>2. \A S : \A x \in Seq(S) : Len(x) = 0 => x = <<>> OBVIOUS
    <3>3. e = <<>> BY <1>10, <3>1, <3>2 DEF IsSeq
    <3>4. PICK S : text[m] \in Seq(S) BY <1>2 DEF IsSeq
    <3> QED BY <3>3, <3>4
  <2>3. IsSeq(y) BY <1>13 DEF InTurn
  <2> HIDE DEF y
  <2>4. Kept(World, World.obj[m], y, app[m]) BY <1>2, <2>2 DEF Kept
  <2>5. Apart(World, World, m) BY DEF Apart
  <2>6. KeptAll(World, [text EXCEPT ![m] = y], [app EXCEPT ![m] = app[m]])
    BY <1>1, <1>2, <2>3, <2>4, <2>5, ApartKept
  <2> QED BY <1>1, <1>2, <1>6, <2>1, <2>6, BecomeText
<1>16. CASE Len(c.got) # 0
  <2>1. Puts(World, c.w, m, c.got, Len(c.got)) BY <1>14, <1>16 DEF PutSoFar
  <2>2. c.got # <<>> BY <1>16
  <2>3. IsSeq(y) BY <1>13 DEF InTurn
  <2> HIDE DEF y
  <2>4. Fresh(obj[m]) => InTurn(text[m], c.got, y) BY <1>1, <1>12, <1>13
  <2> QED BY <1>6, <1>14, <2>1, <2>2, <2>3, <2>4, PutText
<1> QED BY <1>15, <1>16

\* clear and the destructor.
LEMMA ClearText ==
  ASSUME IInv, TextInv, NEW m \in Msgs, ClearMsg(m) \/ Destroy(m)
  PROVE  TextInv'
<1> DEFINE v == Clear(World, m)
           z == [v EXCEPT !.obj = [@ EXCEPT ![m] = Zeroed]]
<1>1. WorldInv(World) /\ DataType(World) /\ KeptAll(World, text, app) /\ m \in Holders
  BY MsgIs DEF IInv, TextInv, KeptAll
<1>2. /\ Apart(World, v, m) /\ DataType(v) /\ Empty(v.obj[m]) /\ v.obj[m] \in Object
      /\ Apart(World, z, m) /\ DataType(z) /\ Empty(z.obj[m]) /\ z.obj[m] \in Object
  BY <1>1, ClearApart
<1>3. Emptied(World, v, m) /\ Emptied(World, z, m) BY <1>1, ClearIs
<1>4. /\ Become(v) \/ Become(z)
      /\ text' = [text EXCEPT ![m] = <<>>] /\ app' = [app EXCEPT ![m] = Null]
  BY DEF ClearMsg, Destroy
<1> HIDE DEF v, z
<1>5. WorldInv(v) /\ WorldInv(z) BY <1>1, <1>3, EmptiedKeeps
<1>6. IsSeq(<<>>)
  <2>1. <<>> \in Seq({}) OBVIOUS
  <2> QED BY <2>1 DEF IsSeq
<1>7. Kept(v, v.obj[m], <<>>, Null) /\ Kept(z, z.obj[m], <<>>, Null) BY <1>2, EmptyKept
<1>8. KeptAll(v, text', app') BY <1>1, <1>2, <1>4, <1>6, <1>7, ApartKept
<1>9. KeptAll(z, text', app') BY <1>1, <1>2, <1>4, <1>6, <1>7, ApartKept
<1> QED BY <1>4, <1>5, <1>8, <1>9, BecomeText

\* operator = ( InternalMsg&& ) and restoreFromPointer.
LEMMA TakeOverText ==
  ASSUME IInv, TextInv, NEW from \in Holders, NEW to \in Msgs, from # to,
         Become(Handed(Clear(World, to), from, to)), HandedHistory(from, to), IInv'
  PROVE  TextInv'
<1> DEFINE u == Clear(World, to)
           v == Handed(u, from, to)
           tu == [text EXCEPT ![to] = <<>>]
           au == [app EXCEPT ![to] = Null]
<1>1. WorldInv(World) /\ to \in Holders /\ KeptAll(World, text, app) /\ DataType(World)
  BY MsgIs DEF IInv, TextInv, KeptAll
<1>2. Emptied(World, u, to) BY <1>1, ClearIs
<1>3. Apart(World, u, to) /\ DataType(u) /\ Empty(u.obj[to]) /\ u.obj[to] \in Object
  BY <1>1, ClearApart
<1>4. Become(v) OBVIOUS
<1> HIDE DEF u
<1>5. WorldInv(u) /\ WorldType(u) BY <1>1, <1>2, EmptiedKeeps DEF Emptied
<1>6. HandedOver(u, v, from, to) BY <1>1, <1>5, HandedIs
<1>7. v.data = u.data /\ v.index = u.index BY <1>5 DEF Handed, WorldType
<1> HIDE DEF v
<1>8. IsSeq(<<>>)
  <2>1. <<>> \in Seq({}) OBVIOUS
  <2> QED BY <2>1 DEF IsSeq
<1>9. Kept(u, u.obj[to], <<>>, Null) BY <1>3, EmptyKept
<1>10. KeptAll(u, tu, au) BY <1>1, <1>3, <1>8, <1>9, ApartKept
<1>11. DataType(v) BY <1>3, <1>7 DEF DataType
<1>12. \A h \in Holders : h # to => Untouched(u, v, u.obj[h]) BY <1>7 DEF Untouched
<1>13. /\ text' = [tu EXCEPT ![to] = tu[from], ![from] = <<>>]
       /\ app' = [au EXCEPT ![to] = au[from], ![from] = Null]
  BY <1>1 DEF HandedHistory, KeptAll
<1> HIDE DEF tu, au
<1>14. KeptAll(v, text', app') BY <1>1, <1>5, <1>6, <1>10, <1>11, <1>12, <1>13, HandedKept
<1>15. World' = v BY <1>6, <1>4 DEF HandedOver, WorldType, World, Become
<1> QED BY <1>14, <1>15 DEF TextInv

\* convertToPointer: what is stored in front of the first page is not of the text.
LEMMA ConvertText ==
  ASSUME IInv, TextInv, NEW m \in Msgs, ConvertToPointer(m)
  PROVE  TextInv'
<1> DEFINE w == World
           p == w.obj[m].first[0]
           v == Handed(w, m, p)
           page == [i \in Cells |-> IF i < ObjectSize THEN Null ELSE w.data[p][i]]
           da == [v.data EXCEPT ![p] = page]
           z == [v EXCEPT !.data = da]
<1>1. WorldInv(w) /\ w.obj = obj /\ KeptAll(w, text, app) /\ DataType(w)
  BY DEF IInv, TextInv, KeptAll, World
<1>2. Become(z) /\ HandedHistory(m, p) BY <1>1 DEF ConvertToPointer, Stored
<1> HIDE DEF w
<1>3. m \in Holders /\ m \notin Pages /\ w.obj[m] \in Object /\ Sound(w, m) /\ WorldType(w)
  BY <1>1, MsgIs DEF WorldInv
<1>4. w.obj[m].totalSz # 0 BY <1>1 DEF ConvertToPointer
<1>5. w.obj[m].pageCnt >= 1 BY <1>3, <1>4 DEF Sound, Housed
<1>6. p \in OwnedIn(w, w.obj[m]) /\ p \in Pages
  <2>1. 0 \in Local /\ 0 < w.obj[m].pageCnt BY <1>3, <1>5, Sizes DEF Local, Object
  <2>2. p \in LocalPages(w.obj[m]) BY <2>1, PayloadIs
  <2> QED BY <1>3, <2>2 DEF OwnedIn, Payload, Sound, Numbered
<1>7. p \in Holders /\ p # m BY <1>3, <1>6 DEF Holders
<1>8. \A h \in Holders : h # m => p \notin OwnedIn(w, w.obj[h])
  <2> HIDE DEF p
  <2> QED BY <1>1, <1>3, <1>6 DEF WorldInv, Separate
<1>9. p = w.obj[m].first[0] OBVIOUS
<1>10. \A i \in Cells : i >= ObjectSize => page[i] = w.data[p][i]
  <2> SUFFICES ASSUME NEW i \in Cells, i >= ObjectSize PROVE page[i] = w.data[p][i]
    OBVIOUS
  <2>1. ~(i < ObjectSize) BY PageAssumption DEF Cells
  <2> HIDE DEF p
  <2> QED BY <2>1
<1> HIDE DEF p
<1>11. HandedOver(w, v, m, p) BY <1>3, <1>7, HandedIs
<1>12. v.data = w.data /\ v.index = w.index /\ WorldType(v)
  BY <1>3, <1>11 DEF Handed, WorldType, HandedOver
<1> HIDE DEF v, page
<1>13. /\ da = [r \in Pages |-> da[r]] /\ da[p] = page
       /\ \A r \in Pages : r # p => da[r] = w.data[r]
  BY <1>1, <1>6, <1>12 DEF DataType
<1> HIDE DEF da
<1>14. z.data = da /\ z.index = v.index /\ z.obj = v.obj /\ z.free = v.free /\ WorldType(z)
  BY <1>12 DEF WorldType
<1> HIDE DEF z
<1>15. HandedOver(w, z, m, p) BY <1>11, <1>14 DEF HandedOver
<1>16. DataType(z) BY <1>13, <1>14 DEF DataType
<1>17. ASSUME NEW h \in Holders, h # p PROVE Untouched(w, z, w.obj[h])
  <2>1. OwnedIn(w, w.obj[h]) \subseteq Pages
    <3>1. Listed(w, w.obj[h]) /\ Payload(w, w.obj[h]) \subseteq Pages
      BY <1>1 DEF WorldInv, Sound, Numbered
    <3> QED BY <3>1, OwnedArePages
  <2> SUFFICES ASSUME NEW r \in OwnedIn(w, w.obj[h]), NEW i \in Cells,
                      i >= ObjectSize \/ r # w.obj[h].first[0]
               PROVE  z.data[r][i] = w.data[r][i]
    BY <1>12, <1>14 DEF Untouched
  <2>2. CASE r # p BY <1>13, <1>14, <2>1, <2>2
  <2>3. CASE r = p
    <3>1. h = m BY <1>8, <2>3
    <3>2. i >= ObjectSize BY <1>9, <2>3, <3>1
    <3>3. page[i] = w.data[p][i] BY <1>10, <3>2
    <3> QED BY <1>13, <1>14, <2>3, <3>3
  <2> QED BY <2>2, <2>3
<1>18. KeptAll(z, text', app')
  BY <1>1, <1>2, <1>3, <1>7, <1>15, <1>16, <1>17, HandedKept DEF HandedHistory
<1>19. World' = z BY <1>2, <1>14 DEF WorldType, World, Become
<1> QED BY <1>18, <1>19 DEF TextInv

\* appWriteData.
LEMMA AppWriteText ==
  ASSUME IInv, TextInv, NEW m \in Msgs, AppWriteData(m)
  PROVE  TextInv'
<1> DEFINE w == IF obj[m].totalSz # 0 THEN World ELSE AddPage(World, m)
           p == w.obj[m].first[0]
           page == [i \in Cells |-> IF i \in AppCells THEN "app" ELSE w.data[p][i]]
           d == [w.data EXCEPT ![p] = page]
           z == [w EXCEPT !.data = d]
<1>1. /\ WorldInv(World) /\ World.obj = obj /\ KeptAll(World, text, app) /\ m \in Holders
      /\ World.obj[m] \in Object /\ Kept(World, World.obj[m], text[m], app[m])
  BY MsgIs DEF IInv, TextInv, KeptAll, World
<1>2. Become(z) /\ app' = [app EXCEPT ![m] = "app"] /\ text' = text
  BY Zenon DEF AppWriteData
<1>3. text = [text EXCEPT ![m] = text[m]] /\ app = [app EXCEPT ![m] = app[m]]
  BY <1>1 DEF KeptAll
<1>4. WorldInv(w) /\ KeptAll(w, text, app) /\ w.obj[m].pageCnt # 0
  <2>1. CASE obj[m].totalSz # 0
    <3>1. obj[m].pageCnt # 0
      <4>1. Measured(obj[m]) BY <1>1 DEF Kept, Steady
      <4>2. Base(0) = 0 BY BaseIs
      <4> QED BY <2>1, <4>1, <4>2 DEF Measured
    <3> QED BY <1>1, <2>1, <3>1
  <2>2. CASE obj[m].totalSz = 0
    <3> DEFINE a == AddPage(World, m)
    <3>1. MayGrow(m, 0) /\ obj[m].cur = Null BY <2>2, Zenon DEF AppWriteData
    <3>2. PICK k \in Nat \ {0} : \E j \in Nat : Enough(World, m, 0, k, j)
      BY <1>1, <3>1, MayGrowIs
    <3>3. PICK j \in Nat : Enough(World, m, 0, k, j) BY <3>2
    <3>4. k \in Nat /\ k >= 1 /\ Cardinality(World.free) >= k + j
          /\ k <= Slots(World, World.obj[m]) + MaxAddressedByPage * j
      BY <3>3 DEF Enough
    <3>5. HasPages(World, m) BY <1>1, <3>4, OneMorePage
    <3>6. WorldInv(a) BY <1>1, <3>5, AddPageKeeps
    <3>7. KeptAll(a, [text EXCEPT ![m] = text[m]], [app EXCEPT ![m] = app[m]])
          /\ a.obj[m].pageCnt # 0
      BY <1>1, <2>2, <3>1, <3>5, FirstPageKept
    <3>8. w = a BY <2>2, Zenon
    <3> HIDE DEF w, a
    <3> QED BY <1>3, <3>6, <3>7, <3>8
  <2> QED BY <2>1, <2>2
<1>5. p = w.obj[m].first[0] OBVIOUS
<1> HIDE DEF w
<1>6. WorldType(w) BY <1>4 DEF WorldInv
<1>7. page = [i \in Cells |-> IF i \in AppCells THEN "app" ELSE w.data[p][i]] OBVIOUS
<1>8. z = [w EXCEPT !.data = d] OBVIOUS
<1> HIDE DEF p, page
<1>9. z.index = w.index /\ z.obj = w.obj /\ z.data = [w.data EXCEPT ![p] = page]
  BY <1>6, <1>8 DEF WorldType
<1> HIDE DEF d
<1>10. WorldInv(z) BY <1>4, <1>8, DataOnly
<1> HIDE DEF z
<1>11. KeptAll(z, [text EXCEPT ![m] = text[m]], [app EXCEPT ![m] = "app"])
  BY <1>4, <1>5, <1>7, <1>9, AppWritten
<1> QED BY <1>2, <1>3, <1>10, <1>11, BecomeText

(***************************************************************************)
(* The specification                                                        *)
(***************************************************************************)
\* In the beginning.
LEMMA InitText ==
  ASSUME Init
  PROVE  TextInv
<1>1. /\ \A h \in Holders : World.obj[h] = Zeroed /\ text[h] = <<>> /\ app[h] = Null
      /\ text = [h \in Holders |-> text[h]] /\ app = [h \in Holders |-> app[h]]
      /\ DataType(World)
  BY DEF Init, World, DataType
<1>2. IsSeq(<<>>)
  <2>1. <<>> \in Seq({}) OBVIOUS
  <2> QED BY <2>1 DEF IsSeq
<1>3. Kept(World, Zeroed, <<>>, Null) BY ZeroedIs, EmptyKept
<1> QED BY <1>1, <1>2, <1>3 DEF TextInv, KeptAll

\* Every call keeps what the messages hold.
LEMMA NextText ==
  ASSUME IInv, IInv', TextInv, [Next]_vars
  PROVE  TextInv'
<1>1. ASSUME NEW m \in Msgs, NEW n \in AppendSizes, AppendBuff(m, n) PROVE TextInv'
  BY <1>1, AppendText, PageAssumption
<1>2. ASSUME NEW m \in Msgs, NEW from \in Msgs, NEW k \in SkipSizes, NEW n \in AppendSizes,
             AppendIter(m, from, k, n)
      PROVE  TextInv'
  <2>1. k \in Nat /\ n \in Nat BY PageAssumption
  <2> QED BY <1>2, <2>1, AppendIterText
<1>3. ASSUME NEW m \in Msgs, AppendUint8(m) PROVE TextInv'
  <2>1. 1 \in Nat \ {0} OBVIOUS
  <2> QED BY <1>3, <2>1, AppendText
<1>4. ASSUME NEW m \in Msgs, ClearMsg(m) \/ Destroy(m) PROVE TextInv'
  BY <1>4, ClearText
<1>5. ASSUME NEW m \in Msgs, ConvertToPointer(m) PROVE TextInv'
  BY <1>5, ConvertText
<1>6. ASSUME NEW m \in AppUsers, AppWriteData(m) PROVE TextInv'
  BY <1>6, AppWriteText, PageAssumption
<1>7. ASSUME NEW from \in Msgs, NEW to \in Msgs, Move(from, to) PROVE TextInv'
  <2>1. from \in Holders BY DEF Holders
  <2> QED BY <1>7, <2>1, TakeOverText DEF Move
<1>8. ASSUME NEW m \in Msgs, NEW p \in Pages, RestoreFromPointer(m, p) PROVE TextInv'
  <2>1. p \in Holders /\ p # m BY PageAssumption DEF Holders
  <2> QED BY <1>8, <2>1, TakeOverText DEF RestoreFromPointer
<1>9. CASE UNCHANGED vars BY <1>9 DEF vars, TextInv, World
<1> QED BY <1>1, <1>2, <1>3, <1>4, <1>5, <1>6, <1>7, <1>8, <1>9 DEF Next

\* Both together hold always.
LEMMA TextInvAlways == Spec => [](IInv /\ TextInv)
<1>1. Init => IInv /\ TextInv BY InitHolds, InitText
<1>2. IInv /\ TextInv /\ [Next]_vars => IInv' /\ TextInv' BY NextKeeps, NextText
<1> QED BY <1>1, <1>2, PTL DEF Spec

\* The application's data stay.
LEMMA AppDataIs ==
  ASSUME IInv, TextInv
  PROVE  AppDataKept
<1> SUFFICES ASSUME NEW h \in Holders, app[h] # Null, WellBegun(h), NEW i \in AppCells
             PROVE  data[obj[h].first[0]][i] = app[h]
  BY DEF AppDataKept
<1> DEFINE o == obj[h]
           t == text[h]
           ap == app[h]
<1>1. /\ WorldInv(World) /\ World.obj = obj /\ World.data = data
      /\ Kept(World, o, t, ap) /\ o \in Object
  BY DEF IInv, TextInv, KeptAll, World, WorldInv, WorldType
<1>2. o.pageCnt \in Nat /\ LocalStorageSize \in Nat BY <1>1, Sizes DEF Object
<1>3. Fresh(o) /\ Begun(o, t)
  <2>1. Low(o) = Min({o.pageCnt, LocalStorageSize})
    <3>1. Min({o.pageCnt, LocalStorageSize})
          = IF o.pageCnt <= LocalStorageSize THEN o.pageCnt ELSE LocalStorageSize
      BY <1>2, MinOfTwo
    <3> QED BY <1>2, <3>1 DEF Low
  <2> QED BY <2>1 DEF WellBegun, Fresh, Begun
<1>4. PICK a : Tidy(World, o, a) /\ Content(World, o, a, t, ap) BY <1>1, <1>3, Zenon DEF Kept
<1>5. o.pageCnt # 0 /\ \A j \in AppCells : World.data[a[0].page][j] = ap
  BY <1>3, <1>4 DEF Content
<1>6. a[0].page = o.first[0]
  <2>1. Way(World, o, a) BY <1>4 DEF Tidy
  <2> QED BY <1>2, <1>5, <2>1, FirstPage
<1> QED BY <1>1, <1>5, <1>6

\* What the application wrote behind the message object stays in the first page as long as
\* the message is not cleared, its header names the pages it has and its content begins behind
\* the reserve: no append, no move and no conversion writes over it.
THEOREM AppDataStays == Spec => []AppDataKept
<1>1. IInv /\ TextInv => AppDataKept BY AppDataIs
<1> QED BY <1>1, TextInvAlways, PTL

(***************************************************************************)
(* Reading back                                                             *)
(***************************************************************************)
\* The pages on the route of m hold t behind the reserve.
Shows(w, m, b, N, t) ==
  /\ Route(w, m, b, N) /\ IsSeq(t)
  /\ t # <<>> => w.obj[m].totalSz = TotalReserved + Len(t)
  /\ \A k \in 0 .. N - 1 : b[k].page # Null
  /\ \A k \in 0 .. N - 1, i \in Cells :
       TotalReserved <= Base(k) + i /\ Base(k) + i < w.obj[m].totalSz =>
         w.data[b[k].page][i] = t[Base(k) + i - TotalReserved + 1]

\* They do when the message was not used again after clear().
LEMMA FreshShows ==
  ASSUME NEW w, WorldInv(w), NEW m \in Msgs, NEW t, IsSeq(t), NEW ap,
         Kept(w, w.obj[m], t, ap), Fresh(w.obj[m]), Begun(w.obj[m], t)
  PROVE  \E b : Shows(w, m, b, w.obj[m].pageCnt, t)
<1> DEFINE o == w.obj[m]
           N == o.pageCnt
<1>1. PICK a : Tidy(w, o, a) /\ Content(w, o, a, t, ap) BY Zenon DEF Kept
<1>2. Measured(o) BY DEF Kept, Steady
<1> DEFINE b == [k \in 0 .. N - 1 |-> Named(m, a[k])]
<1>3. Route(w, m, b, N)
  <2>1. o = w.obj[m] /\ b = [k \in 0 .. o.pageCnt - 1 |-> Named(m, a[k])] OBVIOUS
  <2> HIDE DEF o, b
  <2> QED BY <1>1, <1>2, <2>1, RouteIsWay
<1>4. \A k \in 0 .. N - 1 : b[k].page = a[k].page BY DEF Named
<1>5. OwnedIn(w, o) \subseteq Pages /\ Null \notin Pages
  <2>1. Listed(w, o) /\ Payload(w, o) \subseteq Pages
    BY MsgIs DEF WorldInv, Sound, Numbered
  <2> QED BY <2>1, OwnedArePages, PageAssumption
<1>6. \A k \in 0 .. N - 1 : b[k].page # Null BY <1>1, <1>4, <1>5 DEF Tidy
<1>7. \A k \in 0 .. N - 1, i \in Cells :
        TotalReserved <= Base(k) + i /\ Base(k) + i < o.totalSz =>
          w.data[a[k].page][i] = t[Base(k) + i - TotalReserved + 1]
  BY <1>1, Zenon DEF Content
<1>8. \A k \in 0 .. N - 1, i \in Cells :
        TotalReserved <= Base(k) + i /\ Base(k) + i < o.totalSz =>
          w.data[b[k].page][i] = t[Base(k) + i - TotalReserved + 1]
  <2> HIDE DEF b, N
  <2> QED BY <1>4, <1>7
<1>9. t # <<>> => o.totalSz = TotalReserved + Len(t) BY DEF Begun
<1> HIDE DEF b
<1>10. Shows(w, m, b, N, t) BY <1>3, <1>6, <1>8, <1>9 DEF Shows
<1> QED BY <1>10

\* An iterator on that route, with as much to read as there is of t behind it.
Reader(w, m, b, N, t, i) == On(w, m, b, N, i) /\ i.total <= Len(t)

\* A block it reads is the next part of t.
LEMMA BlockOfText ==
  ASSUME NEW w, WorldInv(w), NEW m \in Msgs, NEW b, NEW N, NEW t, Shows(w, m, b, N, t),
         NEW i, Reader(w, m, b, N, t, i), NEW c \in 1 .. i.rem, NEW s, s = Bytes(w, i, c)
  PROVE  /\ IsSeq(s) /\ Len(s) = c /\ ~Astray(i) /\ c <= i.total /\ Len(t) \in Nat
         /\ \A j \in 1 .. c : s[j] = t[Len(t) - i.total + j]
<1>1. IsIter(i) /\ i.total \in Nat /\ i.rem \in Nat /\ c \in Nat /\ c >= 1 /\ c <= i.rem
  BY DEF Reader, On, IsIter
<1>2. i.rem # 0 BY <1>1
<1>3. PICK k \in 0 .. N - 1 :
        /\ At(i) = b[k] /\ i.off \in Cells
        /\ Base(k) + i.off + i.total = w.obj[m].totalSz
        /\ i.rem = IF i.total <= PageSize - i.off THEN i.total ELSE PageSize - i.off
  BY <1>2, Zenon DEF Reader, On
<1>4. /\ PageSize \in Nat \ {0} /\ i.off \in 0 .. PageSize - 1 /\ i.off \in Nat
      /\ TotalReserved \in Nat
  BY <1>3, Sizes DEF Cells
<1>5. c <= i.total /\ i.off + c <= PageSize BY <1>1, <1>3, <1>4
<1>6. Len(t) \in Nat /\ t # <<>>
  <2>1. PICK S : t \in Seq(S) BY DEF Shows, IsSeq
  <2>2. Len(t) \in Nat /\ (t = <<>> => Len(t) = 0) BY <2>1
  <2>3. Len(t) # 0 BY <1>1, <1>5, <2>2 DEF Reader
  <2> QED BY <2>2, <2>3
<1>7. w.obj[m].totalSz = TotalReserved + Len(t) /\ i.total <= Len(t)
  BY <1>6 DEF Shows, Reader
<1>8. b[k].page = i.page /\ i.page # Null BY <1>3 DEF At, Shows
<1>9. IsSeq(s) /\ Len(s) = c /\ \A j \in 1 .. c : s[j] = w.data[i.page][i.off + j - 1]
  BY <1>1, BytesIs
<1>10. N \in Nat /\ k \in Nat /\ Base(k) \in Nat
  <2>1. N \in Nat /\ k \in Nat BY DEF Shows, Route
  <2> QED BY <2>1, BaseIs
<1>11. ASSUME NEW j \in 1 .. c PROVE s[j] = t[Len(t) - i.total + j]
  <2> DEFINE x == i.off + j - 1
             B == Base(k)
  <2>1. x \in Cells BY <1>1, <1>4, <1>5 DEF Cells
  <2>2. /\ x \in Nat /\ B \in Nat /\ x = i.off + j - 1 /\ j \in Nat
        /\ B + i.off + i.total = TotalReserved + Len(t)
    BY <1>3, <1>4, <1>7, <1>10
  <2> HIDE DEF x, B
  <2>3. /\ TotalReserved <= B + x /\ B + x < TotalReserved + Len(t)
        /\ B + x - TotalReserved + 1 = Len(t) - i.total + j
    <3> DEFINE L == Len(t)
               T == i.total
               f == i.off
               R == TotalReserved
    <3>1. /\ L \in Nat /\ T \in Nat /\ f \in Nat /\ R \in Nat /\ c \in Nat /\ j >= 1 /\ j <= c
          /\ c <= T /\ T <= L /\ B + f + T = R + L /\ x = f + j - 1
      BY <1>1, <1>4, <1>5, <1>6, <1>7, <2>2
    <3> HIDE DEF L, T, f, R
    <3>2. R <= B + x /\ B + x < R + L /\ B + x - R + 1 = L - T + j BY <2>2, <3>1
    <3> QED BY <3>2 DEF L, T, R
  <2>4. w.data[b[k].page][x] = t[B + x - TotalReserved + 1]
    <3>1. TotalReserved <= Base(k) + x /\ Base(k) + x < w.obj[m].totalSz BY <1>7, <2>3 DEF B
    <3>2. \A y \in 0 .. N - 1, e \in Cells :
            TotalReserved <= Base(y) + e /\ Base(y) + e < w.obj[m].totalSz =>
              w.data[b[y].page][e] = t[Base(y) + e - TotalReserved + 1]
      BY Zenon DEF Shows
    <3> QED BY <2>1, <3>1, <3>2, Zenon DEF B
  <2>5. s[j] = w.data[i.page][x] BY <1>9 DEF x
  <2> QED BY <1>8, <2>3, <2>4, <2>5
<1> QED BY <1>5, <1>6, <1>8, <1>9, <1>11 DEF Astray

\* What was read from i on, in k blocks of n bytes.
ReadSoFar(w, m, b, N, t, i, n, k, r) ==
  /\ r.w = w /\ Reader(w, m, b, N, t, r.i) /\ IsSeq(r.got) /\ r.left \in Nat
  /\ Len(r.got) + r.left = n /\ Len(r.got) + r.i.total = i.total
  /\ \A j \in 1 .. Len(r.got) : r.got[j] = t[Len(t) - i.total + j]
  /\ k = 0 \/ r.left = 0 \/ r.i.total = 0 \/ (r.i.off = 0 /\ Len(r.got) > Base(k - 1))

\* One more block.
LEMMA ReadSoFarOn ==
  ASSUME NEW w, WorldInv(w), NEW m \in Msgs, NEW b, NEW N, NEW t, Shows(w, m, b, N, t),
         NEW i, NEW n \in Nat, NEW k \in Nat, NEW r, ReadSoFar(w, m, b, N, t, i, n, k, r),
         NEW v, v = NextBlock(Null, r)
  PROVE  ReadSoFar(w, m, b, N, t, i, n, k + 1, v)
<1> DEFINE g == r.got
           l == r.left
           h == r.i
           c == Min({l, h.rem})
           s == Bytes(w, h, c)
           x == g \o s
           j == Advance(w, h, c)
<1>1. /\ r.w = w /\ Reader(w, m, b, N, t, h) /\ IsSeq(g) /\ l \in Nat
      /\ Len(g) + l = n /\ Len(g) + h.total = i.total
      /\ \A y \in 1 .. Len(g) : g[y] = t[Len(t) - i.total + y]
      /\ k = 0 \/ l = 0 \/ h.total = 0 \/ (h.off = 0 /\ Len(g) > Base(k - 1))
  BY Zenon DEF ReadSoFar
<1>2. IsIter(h) /\ h.total \in Nat /\ h.rem \in Nat BY <1>1 DEF Reader, On, IsIter
<1>3. c = IF l <= h.rem THEN l ELSE h.rem
  <2>1. l \in Int /\ h.rem \in Int BY <1>1, <1>2
  <2> HIDE DEF l, h
  <2> QED BY <2>1, MinOfTwo
<1>4. Len(g) \in Nat
  <2>1. \A S : \A y \in Seq(S) : Len(y) \in Nat OBVIOUS
  <2> QED BY <1>1, <2>1 DEF IsSeq
<1>5. h.rem = 0 => h.total = 0
  <2> SUFFICES ASSUME h.rem = 0, h.total # 0 PROVE FALSE
    OBVIOUS
  <2>1. PICK y \in 0 .. N - 1 :
          /\ h.off \in Cells
          /\ h.rem = IF h.total <= PageSize - h.off THEN h.total ELSE PageSize - h.off
    BY <1>1, Zenon DEF Reader, On
  <2>2. PageSize - h.off >= 1 /\ PageSize - h.off \in Nat BY <2>1, Sizes DEF Cells
  <2> QED BY <1>2, <2>1, <2>2
<1>6. v = IF c = 0 \/ Astray(h) THEN r
          ELSE [w |-> w, i |-> j, left |-> l - c, got |-> x]
  BY <1>1, Zenon DEF NextBlock
<1>7. CASE c = 0
  <2>1. v = r BY <1>6, <1>7, Zenon
  <2>2. l = 0 \/ h.total = 0 BY <1>1, <1>2, <1>3, <1>5, <1>7
  <2> QED BY <2>1, <2>2 DEF ReadSoFar
<1>8. CASE c # 0
  <2>1. c \in 1 .. h.rem /\ c <= l /\ c \in Nat BY <1>1, <1>2, <1>3, <1>8
  <2> DEFINE d == l - c
  <2> HIDE DEF g, l, h, c
  <2>2. /\ IsSeq(s) /\ Len(s) = c /\ ~Astray(h) /\ c <= h.total /\ Len(t) \in Nat
        /\ \A y \in 1 .. c : s[y] = t[Len(t) - h.total + y]
    BY <1>1, <2>1, BlockOfText
  <2>3. v = [w |-> w, i |-> j, left |-> d, got |-> x] BY <1>6, <1>8, <2>2
  <2> HIDE DEF s
  <2>4. InTurn(g, s, x) BY <1>1, <2>2, Joined
  <2> HIDE DEF x
  <2>5. On(w, m, b, N, j) /\ j.total = h.total - c /\ (c = h.rem => j.total = 0 \/ j.off = 0)
    <3>1. Route(w, m, b, N) /\ SameRoute(w, w, m, b, N) BY DEF Shows, SameRoute
    <3> QED BY <1>1, <2>1, <2>2, <3>1, OnAdvance DEF Reader
  <2>6. d \in Nat /\ d = l - c BY <1>1, <2>1
  <2> HIDE DEF j, d
  <2>7. v.w = w /\ v.i = j /\ v.left = d /\ v.got = x BY <2>3
  <2>8. Reader(w, m, b, N, t, j)
    <3>1. h.total <= Len(t) BY <1>1 DEF Reader
    <3>2. j.total <= Len(t) BY <1>2, <2>1, <2>2, <2>5, <3>1
    <3> QED BY <2>5, <3>2 DEF Reader
  <2>9. /\ IsSeq(x) /\ Len(x) = Len(g) + c
        /\ \A y \in 1 .. Len(g) : x[y] = g[y]
        /\ \A y \in 1 .. c : x[Len(g) + y] = s[y]
    BY <2>2, <2>4 DEF InTurn
  <2>10. Len(x) + d = n /\ Len(x) + j.total = i.total
    <3> DEFINE G == Len(g)
               X == Len(x)
               T == h.total
               U == j.total
               I == i.total
    <3>1. /\ G \in Nat /\ T \in Nat /\ G + l = n /\ G + T = I /\ X = G + c /\ U = T - c
          /\ l \in Nat
      BY <1>1, <1>2, <1>4, <2>5, <2>9
    <3> HIDE DEF G, X, T, U, I
    <3>2. X + d = n /\ X + U = I BY <2>1, <2>6, <3>1
    <3> QED BY <3>2 DEF X, U, I
  <2>11. ASSUME NEW y \in 1 .. Len(x) PROVE x[y] = t[Len(t) - i.total + y]
    <3>1. CASE y <= Len(g)
      <4>1. y \in 1 .. Len(g) BY <1>4, <2>1, <2>9, <3>1
      <4>2. x[y] = g[y] BY <2>9, <4>1, Zenon
      <4> QED BY <1>1, <4>1, <4>2
    <3>2. CASE ~(y <= Len(g))
      <4> DEFINE e == y - Len(g)
      <4>1. e \in 1 .. c /\ y = Len(g) + e BY <1>4, <2>1, <2>9, <3>2
      <4>2. Len(t) - h.total + e = Len(t) - i.total + y
        BY <1>1, <1>2, <1>4, <2>2, <4>1
      <4> HIDE DEF e
      <4>3. x[y] = s[e] BY <2>4, <2>2, <4>1 DEF InTurn
      <4>4. s[e] = t[Len(t) - h.total + e] BY <2>2, <4>1
      <4> QED BY <4>2, <4>3, <4>4
    <3> QED BY <3>1, <3>2
  <2>12. d = 0 \/ j.total = 0 \/ (j.off = 0 /\ Len(x) > Base((k + 1) - 1))
    <3> SUFFICES ASSUME d # 0, j.total # 0
                 PROVE  j.off = 0 /\ Len(x) > Base((k + 1) - 1)
      OBVIOUS
    <3>1. c = h.rem BY <1>1, <1>2, <1>3, <2>6
    <3>2. j.off = 0 BY <2>5, <3>1
    <3>3. Base((k + 1) - 1) = Base(k) /\ Base(0) = 0
      <4>1. (k + 1) - 1 = k OBVIOUS
      <4> QED BY <4>1, BaseIs
    <3>4. CASE k = 0
      <4>1. Len(x) > 0 BY <1>4, <2>1, <2>9
      <4> QED BY <3>2, <3>3, <3>4, <4>1
    <3>5. CASE k # 0
      <4>1. k - 1 \in Nat /\ (k - 1) + 1 = k BY <3>5
      <4>2. Base(k - 1) \in Nat /\ Base(k) = Base(k - 1) + PageSize BY <4>1, BaseIs
      <4>3. h.off = 0 /\ Len(g) > Base(k - 1)
        BY <1>1, <1>2, <2>1, <2>2, <2>6, <3>5
      <4>4. h.rem = IF h.total <= PageSize - h.off THEN h.total ELSE PageSize - h.off
        <5>1. h.total # 0 BY <2>1, <2>2
        <5> QED BY <1>1, <5>1, Zenon DEF Reader, On
      <4>5. PageSize \in Nat BY Sizes
      <4>6. h.rem # h.total BY <1>2, <2>5, <3>1
      <4>7. c = PageSize BY <1>2, <3>1, <4>3, <4>4, <4>5, <4>6
      <4> QED BY <1>4, <2>9, <3>2, <3>3, <4>2, <4>3, <4>5, <4>7
    <3> QED BY <3>4, <3>5
  <2> QED BY <2>6, <2>7, <2>8, <2>9, <2>10, <2>11, <2>12 DEF ReadSoFar
<1> QED BY <1>7, <1>8

\* A whole read: n bytes of t, or all that is left.
OneRead(w, m, b, N, t, i, n, r) ==
  /\ Reader(w, m, b, N, t, r.i) /\ IsSeq(r.got) /\ Len(r.got) + r.i.total = i.total
  /\ \A j \in 1 .. Len(r.got) : r.got[j] = t[Len(t) - i.total + j]
  /\ Len(r.got) = n \/ r.i.total = 0

\* It is one: there are rounds enough for all the pages n bytes can lie in.
LEMMA ReadOfText ==
  ASSUME NEW w, WorldInv(w), NEW m \in Msgs, NEW b, NEW N, NEW t, Shows(w, m, b, N, t),
         NEW i, Reader(w, m, b, N, t, i), NEW n \in Nat
  PROVE  OneRead(w, m, b, N, t, i, n, Read(w, i, n))
<1> DEFINE K == PagesOf(n)
           start == [w |-> w, i |-> i, left |-> n, got |-> <<>>]
<1>1. K \in Nat /\ K - 1 \in Nat /\ K # 0 /\ n < Base(K - 1) BY PagesAre
<1>2. PICK f : IsLoop(f, "block", Null, start, K) /\ Blocks(w, i, n, Null) = f[K]
  BY BlocksAreLoop
<1>3. ReadSoFar(w, m, b, N, t, i, n, 0, start)
  <2>1. IsSeq(<<>>) /\ Len(<<>>) = 0
    <3>1. <<>> \in Seq({}) /\ Len(<<>>) = 0 OBVIOUS
    <3> QED BY <3>1 DEF IsSeq
  <2>2. i.total \in Nat BY DEF Reader, On
  <2>3. \A j \in 1 .. 0 : FALSE OBVIOUS
  <2>4. 0 + n = n /\ 0 + i.total = i.total BY <2>2
  <2> QED BY <2>1, <2>3, <2>4 DEF ReadSoFar
<1> HIDE DEF K, start
<1>4. f[0] = start /\ \A k \in 0 .. K - 1 : f[k + 1] = Step("block", Null, f[k])
  BY <1>1, <1>2, LoopGoes, Zenon
<1> DEFINE G == {k \in 0 .. K : ReadSoFar(w, m, b, N, t, i, n, k, f[k])}
<1>5. 0 \in G BY <1>1, <1>3, <1>4
<1>6. ASSUME NEW k \in 0 .. K - 1, k \in G PROVE k + 1 \in G
  <2>1. f[k + 1] = NextBlock(Null, f[k]) BY <1>4 DEF Step
  <2>2. k \in Nat /\ ReadSoFar(w, m, b, N, t, i, n, k, f[k]) BY <1>6
  <2>3. ReadSoFar(w, m, b, N, t, i, n, k + 1, f[k + 1]) BY <2>1, <2>2, ReadSoFarOn
  <2>4. k + 1 \in 0 .. K BY <1>1
  <2> QED BY <2>3, <2>4
<1> HIDE DEF G
<1>7. K \in G BY <1>1, <1>5, <1>6, UpTo
<1> DEFINE r == Read(w, i, n)
<1>8. ReadSoFar(w, m, b, N, t, i, n, K, r) BY <1>2, <1>7 DEF G, Read
<1> HIDE DEF r
<1>9. /\ Reader(w, m, b, N, t, r.i) /\ IsSeq(r.got) /\ r.left \in Nat
      /\ Len(r.got) + r.left = n /\ Len(r.got) + r.i.total = i.total
      /\ \A j \in 1 .. Len(r.got) : r.got[j] = t[Len(t) - i.total + j]
      /\ K = 0 \/ r.left = 0 \/ r.i.total = 0 \/ Len(r.got) > Base(K - 1)
  BY <1>8, Zenon DEF ReadSoFar
<1>10. Len(r.got) \in Nat
  <2>1. \A S : \A y \in Seq(S) : Len(y) \in Nat OBVIOUS
  <2> QED BY <1>9, <2>1 DEF IsSeq
<1>11. Len(r.got) = n \/ r.i.total = 0
  <2> DEFINE l == Len(r.got)
             e == r.left
  <2>1. l \in Nat /\ e \in Nat /\ l + e = n /\ (e = 0 \/ r.i.total = 0 \/ l > Base(K - 1))
    BY <1>1, <1>9, <1>10
  <2>2. Base(K - 1) \in Nat BY <1>1, BaseIs
  <2> HIDE DEF l, e
  <2>3. l = n \/ r.i.total = 0 BY <1>1, <2>1, <2>2
  <2> QED BY <2>3 DEF l
<1>12. OneRead(w, m, b, N, t, i, n, r) BY <1>9, <1>11 DEF OneRead
<1> QED BY <1>12 DEF r

\* Reading in pieces is a loop.
LEMMA PiecesAreLoop ==
  ASSUME NEW m \in Msgs, NEW n, NEW K \in Nat, K = Len(text[m]) \div n + 1
  PROVE  \E f : /\ IsLoop(f, "piece", [w |-> World, n |-> n],
                          [i |-> GetReadIter(World, m), got |-> <<>>], K)
               /\ InPieces(m, n) = f[K].got
<1> DEFINE i == GetReadIter(World, m)
           start == [i |-> i, got |-> <<>>]
           wn == [w |-> World, n |-> n]
           f == CHOOSE piece : piece = [k \in 0 .. K |->
                  IF k = 0 THEN [i |-> i, got |-> <<>>]
                  ELSE LET d == piece[k - 1]
                           r == Read(World, d.i, n)
                       IN [i |-> r.i, got |-> d.got \o r.got]]
<1>1. PICK h : IsLoop(h, "piece", wn, start, K)
  <2> HIDE DEF start, wn
  <2> QED BY LoopsAre
<1>2. wn.w = World /\ wn.n = n OBVIOUS
<1>3. \A d : Step("piece", wn, d) = LET r == Read(World, d.i, n)
                                    IN [i |-> r.i, got |-> d.got \o r.got]
  <2> HIDE DEF wn
  <2> QED BY <1>2 DEF Step, NextPiece
<1> HIDE DEF wn
<1>4. h = [k \in 0 .. K |->
             IF k = 0 THEN [i |-> i, got |-> <<>>]
             ELSE LET d == h[k - 1]
                      r == Read(World, d.i, n)
                  IN [i |-> r.i, got |-> d.got \o r.got]]
  <2>1. h = [k \in 0 .. K |-> IF k = 0 THEN start ELSE Step("piece", wn, h[k - 1])]
    BY <1>1, Zenon DEF IsLoop
  <2> QED BY <1>3, <2>1, Zenon
<1>5. f = [k \in 0 .. K |->
             IF k = 0 THEN [i |-> i, got |-> <<>>]
             ELSE LET d == f[k - 1]
                      r == Read(World, d.i, n)
                  IN [i |-> r.i, got |-> d.got \o r.got]]
  BY <1>4, Zenon
<1>6. InPieces(m, n) = f[K].got BY Zenon DEF InPieces
<1> HIDE DEF f
<1>7. f = [k \in 0 .. K |-> IF k = 0 THEN start ELSE Step("piece", wn, f[k - 1])]
  BY <1>3, <1>5, Zenon
<1>8. IsLoop(f, "piece", wn, start, K) BY <1>7, Zenon DEF IsLoop
<1> QED BY <1>6, <1>8, Zenon DEF wn, i

\* What k pieces of n bytes gave.
PieceSoFar(w, m, b, N, t, n, k, d) ==
  /\ Reader(w, m, b, N, t, d.i) /\ IsSeq(d.got) /\ Len(d.got) + d.i.total = Len(t)
  /\ \A y \in 1 .. Len(d.got) : d.got[y] = t[y]
  /\ d.i.total = 0 \/ Len(d.got) = n * k

\* One more piece.
LEMMA PieceSoFarOn ==
  ASSUME NEW w, WorldInv(w), NEW m \in Msgs, NEW b, NEW N, NEW t, Shows(w, m, b, N, t),
         NEW n \in Nat, NEW k \in Nat, NEW d, PieceSoFar(w, m, b, N, t, n, k, d),
         NEW r, r = Read(w, d.i, n), NEW v, v = [i |-> r.i, got |-> d.got \o r.got]
  PROVE  PieceSoFar(w, m, b, N, t, n, k + 1, v)
<1> DEFINE x == d.got \o r.got
           G == Len(d.got)
           R == Len(r.got)
           T == d.i.total
           U == r.i.total
           L == Len(t)
<1>1. /\ Reader(w, m, b, N, t, d.i) /\ IsSeq(d.got) /\ G + T = L
      /\ \A y \in 1 .. G : d.got[y] = t[y]
      /\ T = 0 \/ G = n * k
  BY Zenon DEF PieceSoFar
<1>2. OneRead(w, m, b, N, t, d.i, n, r) BY <1>1, ReadOfText
<1>3. /\ Reader(w, m, b, N, t, r.i) /\ IsSeq(r.got) /\ R + U = T
      /\ \A j \in 1 .. R : r.got[j] = t[L - T + j]
      /\ R = n \/ U = 0
  BY <1>2, Zenon DEF OneRead
<1>4. InTurn(d.got, r.got, x) BY <1>1, <1>3, Joined
<1> HIDE DEF x
<1>5. /\ IsSeq(x) /\ Len(x) = G + R /\ G \in Nat /\ R \in Nat
      /\ \A j \in 1 .. G : x[j] = d.got[j]
      /\ \A j \in 1 .. R : x[G + j] = r.got[j]
  BY <1>4, Zenon DEF InTurn
<1>6. T \in Nat /\ U \in Nat BY <1>1, <1>3 DEF Reader, On
<1> HIDE DEF G, R, T, U, L
<1>7. L - T = G /\ G + R + U = L /\ (U = 0 \/ G + R = n * (k + 1))
  <2>1. L - T = G /\ G + R + U = L BY <1>1, <1>3, <1>5, <1>6
  <2>2. U = 0 \/ (T # 0 /\ R = n) BY <1>3, <1>5, <1>6
  <2>3. n * (k + 1) = n * k + n OBVIOUS
  <2> QED BY <1>1, <2>1, <2>2, <2>3
<1>8. ASSUME NEW y \in 1 .. G + R PROVE x[y] = t[y]
  <2>1. CASE y <= G
    <3>1. y \in 1 .. G BY <1>5, <2>1
    <3> QED BY <1>1, <1>5, <3>1
  <2>2. CASE ~(y <= G)
    <3> DEFINE e == y - G
    <3>1. e \in 1 .. R /\ y = G + e BY <1>5, <2>2
    <3> HIDE DEF e
    <3>2. x[y] = r.got[e] /\ r.got[e] = t[L - T + e] BY <1>3, <1>5, <3>1
    <3> QED BY <1>7, <3>1, <3>2
  <2> QED BY <2>1, <2>2
<1>9. v.i = r.i /\ v.got = x BY DEF x
<1>10. Len(v.got) = G + R /\ v.i.total = U /\ Len(t) = L BY <1>5, <1>9 DEF U, L
<1>11. Len(v.got) + v.i.total = Len(t) BY <1>7, <1>10
<1>12. v.i.total = 0 \/ Len(v.got) = n * (k + 1) BY <1>7, <1>10
<1> QED BY <1>3, <1>5, <1>8, <1>9, <1>10, <1>11, <1>12, Zenon DEF PieceSoFar

\* Pieces enough hold more than the text.
LEMMA PiecesEnough ==
  ASSUME NEW L \in Nat, NEW n \in Nat \ {0}
  PROVE  L \div n + 1 \in Nat /\ n * (L \div n + 1) > L
<1> DEFINE q == L \div n
           s == L % n
<1>1. q \in Nat /\ s \in 0 .. n - 1 /\ L = n * q + s BY DivMod
<1> HIDE DEF q, s
<1>2. n * (q + 1) = n * q + n /\ n * q \in Nat BY <1>1
<1>3. n * (q + 1) > L BY <1>1, <1>2
<1>4. q + 1 \in Nat BY <1>1
<1> QED BY <1>3, <1>4 DEF q

\* Texts with the same bytes are the same.
LEMMA SameText ==
  ASSUME NEW s, IsSeq(s), NEW t, IsSeq(t), Len(s) = Len(t), \A y \in 1 .. Len(s) : s[y] = t[y]
  PROVE  s = t
<1>1. PICK S : s \in Seq(S) BY DEF IsSeq
<1>2. PICK T : t \in Seq(T) BY DEF IsSeq
<1>3. s = [y \in 1 .. Len(s) |-> s[y]] BY <1>1
<1>4. t = [y \in 1 .. Len(t) |-> t[y]] BY <1>2
<1> QED BY <1>3, <1>4, Zenon

\* A message not used again after clear() gives its text, read in pieces of any size.
LEMMA PiecesGive ==
  ASSUME NEW w, WorldInv(w), NEW m \in Msgs, NEW b, NEW N, NEW t, Shows(w, m, b, N, t),
         Begun(w.obj[m], t), NEW n \in Nat \ {0}, NEW K, K = Len(t) \div n + 1,
         NEW start, start = [i |-> GetReadIter(w, m), got |-> <<>>],
         NEW wn, wn = [w |-> w, n |-> n], NEW f, IsLoop(f, "piece", wn, start, K)
  PROVE  f[K].got = t
<1> DEFINE i == GetReadIter(w, m)
           o == w.obj[m]
<1>1. Len(t) \in Nat /\ IsSeq(t) /\ (t = <<>> => Len(t) = 0) /\ (t # <<>> => Len(t) # 0)
  <2>1. PICK S : t \in Seq(S) BY DEF Shows, IsSeq
  <2> QED BY <2>1 DEF IsSeq
<1>2. K \in Nat /\ n * K > Len(t)
  <2> DEFINE L == Len(t)
  <2>1. L \in Nat /\ K = L \div n + 1 BY <1>1
  <2> HIDE DEF L
  <2>2. K \in Nat /\ n * K > L BY <2>1, PiecesEnough
  <2> QED BY <2>2 DEF L
<1>3. TotalReserved \in Nat \ {0} BY Reserved
<1>4. /\ o.totalSz = 0 => Len(t) = 0
      /\ o.totalSz # 0 => o.totalSz = TotalReserved + Len(t)
      /\ o.totalSz \notin 1 .. TotalReserved - 1
  <2>1. o.totalSz = IF t = <<>> THEN 0 ELSE TotalReserved + Len(t) BY DEF Begun
  <2> HIDE DEF o
  <2> QED BY <1>1, <1>3, <2>1
<1>5. On(w, m, b, N, i)
  <2>1. Route(w, m, b, N) BY DEF Shows
  <2> QED BY <1>4, <2>1, BeginsOn
<1>6. i.total = Len(t)
  <2>1. i.total = IF o.totalSz = 0 THEN 0 ELSE o.totalSz - TotalReserved
    BY DEF GetReadIter
  <2> HIDE DEF i, o
  <2> QED BY <1>1, <1>3, <1>4, <2>1
<1>7. Reader(w, m, b, N, t, i)
  <2>1. i.total <= Len(t)
    <3> HIDE DEF i
    <3> QED BY <1>1, <1>6
  <2> HIDE DEF i
  <2> QED BY <1>5, <2>1 DEF Reader
<1>8. PieceSoFar(w, m, b, N, t, n, 0, start)
  <2>1. IsSeq(<<>>) /\ Len(<<>>) = 0
    <3>1. <<>> \in Seq({}) /\ Len(<<>>) = 0 OBVIOUS
    <3> QED BY <3>1 DEF IsSeq
  <2>2. start.i = i /\ start.got = <<>> OBVIOUS
  <2> HIDE DEF i
  <2>3. \A y \in 1 .. 0 : FALSE OBVIOUS
  <2>4. 0 + Len(t) = Len(t) /\ n * 0 = 0 BY <1>1
  <2> QED BY <1>6, <1>7, <2>1, <2>2, <2>3, <2>4 DEF PieceSoFar
<1> HIDE DEF i, o
<1>9. f[0] = start /\ \A k \in 0 .. K - 1 : f[k + 1] = Step("piece", wn, f[k])
  <2>1. K \in Nat BY <1>2
  <2> QED BY <2>1, LoopGoes
<1>10. wn.w = w /\ wn.n = n OBVIOUS
<1> DEFINE G == {k \in 0 .. K : PieceSoFar(w, m, b, N, t, n, k, f[k])}
<1>11. 0 \in G BY <1>2, <1>8, <1>9
<1>12. ASSUME NEW k \in 0 .. K - 1, k \in G PROVE k + 1 \in G
  <2> DEFINE d == f[k]
             r == Read(w, d.i, n)
             v == [i |-> r.i, got |-> d.got \o r.got]
  <2>1. f[k + 1] = v BY <1>9, <1>10 DEF Step, NextPiece
  <2>2. k \in Nat /\ PieceSoFar(w, m, b, N, t, n, k, d) BY <1>12
  <2> HIDE DEF d
  <2>3. PieceSoFar(w, m, b, N, t, n, k + 1, v) BY <2>2, PieceSoFarOn
  <2>4. k + 1 \in 0 .. K BY <1>2
  <2> QED BY <2>1, <2>3, <2>4
<1> HIDE DEF G
<1>13. K \in G BY <1>2, <1>11, <1>12, UpTo
<1> DEFINE e == f[K]
<1>14. PieceSoFar(w, m, b, N, t, n, K, e) BY <1>13 DEF G
<1> HIDE DEF e
<1>15. /\ Reader(w, m, b, N, t, e.i) /\ IsSeq(e.got) /\ Len(e.got) + e.i.total = Len(t)
       /\ \A y \in 1 .. Len(e.got) : e.got[y] = t[y]
       /\ e.i.total = 0 \/ Len(e.got) = n * K
  BY <1>14, Zenon DEF PieceSoFar
<1>16. Len(e.got) = Len(t)
  <2> DEFINE g == Len(e.got)
             u == e.i.total
             L == Len(t)
  <2>1. u \in Nat BY <1>15 DEF Reader, On
  <2>2. g \in Nat
    <3>1. \A S : \A y \in Seq(S) : Len(y) \in Nat OBVIOUS
    <3> QED BY <1>15, <3>1 DEF IsSeq
  <2>3. g + u = L /\ (u = 0 \/ g = n * K) /\ n * K > L /\ L \in Nat BY <1>1, <1>2, <1>15
  <2> HIDE DEF g, u, L
  <2>4. n * K \in Nat BY <1>2
  <2> DEFINE p == n * K
  <2> HIDE DEF p
  <2>5. g + u = L /\ (u = 0 \/ g = p) /\ p > L /\ p \in Nat BY <2>3, <2>4 DEF p
  <2>6. g = L BY <2>1, <2>2, <2>3, <2>5
  <2> QED BY <2>6 DEF g, L
<1>17. e.got = t BY <1>1, <1>15, <1>16, SameText
<1> QED BY <1>17 DEF e

\* The texts are read back.
LEMMA ReadBackIs ==
  ASSUME IInv, TextInv
  PROVE  ReadBack
<1> SUFFICES ASSUME NEW m \in Msgs, WellBegun(m), NEW n \in {PageSize - 1, PageSize + 1}
             PROVE  InPieces(m, n) = text[m]
  BY Zenon DEF ReadBack, ReadsBack
<1> DEFINE o == obj[m]
           t == text[m]
           ap == app[m]
           K == Len(t) \div n + 1
<1>1. m \in Holders BY DEF Holders
<1>2. /\ WorldInv(World) /\ World.obj = obj /\ World.data = data
      /\ Kept(World, o, t, ap) /\ o \in Object /\ IsSeq(t)
  BY <1>1 DEF IInv, TextInv, KeptAll, World, WorldInv, WorldType
<1>3. o.pageCnt \in Nat /\ LocalStorageSize \in Nat BY <1>2, Sizes DEF Object
<1>4. Fresh(o) /\ Begun(o, t)
  <2>1. Low(o) = Min({o.pageCnt, LocalStorageSize})
    <3>1. Min({o.pageCnt, LocalStorageSize})
          = IF o.pageCnt <= LocalStorageSize THEN o.pageCnt ELSE LocalStorageSize
      BY <1>3, MinOfTwo
    <3> QED BY <1>3, <3>1 DEF Low
  <2> QED BY <2>1 DEF WellBegun, Fresh, Begun
<1>5. n \in Nat \ {0}
  <2>1. PageSize \in Nat \ {0} /\ TotalReserved \in 0 .. PageSize - 1 BY Sizes
  <2>2. TotalReserved \in Nat \ {0} BY Reserved
  <2> QED BY <2>1, <2>2
<1>6. Len(t) \in Nat
  <2>1. \A S : \A y \in Seq(S) : Len(y) \in Nat OBVIOUS
  <2> QED BY <1>2, <2>1 DEF IsSeq
<1>7. K \in Nat
  <2> DEFINE L == Len(t)
  <2>1. L \in Nat BY <1>6
  <2> HIDE DEF L
  <2>2. L \div n + 1 \in Nat BY <1>5, <2>1, PiecesEnough
  <2> QED BY <2>2 DEF L
<1> HIDE DEF K
<1>8. PICK f : /\ IsLoop(f, "piece", [w |-> World, n |-> n],
                       [i |-> GetReadIter(World, m), got |-> <<>>], K)
             /\ InPieces(m, n) = f[K].got
  BY <1>7, PiecesAreLoop DEF K
<1>9. PICK b : Shows(World, m, b, World.obj[m].pageCnt, t) BY <1>2, <1>4, FreshShows
<1>10. Begun(World.obj[m], t) /\ K = Len(t) \div n + 1 BY <1>2, <1>4 DEF K
<1>11. f[K].got = t
  <2> HIDE DEF t
  <2> QED BY <1>2, <1>5, <1>8, <1>9, <1>10, PiecesGive
<1> QED BY <1>8, <1>11

\* A message whose header names the pages it has, and whose content begins behind the reserve,
\* gives all that was appended to it and nothing else, read in pieces shorter or longer than
\* a page: through the header and its index pages the pages come in the order they were added.
THEOREM ReadsBackAlways == Spec => []ReadBack
<1>1. IInv /\ TextInv => ReadBack BY ReadBackIs
<1> QED BY <1>1, TextInvAlways, PTL
================================================================================
