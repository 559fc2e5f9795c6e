--------------------------- MODULE InternalMsgProofs ---------------------------
(***************************************************************************)
(* Pages of messages: each belongs to one message, once, or is free.        *)
(*                                                                          *)
(* The index pages of every object are a list (Listed), and what is in it   *)
(* is what the counters say (Numbered, Filled); no page is in two objects   *)
(* (Separate), and every other page is free (Covered).  A call is a few     *)
(* steps on the world: one more page (Grows), other bytes (SizeIsSet,       *)
(* DataOnly), all pages released (EmptiedKeeps), an object moved            *)
(* (HandedOverKeeps).  The loops of append and of reading are functions of  *)
(* the number of rounds; that each round keeps the world in order is shown  *)
(* by the smallest number of one that does not.  That a call has pages      *)
(* enough for every round is what Credit says.                              *)
(***************************************************************************)
EXTENDS InternalMsg, FiniteSetTheorems, WellFoundedInduction, TLAPS

(***************************************************************************)
(* Numbers                                                                  *)
(***************************************************************************)
\* A non-empty set of natural numbers has a smallest element.
LEMMA Smallest ==
  ASSUME NEW S, S \subseteq Nat, S # {}
  PROVE  \E n \in S : \A k \in S : n <= k
<1>1. PICK n \in S : \A k \in S : <<k, n>> \notin OpToRel(<, Nat)
  BY NatLessThanWellFounded, WFMin
<1>2. \A k \in S : ~(k < n) BY <1>1 DEF OpToRel
<1> QED BY <1>2

\* It is what Min gives.
LEMMA MinIsIn ==
  ASSUME NEW S, S \subseteq Nat, S # {}
  PROVE  Min(S) \in S /\ \A k \in S : Min(S) <= k
<1>1. \E n \in S : \A k \in S : n <= k BY Smallest
<1> QED BY <1>1 DEF Min

\* Of two numbers, too.
LEMMA MinOfTwo ==
  ASSUME NEW a \in Int, NEW b \in Int
  PROVE  Min({a, b}) = IF a <= b THEN a ELSE b
BY DEF Min

\* Proof by the smallest counterexample.
LEMMA NoSmallest ==
  ASSUME NEW S, S \subseteq Nat, \A n \in S : \E k \in S : k < n
  PROVE  S = {}
<1> SUFFICES ASSUME S # {} PROVE FALSE
  OBVIOUS
<1>1. PICK n \in S : \A k \in S : n <= k BY Smallest
<1>2. PICK k \in S : k < n OBVIOUS
<1> QED BY <1>1, <1>2

\* What div and % are.
LEMMA DivMod ==
  ASSUME NEW a \in Nat, NEW b \in Nat \ {0}
  PROVE  /\ a \div b \in Nat /\ (a % b) \in 0 .. b - 1
         /\ a = b * (a \div b) + (a % b)
OBVIOUS

\* There is one way only to write a number so.
LEMMA ModUnique ==
  ASSUME NEW b \in Nat \ {0}, NEW k \in Nat, NEW r \in 0 .. b - 1
  PROVE  (b * k + r) % b = r
OBVIOUS

\* Counting on within a page, and to its end.
LEMMA OnePageOn ==
  ASSUME NEW b \in Nat \ {0}, NEW a \in Nat, NEW n \in Nat, n <= b - (a % b)
  PROVE  (a + n) % b = IF n = b - (a % b) THEN 0 ELSE (a % b) + n
<1> DEFINE k == a \div b
           r == a % b
<1>1. k \in Nat /\ r \in 0 .. b - 1 /\ a = b * k + r /\ n <= b - r BY DivMod
<1>2. b * (k + 1) = b * k + b /\ b * k \in Nat BY <1>1
<1>5. \A y \in Nat, x \in 0 .. b - 1 : (b * y + x) % b = x BY ModUnique
<1>3. CASE n = b - r
  <2>1. a + n = b * (k + 1) + 0
    <3> HIDE DEF k, r
    <3> QED BY <1>1, <1>2, <1>3
  <2> HIDE DEF k
  <2> QED BY <1>1, <1>3, <1>5, <2>1
<1>4. CASE n # b - r
  <2>1. a + n = b * k + (r + n) /\ r + n \in 0 .. b - 1
    <3> HIDE DEF k, r
    <3> QED BY <1>1, <1>2, <1>4
  <2> HIDE DEF k
  <2> QED BY <1>1, <1>4, <1>5, <2>1
<1> QED BY <1>3, <1>4

(***************************************************************************)
(* Worlds                                                                   *)
(***************************************************************************)
Object == [first : [Local -> Page], used : Nat, next : Page, pageCnt : Nat,
           lip : Page, cur : Page, totalSz : Nat]
Listing == [used : 0 .. MaxAddressedByPage, next : Page,
            pages : [0 .. MaxAddressedByPage - 1 -> Page]]

\* The objects, the index pages and the free pages have their types.
WorldType(w) ==
  w \in [obj : [Holders -> Object], index : [Pages -> Listing], data : {w.data},
         free : SUBSET Pages]

\* The list of index pages from p on is c[1], ..., c[n].
Chain(w, p, n, c) ==
  /\ n \in Nat /\ c \in [1 .. n -> Pages]
  /\ p = IF n = 0 THEN Null ELSE c[1]
  /\ \A i \in 1 .. n : w.index[c[i]].next = IF i = n THEN Null ELSE c[i + 1]
  /\ \A i, j \in 1 .. n : c[i] = c[j] => i = j

\* Linked finds it.
LEMMA LinkedIsChain ==
  ASSUME NEW w, NEW p, NEW n, NEW c, Chain(w, p, n, c)
  PROVE  Linked(w, p) = {c[i] : i \in 1 .. n}
<1> DEFINE N == Cardinality(Pages)
           nth == CHOOSE f : f = [k \in 1 .. N |->
                    IF k = 1 THEN p
                    ELSE LET q == f[k - 1] IN IF q = Null THEN Null ELSE w.index[q].next]
           closed == [k \in 1 .. N |-> IF k <= n THEN c[k] ELSE Null]
<1>1. n \in Nat /\ c \in [1 .. n -> Pages] /\ \A i \in 1 .. n : c[i] \in Pages /\ c[i] # Null
  BY PageAssumption DEF Chain
<1>2. N \in Nat /\ n <= N
  <2>1. IsFiniteSet(Pages) BY PageAssumption
  <2>2. c \in Injection(1 .. n, Pages) BY DEF Chain, Injection, IsInjective
  <2>3. Cardinality(1 .. n) <= N BY <2>1, <2>2, FS_Injection
  <2>4. Cardinality(1 .. n) = n BY <1>1, FS_Interval
  <2> QED BY <2>1, <2>3, <2>4, FS_CardinalityType
<1>3. Linked(w, p) = {nth[k] : k \in 1 .. N} \ {Null}
  BY DEF Linked
<1>4. closed = [k \in 1 .. N |->
                  IF k = 1 THEN p
                  ELSE LET q == closed[k - 1] IN IF q = Null THEN Null ELSE w.index[q].next]
  <2>1. \A k \in 1 .. N : closed[k] = IF k <= n THEN c[k] ELSE Null OBVIOUS
  <2>2. closed = [k \in 1 .. N |-> closed[k]] OBVIOUS
  <2> HIDE DEF closed, N
  <2>3. ASSUME NEW k \in 1 .. N
        PROVE  closed[k] = IF k = 1 THEN p
                           ELSE LET q == closed[k - 1]
                                IN IF q = Null THEN Null ELSE w.index[q].next
    <3>1. CASE k = 1 BY <1>1, <2>1, <3>1 DEF Chain
    <3>2. CASE k # 1
      <4>1. k - 1 \in 1 .. N BY <1>2, <3>2
      <4>2. closed[k - 1] = IF k - 1 <= n THEN c[k - 1] ELSE Null BY <2>1, <4>1
      <4>3. ASSUME k - 1 <= n
            PROVE  w.index[c[k - 1]].next = IF k - 1 = n THEN Null ELSE c[k]
        <5> DEFINE i == k - 1
        <5>1. i \in 1 .. n /\ i + 1 = k BY <1>1, <4>1, <4>3
        <5> HIDE DEF i
        <5>2. \A x \in 1 .. n : w.index[c[x]].next = IF x = n THEN Null ELSE c[x + 1]
          BY Zenon DEF Chain
        <5>3. w.index[c[i]].next = IF i = n THEN Null ELSE c[i + 1] BY <5>1, <5>2, Zenon
        <5> QED BY <5>1, <5>3 DEF i
      <4> QED BY <1>1, <2>1, <3>2, <4>1, <4>2, <4>3
    <3> QED BY <3>1, <3>2
  <2> QED BY <2>2, <2>3
<1>5. nth = [k \in 1 .. N |->
                  IF k = 1 THEN p
                  ELSE LET q == nth[k - 1] IN IF q = Null THEN Null ELSE w.index[q].next]
  <2> HIDE DEF closed, N
  <2> QED BY <1>4, Zenon
<1>6. \A k \in 1 .. N : nth[k] = closed[k]
  <2> DEFINE B == {k \in 1 .. N : nth[k] # closed[k]}
  <2> HIDE DEF nth, closed, N
  <2>1. B \subseteq Nat OBVIOUS
  <2>2. ASSUME NEW k \in B PROVE \E j \in B : j < k
    <3>1. k \in 1 .. N /\ nth[k] # closed[k] OBVIOUS
    <3>2. k # 1 BY <1>4, <1>5, <3>1
    <3>3. k - 1 \in 1 .. N BY <1>2, <3>1, <3>2
    <3>4. nth[k - 1] # closed[k - 1]
      <4>1. nth[k] = LET q == nth[k - 1] IN IF q = Null THEN Null ELSE w.index[q].next
        BY <1>5, <3>1, <3>2
      <4>2. closed[k] = LET q == closed[k - 1] IN IF q = Null THEN Null ELSE w.index[q].next
        BY <1>4, <3>1, <3>2
      <4> QED BY <3>1, <4>1, <4>2
    <3> QED BY <3>3, <3>4
  <2> HIDE DEF B
  <2>3. B = {} BY <2>1, <2>2, NoSmallest
  <2> QED BY <2>3 DEF B
<1>7. {nth[k] : k \in 1 .. N} = {closed[k] : k \in 1 .. N}
  <2> HIDE DEF nth, closed
  <2> QED BY <1>6
<1>8. {closed[k] : k \in 1 .. N} \ {Null} = {c[i] : i \in 1 .. n}
  BY <1>1, <1>2
<1> HIDE DEF nth, closed
<1> QED BY <1>3, <1>7, <1>8

\* What an object owns: pages with content, and the index pages that list them.
Payload(w, o) == LocalPages(o) \cup IndexedPages(w, o)
OwnedIn(w, o) == Payload(w, o) \cup Linked(w, o.next)

\* The index pages are a list that ends in lip; there are none while the local list will do.
Listed(w, o) ==
  \E n \in Nat : \E c \in [1 .. n -> Pages] :
    /\ Chain(w, o.next, n, c)
    /\ o.lip = IF n = 0 THEN Null ELSE c[n]
    /\ n = 0 <=> o.pageCnt <= LocalStorageSize

\* Its pages are there, each is one thing, and it counts those with content.
Numbered(w, o) ==
  /\ Payload(w, o) \subseteq Pages
  /\ Payload(w, o) \cap Linked(w, o.next) = {}
  /\ Cardinality(Payload(w, o)) = o.pageCnt

\* What has content has a page, and an object that lies in a page lies in its own first one.
Housed(h, o) ==
  /\ o.cur # Null \/ o.totalSz # 0 => o.pageCnt >= 1
  /\ h \in Pages /\ o # Zeroed => o.pageCnt >= 1 /\ o.first[0] = h

\* Without a current page the last one is full.
Filled(o) == o.cur = Null => o.totalSz % PageSize = 0

Sound(w, h) ==
  /\ Listed(w, w.obj[h]) /\ Numbered(w, w.obj[h])
  /\ Housed(h, w.obj[h]) /\ Filled(w.obj[h])

\* Nobody owns what another owns, and free is what nobody owns.
Separate(w) ==
  \A h, g \in Holders : h # g => OwnedIn(w, w.obj[h]) \cap OwnedIn(w, w.obj[g]) = {}
Covered(w) ==
  \A p \in Pages : p \in w.free <=> \A h \in Holders : p \notin OwnedIn(w, w.obj[h])

WorldInv(w) ==
  /\ WorldType(w) /\ Separate(w) /\ Covered(w)
  /\ \A h \in Holders : Sound(w, h)

(***************************************************************************)
(* What owning depends on                                                   *)
(***************************************************************************)
\* The members of an object that say which pages it owns.
SameList(o, x) == o.first = x.first /\ o.next = x.next /\ o.pageCnt = x.pageCnt /\ o.lip = x.lip

\* An object keeps its pages while its index pages stay as they are.
LEMMA SamePages ==
  ASSUME NEW w, NEW v, NEW o, NEW x, Listed(w, o), SameList(o, x),
         \A q \in Linked(w, o.next) : v.index[q] = w.index[q]
  PROVE  /\ Linked(v, x.next) = Linked(w, o.next)
         /\ Payload(v, x) = Payload(w, o)
         /\ OwnedIn(v, x) = OwnedIn(w, o)
         /\ Listed(v, x)
<1>1. PICK n \in Nat : \E c \in [1 .. n -> Pages] :
        /\ Chain(w, o.next, n, c)
        /\ o.lip = IF n = 0 THEN Null ELSE c[n]
        /\ n = 0 <=> o.pageCnt <= LocalStorageSize
  BY DEF Listed
<1>2. PICK c \in [1 .. n -> Pages] :
        /\ Chain(w, o.next, n, c)
        /\ o.lip = IF n = 0 THEN Null ELSE c[n]
        /\ n = 0 <=> o.pageCnt <= LocalStorageSize
  BY <1>1
<1>3. Linked(w, o.next) = {c[i] : i \in 1 .. n} BY <1>2, LinkedIsChain
<1>4. Chain(v, x.next, n, c) BY <1>2, <1>3 DEF Chain, SameList
<1>5. Linked(v, x.next) = {c[i] : i \in 1 .. n} BY <1>4, LinkedIsChain
<1>6. Linked(v, x.next) = Linked(w, o.next) BY <1>3, <1>5
<1>7. LocalPages(x) = LocalPages(o) BY DEF LocalPages, SameList
<1>8. IndexedPages(v, x) = IndexedPages(w, o) BY <1>6 DEF IndexedPages
<1>9. Payload(v, x) = Payload(w, o) BY <1>7, <1>8 DEF Payload
<1>10. Listed(v, x) BY <1>2, <1>4 DEF Listed, SameList
<1> QED BY <1>6, <1>9, <1>10 DEF OwnedIn

\* So does a whole world in which only members changed that are not about pages.
LEMMA SameWorld ==
  ASSUME NEW w, NEW v, WorldInv(w), WorldType(v), v.index = w.index, v.free = w.free,
         \A h \in Holders : SameList(w.obj[h], v.obj[h]) /\ Housed(h, v.obj[h]) /\ Filled(v.obj[h])
  PROVE  WorldInv(v)
<1>1. ASSUME NEW h \in Holders
      PROVE  /\ Linked(v, v.obj[h].next) = Linked(w, w.obj[h].next)
             /\ Payload(v, v.obj[h]) = Payload(w, w.obj[h])
             /\ OwnedIn(v, v.obj[h]) = OwnedIn(w, w.obj[h])
             /\ Listed(v, v.obj[h])
  BY SamePages DEF WorldInv, Sound
<1>2. \A h \in Holders : Sound(v, h)
  BY <1>1 DEF WorldInv, Sound, Numbered, SameList
<1>3. Separate(v) /\ Covered(v)
  BY <1>1 DEF WorldInv, Separate, Covered
<1> QED BY <1>2, <1>3 DEF WorldInv

\* An object without pages owns none.
LEMMA OwnsNothing ==
  ASSUME NEW w, NEW o, o.pageCnt = 0, o.next = Null
  PROVE  Linked(w, o.next) = {} /\ Payload(w, o) = {} /\ OwnedIn(w, o) = {}
<1>1. Chain(w, Null, 0, [i \in 1 .. 0 |-> 0]) BY DEF Chain
<1>2. Linked(w, o.next) = {} BY <1>1, LinkedIsChain
<1>3. LocalPages(o) = {}
  BY PageAssumption DEF LocalPages, Local
<1>4. IndexedPages(w, o) = {} BY <1>2 DEF IndexedPages
<1> QED BY <1>2, <1>3, <1>4 DEF Payload, OwnedIn

\* Pages owned are pages.
LEMMA OwnedArePages ==
  ASSUME NEW w, NEW o, Listed(w, o), Payload(w, o) \subseteq Pages
  PROVE  Linked(w, o.next) \subseteq Pages /\ OwnedIn(w, o) \subseteq Pages
<1>1. \E n \in Nat : \E c \in [1 .. n -> Pages] : Linked(w, o.next) = {c[i] : i \in 1 .. n}
  BY LinkedIsChain DEF Listed
<1> QED BY <1>1 DEF OwnedIn

\* A page with content is found in the local list or in an index page.
LEMMA PayloadIs ==
  ASSUME NEW w, NEW o, NEW p
  PROVE  /\ p \in LocalPages(o) <=> \E j \in Local : j < o.pageCnt /\ p = o.first[j]
         /\ p \in IndexedPages(w, o) <=>
              \E q \in Linked(w, o.next) :
                \E j \in 0 .. w.index[q].used - 1 : p = w.index[q].pages[j]
BY DEF LocalPages, IndexedPages

(***************************************************************************)
(* Taking pages                                                             *)
(***************************************************************************)
\* Message m has taken p for content and the pages of Q for its list.
GrewBy(w, v, m, p, Q) ==
  /\ WorldType(v) /\ v.free = w.free \ (Q \cup {p})
  /\ \A h \in Holders : h # m => v.obj[h] = w.obj[h]
  /\ \A r \in Pages : r \notin Q \cup Linked(w, w.obj[m].next) => v.index[r] = w.index[r]
  /\ Listed(v, v.obj[m]) /\ Payload(v, v.obj[m]) = Payload(w, w.obj[m]) \cup {p}
  /\ Linked(v, v.obj[m].next) = Linked(w, w.obj[m].next) \cup Q
  /\ v.obj[m].pageCnt = w.obj[m].pageCnt + 1 /\ v.obj[m].cur # Null

\* Such an m may grow: p belongs to nobody, and what others own is not touched.
LEMMA Grows ==
  ASSUME NEW w, NEW v, WorldInv(w), NEW m \in Msgs, NEW p \in w.free,
         NEW Q \in SUBSET (w.free \ {p}), GrewBy(w, v, m, p, Q)
  PROVE  WorldInv(v)
<1> USE DEF GrewBy
<1>1. m \in Holders /\ m \notin Pages BY PageAssumption DEF Holders
<1>2. \A h \in Holders : /\ Listed(w, w.obj[h]) /\ Numbered(w, w.obj[h])
                         /\ Linked(w, w.obj[h].next) \subseteq Pages
                         /\ OwnedIn(w, w.obj[h]) \subseteq Pages
  BY OwnedArePages DEF WorldInv, Sound, Numbered
<1>3. w.free \subseteq Pages /\ \A h \in Holders : OwnedIn(w, w.obj[h]) \cap w.free = {}
  BY DEF WorldInv, WorldType, Covered
<1>4. ASSUME NEW h \in Holders, h # m
      PROVE  /\ Linked(v, v.obj[h].next) = Linked(w, w.obj[h].next)
             /\ Payload(v, v.obj[h]) = Payload(w, w.obj[h])
             /\ OwnedIn(v, v.obj[h]) = OwnedIn(w, w.obj[h])
             /\ Listed(v, v.obj[h])
  <2>1. SameList(w.obj[h], v.obj[h]) BY <1>4 DEF SameList
  <2>2. OwnedIn(w, w.obj[h]) \cap OwnedIn(w, w.obj[m]) = {}
    BY <1>1, <1>4 DEF WorldInv, Separate
  <2>3. \A q \in Linked(w, w.obj[h].next) : v.index[q] = w.index[q]
    BY <1>2, <1>3, <2>2 DEF OwnedIn
  <2>4. Listed(w, w.obj[h]) BY <1>2
  <2> QED BY <2>1, <2>3, <2>4, SamePages
<1>5. OwnedIn(v, v.obj[m]) = OwnedIn(w, w.obj[m]) \cup Q \cup {p} BY DEF OwnedIn
<1>6. Separate(v)
  BY <1>3, <1>4, <1>5 DEF WorldInv, Separate
<1>7. Covered(v)
  BY <1>1, <1>3, <1>4, <1>5 DEF WorldInv, Covered
<1>8. Numbered(v, v.obj[m])
  <2>1. IsFiniteSet(Payload(w, w.obj[m])) /\ p \notin Payload(w, w.obj[m])
    <3>1. Payload(w, w.obj[m]) \subseteq Pages BY <1>1, <1>2 DEF Numbered
    <3>2. p \notin Payload(w, w.obj[m]) BY <1>1, <1>3 DEF OwnedIn
    <3> QED BY <3>1, <3>2, FS_Subset, PageAssumption
  <2>2. Cardinality(Payload(w, w.obj[m]) \cup {p}) = w.obj[m].pageCnt + 1
    <3>1. Cardinality(Payload(w, w.obj[m])) = w.obj[m].pageCnt BY <1>1, <1>2 DEF Numbered
    <3> DEFINE S == Payload(w, w.obj[m])
    <3> HIDE DEF S
    <3>2. Cardinality(S \cup {p}) = Cardinality(S) + 1 BY <2>1, FS_AddElement DEF S
    <3> QED BY <3>1, <3>2 DEF S
  <2> QED BY <1>1, <1>2, <1>3, <2>2 DEF Numbered, OwnedIn
<1>9. v.obj[m] \in Object /\ w.obj[m] \in Object BY <1>1 DEF WorldInv, WorldType
<1>10. Sound(v, m)
  BY <1>1, <1>8, <1>9 DEF Sound, Housed, Filled, Object
<1>11. ASSUME NEW h \in Holders, h # m PROVE Sound(v, h)
  <2>1. v.obj[h] = w.obj[h] /\ Sound(w, h) BY <1>11 DEF WorldInv
  <2>2. Numbered(v, v.obj[h]) BY <1>4, <1>11, <2>1 DEF Sound, Numbered
  <2> QED BY <1>4, <1>11, <2>1, <2>2 DEF Sound
<1> QED BY <1>6, <1>7, <1>10, <1>11 DEF WorldInv

\* implAddPage needs an index page as well when the lists of the message are full.
IsFullUp(w, m) ==
  LET o == w.obj[m]
  IN o.pageCnt >= LocalStorageSize /\ (o.lip = Null \/ w.index[o.lip].used = MaxAddressedByPage)
HasPages(w, m) ==
  /\ w.free # {}
  /\ IsFullUp(w, m) => w.free \ {Min(w.free)} # {}

\* The pages it takes.
Taken(w) == Min(w.free)
TakenToo(w) == Min(w.free \ {Min(w.free)})

\* They are free, and two where two are needed.
LEMMA TakenAreFree ==
  ASSUME NEW w, WorldType(w), NEW m, HasPages(w, m)
  PROVE  /\ Taken(w) \in w.free /\ Taken(w) \in Pages
         /\ IsFullUp(w, m) => TakenToo(w) \in w.free \ {Taken(w)} /\ TakenToo(w) \in Pages
<1>1. w.free \subseteq Nat /\ w.free \subseteq Pages BY PageAssumption DEF WorldType
<1>2. Taken(w) \in w.free BY <1>1, MinIsIn DEF HasPages, Taken
<1>3. ASSUME IsFullUp(w, m) PROVE TakenToo(w) \in w.free \ {Taken(w)}
  <2> DEFINE S == w.free \ {Min(w.free)}
  <2>1. S \subseteq Nat /\ S # {} BY <1>1, <1>3 DEF HasPages
  <2> HIDE DEF S
  <2>2. Min(S) \in S BY <2>1, MinIsIn
  <2> QED BY <2>2 DEF S, Taken, TakenToo
<1> QED BY <1>1, <1>2, <1>3

\* What Took does to a world.
LEMMA TookIs ==
  ASSUME NEW w, WorldType(w), NEW m \in Holders, NEW S, NEW x \in Object, NEW v,
         v = Took(w, m, S, x)
  PROVE  /\ WorldType(v) /\ v.free = w.free \ S /\ v.index = w.index /\ v.obj[m] = x
         /\ \A h \in Holders : h # m => v.obj[h] = w.obj[h]
<1> DEFINE ob == [w.obj EXCEPT ![m] = x]
           fr == w.free \ S
<1>1. ob \in [Holders -> Object] /\ fr \in SUBSET Pages BY DEF WorldType
<1>2. v = [w EXCEPT !.free = fr, !.obj = ob] BY DEF Took
<1>3. ob[m] = x /\ \A h \in Holders : h # m => ob[h] = w.obj[h] BY DEF WorldType
<1> HIDE DEF ob, fr
<1>4. WorldType(v) /\ v.free = fr /\ v.index = w.index /\ v.obj = ob
  BY <1>1, <1>2 DEF WorldType
<1> QED BY <1>3, <1>4 DEF fr

\* What a change of index pages does to a world.
LEMMA WithIndex ==
  ASSUME NEW w, WorldType(w), NEW ix \in [Pages -> Listing], NEW v,
         v = [w EXCEPT !.index = ix]
  PROVE  WorldType(v) /\ v.free = w.free /\ v.index = ix /\ v.obj = w.obj
BY DEF WorldType

\* The object of m with a new page p, in the local list or not, and list l.
LEMMA GrownIs ==
  ASSUME NEW o \in Object, NEW p \in Pages, NEW q \in Pages
  PROVE  /\ Grown(o, p) \in Object /\ [Grown(o, p) EXCEPT !.next = q, !.lip = q] \in Object
         /\ [Grown(o, p) EXCEPT !.lip = q] \in Object
         /\ o.pageCnt \in Local =>
              [Grown(o, p) EXCEPT !.first = [@ EXCEPT ![o.pageCnt] = p], !.used = @ + 1] \in Object
<1>1. /\ o.pageCnt + 1 \in Nat /\ o.used + 1 \in Nat /\ p \in Page /\ q \in Page
      /\ o \in [first : [Local -> Page], used : Nat, next : Page, pageCnt : Nat,
                lip : Page, cur : Page, totalSz : Nat]
  BY DEF Object, Page
<1>2. /\ Grown(o, p) \in Object /\ [Grown(o, p) EXCEPT !.next = q, !.lip = q] \in Object
      /\ [Grown(o, p) EXCEPT !.lip = q] \in Object
  BY <1>1 DEF Object, Grown
<1>3. ASSUME o.pageCnt \in Local
      PROVE  [Grown(o, p) EXCEPT !.first = [@ EXCEPT ![o.pageCnt] = p], !.used = @ + 1] \in Object
  <2>1. [o.first EXCEPT ![o.pageCnt] = p] \in [Local -> Page] BY <1>1, <1>3
  <2> QED BY <1>1, <2>1 DEF Object, Grown
<1> QED BY <1>2, <1>3

\* What implAddPage does, case by case.
LEMMA AddPageCases ==
  ASSUME NEW w, WorldType(w), NEW m \in Holders, NEW o, o = w.obj[m],
         NEW p, p = Taken(w), NEW q, q = TakenToo(w)
  PROVE  /\ o.pageCnt < LocalStorageSize => AddPage(w, m) = NameInHeader(w, m, p)
         /\ o.pageCnt >= LocalStorageSize =>
              AddPage(w, m) = IF o.lip = Null THEN NameInFirstIndex(w, m, p, q)
                              ELSE IF IndexIsFull(w, o.lip) THEN NameInNewIndex(w, m, p, q)
                              ELSE NameInLastIndex(w, m, p)
<1>1. o.pageCnt \in Int /\ LocalStorageSize \in Int BY PageAssumption DEF WorldType, Object
<1> QED BY <1>1 DEF AddPage, Taken, TakenToo

\* While the local list will do there are no index pages.
LEMMA NoIndexPages ==
  ASSUME NEW w, NEW o, o.pageCnt <= LocalStorageSize
  PROVE  Listed(w, o) <=> o.next = Null /\ o.lip = Null
<1>1. ASSUME Listed(w, o) PROVE o.next = Null /\ o.lip = Null
  <2>1. \E c \in [1 .. 0 -> Pages] : Chain(w, o.next, 0, c) /\ o.lip = Null BY <1>1 DEF Listed
  <2> QED BY <2>1 DEF Chain
<1>2. ASSUME o.next = Null /\ o.lip = Null PROVE Listed(w, o)
  <2> DEFINE c == [i \in 1 .. 0 |-> 0]
  <2>1. c \in [1 .. 0 -> Pages] OBVIOUS
  <2>2. Chain(w, o.next, 0, c) BY <1>2 DEF Chain
  <2> HIDE DEF c
  <2> QED BY <1>2, <2>1, <2>2 DEF Listed
<1> QED BY <1>1, <1>2

\* All pages beyond the local list are in index pages; there is a last one.
LEMMA LastIndexPage ==
  ASSUME NEW w, NEW o, o.pageCnt \in Nat, Listed(w, o), o.lip # Null
  PROVE  /\ o.pageCnt > LocalStorageSize /\ o.lip \in Pages
         /\ \E n \in Nat : \E c \in [1 .. n -> Pages] :
              Chain(w, o.next, n, c) /\ n >= 1 /\ o.lip = c[n]
<1>1. PICK n \in Nat : \E c \in [1 .. n -> Pages] :
        /\ Chain(w, o.next, n, c)
        /\ o.lip = IF n = 0 THEN Null ELSE c[n]
        /\ n = 0 <=> o.pageCnt <= LocalStorageSize
  BY DEF Listed
<1>2. n # 0 BY <1>1
<1>3. n >= 1 /\ n \in 1 .. n BY <1>2
<1>4. LocalStorageSize \in Nat BY PageAssumption
<1> QED BY <1>1, <1>2, <1>3, <1>4

\* What one index page lists.
ListedIn(l) == {l.pages[j] : j \in 0 .. l.used - 1}

\* The pages named in the index pages of an object, one index page at a time.
LEMMA IndexedIs ==
  ASSUME NEW w, NEW o
  PROVE  IndexedPages(w, o) = UNION {ListedIn(w.index[q]) : q \in Linked(w, o.next)}
BY DEF IndexedPages, ListedIn

\* A new index page names one page.
LEMMA ListedOne ==
  ASSUME NEW p
  PROVE  ListedIn(IndexPage(1, p)) = {p} /\ IndexPage(1, p).next = Null
         /\ (p \in Pages => IndexPage(1, p) \in Listing)
<1>1. MaxAddressedByPage \in Nat /\ MaxAddressedByPage >= 1 BY PageAssumption
<1>2. 0 .. 1 - 1 = {0} OBVIOUS
<1>3. ListedIn(IndexPage(1, p)) = {p} /\ IndexPage(1, p).next = Null
  BY <1>1, <1>2 DEF ListedIn, IndexPage
<1>4. p \in Pages => IndexPage(1, p) \in Listing BY <1>1 DEF IndexPage, Listing, Page
<1> QED BY <1>3, <1>4

\* A page named behind the others.
LEMMA ListedOneMore ==
  ASSUME NEW l \in Listing, NEW p \in Pages, l.used # MaxAddressedByPage
  PROVE  /\ ListedIn(NamedIn(l, p)) = ListedIn(l) \cup {p}
         /\ NamedIn(l, p).next = l.next /\ NamedIn(l, p) \in Listing
<1>1. MaxAddressedByPage \in Nat BY PageAssumption
<1>2. l.used \in 0 .. MaxAddressedByPage - 1 /\ l.used + 1 \in 0 .. MaxAddressedByPage
      /\ l.pages \in [0 .. MaxAddressedByPage - 1 -> Page] /\ p \in Page
  BY <1>1 DEF Listing, Page
<1> DEFINE pp == [l.pages EXCEPT ![l.used] = p]
<1>3. pp \in [0 .. MaxAddressedByPage - 1 -> Page] BY <1>2
<1>4. pp[l.used] = p /\ \A j \in 0 .. l.used - 1 : pp[j] = l.pages[j] BY <1>1, <1>2
<1>5. NamedIn(l, p) = [used |-> l.used + 1, next |-> l.next, pages |-> pp]
  <2>1. l = [used |-> l.used, next |-> l.next, pages |-> l.pages] BY DEF Listing
  <2>2. NamedIn(l, p) = [l EXCEPT !.pages = pp, !.used = @ + 1] BY DEF NamedIn
  <2> HIDE DEF pp
  <2> QED BY <2>1, <2>2
<1> HIDE DEF pp
<1>6. NamedIn(l, p) \in Listing /\ NamedIn(l, p).next = l.next BY <1>2, <1>3, <1>5 DEF Listing
<1>7. \A j : j \in 0 .. (l.used + 1) - 1 <=> j \in 0 .. l.used - 1 \/ j = l.used
  BY <1>1, <1>2
<1>8. ListedIn(NamedIn(l, p)) = {pp[j] : j \in 0 .. (l.used + 1) - 1} BY <1>5 DEF ListedIn
<1>9. {pp[j] : j \in 0 .. (l.used + 1) - 1} = {pp[j] : j \in 0 .. l.used - 1} \cup {pp[l.used]}
  BY <1>7, Zenon
<1>10. ListedIn(l) = {pp[j] : j \in 0 .. l.used - 1} BY <1>4 DEF ListedIn
<1> QED BY <1>4, <1>6, <1>8, <1>9, <1>10

\* Pages named in the message: those of the local list.
LEMMA AllLocal ==
  ASSUME NEW o \in Object, NEW x \in Object, o.pageCnt >= LocalStorageSize,
         x.pageCnt >= LocalStorageSize, o.first = x.first
  PROVE  LocalPages(o) = LocalPages(x)
<1>1. \A j \in Local : j < LocalStorageSize /\ j \in Int BY PageAssumption DEF Local
<1>2. LocalStorageSize \in Int /\ o.pageCnt \in Int /\ x.pageCnt \in Int
  BY PageAssumption DEF Object
<1> QED BY <1>1, <1>2 DEF LocalPages

\* A page named behind the others in the message itself.
LEMMA OneMoreLocal ==
  ASSUME NEW o \in Object, NEW x \in Object, NEW p, o.pageCnt < LocalStorageSize,
         x.pageCnt = o.pageCnt + 1, x.first[o.pageCnt] = p,
         \A j \in Local : j # o.pageCnt => x.first[j] = o.first[j]
  PROVE  LocalPages(x) = LocalPages(o) \cup {p}
<1>1. LocalStorageSize \in Int /\ o.pageCnt \in Local
  BY PageAssumption DEF Object, Local
<1>3. \A j \in Local : j < x.pageCnt <=> j < o.pageCnt \/ j = o.pageCnt BY DEF Local, Object
<1>4. \A r : r \in LocalPages(x) <=> \E j \in Local : j < x.pageCnt /\ r = x.first[j]
  BY DEF LocalPages
<1>5. \A r : r \in LocalPages(o) <=> \E j \in Local : j < o.pageCnt /\ r = o.first[j]
  BY DEF LocalPages
<1>6. \A r : r \in LocalPages(x) <=> r \in LocalPages(o) \/ r = p
  BY <1>1, <1>3, <1>4, <1>5 DEF Local, Object
<1> QED BY <1>6

\* Each of the four keeps the world in order.
LEMMA NameInHeaderKeeps ==
  ASSUME NEW w, WorldInv(w), NEW m \in Msgs, NEW p \in w.free,
         w.obj[m].pageCnt < LocalStorageSize, NEW v, v = NameInHeader(w, m, p)
  PROVE  WorldInv(v)
<1> DEFINE o == w.obj[m]
           x == [Grown(o, p) EXCEPT !.first = [@ EXCEPT ![o.pageCnt] = p], !.used = @ + 1]
<1>1. /\ WorldType(w) /\ m \in Holders /\ p \in Pages /\ o \in Object /\ Listed(w, o)
      /\ LocalStorageSize \in Int
  BY PageAssumption DEF WorldInv, WorldType, Holders, Sound
<1>2. o.pageCnt \in Local /\ o.pageCnt + 1 <= LocalStorageSize /\ o.pageCnt <= LocalStorageSize
  BY <1>1 DEF Object, Local
<1>3. x \in Object BY <1>1, <1>2, GrownIs
<1>4. /\ x.cur = p /\ x.pageCnt = o.pageCnt + 1 /\ x.next = o.next /\ x.lip = o.lip
      /\ x.first = [o.first EXCEPT ![o.pageCnt] = p]
  BY <1>1 DEF Grown, Object
<1>5. v = Took(w, m, {p}, x) BY DEF NameInHeader
<1> HIDE DEF x
<1>6. /\ WorldType(v) /\ v.free = w.free \ {p} /\ v.index = w.index /\ v.obj[m] = x
      /\ \A h \in Holders : h # m => v.obj[h] = w.obj[h]
  BY <1>1, <1>3, <1>5, TookIs
<1>7. o.next = Null /\ o.lip = Null BY <1>1, <1>2, NoIndexPages
<1>8. Listed(v, x) BY <1>2, <1>4, <1>7, NoIndexPages
<1>9. Chain(w, Null, 0, [i \in 1 .. 0 |-> 0]) /\ Chain(v, Null, 0, [i \in 1 .. 0 |-> 0])
  BY DEF Chain
<1>10. Linked(w, o.next) = {} /\ Linked(v, x.next) = {}
  BY <1>4, <1>7, <1>9, LinkedIsChain
<1>11. IndexedPages(w, o) = {} /\ IndexedPages(v, x) = {} BY <1>10 DEF IndexedPages
<1>12. LocalPages(x) = LocalPages(o) \cup {p}
  <2>1. o.pageCnt < LocalStorageSize OBVIOUS
  <2>2. x.first[o.pageCnt] = p /\ \A j \in Local : j # o.pageCnt => x.first[j] = o.first[j]
    BY <1>1, <1>2, <1>4 DEF Object
  <2> HIDE DEF o
  <2>3. o \in Object /\ x \in Object /\ x.pageCnt = o.pageCnt + 1 BY <1>1, <1>3, <1>4
  <2> QED BY <2>1, <2>2, <2>3, OneMoreLocal
<1>13. Payload(v, x) = Payload(w, o) \cup {p} BY <1>11, <1>12 DEF Payload
<1>14. p # Null BY <1>1, PageAssumption
<1> HIDE DEF o
<1> DEFINE Q == {}
<1>15. /\ Q \in SUBSET (w.free \ {p}) /\ v.free = w.free \ (Q \cup {p})
       /\ Linked(v, v.obj[m].next) = Linked(w, o.next) \cup Q
  BY <1>6, <1>10
<1> HIDE DEF Q
<1>16. GrewBy(w, v, m, p, Q) BY <1>4, <1>6, <1>8, <1>13, <1>14, <1>15 DEF GrewBy, o
<1> QED BY <1>15, <1>16, Grows

\* implAddPage that needs the first index page.
LEMMA NameInFirstIndexKeeps ==
  ASSUME NEW w, WorldInv(w), NEW m \in Msgs, NEW p \in w.free, NEW q \in w.free \ {p},
         w.obj[m].pageCnt >= LocalStorageSize, w.obj[m].lip = Null,
         NEW v, v = NameInFirstIndex(w, m, p, q)
  PROVE  WorldInv(v)
<1> DEFINE o == w.obj[m]
           x == [Grown(o, p) EXCEPT !.next = q, !.lip = q]
           u == Took(w, m, {p, q}, x)
           ix == [w.index EXCEPT ![q] = IndexPage(1, p)]
<1>1. /\ WorldType(w) /\ m \in Holders /\ p \in Pages /\ q \in Pages /\ o \in Object
      /\ Listed(w, o) /\ LocalStorageSize \in Nat /\ p # Null
  BY PageAssumption DEF WorldInv, WorldType, Holders, Sound
<1>2. x \in Object BY <1>1, GrownIs
<1>3. /\ x.cur = p /\ x.pageCnt = o.pageCnt + 1 /\ x.next = q /\ x.lip = q
      /\ x.first = o.first
  BY <1>1 DEF Grown, Object
<1> HIDE DEF x
<1>4. /\ WorldType(u) /\ u.free = w.free \ {p, q} /\ u.index = w.index /\ u.obj[m] = x
      /\ \A h \in Holders : h # m => u.obj[h] = w.obj[h]
  BY <1>1, <1>2, TookIs
<1>5. ix \in [Pages -> Listing] BY <1>1, ListedOne DEF WorldType
<1>6. v = [u EXCEPT !.index = ix] BY <1>4 DEF NameInFirstIndex, x
<1>7. ix[q] = IndexPage(1, p) /\ \A r \in Pages : r # q => ix[r] = w.index[r]
  BY <1>1 DEF WorldType
<1> HIDE DEF u, ix
<1>8. WorldType(v) /\ v.free = u.free /\ v.index = ix /\ v.obj = u.obj
  BY <1>4, <1>5, <1>6, WithIndex
<1>9. o.pageCnt = LocalStorageSize /\ o.next = Null
  <2>1. o.pageCnt <= LocalStorageSize
    <3>1. PICK n \in Nat : \E c \in [1 .. n -> Pages] :
            o.lip = (IF n = 0 THEN Null ELSE c[n]) /\ (n = 0 <=> o.pageCnt <= LocalStorageSize)
      BY <1>1 DEF Listed
    <3>2. n # 0 => n \in 1 .. n OBVIOUS
    <3> QED BY <3>1, <3>2, PageAssumption
  <2> QED BY <1>1, <2>1, NoIndexPages DEF Object
<1> DEFINE c == [i \in 1 .. 1 |-> q]
<1>10. c \in [1 .. 1 -> Pages] /\ c[1] = q BY <1>1
<1> HIDE DEF c
<1>11. Chain(v, x.next, 1, c)
  <2>1. v.index[q].next = Null BY <1>7, <1>8, ListedOne
  <2> QED BY <1>3, <1>10, <2>1 DEF Chain
<1>12. Listed(v, x)
  <2>1. ~(x.pageCnt <= LocalStorageSize) BY <1>1, <1>3, <1>9
  <2>2. \E d \in [1 .. 1 -> Pages] :
          /\ Chain(v, x.next, 1, d)
          /\ x.lip = IF 1 = 0 THEN Null ELSE d[1]
          /\ 1 = 0 <=> x.pageCnt <= LocalStorageSize
    BY <1>3, <1>10, <1>11, <2>1
  <2> QED BY <2>2 DEF Listed
<1>13. Linked(v, x.next) = {q} BY <1>10, <1>11, LinkedIsChain
<1>14. Linked(w, o.next) = {}
  <2>1. Chain(w, Null, 0, [i \in 1 .. 0 |-> 0]) BY DEF Chain
  <2> QED BY <1>9, <2>1, LinkedIsChain
<1>15. IndexedPages(v, x) = {p} BY <1>7, <1>8, <1>13, ListedOne, IndexedIs
<1>16. IndexedPages(w, o) = {} BY <1>14 DEF IndexedPages
<1>17. LocalPages(x) = LocalPages(o)
  <2>1. x.pageCnt >= LocalStorageSize BY <1>1, <1>3, <1>9
  <2> QED BY <1>1, <1>2, <1>3, <2>1, AllLocal
<1>18. Payload(v, x) = Payload(w, o) \cup {p} BY <1>15, <1>16, <1>17 DEF Payload
<1> HIDE DEF o
<1> DEFINE Q == {q}
<1>19. /\ Q \in SUBSET (w.free \ {p}) /\ v.free = w.free \ (Q \cup {p})
       /\ Linked(v, x.next) = Linked(w, o.next) \cup Q
       /\ \A r \in Pages : r \notin Q \cup Linked(w, o.next) => v.index[r] = w.index[r]
  BY <1>4, <1>7, <1>8, <1>13, <1>14
<1> HIDE DEF Q
<1>20. v.obj[m] = x /\ \A h \in Holders : h # m => v.obj[h] = w.obj[h] BY <1>4, <1>8
<1>21. GrewBy(w, v, m, p, Q) BY <1>1, <1>3, <1>8, <1>12, <1>18, <1>19, <1>20 DEF GrewBy, o
<1> QED BY <1>19, <1>21, Grows

\* implAddPage when the last index page is full.
LEMMA NameInNewIndexKeeps ==
  ASSUME NEW w, WorldInv(w), NEW m \in Msgs, NEW p \in w.free, NEW q \in w.free \ {p},
         w.obj[m].lip # Null, NEW v, v = NameInNewIndex(w, m, p, q)
  PROVE  WorldInv(v)
<1> DEFINE o == w.obj[m]
           x == [Grown(o, p) EXCEPT !.lip = q]
           u == Took(w, m, {p, q}, x)
           l == [w.index[o.lip] EXCEPT !.next = q]
           ix == [w.index EXCEPT ![q] = IndexPage(1, p), ![o.lip] = l]
<1>1. /\ WorldType(w) /\ m \in Holders /\ p \in Pages /\ q \in Pages /\ o \in Object
      /\ Listed(w, o) /\ LocalStorageSize \in Nat /\ p # Null /\ q \in Page
      /\ o.pageCnt \in Nat
  BY PageAssumption DEF WorldInv, WorldType, Holders, Sound, Page, Object
<1>2. x \in Object BY <1>1, GrownIs
<1>3. /\ x.cur = p /\ x.pageCnt = o.pageCnt + 1 /\ x.next = o.next /\ x.lip = q
      /\ x.first = o.first
  BY <1>1 DEF Grown, Object
<1> HIDE DEF x
<1>4. /\ WorldType(u) /\ u.free = w.free \ {p, q} /\ u.index = w.index /\ u.obj[m] = x
      /\ \A h \in Holders : h # m => u.obj[h] = w.obj[h]
  BY <1>1, <1>2, TookIs
<1>5. /\ o.pageCnt > LocalStorageSize /\ o.lip \in Pages
      /\ \E n \in Nat : \E c \in [1 .. n -> Pages] :
           Chain(w, o.next, n, c) /\ n >= 1 /\ o.lip = c[n]
  BY <1>1, LastIndexPage
<1>6. PICK n \in Nat : \E c \in [1 .. n -> Pages] :
        Chain(w, o.next, n, c) /\ n >= 1 /\ o.lip = c[n]
  BY <1>5
<1>7. PICK c \in [1 .. n -> Pages] : Chain(w, o.next, n, c) /\ n >= 1 /\ o.lip = c[n]
  BY <1>6
<1>8. Linked(w, o.next) = {c[i] : i \in 1 .. n} BY <1>7, LinkedIsChain
<1>9. q \notin Linked(w, o.next) /\ o.lip \in Linked(w, o.next) /\ q # o.lip
  <2>1. q \notin OwnedIn(w, o) BY <1>1 DEF WorldInv, Covered
  <2>2. n \in 1 .. n BY <1>7
  <2> QED BY <1>7, <1>8, <2>1, <2>2 DEF OwnedIn
<1>10. l \in Listing /\ l.used = w.index[o.lip].used /\ l.pages = w.index[o.lip].pages /\ l.next = q
  <2>1. w.index[o.lip] \in Listing BY <1>1, <1>5 DEF WorldType
  <2> QED BY <1>1, <2>1 DEF Listing
<1>11. /\ ix \in [Pages -> Listing] /\ ix[q] = IndexPage(1, p) /\ ix[o.lip] = l
       /\ \A r \in Pages : r # q /\ r # o.lip => ix[r] = w.index[r]
  <2>1. w.index \in [Pages -> Listing] /\ IndexPage(1, p) \in Listing
    BY <1>1, ListedOne DEF WorldType
  <2>2. ix = [[w.index EXCEPT ![q] = IndexPage(1, p)] EXCEPT ![o.lip] = l]
    BY <1>1, <1>5, <1>9, <2>1
  <2> HIDE DEF l, ix, o
  <2> QED BY <1>1, <1>5, <1>9, <1>10, <2>1, <2>2
<1>12. v = [u EXCEPT !.index = ix]
  <2>1. u.index = w.index BY <1>4
  <2> QED BY <2>1 DEF NameInNewIndex, x
<1> HIDE DEF u, ix, l
<1>13. WorldType(v) /\ v.free = u.free /\ v.index = ix /\ v.obj = u.obj
  BY <1>4, <1>11, <1>12, WithIndex
<1> HIDE DEF o
<1> DEFINE N == n + 1
           d == [i \in 1 .. N |-> IF i <= n THEN c[i] ELSE q]
<1>14. /\ N \in Nat /\ d \in [1 .. N -> Pages] /\ d[N] = q /\ N # 0 /\ N >= 2
       /\ \A i \in 1 .. n : i \in 1 .. N /\ d[i] = c[i]
       /\ \A i \in 1 .. N : i = N \/ i \in 1 .. n
  BY <1>1, <1>7
<1>15. /\ \A i \in 1 .. n : c[i] \in Pages /\ c[i] # q
       /\ \A i \in 1 .. n : c[i] = o.lip => i = n
  <2>1. n \in 1 .. n BY <1>7
  <2> QED BY <1>7, <1>8, <1>9, <2>1 DEF Chain
<1> HIDE DEF d
<1>16. Chain(v, x.next, N, d)
  <2>1. x.next = d[1]
    <3>1. 1 \in 1 .. n /\ n # 0 BY <1>7
    <3> QED BY <1>3, <1>7, <1>14, <3>1 DEF Chain
  <2>2. ASSUME NEW i \in 1 .. N PROVE v.index[d[i]].next = IF i = N THEN Null ELSE d[i + 1]
    <3>1. CASE i = N BY <1>11, <1>13, <1>14, <3>1, ListedOne
    <3>2. CASE i = n BY <1>7, <1>10, <1>11, <1>13, <1>14, <3>2
    <3>3. CASE i # N /\ i # n
      <4>1. i \in 1 .. n /\ i + 1 \in 1 .. n BY <1>14, <3>3
      <4>2. v.index[d[i]].next = w.index[c[i]].next
        BY <1>11, <1>13, <1>14, <1>15, <3>3, <4>1
      <4> QED BY <1>7, <1>14, <3>3, <4>1, <4>2 DEF Chain
    <3> QED BY <3>1, <3>2, <3>3
  <2>3. \A i, j \in 1 .. N : d[i] = d[j] => i = j
    BY <1>7, <1>14, <1>15 DEF Chain
  <2> QED BY <1>14, <2>1, <2>2, <2>3 DEF Chain
<1>17. Listed(v, x)
  <2>1. ~(x.pageCnt <= LocalStorageSize) BY <1>1, <1>3, <1>5
  <2> HIDE DEF N
  <2> QED BY <1>3, <1>14, <1>16, <2>1 DEF Listed
<1>18. Linked(v, x.next) = Linked(w, o.next) \cup {q}
  <2>1. Linked(v, x.next) = {d[i] : i \in 1 .. N}
    <3> HIDE DEF N
    <3> QED BY <1>14, <1>16, LinkedIsChain
  <2>2. {d[i] : i \in 1 .. N} = {c[i] : i \in 1 .. n} \cup {q}
    <3>1. N \in 1 .. N BY <1>14
    <3> HIDE DEF N
    <3> QED BY <1>14, <3>1
  <2> QED BY <1>8, <2>1, <2>2
<1>19. IndexedPages(v, x) = IndexedPages(w, o) \cup {p}
  <2>1. \A r \in Linked(w, o.next) : ListedIn(v.index[r]) = ListedIn(w.index[r])
    <3>1. Linked(w, o.next) \subseteq Pages BY <1>8
    <3>2. ListedIn(v.index[o.lip]) = ListedIn(w.index[o.lip])
      BY <1>10, <1>11, <1>13 DEF ListedIn
    <3> QED BY <1>9, <1>11, <1>13, <3>1, <3>2
  <2>2. ListedIn(v.index[q]) = {p} BY <1>11, <1>13, ListedOne
  <2> QED BY <1>18, <2>1, <2>2, IndexedIs
<1>20. LocalPages(x) = LocalPages(o)
  <2>1. x.pageCnt >= LocalStorageSize /\ o.pageCnt >= LocalStorageSize BY <1>1, <1>3, <1>5
  <2> QED BY <1>1, <1>2, <1>3, <2>1, AllLocal
<1>21. Payload(v, x) = Payload(w, o) \cup {p} BY <1>19, <1>20 DEF Payload
<1> DEFINE Q == {q}
<1>22. /\ Q \in SUBSET (w.free \ {p}) /\ v.free = w.free \ (Q \cup {p})
       /\ Linked(v, x.next) = Linked(w, o.next) \cup Q
       /\ \A r \in Pages : r \notin Q \cup Linked(w, o.next) => v.index[r] = w.index[r]
  BY <1>4, <1>9, <1>11, <1>13, <1>18
<1> HIDE DEF Q
<1>23. v.obj[m] = x /\ \A h \in Holders : h # m => v.obj[h] = w.obj[h] BY <1>4, <1>13
<1>24. x.pageCnt = o.pageCnt + 1 /\ x.cur # Null BY <1>1, <1>3
<1>25. GrewBy(w, v, m, p, Q)
  BY <1>13, <1>17, <1>21, <1>22, <1>23, <1>24 DEF GrewBy, o
<1> QED BY <1>22, <1>25, Grows

\* implAddPage with room in the last index page.
LEMMA NameInLastIndexKeeps ==
  ASSUME NEW w, WorldInv(w), NEW m \in Msgs, NEW p \in w.free,
         w.obj[m].lip # Null, ~IndexIsFull(w, w.obj[m].lip),
         NEW v, v = NameInLastIndex(w, m, p)
  PROVE  WorldInv(v)
<1> DEFINE o == w.obj[m]
           x == Grown(o, p)
           u == Took(w, m, {p}, x)
           l == NamedIn(w.index[o.lip], p)
           ix == [w.index EXCEPT ![o.lip] = l]
<1>1. /\ WorldType(w) /\ m \in Holders /\ p \in Pages /\ o \in Object
      /\ Listed(w, o) /\ LocalStorageSize \in Nat /\ p # Null
      /\ o.pageCnt \in Nat
  BY PageAssumption DEF WorldInv, WorldType, Holders, Sound, Object
<1>2. x \in Object BY <1>1, GrownIs
<1>3. /\ x.cur = p /\ x.pageCnt = o.pageCnt + 1 /\ x.next = o.next /\ x.lip = o.lip
      /\ x.first = o.first
  BY <1>1 DEF Grown, Object
<1> HIDE DEF x
<1>4. /\ WorldType(u) /\ u.free = w.free \ {p} /\ u.index = w.index /\ u.obj[m] = x
      /\ \A h \in Holders : h # m => u.obj[h] = w.obj[h]
  BY <1>1, <1>2, TookIs
<1>5. /\ o.pageCnt > LocalStorageSize /\ o.lip \in Pages
      /\ \E n \in Nat : \E c \in [1 .. n -> Pages] :
           Chain(w, o.next, n, c) /\ n >= 1 /\ o.lip = c[n]
  BY <1>1, LastIndexPage
<1>6. PICK n \in Nat : \E c \in [1 .. n -> Pages] :
        Chain(w, o.next, n, c) /\ n >= 1 /\ o.lip = c[n]
  BY <1>5
<1>7. PICK c \in [1 .. n -> Pages] : Chain(w, o.next, n, c) /\ n >= 1 /\ o.lip = c[n]
  BY <1>6
<1>8. Linked(w, o.next) = {c[i] : i \in 1 .. n} BY <1>7, LinkedIsChain
<1>9. o.lip \in Linked(w, o.next)
  <2>1. n \in 1 .. n BY <1>7
  <2> QED BY <1>7, <1>8, <2>1
<1>10. /\ l \in Listing /\ l.next = w.index[o.lip].next
       /\ ListedIn(l) = ListedIn(w.index[o.lip]) \cup {p}
  <2>1. w.index[o.lip] \in Listing BY <1>1, <1>5 DEF WorldType
  <2>2. w.index[o.lip].used # MaxAddressedByPage BY DEF IndexIsFull
  <2> HIDE DEF o
  <2> QED BY <1>1, <2>1, <2>2, ListedOneMore
<1>11. v = [u EXCEPT !.index = ix]
  <2>1. u.index = w.index BY <1>4
  <2> QED BY <2>1 DEF NameInLastIndex, x
<1> HIDE DEF l, o, u
<1>12. /\ ix \in [Pages -> Listing] /\ ix[o.lip] = l
       /\ \A r \in Pages : r # o.lip => ix[r] = w.index[r]
  BY <1>1, <1>5, <1>10 DEF WorldType
<1> HIDE DEF ix
<1>13. WorldType(v) /\ v.free = u.free /\ v.index = ix /\ v.obj = u.obj
  BY <1>4, <1>11, <1>12, WithIndex
<1>14. Chain(v, x.next, n, c)
  <2>1. \A i \in 1 .. n : v.index[c[i]].next = w.index[c[i]].next
    BY <1>7, <1>10, <1>12, <1>13
  <2> QED BY <1>3, <1>7, <2>1 DEF Chain
<1>15. Listed(v, x)
  <2>1. ~(x.pageCnt <= LocalStorageSize) /\ n # 0 BY <1>1, <1>3, <1>5, <1>7
  <2> QED BY <1>3, <1>7, <1>14, <2>1 DEF Listed
<1>16. Linked(v, x.next) = Linked(w, o.next) BY <1>8, <1>14, LinkedIsChain
<1>17. IndexedPages(v, x) = IndexedPages(w, o) \cup {p}
  <2>1. Linked(w, o.next) \subseteq Pages BY <1>8
  <2>2. \A r \in Linked(w, o.next) :
          ListedIn(v.index[r]) = ListedIn(w.index[r]) \cup (IF r = o.lip THEN {p} ELSE {})
    BY <1>10, <1>12, <1>13, <2>1
  <2>3. \A y : y \in IndexedPages(v, x) <=>
               \E r \in Linked(w, o.next) : y \in ListedIn(v.index[r])
    BY <1>16, IndexedIs
  <2>4. \A y : y \in IndexedPages(w, o) <=>
               \E r \in Linked(w, o.next) : y \in ListedIn(w.index[r])
    BY IndexedIs
  <2>5. ASSUME NEW y
        PROVE  y \in IndexedPages(v, x) <=> y \in IndexedPages(w, o) \/ y = p
    <3>1. \A r \in Linked(w, o.next) :
            y \in ListedIn(v.index[r]) <=> y \in ListedIn(w.index[r]) \/ (r = o.lip /\ y = p)
      BY <2>2
    <3> QED BY <1>9, <2>3, <2>4, <3>1, Zenon
  <2> QED BY <2>5
<1>18. LocalPages(x) = LocalPages(o)
  <2>1. x.pageCnt >= LocalStorageSize /\ o.pageCnt >= LocalStorageSize BY <1>1, <1>3, <1>5
  <2> QED BY <1>1, <1>2, <1>3, <2>1, AllLocal
<1>19. Payload(v, x) = Payload(w, o) \cup {p} BY <1>17, <1>18 DEF Payload
<1> DEFINE Q == {}
<1>20. /\ Q \in SUBSET (w.free \ {p}) /\ v.free = w.free \ (Q \cup {p})
       /\ Linked(v, x.next) = Linked(w, o.next) \cup Q
       /\ \A r \in Pages : r \notin Q \cup Linked(w, o.next) => v.index[r] = w.index[r]
  BY <1>4, <1>9, <1>12, <1>13, <1>16
<1> HIDE DEF Q
<1>21. v.obj[m] = x /\ \A h \in Holders : h # m => v.obj[h] = w.obj[h] BY <1>4, <1>13
<1>22. x.pageCnt = o.pageCnt + 1 /\ x.cur # Null BY <1>1, <1>3
<1>23. GrewBy(w, v, m, p, Q)
  BY <1>13, <1>15, <1>19, <1>20, <1>21, <1>22 DEF GrewBy, o
<1> QED BY <1>20, <1>23, Grows

(***************************************************************************)
(* Enough pages                                                             *)
(***************************************************************************)
\* Pages that can be named before one more index page is needed, and bytes that can be
\* written before one more page is needed (fewer than none before the reserve is made).
Slots(w, o) ==
  IF o.lip = Null THEN LocalStorageSize - o.pageCnt ELSE MaxAddressedByPage - w.index[o.lip].used
Room(o) ==
  IF o.cur # Null THEN RemainingSizeInCurrentPage(o)
  ELSE IF o.totalSz # 0 THEN 0 ELSE - TotalReserved

\* k pages with content and j index pages are free, and are enough for r bytes in m.
Enough(w, m, r, k, j) ==
  /\ Cardinality(w.free) >= k + j
  /\ k <= Slots(w, w.obj[m]) + MaxAddressedByPage * j
  /\ r <= Room(w.obj[m]) + PageSize * k
Credit(w, m, r) == \E k \in Nat : \E j \in Nat : Enough(w, m, r, k, j)

\* Numbers all of this is about.
LEMMA Sizes ==
  /\ PageSize \in Nat \ {0} /\ TotalReserved \in 0 .. PageSize - 1
  /\ MaxAddressedByPage \in Nat \ {0} /\ LocalStorageSize \in Nat \ {0}
BY PageAssumption DEF TotalReserved

\* How many pages there is room for, and when an index page is needed.
LEMMA SlotsIs ==
  ASSUME NEW w, WorldInv(w), NEW m \in Holders
  PROVE  /\ w.obj[m] \in Object /\ Slots(w, w.obj[m]) \in Nat
         /\ IsFullUp(w, m) <=> Slots(w, w.obj[m]) = 0
         /\ w.obj[m].lip = Null => w.obj[m].pageCnt <= LocalStorageSize
         /\ w.obj[m].lip # Null => /\ w.obj[m].pageCnt > LocalStorageSize
                                   /\ w.obj[m].lip \in Pages
                                   /\ w.index[w.obj[m].lip] \in Listing
<1> DEFINE o == w.obj[m]
<1>1. o \in Object /\ w.index \in [Pages -> Listing] /\ Listed(w, o) /\ o.pageCnt \in Nat
  BY DEF WorldInv, WorldType, Sound, Object
<1>2. ASSUME o.lip = Null PROVE o.pageCnt <= LocalStorageSize
  <2>1. PICK n \in Nat : \E c \in [1 .. n -> Pages] :
          o.lip = (IF n = 0 THEN Null ELSE c[n]) /\ (n = 0 <=> o.pageCnt <= LocalStorageSize)
    BY <1>1 DEF Listed
  <2>2. n # 0 => n \in 1 .. n OBVIOUS
  <2> QED BY <1>2, <2>1, <2>2, PageAssumption
<1>3. ASSUME o.lip # Null
      PROVE  o.pageCnt > LocalStorageSize /\ o.lip \in Pages /\ w.index[o.lip] \in Listing
  <2> HIDE DEF o
  <2>1. o.pageCnt > LocalStorageSize /\ o.lip \in Pages BY <1>1, <1>3, LastIndexPage
  <2> QED BY <1>1, <2>1
<1>4. CASE o.lip = Null BY <1>1, <1>2, <1>4, Sizes DEF Slots, IsFullUp
<1>5. CASE o.lip # Null
  <2>1. w.index[o.lip].used \in 0 .. MaxAddressedByPage BY <1>3, <1>5 DEF Listing
  <2>2. o.pageCnt >= LocalStorageSize BY <1>1, <1>3, <1>5, Sizes
  <2> QED BY <1>1, <1>3, <1>5, <2>1, <2>2, Sizes DEF Slots, IsFullUp
<1> QED BY <1>1, <1>4, <1>5, <1>2, <1>3

\* implAddPage keeps the world in order; it takes one page, or two when no slot was left.
LEMMA AddPageKeeps ==
  ASSUME NEW w, WorldInv(w), NEW m \in Msgs, HasPages(w, m), NEW v, v = AddPage(w, m)
  PROVE  /\ WorldInv(v) /\ v.obj[m].cur # Null /\ v.obj[m].totalSz = w.obj[m].totalSz
         /\ Slots(v, v.obj[m]) = IF IsFullUp(w, m) THEN MaxAddressedByPage - 1
                                 ELSE Slots(w, w.obj[m]) - 1
         /\ v.free = w.free \ (IF IsFullUp(w, m) THEN {Taken(w), TakenToo(w)} ELSE {Taken(w)})
<1> DEFINE o == w.obj[m]
           p == Taken(w)
           q == TakenToo(w)
<1>1. /\ WorldType(w) /\ m \in Holders /\ o \in Object /\ p \in w.free /\ p \in Pages
      /\ p \in Page /\ LocalStorageSize \in Nat /\ o.pageCnt \in Nat
      /\ o.lip = Null => o.pageCnt <= LocalStorageSize
      /\ o.lip # Null => /\ o.pageCnt > LocalStorageSize /\ o.lip \in Pages
                         /\ w.index[o.lip] \in Listing
      /\ w.index \in [Pages -> Listing] /\ p # Null
  <2>1. m \in Holders /\ WorldType(w) BY DEF Holders, WorldInv
  <2> QED BY <2>1, TakenAreFree, SlotsIs, Sizes, PageAssumption DEF Page, Object, WorldType
<1>2. IsFullUp(w, m) => q \in w.free \ {p} /\ q \in Pages /\ q # Null
  BY <1>1, TakenAreFree, PageAssumption
<1> HIDE DEF p, q
<1>3. CASE o.pageCnt < LocalStorageSize
  <2>1. v = NameInHeader(w, m, p) BY <1>1, <1>3, AddPageCases DEF p
  <2>2. WorldInv(v) BY <1>1, <1>3, <2>1, NameInHeaderKeeps
  <2> DEFINE x == [Grown(o, p) EXCEPT !.first = [@ EXCEPT ![o.pageCnt] = p], !.used = @ + 1]
  <2>3. x \in Object
    <3>1. o.pageCnt \in Local BY <1>1, <1>3 DEF Local
    <3> QED BY <1>1, <3>1, GrownIs
  <2>4. /\ x.cur = p /\ x.pageCnt = o.pageCnt + 1 /\ x.lip = o.lip /\ x.totalSz = o.totalSz
    BY <1>1 DEF Grown, Object
  <2>5. v = Took(w, m, {p}, x) BY <2>1 DEF NameInHeader
  <2> HIDE DEF x
  <2>6. v.free = w.free \ {p} /\ v.obj[m] = x BY <1>1, <2>3, <2>5, TookIs
  <2>7. ~IsFullUp(w, m) /\ o.lip = Null BY <1>1, <1>3 DEF IsFullUp
  <2>8. Slots(v, x) = Slots(w, o) - 1 BY <1>1, <2>4, <2>7 DEF Slots
  <2> QED BY <1>1, <2>2, <2>4, <2>6, <2>7, <2>8 DEF p
<1>4. CASE o.pageCnt >= LocalStorageSize /\ o.lip = Null
  <2>1. v = NameInFirstIndex(w, m, p, q) BY <1>1, <1>4, AddPageCases DEF p, q
  <2>2. IsFullUp(w, m) BY <1>4 DEF IsFullUp
  <2>3. WorldInv(v) BY <1>1, <1>2, <1>4, <2>1, <2>2, NameInFirstIndexKeeps
  <2> DEFINE x == [Grown(o, p) EXCEPT !.next = q, !.lip = q]
             u == Took(w, m, {p, q}, x)
             ix == [w.index EXCEPT ![q] = IndexPage(1, p)]
  <2>4. x \in Object /\ x.cur = p /\ x.lip = q /\ x.totalSz = o.totalSz
    <3>1. x.cur = p /\ x.lip = q /\ x.totalSz = o.totalSz BY <1>1 DEF Grown, Object
    <3> QED BY <1>1, <1>2, <2>2, <3>1, GrownIs
  <2> HIDE DEF x
  <2>5. WorldType(u) /\ u.free = w.free \ {p, q} /\ u.index = w.index /\ u.obj[m] = x
    BY <1>1, <2>4, TookIs
  <2>6. v = [u EXCEPT !.index = ix] BY <2>1, <2>5 DEF NameInFirstIndex, x
  <2>7. ix \in [Pages -> Listing] /\ ix[q].used = 1
    <3>1. IndexPage(1, p) \in Listing /\ IndexPage(1, p).used = 1
      BY <1>1, ListedOne DEF IndexPage
    <3> QED BY <1>1, <1>2, <2>2, <3>1
  <2> HIDE DEF u, ix
  <2>8. v.free = u.free /\ v.index = ix /\ v.obj = u.obj BY <2>5, <2>6, <2>7, WithIndex
  <2>9. Slots(v, x) = MaxAddressedByPage - 1 BY <1>2, <2>2, <2>4, <2>7, <2>8 DEF Slots
  <2> QED BY <1>1, <2>2, <2>3, <2>4, <2>5, <2>8, <2>9 DEF p, q
<1>5. CASE o.lip # Null /\ IndexIsFull(w, o.lip)
  <2>1. v = NameInNewIndex(w, m, p, q)
    <3>1. o.pageCnt >= LocalStorageSize BY <1>1, <1>5
    <3> QED BY <1>1, <1>5, <3>1, AddPageCases DEF p, q
  <2>2. IsFullUp(w, m) BY <1>1, <1>5 DEF IsFullUp, IndexIsFull
  <2>3. WorldInv(v) BY <1>1, <1>2, <1>5, <2>1, <2>2, NameInNewIndexKeeps
  <2> DEFINE x == [Grown(o, p) EXCEPT !.lip = q]
             u == Took(w, m, {p, q}, x)
             l == [w.index[o.lip] EXCEPT !.next = q]
             ix == [w.index EXCEPT ![q] = IndexPage(1, p), ![o.lip] = l]
  <2>4. x \in Object /\ x.cur = p /\ x.lip = q /\ x.totalSz = o.totalSz
    <3>1. x.cur = p /\ x.lip = q /\ x.totalSz = o.totalSz BY <1>1 DEF Grown, Object
    <3> QED BY <1>1, <1>2, <2>2, <3>1, GrownIs
  <2> HIDE DEF x
  <2>5. WorldType(u) /\ u.free = w.free \ {p, q} /\ u.index = w.index /\ u.obj[m] = x
    BY <1>1, <2>4, TookIs
  <2>6. v = [u EXCEPT !.index = ix] BY <2>1, <2>5 DEF NameInNewIndex, x
  <2>7. l \in Listing
    <3>1. q \in Page BY <1>2, <2>2 DEF Page
    <3>2. w.index[o.lip] \in Listing BY <1>1, <1>5
    <3> QED BY <3>1, <3>2 DEF Listing
  <2>8. ix \in [Pages -> Listing] /\ ix[q].used = 1
    <3>1. IndexPage(1, p) \in Listing /\ IndexPage(1, p).used = 1
      BY <1>1, ListedOne DEF IndexPage
    <3>2. o.lip # q
      <4>1. o.lip \in Linked(w, o.next)
        <5>1. Listed(w, o) BY <1>1 DEF WorldInv, Sound
        <5>2. PICK n \in Nat : \E c \in [1 .. n -> Pages] :
                Chain(w, o.next, n, c) /\ n >= 1 /\ o.lip = c[n]
          <6> HIDE DEF o
          <6> QED BY <1>1, <1>5, <5>1, LastIndexPage
        <5>3. n \in 1 .. n BY <5>2
        <5> QED BY <5>2, <5>3, LinkedIsChain
      <4> QED BY <1>1, <1>2, <2>2, <4>1 DEF WorldInv, Covered, OwnedIn
    <3> HIDE DEF l
    <3>3. ix = [[w.index EXCEPT ![q] = IndexPage(1, p)] EXCEPT ![o.lip] = l] OBVIOUS
    <3> HIDE DEF ix
    <3> QED BY <1>1, <1>2, <1>5, <2>2, <2>7, <3>1, <3>2, <3>3
  <2> HIDE DEF u, ix
  <2>9. v.free = u.free /\ v.index = ix /\ v.obj = u.obj BY <2>5, <2>6, <2>8, WithIndex
  <2>10. Slots(v, x) = MaxAddressedByPage - 1 BY <1>2, <2>2, <2>4, <2>8, <2>9 DEF Slots
  <2> QED BY <1>1, <2>2, <2>3, <2>4, <2>5, <2>9, <2>10 DEF p, q
<1>6. CASE o.lip # Null /\ ~IndexIsFull(w, o.lip)
  <2>1. v = NameInLastIndex(w, m, p)
    <3>1. o.pageCnt >= LocalStorageSize BY <1>1, <1>6
    <3> QED BY <1>1, <1>6, <3>1, AddPageCases DEF p
  <2>2. ~IsFullUp(w, m) BY <1>6 DEF IsFullUp, IndexIsFull
  <2>3. WorldInv(v) BY <1>1, <1>6, <2>1, NameInLastIndexKeeps
  <2> DEFINE x == Grown(o, p)
             u == Took(w, m, {p}, x)
             l == NamedIn(w.index[o.lip], p)
             ix == [w.index EXCEPT ![o.lip] = l]
  <2>4. x \in Object /\ x.cur = p /\ x.lip = o.lip /\ x.totalSz = o.totalSz
    <3>1. x.cur = p /\ x.lip = o.lip /\ x.totalSz = o.totalSz BY <1>1 DEF Grown, Object
    <3> QED BY <1>1, <3>1, GrownIs
  <2> HIDE DEF x
  <2>5. WorldType(u) /\ u.free = w.free \ {p} /\ u.index = w.index /\ u.obj[m] = x
    BY <1>1, <2>4, TookIs
  <2>6. v = [u EXCEPT !.index = ix] BY <2>1, <2>5 DEF NameInLastIndex, x
  <2>7. l \in Listing /\ l.used = w.index[o.lip].used + 1
    <3>1. w.index[o.lip] \in Listing BY <1>1, <1>6
    <3>2. w.index[o.lip].used # MaxAddressedByPage BY <1>6 DEF IndexIsFull
    <3>3. l.used = w.index[o.lip].used + 1 BY <3>1 DEF NamedIn, Listing
    <3> HIDE DEF o
    <3> QED BY <1>1, <3>1, <3>2, <3>3, ListedOneMore
  <2> HIDE DEF l, u
  <2>8. ix \in [Pages -> Listing] /\ ix[o.lip] = l BY <1>1, <1>6, <2>7
  <2> HIDE DEF ix
  <2>9. v.free = u.free /\ v.index = ix /\ v.obj = u.obj BY <2>5, <2>6, <2>8, WithIndex
  <2>10. Slots(v, x) = Slots(w, o) - 1
    <3>1. w.index[o.lip].used \in Int /\ MaxAddressedByPage \in Int
      BY <1>1, <1>6, Sizes DEF Listing
    <3> QED BY <1>6, <2>4, <2>7, <2>8, <2>9, <3>1 DEF Slots
  <2> QED BY <1>1, <2>2, <2>3, <2>4, <2>5, <2>9, <2>10 DEF p
<1> QED BY <1>1, <1>3, <1>4, <1>5, <1>6

\* With credit for one more page there are pages to take, and credit for the rest is left.
LEMMA OneMorePage ==
  ASSUME NEW w, WorldInv(w), NEW m \in Msgs, NEW k \in Nat, NEW j \in Nat, k >= 1,
         Cardinality(w.free) >= k + j, k <= Slots(w, w.obj[m]) + MaxAddressedByPage * j,
         NEW v, v = AddPage(w, m)
  PROVE  /\ HasPages(w, m) /\ k - 1 \in Nat
         /\ \E i \in Nat : /\ Cardinality(v.free) >= (k - 1) + i
                           /\ k - 1 <= Slots(v, v.obj[m]) + MaxAddressedByPage * i
<1> DEFINE F == w.free
           p == Taken(w)
           q == TakenToo(w)
           M == MaxAddressedByPage
           s == Slots(w, w.obj[m])
<1>1. /\ WorldType(w) /\ m \in Holders /\ IsFiniteSet(F) /\ F \subseteq Nat
      /\ s \in Nat /\ (IsFullUp(w, m) <=> s = 0) /\ M \in Nat \ {0}
  <2>1. m \in Holders /\ WorldType(w) BY DEF Holders, WorldInv
  <2>2. F \subseteq Pages BY <2>1 DEF WorldType
  <2> QED BY <2>1, <2>2, FS_Subset, SlotsIs, Sizes, PageAssumption
<1>2. Cardinality(F) \in Nat /\ F # {}
  <2> HIDE DEF F
  <2>1. Cardinality(F) \in Nat BY <1>1, FS_CardinalityType
  <2>2. Cardinality({}) = 0 BY FS_EmptySet
  <2> QED BY <2>1, <2>2 DEF F
<1>3. p \in F
  <2> HIDE DEF F
  <2> QED BY <1>1, <1>2, MinIsIn DEF Taken, F
<1>4. IsFiniteSet(F \ {p}) /\ Cardinality(F \ {p}) = Cardinality(F) - 1
  <2> HIDE DEF F, p
  <2> QED BY <1>1, <1>3, FS_RemoveElement
<1>5. CASE IsFullUp(w, m)
  <2>1. s = 0 /\ j # 0 BY <1>1, <1>5
  <2>2. j - 1 \in Nat /\ M * (j - 1) = M * j - M /\ M * j \in Nat
    <3> HIDE DEF M
    <3> QED BY <1>1, <2>1
  <2>3. F \ {p} # {}
    <3>1. Cardinality({}) = 0 BY FS_EmptySet
    <3>2. Cardinality(F) >= 2 BY <1>2, <2>1
    <3> DEFINE G == F \ {p}
    <3> HIDE DEF F, p, G
    <3>3. Cardinality(G) # 0 BY <1>2, <1>4, <3>2 DEF G
    <3> QED BY <3>1, <3>3 DEF G
  <2>4. HasPages(w, m) BY <1>2, <2>3 DEF HasPages, Taken
  <2>5. q \in F \ {p} BY <1>1, <1>5, <2>4, TakenAreFree
  <2>6. Cardinality((F \ {p}) \ {q}) = Cardinality(F) - 2
    <3> DEFINE G == F \ {p}
    <3> HIDE DEF F, p, q, G
    <3>1. Cardinality(G \ {q}) = Cardinality(G) - 1 BY <1>4, <2>5, FS_RemoveElement DEF G
    <3> QED BY <1>2, <1>4, <3>1 DEF G
  <2>7. v.free = (F \ {p}) \ {q} /\ Slots(v, v.obj[m]) = M - 1
    BY <1>5, <2>4, AddPageKeeps
  <2> HIDE DEF F, M, s, p, q
  <2>8. Cardinality(v.free) >= (k - 1) + (j - 1) BY <1>2, <2>2, <2>6, <2>7 DEF F
  <2>9. k - 1 <= Slots(v, v.obj[m]) + M * (j - 1) BY <1>1, <2>1, <2>2, <2>7 DEF s, M
  <2> QED BY <2>2, <2>4, <2>8, <2>9 DEF M
<1>6. CASE ~IsFullUp(w, m)
  <2>1. HasPages(w, m) BY <1>2, <1>6 DEF HasPages
  <2>2. v.free = F \ {p} /\ Slots(v, v.obj[m]) = s - 1 BY <1>6, <2>1, AddPageKeeps
  <2>3. M * j \in Nat
    <3> HIDE DEF M
    <3> QED BY <1>1
  <2> HIDE DEF F, M, s, p
  <2>4. Cardinality(v.free) >= (k - 1) + j BY <1>2, <1>4, <2>2 DEF F
  <2>5. k - 1 <= Slots(v, v.obj[m]) + M * j BY <1>1, <2>2, <2>3 DEF s, M
  <2> QED BY <2>1, <2>4, <2>5 DEF M
<1> QED BY <1>5, <1>6

\* Only the number of bytes in m and its current page changed.
SizeSet(w, v, m, t, c) ==
  /\ WorldType(v) /\ v.free = w.free /\ v.index = w.index
  /\ \A h \in Holders : h # m => v.obj[h] = w.obj[h]
  /\ SameList(w.obj[m], v.obj[m]) /\ v.obj[m].totalSz = t /\ v.obj[m].cur = c

\* That disturbs nothing.
LEMMA SizeIsSet ==
  ASSUME NEW w, WorldInv(w), NEW m \in Msgs, NEW t \in Nat, NEW c \in Page,
         w.obj[m].pageCnt >= 1, c = Null => t % PageSize = 0, NEW v, SizeSet(w, v, m, t, c)
  PROVE  /\ WorldInv(v) /\ v.obj[m].totalSz = t /\ v.obj[m].cur = c
         /\ Slots(v, v.obj[m]) = Slots(w, w.obj[m]) /\ v.free = w.free
<1> USE DEF SizeSet
<1>1. m \in Holders /\ m \notin Pages BY PageAssumption DEF Holders
<1>2. w.obj[m] \in Object BY <1>1 DEF WorldInv, WorldType
<1>3. /\ v.obj[m].totalSz = t /\ v.obj[m].cur = c /\ SameList(w.obj[m], v.obj[m])
      /\ v.obj[m].pageCnt = w.obj[m].pageCnt
  BY <1>2 DEF Object, SameList
<1>4. \A h \in Holders : SameList(w.obj[h], v.obj[h]) /\ Housed(h, v.obj[h]) /\ Filled(v.obj[h])
  <2>1. Housed(m, v.obj[m]) /\ Filled(v.obj[m]) BY <1>1, <1>3 DEF Housed, Filled
  <2> QED BY <1>3, <2>1 DEF WorldInv, Sound, SameList
<1>5. WorldInv(v) BY <1>4, SameWorld
<1>6. Slots(v, v.obj[m]) = Slots(w, w.obj[m]) BY <1>3 DEF Slots, SameList
<1> QED BY <1>3, <1>5, <1>6

\* Numbers of a message in a world in order.
LEMMA MsgIs ==
  ASSUME NEW w, WorldInv(w), NEW m \in Msgs
  PROVE  /\ m \in Holders /\ m \notin Pages /\ w.obj[m] \in Object
         /\ w.obj[m].totalSz \in Nat /\ w.obj[m].pageCnt \in Nat /\ w.obj[m].cur \in Page
         /\ w.obj[m].cur # Null => w.obj[m].pageCnt >= 1
         /\ w.obj[m].cur = Null => w.obj[m].totalSz % PageSize = 0
<1>1. m \in Holders /\ m \notin Pages BY PageAssumption DEF Holders
<1>2. w.obj[m] \in Object /\ Sound(w, m) BY <1>1 DEF WorldInv, WorldType
<1> QED BY <1>1, <1>2 DEF Object, Sound, Housed, Filled

\* Room left in the current page.
LEMMA RoomIs ==
  ASSUME NEW o \in Object, o.cur # Null
  PROVE  /\ Room(o) = PageSize - (o.totalSz % PageSize) /\ Room(o) \in 1 .. PageSize
         /\ OffsetInCurrentPage(o) = o.totalSz % PageSize
         /\ RemainingSizeInCurrentPage(o) = Room(o)
<1>1. o.totalSz \in Nat BY DEF Object
<1>2. (o.totalSz % PageSize) \in 0 .. PageSize - 1 BY <1>1, Sizes, DivMod
<1> QED BY <1>2, Sizes DEF Room, RemainingSizeInCurrentPage, OffsetInCurrentPage

\* A page to write to is found or taken.
LEMMA PageToWriteKeeps ==
  ASSUME NEW w, WorldInv(w), NEW m \in Msgs, NEW r \in Nat \ {0}, Credit(w, m, r),
         NEW v, v = PageToWrite(w, m)
  PROVE  WorldInv(v) /\ v.obj[m].cur # Null /\ Credit(v, m, r)
<1> DEFINE o == w.obj[m]
<1>1. o.totalSz \in Nat /\ (o.cur = Null => o.totalSz % PageSize = 0) BY MsgIs
<1>2. CASE o.cur # Null BY <1>2 DEF PageToWrite
<1>3. ASSUME o.cur = Null
      PROVE  LET a == AddPage(w, m)
                 b == IF o.totalSz = 0 THEN PageSize - TotalReserved ELSE PageSize
             IN /\ WorldInv(a) /\ a.obj[m].cur # Null /\ a.obj[m].totalSz = o.totalSz
                /\ \E k, i \in Nat : /\ Cardinality(a.free) >= k + i
                                     /\ k <= Slots(a, a.obj[m]) + MaxAddressedByPage * i
                                     /\ r <= b + PageSize * k
  <2> DEFINE a == AddPage(w, m)
             b == IF o.totalSz = 0 THEN PageSize - TotalReserved ELSE PageSize
  <2>1. PICK k \in Nat : \E j \in Nat : Enough(w, m, r, k, j) BY DEF Credit
  <2>2. PICK j \in Nat : Enough(w, m, r, k, j) BY <2>1
  <2>3. r <= (b - PageSize) + PageSize * k
    BY <1>3, <2>2, Sizes DEF Enough, Room
  <2>4. k # 0 BY <2>3, Sizes
  <2>5. PageSize * k = PageSize * (k - 1) + PageSize /\ PageSize * k \in Nat
    BY Sizes, <2>4
  <2>6. /\ HasPages(w, m) /\ k - 1 \in Nat
        /\ \E i \in Nat : /\ Cardinality(a.free) >= (k - 1) + i
                          /\ k - 1 <= Slots(a, a.obj[m]) + MaxAddressedByPage * i
    <3>1. k >= 1 BY <2>4
    <3> HIDE DEF a
    <3>2. a = AddPage(w, m) BY DEF a
    <3>3. Cardinality(w.free) >= k + j /\ k <= Slots(w, w.obj[m]) + MaxAddressedByPage * j
      BY <2>2 DEF Enough
    <3> QED BY <3>1, <3>2, <3>3, OneMorePage
  <2>7. WorldInv(a) /\ a.obj[m].cur # Null /\ a.obj[m].totalSz = o.totalSz
    BY <2>6, AddPageKeeps
  <2>8. r <= b + PageSize * (k - 1)
    <3>1. b \in Int /\ PageSize * (k - 1) \in Int BY Sizes, <2>5
    <3> HIDE DEF b
    <3> QED BY <2>3, <2>5, <3>1, Sizes
  <2> HIDE DEF a, b
  <2>9. \E n, i \in Nat : /\ Cardinality(a.free) >= n + i
                          /\ n <= Slots(a, a.obj[m]) + MaxAddressedByPage * i
                          /\ r <= b + PageSize * n
    BY <2>6, <2>8
  <2> QED BY <2>7, <2>9 DEF a, b
<1>4. CASE o.cur = Null /\ o.totalSz # 0
  <2>1. v = AddPage(w, m) BY <1>4 DEF PageToWrite
  <2>2. WorldInv(v) /\ v.obj[m].cur # Null /\ v.obj[m].totalSz = o.totalSz
    BY <1>3, <1>4, <2>1
  <2>3. \E k, i \in Nat : /\ Cardinality(v.free) >= k + i
                          /\ k <= Slots(v, v.obj[m]) + MaxAddressedByPage * i
                          /\ r <= PageSize + PageSize * k
    BY <1>3, <1>4, <2>1
  <2>4. Room(v.obj[m]) = PageSize
    <3>1. v.obj[m] \in Object BY <2>2, MsgIs
    <3>2. Room(v.obj[m]) = PageSize - (o.totalSz % PageSize) BY <2>2, <3>1, RoomIs
    <3> QED BY <1>1, <1>4, <3>2, Sizes
  <2> QED BY <2>2, <2>3, <2>4 DEF Credit, Enough
<1>5. CASE o.cur = Null /\ o.totalSz = 0
  <2> DEFINE a == AddPage(w, m)
             x == [a.obj[m] EXCEPT !.totalSz = @ + TotalReserved]
  <2>1. WorldInv(a) /\ a.obj[m].cur # Null /\ a.obj[m].totalSz = 0 BY <1>3, <1>5
  <2>2. \E k, i \in Nat : /\ Cardinality(a.free) >= k + i
                          /\ k <= Slots(a, a.obj[m]) + MaxAddressedByPage * i
                          /\ r <= PageSize - TotalReserved + PageSize * k
    BY <1>3, <1>5
  <2>3. v = [a EXCEPT !.obj = [@ EXCEPT ![m] = x]] BY <1>5 DEF PageToWrite, Reserve
  <2> HIDE DEF a
  <2>4. /\ a.obj[m] \in Object /\ m \in Holders /\ a.obj[m].cur \in Page
        /\ a.obj[m].pageCnt >= 1 /\ TotalReserved \in Nat
    BY <2>1, MsgIs, Sizes
  <2>5. /\ x \in Object /\ SameList(a.obj[m], x) /\ x.totalSz = TotalReserved
        /\ x.cur = a.obj[m].cur
    BY <2>1, <2>4 DEF Object, SameList
  <2> HIDE DEF x
  <2>6. /\ WorldType(v) /\ v.free = a.free /\ v.index = a.index /\ v.obj[m] = x
        /\ \A h \in Holders : h # m => v.obj[h] = a.obj[h]
    <3>1. WorldType(a) BY <2>1 DEF WorldInv
    <3> DEFINE ob == [a.obj EXCEPT ![m] = x]
    <3>2. ob \in [Holders -> Object] /\ ob[m] = x /\ \A h \in Holders : h # m => ob[h] = a.obj[h]
      BY <2>4, <2>5, <3>1 DEF WorldType
    <3>3. v = [a EXCEPT !.obj = ob] BY <2>3
    <3> HIDE DEF ob
    <3> QED BY <3>1, <3>2, <3>3 DEF WorldType
  <2>7. /\ WorldInv(v) /\ v.obj[m].totalSz = TotalReserved /\ v.obj[m].cur # Null
        /\ Slots(v, v.obj[m]) = Slots(a, a.obj[m])
    <3> DEFINE c == a.obj[m].cur
    <3> HIDE DEF c
    <3>1. c \in Page /\ c # Null /\ SizeSet(a, v, m, TotalReserved, c)
      BY <2>1, <2>4, <2>5, <2>6 DEF SizeSet, c
    <3> QED BY <2>1, <2>4, <3>1, SizeIsSet
  <2>8. Room(v.obj[m]) = PageSize - TotalReserved
    <3>1. v.obj[m] \in Object BY <2>7, MsgIs
    <3>2. Room(v.obj[m]) = PageSize - (TotalReserved % PageSize) BY <2>7, <3>1, RoomIs
    <3>3. TotalReserved % PageSize = TotalReserved
      <4>1. (PageSize * 0 + TotalReserved) % PageSize = TotalReserved BY ModUnique, Sizes
      <4> QED BY <4>1, Sizes
    <3> QED BY <3>2, <3>3
  <2>9. \E k, i \in Nat : Enough(v, m, r, k, i) BY <2>2, <2>6, <2>7, <2>8 DEF Enough
  <2> QED BY <2>7, <2>9 DEF Credit
<1> QED BY <1>2, <1>4, <1>5

\* One round of append leaves credit for what it leaves to be written.
LEMMA PutChunkKeeps ==
  ASSUME NEW w, WorldInv(w), NEW m \in Msgs, NEW S, NEW s \in Seq(S), s # <<>>, NEW x \in Nat,
         Credit(w, m, Len(s) + x), NEW c, c = PutChunk(w, m, s)
  PROVE  WorldInv(c.w) /\ c.s \in Seq(S) /\ Credit(c.w, m, Len(c.s) + x)
<1> DEFINE v == PageToWrite(w, m)
           o == v.obj[m]
           off == OffsetInCurrentPage(o)
           room == RemainingSizeInCurrentPage(o)
           n == Min({Len(s), room})
           after == [o EXCEPT !.totalSz = @ + n, !.cur = IF n = room THEN Null ELSE @]
           cells == [i \in Cells |->
                       IF i \in off .. off + n - 1 THEN s[i - off + 1] ELSE v.data[o.cur][i]]
           t == o.totalSz + n
           z == IF n = room THEN Null ELSE o.cur
<1>1. Len(s) \in Nat /\ Len(s) >= 1 /\ Len(s) + x \in Nat \ {0} OBVIOUS
<1>2. WorldInv(v) /\ o.cur # Null /\ Credit(v, m, Len(s) + x)
  <2> HIDE DEF v
  <2>1. v = PageToWrite(w, m) BY DEF v
  <2> QED BY <1>1, <2>1, PageToWriteKeeps
<1>3. c.w = [v EXCEPT !.obj = [@ EXCEPT ![m] = after], !.data = [@ EXCEPT ![o.cur] = cells]]
      /\ c.s = SubSeq(s, n + 1, Len(s))
  BY DEF PutChunk
<1> HIDE DEF v
<1>4. /\ o \in Object /\ m \in Holders /\ o.totalSz \in Nat /\ o.cur \in Page
      /\ o.pageCnt >= 1
  BY <1>2, MsgIs
<1>5. /\ room \in 1 .. PageSize /\ Room(o) = room
      /\ room = PageSize - (o.totalSz % PageSize) /\ PageSize \in Nat \ {0}
  <2> HIDE DEF o
  <2> QED BY <1>2, <1>4, RoomIs, Sizes
<1> HIDE DEF room, off
<1>6. n = (IF Len(s) <= room THEN Len(s) ELSE room) /\ n \in 1 .. room /\ n \in 1 .. Len(s)
  <2>1. n = IF Len(s) <= room THEN Len(s) ELSE room BY <1>1, <1>5, MinOfTwo
  <2> QED BY <1>1, <1>5, <2>1
<1> HIDE DEF n
<1>7. (o.totalSz + n) % PageSize = IF n = room THEN 0 ELSE (o.totalSz % PageSize) + n
  <2> DEFINE b == o.totalSz
  <2>1. b \in Nat /\ n \in Nat /\ n <= PageSize - (b % PageSize) BY <1>4, <1>5, <1>6
  <2> HIDE DEF b
  <2>2. (b + n) % PageSize = IF n = PageSize - (b % PageSize) THEN 0 ELSE (b % PageSize) + n
    BY <1>5, <2>1, OnePageOn
  <2> QED BY <1>5, <2>2 DEF b
<1>8. /\ after \in Object /\ SameList(o, after) /\ after.totalSz = t /\ after.cur = z
      /\ t \in Nat /\ z \in Page /\ (z = Null => t % PageSize = 0)
  <2>1. t \in Nat /\ z \in Page /\ (z = Null => t % PageSize = 0)
    <3>1. t \in Nat BY <1>4, <1>5, <1>6
    <3>2. z \in Page BY <1>4 DEF Page
    <3>3. z = Null => n = room BY <1>2
    <3> QED BY <1>7, <3>1, <3>2, <3>3
  <2>2. after = [o EXCEPT !.totalSz = t, !.cur = z] OBVIOUS
  <2> HIDE DEF after, t, z, o
  <2> QED BY <1>4, <2>1, <2>2 DEF Object, SameList
<1> HIDE DEF cells
<1>9. SizeSet(v, c.w, m, t, z)
  <2> DEFINE ob == [v.obj EXCEPT ![m] = after]
             da == [v.data EXCEPT ![o.cur] = cells]
  <2> HIDE DEF after
  <2>1. WorldType(v) BY <1>2 DEF WorldInv
  <2>2. ob \in [Holders -> Object] /\ ob[m] = after /\ \A h \in Holders : h # m => ob[h] = v.obj[h]
    BY <1>4, <1>8, <2>1 DEF WorldType
  <2>3. c.w = [v EXCEPT !.obj = ob, !.data = da] BY <1>3
  <2> HIDE DEF ob, da
  <2>4. /\ c.w.obj = ob /\ c.w.free = v.free /\ c.w.index = v.index
        /\ c.w = [obj |-> ob, index |-> v.index, data |-> c.w.data, free |-> v.free]
    BY <2>1, <2>3 DEF WorldType
  <2>5. WorldType(c.w) BY <2>1, <2>2, <2>4 DEF WorldType
  <2> QED BY <1>8, <2>2, <2>4, <2>5 DEF SizeSet
<1> HIDE DEF after, t, z
<1>10. /\ WorldInv(c.w) /\ c.w.obj[m].totalSz = t /\ c.w.obj[m].cur = z
       /\ Slots(c.w, c.w.obj[m]) = Slots(v, v.obj[m]) /\ c.w.free = v.free
  <2>1. t \in Nat /\ z \in Page /\ (z = Null => t % PageSize = 0) /\ v.obj[m].pageCnt >= 1
    BY <1>4, <1>8
  <2>2. WorldInv(v) BY <1>2
  <2> HIDE DEF o
  <2> DEFINE u == c.w
  <2>3. SizeSet(v, u, m, t, z) BY <1>9
  <2> HIDE DEF u
  <2>4. /\ WorldInv(u) /\ u.obj[m].totalSz = t /\ u.obj[m].cur = z
        /\ Slots(u, u.obj[m]) = Slots(v, v.obj[m]) /\ u.free = v.free
    BY <2>1, <2>2, <2>3, SizeIsSet
  <2> QED BY <2>4 DEF u
<1>11. Room(c.w.obj[m]) = Room(o) - n
  <2>1. c.w.obj[m] \in Object BY <1>10, MsgIs
  <2>2. t % PageSize = (IF n = room THEN 0 ELSE (o.totalSz % PageSize) + n)
        /\ z = (IF n = room THEN Null ELSE o.cur) /\ t # 0
    BY <1>4, <1>6, <1>7 DEF t, z
  <2>3. CASE n = room
    <3>1. Room(c.w.obj[m]) = 0 BY <1>10, <2>2, <2>3 DEF Room
    <3> QED BY <1>5, <2>3, <3>1
  <2>4. CASE n # room
    <3>1. c.w.obj[m].cur # Null BY <1>2, <1>10, <2>2, <2>4
    <3>2. Room(c.w.obj[m]) = PageSize - (t % PageSize) BY <1>10, <2>1, <3>1, RoomIs
    <3>3. (o.totalSz % PageSize) \in Nat
      <4> DEFINE b == o.totalSz
      <4>1. b \in Nat BY <1>4
      <4> HIDE DEF b
      <4>2. (b % PageSize) \in 0 .. PageSize - 1 BY <1>5, <4>1, DivMod
      <4> QED BY <1>5, <4>2 DEF b
    <3> QED BY <1>5, <1>6, <2>2, <2>4, <3>2, <3>3
  <2> QED BY <2>3, <2>4
<1>12. c.s \in Seq(S) /\ Len(c.s) = Len(s) - n
  BY <1>1, <1>3, <1>6
<1>13. Credit(c.w, m, Len(c.s) + x)
  <2>1. PICK k \in Nat : \E j \in Nat : Enough(v, m, Len(s) + x, k, j) BY <1>2 DEF Credit
  <2>2. PICK j \in Nat : Enough(v, m, Len(s) + x, k, j) BY <2>1
  <2>3. PageSize * k \in Nat BY <1>5
  <2>4. Len(c.s) + x <= Room(c.w.obj[m]) + PageSize * k
    BY <1>1, <1>5, <1>6, <1>11, <1>12, <2>2, <2>3 DEF Enough
  <2>5. Enough(c.w, m, Len(c.s) + x, k, j) BY <1>10, <2>2, <2>4 DEF Enough
  <2> QED BY <2>5 DEF Credit
<1> QED BY <1>10, <1>12, <1>13

(***************************************************************************)
(* Loops                                                                    *)
(***************************************************************************)
\* The round of append that follows on r, the block that follows on b when reading or
\* copying, the piece of m.n bytes that follows on d when a message of m.w is read in
\* pieces; K of them.
NextRound(m, r) == IF r.s = <<>> THEN r ELSE PutChunk(r.w, m, r.s)
NextBlock(to, b) ==
  LET c == Min({b.left, b.i.rem})
  IN IF c = 0 \/ Astray(b.i) THEN b
     ELSE LET bytes == Bytes(b.w, b.i, c)
          IN [w |-> IF to = Null THEN b.w ELSE Put(b.w, to, bytes),
              i |-> Advance(b.w, b.i, c), left |-> b.left - c, got |-> b.got \o bytes]
NextPiece(m, d) == LET r == Read(m.w, d.i, m.n) IN [i |-> r.i, got |-> d.got \o r.got]
Step(what, m, r) ==
  CASE what = "round" -> NextRound(m, r) [] what = "block" -> NextBlock(m, r)
    [] OTHER -> NextPiece(m, r)
IsLoop(f, what, m, start, K) ==
  f = [k \in 0 .. K |-> IF k = 0 THEN start ELSE Step(what, m, f[k - 1])]

\* There is such a function.
LEMMA LoopsAre ==
  ASSUME NEW what, NEW m, NEW start, NEW K \in Nat
  PROVE  \E f : IsLoop(f, what, m, start, K)
<1> DEFINE Bad == {n \in Nat : ~ \E f : IsLoop(f, what, m, start, n)}
<1>1. ASSUME NEW n \in Bad PROVE \E j \in Bad : j < n
  <2>1. n \in Nat /\ ~ \E f : IsLoop(f, what, m, start, n) OBVIOUS
  <2>2. n # 0
    <3> DEFINE f == [k \in 0 .. 0 |-> start]
    <3>1. IsLoop(f, what, m, start, 0) BY DEF IsLoop
    <3> QED BY <2>1, <3>1
  <2>3. n - 1 \in Nat /\ n - 1 < n BY <2>1, <2>2
  <2>4. ASSUME NEW f, IsLoop(f, what, m, start, n - 1) PROVE FALSE
    <3> DEFINE g == [k \in 0 .. n |-> IF k = n THEN Step(what, m, f[n - 1]) ELSE f[k]]
    <3>1. \A k \in 0 .. n - 1 : f[k] = IF k = 0 THEN start ELSE Step(what, m, f[k - 1])
      BY <2>4 DEF IsLoop
    <3>2. \A k \in 0 .. n : g[k] = IF k = n THEN Step(what, m, f[n - 1]) ELSE f[k] OBVIOUS
    <3>3. g = [k \in 0 .. n |-> g[k]] OBVIOUS
    <3> HIDE DEF g
    <3>4. ASSUME NEW k \in 0 .. n
          PROVE  g[k] = IF k = 0 THEN start ELSE Step(what, m, g[k - 1])
      <4>1. CASE k = n
        <5>1. g[k - 1] = f[n - 1] BY <2>3, <3>2, <4>1
        <5> QED BY <2>2, <3>2, <4>1, <5>1
      <4>2. CASE k # n /\ k # 0
        <5>1. k \in 0 .. n - 1 /\ k - 1 \in 0 .. n /\ k - 1 # n BY <2>1, <4>2
        <5>2. g[k] = f[k] /\ g[k - 1] = f[k - 1] BY <3>2, <4>2, <5>1
        <5> QED BY <3>1, <4>2, <5>1, <5>2
      <4>3. CASE k = 0
        <5>1. k \in 0 .. n - 1 /\ k # n BY <2>2, <2>3, <4>3
        <5> QED BY <3>1, <3>2, <4>3, <5>1
      <4> QED BY <4>1, <4>2, <4>3
    <3>5. IsLoop(g, what, m, start, n) BY <3>3, <3>4 DEF IsLoop
    <3> QED BY <2>1, <3>5
  <2> QED BY <2>3, <2>4
<1> HIDE DEF Bad
<1>2. Bad \subseteq Nat BY DEF Bad
<1>3. Bad = {} BY <1>1, <1>2, NoSmallest
<1> QED BY <1>3 DEF Bad

\* It begins with the start, and goes on step by step.
LEMMA LoopGoes ==
  ASSUME NEW f, NEW what, NEW m, NEW start, NEW K \in Nat, IsLoop(f, what, m, start, K)
  PROVE  f[0] = start /\ \A k \in 0 .. K - 1 : f[k + 1] = Step(what, m, f[k])
<1>1. \A k \in 0 .. K : f[k] = IF k = 0 THEN start ELSE Step(what, m, f[k - 1])
  BY DEF IsLoop
<1>2. 0 \in 0 .. K OBVIOUS
<1>3. \A k \in 0 .. K - 1 : k + 1 \in 0 .. K /\ k + 1 # 0 /\ (k + 1) - 1 = k OBVIOUS
<1> QED BY <1>1, <1>2, <1>3

\* What holds at the start and stays with every step holds in the end.
LEMMA UpTo ==
  ASSUME NEW K \in Nat, NEW G, 0 \in G, \A k \in 0 .. K - 1 : k \in G => k + 1 \in G
  PROVE  K \in G
<1> DEFINE Bad == {k \in 0 .. K : k \notin G}
<1>1. ASSUME NEW k \in Bad PROVE \E j \in Bad : j < k
  <2>1. k \in 0 .. K /\ k \notin G OBVIOUS
  <2>2. k # 0 BY <2>1
  <2>3. k - 1 \in 0 .. K - 1 /\ k - 1 \in 0 .. K /\ (k - 1) + 1 = k /\ k - 1 < k BY <2>1, <2>2
  <2>4. k - 1 \notin G BY <2>1, <2>3
  <2> QED BY <2>3, <2>4
<1>2. Bad \subseteq Nat OBVIOUS
<1> HIDE DEF Bad
<1>3. Bad = {} BY <1>1, <1>2, NoSmallest
<1>4. K \in 0 .. K OBVIOUS
<1> QED BY <1>3, <1>4 DEF Bad

\* How many rounds there are at most.
LEMMA PagesOfIs ==
  ASSUME NEW n \in Nat
  PROVE  PagesOf(n) \in Nat
<1>1. n \div PageSize \in Nat BY Sizes, DivMod
<1> QED BY <1>1 DEF PagesOf

\* append is such a loop.
LEMMA PutIsLoop ==
  ASSUME NEW w, NEW m, NEW s, Len(s) \in Nat
  PROVE  \E f : /\ IsLoop(f, "round", m, [w |-> w, s |-> s], PagesOf(Len(s)))
               /\ Put(w, m, s) = f[PagesOf(Len(s))].w
<1> DEFINE K == PagesOf(Len(s))
           f == CHOOSE round : round = [k \in 0 .. K |->
                  IF k = 0 THEN [w |-> w, s |-> s]
                  ELSE LET r == round[k - 1] IN IF r.s = <<>> THEN r ELSE PutChunk(r.w, m, r.s)]
<1>1. K \in Nat BY PagesOfIs
<1>2. Put(w, m, s) = f[K].w BY DEF Put
<1> HIDE DEF K
<1>3. \E round : round = [k \in 0 .. K |->
                IF k = 0 THEN [w |-> w, s |-> s]
                ELSE LET r == round[k - 1] IN IF r.s = <<>> THEN r ELSE PutChunk(r.w, m, r.s)]
  <2>1. PICK h : IsLoop(h, "round", m, [w |-> w, s |-> s], K) BY <1>1, LoopsAre
  <2>2. h = [k \in 0 .. K |->
                IF k = 0 THEN [w |-> w, s |-> s]
                ELSE LET r == h[k - 1] IN IF r.s = <<>> THEN r ELSE PutChunk(r.w, m, r.s)]
    BY <2>1, Zenon DEF IsLoop, Step, NextRound
  <2> QED BY <2>2
<1>4. f = [k \in 0 .. K |->
                IF k = 0 THEN [w |-> w, s |-> s]
                ELSE LET r == f[k - 1] IN IF r.s = <<>> THEN r ELSE PutChunk(r.w, m, r.s)]
  BY <1>3, Zenon
<1> HIDE DEF f
<1>5. IsLoop(f, "round", m, [w |-> w, s |-> s], K) BY <1>4 DEF IsLoop, Step, NextRound
<1> QED BY <1>2, <1>5 DEF K

\* So are read, skip and append( it, sz ).
LEMMA BlocksAreLoop ==
  ASSUME NEW w, NEW i, NEW n \in Nat, NEW to
  PROVE  \E f : /\ IsLoop(f, "block", to, [w |-> w, i |-> i, left |-> n, got |-> <<>>], PagesOf(n))
               /\ Blocks(w, i, n, to) = f[PagesOf(n)]
<1> DEFINE K == PagesOf(n)
           start == [w |-> w, i |-> i, left |-> n, got |-> <<>>]
           f == CHOOSE block : block = [k \in 0 .. K |->
                  IF k = 0 THEN [w |-> w, i |-> i, left |-> n, got |-> <<>>]
                  ELSE LET prev == block[k - 1]
                           c == Min({prev.left, prev.i.rem})
                       IN IF c = 0 \/ Astray(prev.i) THEN prev
                          ELSE LET bytes == Bytes(prev.w, prev.i, c)
                               IN [w |-> IF to = Null THEN prev.w ELSE Put(prev.w, to, bytes),
                                   i |-> Advance(prev.w, prev.i, c),
                                   left |-> prev.left - c, got |-> prev.got \o bytes]]
<1>1. K \in Nat BY PagesOfIs
<1>2. Blocks(w, i, n, to) = f[K] BY DEF Blocks
<1> HIDE DEF K
<1>3. PICK h : IsLoop(h, "block", to, start, K)
  <2> HIDE DEF start
  <2> QED BY <1>1, LoopsAre
<1>4. h = [k \in 0 .. K |->
                IF k = 0 THEN [w |-> w, i |-> i, left |-> n, got |-> <<>>]
                ELSE LET prev == h[k - 1]
                         c == Min({prev.left, prev.i.rem})
                     IN IF c = 0 \/ Astray(prev.i) THEN prev
                        ELSE LET bytes == Bytes(prev.w, prev.i, c)
                             IN [w |-> IF to = Null THEN prev.w ELSE Put(prev.w, to, bytes),
                                 i |-> Advance(prev.w, prev.i, c),
                                 left |-> prev.left - c, got |-> prev.got \o bytes]]
  BY <1>3, Zenon DEF IsLoop, Step, NextBlock
<1>5. f = [k \in 0 .. K |->
                IF k = 0 THEN [w |-> w, i |-> i, left |-> n, got |-> <<>>]
                ELSE LET prev == f[k - 1]
                         c == Min({prev.left, prev.i.rem})
                     IN IF c = 0 \/ Astray(prev.i) THEN prev
                        ELSE LET bytes == Bytes(prev.w, prev.i, c)
                             IN [w |-> IF to = Null THEN prev.w ELSE Put(prev.w, to, bytes),
                                 i |-> Advance(prev.w, prev.i, c),
                                 left |-> prev.left - c, got |-> prev.got \o bytes]]
  BY <1>4, Zenon
<1> HIDE DEF f
<1>6. IsLoop(f, "block", to, start, K) BY <1>5, Zenon DEF IsLoop, Step, NextBlock
<1> QED BY <1>2, <1>6 DEF K

\* What is enough is enough for less.
LEMMA LessCredit ==
  ASSUME NEW w, WorldInv(w), NEW m \in Msgs, NEW r \in Nat, Credit(w, m, r),
         NEW x \in Nat, x <= r
  PROVE  Credit(w, m, x)
<1>1. PICK k \in Nat : \E j \in Nat : Enough(w, m, r, k, j) BY DEF Credit
<1>2. PICK j \in Nat : Enough(w, m, r, k, j) BY <1>1
<1>3. Room(w.obj[m]) + PageSize * k \in Int
  <2>1. w.obj[m] \in Object BY MsgIs
  <2>2. w.obj[m].cur # Null => Room(w.obj[m]) \in Int BY <2>1, RoomIs
  <2>3. w.obj[m].cur = Null => Room(w.obj[m]) \in Int BY Sizes DEF Room
  <2>4. PageSize * k \in Int BY Sizes
  <2> QED BY <2>2, <2>3, <2>4
<1>4. Enough(w, m, x, k, j) BY <1>2, <1>3 DEF Enough
<1> QED BY <1>4 DEF Credit

\* append keeps the world in order, and credit for what is to be written later.
LEMMA PutKeeps ==
  ASSUME NEW w, WorldInv(w), NEW m \in Msgs, NEW S, NEW s \in Seq(S), NEW x \in Nat,
         Credit(w, m, Len(s) + x), NEW v, v = Put(w, m, s)
  PROVE  WorldInv(v) /\ Credit(v, m, x)
<1> DEFINE K == PagesOf(Len(s))
           start == [w |-> w, s |-> s]
           good(r) == WorldInv(r.w) /\ r.s \in Seq(S) /\ Credit(r.w, m, Len(r.s) + x)
<1>1. K \in Nat BY PagesOfIs
<1>2. PICK f : IsLoop(f, "round", m, start, K) /\ v = f[K].w BY PutIsLoop
<1>3. good(start) OBVIOUS
<1> HIDE DEF K, start
<1>4. f[0] = start /\ \A k \in 0 .. K - 1 : f[k + 1] = NextRound(m, f[k])
  BY <1>1, <1>2, LoopGoes DEF Step
<1> DEFINE G == {k \in 0 .. K : good(f[k])}
<1>5. ASSUME NEW k \in 0 .. K - 1, k \in G PROVE k + 1 \in G
  <2> DEFINE r == f[k]
             u == r.w
             e == r.s
             c == f[k + 1]
  <2>1. WorldInv(u) /\ e \in Seq(S) /\ Credit(u, m, Len(e) + x) BY <1>5
  <2>2. c = NextRound(m, r) /\ k + 1 \in 0 .. K BY <1>1, <1>4
  <2>3. CASE e = <<>> BY <1>5, <2>2, <2>3 DEF NextRound
  <2>4. CASE e # <<>>
    <3>1. c = PutChunk(u, m, e) BY <2>2, <2>4 DEF NextRound
    <3> HIDE DEF c, u, e
    <3>2. WorldInv(c.w) /\ c.s \in Seq(S) /\ Credit(c.w, m, Len(c.s) + x)
      BY <2>1, <2>4, <3>1, PutChunkKeeps
    <3> QED BY <2>2, <3>2 DEF c
  <2> QED BY <2>3, <2>4
<1>6. good(f[K])
  <2>1. 0 \in G BY <1>1, <1>3, <1>4
  <2> HIDE DEF G
  <2>2. K \in G BY <1>1, <1>5, <2>1, UpTo
  <2> QED BY <2>2 DEF G
<1>7. Credit(v, m, x)
  <2>1. Len(f[K].s) + x \in Nat /\ x <= Len(f[K].s) + x /\ Credit(v, m, Len(f[K].s) + x)
    BY <1>2, <1>6
  <2> QED BY <1>2, <1>6, <2>1, LessCredit
<1> QED BY <1>2, <1>6, <1>7

\* What reading needs of an iterator.
IsIter(i) ==
  i \in [ip : {i.ip}, idx : {i.idx}, page : {i.page}, off : {i.off}, total : Int, rem : Nat]

\* It goes on as long as there is something to read.
LEMMA AdvanceKeeps ==
  ASSUME NEW w, NEW i, IsIter(i), NEW n \in Nat, n <= i.rem, NEW a, a = Advance(w, i, n)
  PROVE  IsIter(a)
<1>1. i.total \in Int /\ i.rem \in Nat BY DEF IsIter
<1>2. CASE i.total > n /\ i.rem = n
  <2> DEFINE r == Min({i.total - n, PageSize})
  <2>1. r \in Nat
    <3> DEFINE d == i.total - n
    <3>1. d \in Nat /\ PageSize \in Nat BY <1>1, <1>2, Sizes
    <3> HIDE DEF d
    <3>2. Min({d, PageSize}) \in Nat BY <3>1, MinOfTwo
    <3> QED BY <3>2 DEF d
  <2> HIDE DEF r
  <2>2. i.total - n \in Int BY <1>1
  <2>3. \E ip, idx, page :
          a = [ip |-> ip, idx |-> idx, page |-> page, off |-> 0, total |-> i.total - n, rem |-> r]
    BY <1>2 DEF Advance, r
  <2> QED BY <2>1, <2>2, <2>3 DEF IsIter
<1>3. CASE ~(i.total > n /\ i.rem = n)
  <2>1. a = [i EXCEPT !.off = @ + n, !.total = @ - n, !.rem = @ - n] BY <1>3 DEF Advance
  <2>2. i.total - n \in Int /\ i.rem - n \in Nat BY <1>1
  <2> QED BY <2>1, <2>2 DEF IsIter
<1> QED BY <1>2, <1>3

\* A fresh one has it.
LEMMA GetReadIterIs ==
  ASSUME NEW w, NEW m, w.obj[m].totalSz \in Nat, w.obj[m].totalSz \notin 1 .. TotalReserved - 1
  PROVE  IsIter(GetReadIter(w, m))
<1> DEFINE sz == IF w.obj[m].totalSz = 0 THEN 0 ELSE w.obj[m].totalSz - TotalReserved
           b == PageSize - TotalReserved
           r == Min({sz, b})
<1>1. sz \in Nat /\ b \in Nat BY Sizes
<1>2. GetReadIter(w, m) = [ip |-> m, idx |-> 0, page |-> w.obj[m].first[0],
                           off |-> TotalReserved, total |-> sz, rem |-> r]
  BY DEF GetReadIter
<1> HIDE DEF sz, b
<1>3. r \in Nat BY <1>1, MinOfTwo
<1> HIDE DEF r
<1> QED BY <1>1, <1>2, <1>3 DEF IsIter

\* Reading and copying: what holds after every block.
BlocksOk(to, b) ==
  /\ IsIter(b.i) /\ b.left \in Nat
  /\ to \in Msgs => WorldInv(b.w) /\ Credit(b.w, to, b.left)

\* One block keeps it: the bytes written were left to read.
LEMMA NextBlockKeeps ==
  ASSUME NEW to, to = Null \/ to \in Msgs, NEW b, BlocksOk(to, b), NEW v, v = NextBlock(to, b)
  PROVE  BlocksOk(to, v)
<1> DEFINE l == b.left
           r == b.i.rem
           c == Min({l, r})
           bytes == Bytes(b.w, b.i, c)
<1>1. l \in Nat /\ r \in Nat /\ IsIter(b.i) BY DEF BlocksOk, IsIter
<1> HIDE DEF l, r
<1>2. c \in Nat /\ c <= l /\ c <= r BY <1>1, MinOfTwo
<1> HIDE DEF c
<1>3. CASE c = 0 \/ Astray(b.i)
  <2>1. v = b BY <1>3 DEF NextBlock, l, r, c
  <2> QED BY <2>1
<1>4. CASE ~(c = 0 \/ Astray(b.i))
  <2> DEFINE u == IF to = Null THEN b.w ELSE Put(b.w, to, bytes)
             i == Advance(b.w, b.i, c)
  <2>1. v.w = u /\ v.i = i /\ v.left = l - c
    BY <1>4 DEF NextBlock, l, r, c
  <2>2. IsIter(i)
    <3> HIDE DEF i
    <3>1. i = Advance(b.w, b.i, c) BY DEF i
    <3> DEFINE j == b.i
    <3>2. IsIter(j) /\ c <= j.rem BY <1>1, <1>2 DEF r
    <3> HIDE DEF j
    <3> QED BY <1>2, <3>1, <3>2, AdvanceKeeps DEF j
  <2>3. l - c \in Nat BY <1>1, <1>2
  <2>4. ASSUME to \in Msgs PROVE WorldInv(u) /\ Credit(u, to, l - c)
    <3> DEFINE S == {bytes[k] : k \in 1 .. c}
    <3>1. bytes = [k \in 1 .. c |-> bytes[k]] BY DEF Bytes
    <3> HIDE DEF bytes
    <3>2. bytes \in Seq(S) /\ Len(bytes) = c
      <4>1. bytes \in [1 .. c -> S] BY <3>1
      <4> HIDE DEF S
      <4> QED BY <1>2, <4>1
    <3>3. WorldInv(b.w) /\ Credit(b.w, to, l) BY <2>4 DEF BlocksOk, l
    <3>4. CASE to = Null
      <4>1. u = b.w BY <3>4
      <4>2. Credit(u, to, l - c)
        <5> HIDE DEF u
        <5>1. l - c <= l /\ l - c \in Nat BY <1>1, <1>2
        <5> QED BY <1>1, <2>4, <3>3, <4>1, <5>1, LessCredit
      <4> QED BY <3>3, <4>1, <4>2
    <3>5. CASE to # Null
      <4>1. u = Put(b.w, to, bytes) BY <3>5
      <4> DEFINE x == l - c
      <4>2. Len(bytes) + x = l /\ x \in Nat BY <1>1, <1>2, <3>2
      <4>3. Credit(b.w, to, Len(bytes) + x) BY <3>3, <4>2
      <4> HIDE DEF u, S, x
      <4>4. WorldInv(u) /\ Credit(u, to, x) BY <2>4, <3>2, <3>3, <4>1, <4>2, <4>3, PutKeeps
      <4> QED BY <4>4 DEF x
    <3> QED BY <3>4, <3>5
  <2> HIDE DEF u, i
  <2> QED BY <2>1, <2>2, <2>3, <2>4 DEF BlocksOk
<1> QED BY <1>3, <1>4

\* All blocks do.
LEMMA BlocksKeep ==
  ASSUME NEW w, NEW i, IsIter(i), NEW n \in Nat, NEW to, to = Null \/ to \in Msgs,
         to \in Msgs => WorldInv(w) /\ Credit(w, to, n), NEW v, v = Blocks(w, i, n, to)
  PROVE  BlocksOk(to, v)
<1> DEFINE K == PagesOf(n)
           start == [w |-> w, i |-> i, left |-> n, got |-> <<>>]
<1>1. K \in Nat BY PagesOfIs
<1>2. PICK f : IsLoop(f, "block", to, start, K) /\ v = f[K] BY BlocksAreLoop
<1>3. BlocksOk(to, start) BY DEF BlocksOk
<1> HIDE DEF K, start
<1>4. f[0] = start /\ \A k \in 0 .. K - 1 : f[k + 1] = NextBlock(to, f[k])
  BY <1>1, <1>2, LoopGoes DEF Step
<1> DEFINE G == {k \in 0 .. K : BlocksOk(to, f[k])}
<1>5. ASSUME NEW k \in 0 .. K - 1, k \in G PROVE k + 1 \in G
  <2>1. BlocksOk(to, f[k]) /\ k + 1 \in 0 .. K BY <1>1, <1>5
  <2>2. BlocksOk(to, f[k + 1]) BY <1>4, <2>1, NextBlockKeeps
  <2> QED BY <2>1, <2>2
<1>6. 0 \in G BY <1>1, <1>3, <1>4
<1> HIDE DEF G
<1>7. K \in G BY <1>1, <1>5, <1>6, UpTo
<1> QED BY <1>2, <1>7 DEF G

\* The bound on a call says that there are pages enough for it.
LEMMA MayGrowIs ==
  ASSUME WorldInv(World), NEW m \in Msgs, NEW n \in Nat, MayGrow(m, n)
  PROVE  \E k \in Nat \ {0} : \E j \in Nat : Enough(World, m, n, k, j)
<1> DEFINE t == n + TotalReserved
           d == t \div PageSize
           k == d + 1
           e == k \div MaxAddressedByPage
           j == e + 1
<1>1. t \in Nat BY Sizes
<1> HIDE DEF t
<1>2. d \in Nat /\ (t % PageSize) \in 0 .. PageSize - 1 /\ t = PageSize * d + (t % PageSize)
  BY <1>1, Sizes, DivMod
<1> HIDE DEF d
<1>3. k \in Nat \ {0} BY <1>2
<1>4. PageSize * k = PageSize * d + PageSize /\ PageSize * d \in Nat BY <1>2, Sizes
<1> HIDE DEF k
<1>5. e \in Nat /\ (k % MaxAddressedByPage) \in 0 .. MaxAddressedByPage - 1
      /\ k = MaxAddressedByPage * e + (k % MaxAddressedByPage)
  BY <1>3, Sizes, DivMod
<1> HIDE DEF e
<1>6. j \in Nat /\ MaxAddressedByPage * j = MaxAddressedByPage * e + MaxAddressedByPage
      /\ MaxAddressedByPage * e \in Nat
  BY <1>5, Sizes
<1>7. Cardinality(World.free) >= k + j
  <2>1. Cardinality(free) >= k + k \div MaxAddressedByPage + 1 BY DEF MayGrow, k, d, t
  <2>2. Cardinality(free) \in Nat
    <3>1. free \subseteq Pages BY DEF WorldInv, WorldType, World
    <3> QED BY <3>1, PageAssumption, FS_Subset, FS_CardinalityType
  <2>3. World.free = free BY DEF World
  <2> QED BY <1>3, <1>5, <2>1, <2>2, <2>3 DEF e
<1>8. k <= Slots(World, World.obj[m]) + MaxAddressedByPage * j
  <2>1. Slots(World, World.obj[m]) \in Nat BY SlotsIs, MsgIs
  <2> QED BY <1>3, <1>5, <1>6, <2>1, Sizes
<1>9. n <= Room(World.obj[m]) + PageSize * k
  <2>1. Room(World.obj[m]) \in Int /\ Room(World.obj[m]) >= - TotalReserved
    <3>1. World.obj[m] \in Object BY MsgIs
    <3>2. CASE World.obj[m].cur # Null BY <3>1, <3>2, RoomIs, Sizes
    <3>3. CASE World.obj[m].cur = Null BY <3>3, Sizes DEF Room
    <3> QED BY <3>2, <3>3
  <2> QED BY <1>2, <1>4, <2>1, Sizes DEF t
<1> HIDE DEF j
<1> QED BY <1>3, <1>6, <1>7, <1>8, <1>9 DEF Enough

(***************************************************************************)
(* Releasing and handing over                                               *)
(***************************************************************************)
\* What is released is all that is owned.
LEMMA ReleasedIs ==
  ASSUME NEW w, NEW o \in Object, Listed(w, o)
  PROVE  Released(w, o) = OwnedIn(w, o)
<1>1. o.pageCnt \in Nat /\ LocalStorageSize \in Nat BY Sizes DEF Object
<1>2. CASE o.pageCnt <= LocalStorageSize
  <2>1. o.next = Null BY <1>2, NoIndexPages
  <2>2. Chain(w, Null, 0, [i \in 1 .. 0 |-> 0]) BY DEF Chain
  <2>3. Linked(w, o.next) = {} BY <2>1, <2>2, LinkedIsChain
  <2>4. IndexedPages(w, o) = {} BY <2>3 DEF IndexedPages
  <2> QED BY <1>2, <2>3, <2>4 DEF Released, OwnedIn, Payload
<1>3. CASE ~(o.pageCnt <= LocalStorageSize) BY <1>3 DEF Released, OwnedIn, Payload
<1> QED BY <1>2, <1>3

\* An object that owns nothing.
Empty(o) == o.next = Null /\ o.lip = Null /\ o.cur = Null /\ o.totalSz = 0 /\ o.pageCnt = 0

\* Such an object is in order.
LEMMA EmptyIs ==
  ASSUME NEW w, NEW o, Empty(o)
  PROVE  Listed(w, o) /\ Numbered(w, o) /\ Filled(o) /\ OwnedIn(w, o) = {}
         /\ Linked(w, o.next) = {}
<1>1. Linked(w, o.next) = {} /\ Payload(w, o) = {} /\ OwnedIn(w, o) = {}
  BY OwnsNothing DEF Empty
<1>2. Listed(w, o)
  <2>1. o.pageCnt <= LocalStorageSize BY Sizes DEF Empty
  <2> QED BY <2>1, NoIndexPages DEF Empty
<1>3. Numbered(w, o) BY <1>1, FS_EmptySet DEF Numbered, Empty
<1>4. Filled(o)
  <2>1. (PageSize * 0 + 0) % PageSize = 0 BY ModUnique, Sizes
  <2> QED BY <2>1, Sizes DEF Filled, Empty
<1> QED BY <1>1, <1>2, <1>3, <1>4

\* A new object is one.
LEMMA ZeroedIs ==
  Zeroed \in Object /\ Empty(Zeroed)
BY DEF Zeroed, Object, Empty, Page

\* The pages of m are released, and m owns nothing then.
Emptied(w, v, m) ==
  /\ WorldType(v) /\ v.free = w.free \cup OwnedIn(w, w.obj[m])
  /\ \A h \in Holders : h # m => v.obj[h] = w.obj[h]
  /\ \A r \in Pages : r \notin OwnedIn(w, w.obj[m]) => v.index[r] = w.index[r]
  /\ Empty(v.obj[m])

\* That disturbs nobody: nobody else owned them.
LEMMA EmptiedKeeps ==
  ASSUME NEW w, NEW v, WorldInv(w), NEW m \in Msgs, Emptied(w, v, m)
  PROVE  WorldInv(v)
<1>1. m \in Holders /\ m \notin Pages BY PageAssumption DEF Holders
<1>2. \A h \in Holders : /\ Listed(w, w.obj[h]) /\ Numbered(w, w.obj[h])
                         /\ Linked(w, w.obj[h].next) \subseteq Pages
                         /\ OwnedIn(w, w.obj[h]) \subseteq Pages
  BY OwnedArePages DEF WorldInv, Sound, Numbered
<1>3. ASSUME NEW h \in Holders, h # m
      PROVE  /\ Linked(v, v.obj[h].next) = Linked(w, w.obj[h].next)
             /\ Payload(v, v.obj[h]) = Payload(w, w.obj[h])
             /\ OwnedIn(v, v.obj[h]) = OwnedIn(w, w.obj[h])
             /\ Listed(v, v.obj[h])
  <2>1. SameList(w.obj[h], v.obj[h]) BY <1>3 DEF SameList, Emptied
  <2>2. OwnedIn(w, w.obj[h]) \cap OwnedIn(w, w.obj[m]) = {}
    BY <1>1, <1>3 DEF WorldInv, Separate
  <2>3. \A q \in Linked(w, w.obj[h].next) : v.index[q] = w.index[q]
    BY <1>2, <2>2 DEF OwnedIn, Emptied
  <2>4. Listed(w, w.obj[h]) BY <1>2
  <2> QED BY <2>1, <2>3, <2>4, SamePages
<1>4. /\ Listed(v, v.obj[m]) /\ Numbered(v, v.obj[m]) /\ Filled(v.obj[m])
      /\ OwnedIn(v, v.obj[m]) = {}
  BY EmptyIs DEF Emptied
<1>5. Separate(v) BY <1>3, <1>4 DEF WorldInv, Separate
<1>6. Covered(v)
  <2>1. \A p \in Pages : p \in OwnedIn(w, w.obj[m]) =>
          \A h \in Holders : h # m => p \notin OwnedIn(w, w.obj[h])
    BY <1>1 DEF WorldInv, Separate
  <2> QED BY <1>1, <1>3, <1>4, <2>1 DEF WorldInv, Covered, Emptied
<1>7. Sound(v, m)
  BY <1>1, <1>4 DEF Sound, Housed, Emptied, Empty
<1>8. ASSUME NEW h \in Holders, h # m PROVE Sound(v, h)
  <2>1. v.obj[h] = w.obj[h] /\ Sound(w, h) BY <1>8 DEF WorldInv, Emptied
  <2>2. Numbered(v, v.obj[h]) BY <1>3, <1>8, <2>1 DEF Sound, Numbered
  <2> QED BY <1>3, <1>8, <2>1, <2>2 DEF Sound
<1> QED BY <1>5, <1>6, <1>7, <1>8 DEF WorldInv, Emptied

\* clear() does it; so does the destructor, which leaves an object of its own.
LEMMA ClearIs ==
  ASSUME NEW w, WorldInv(w), NEW m \in Msgs, NEW v, v = Clear(w, m)
  PROVE  Emptied(w, v, m) /\ Emptied(w, [v EXCEPT !.obj = [@ EXCEPT ![m] = Zeroed]], m)
<1> DEFINE gone == Released(w, w.obj[m])
           x == [w.obj[m] EXCEPT !.next = Null, !.lip = Null, !.cur = Null,
                                 !.totalSz = 0, !.pageCnt = 0]
           ob == [w.obj EXCEPT ![m] = x]
           ix == [p \in Pages |-> IF p \in gone THEN Unused ELSE w.index[p]]
           da == [p \in Pages |-> IF p \in gone THEN Unwritten ELSE w.data[p]]
           fr == w.free \cup gone
           y == [v EXCEPT !.obj = [@ EXCEPT ![m] = Zeroed]]
           zb == [ob EXCEPT ![m] = Zeroed]
<1>1. /\ m \in Holders /\ w.obj[m] \in Object /\ WorldType(w) /\ Listed(w, w.obj[m])
      /\ Payload(w, w.obj[m]) \subseteq Pages
  BY MsgIs DEF WorldInv, Sound, Numbered
<1>2. gone = OwnedIn(w, w.obj[m]) BY <1>1, ReleasedIs
<1>3. gone \subseteq Pages
  <2>1. OwnedIn(w, w.obj[m]) \subseteq Pages BY <1>1, OwnedArePages
  <2> QED BY <1>2, <2>1
<1>4. x \in Object /\ Empty(x)
  <2>1. Null \in Page BY DEF Page
  <2> QED BY <1>1, <2>1 DEF Object, Empty
<1>5. v = [w EXCEPT !.free = fr, !.data = da, !.index = ix, !.obj = ob]
  BY DEF Clear
<1> HIDE DEF gone, x
<1>6. ob \in [Holders -> Object] /\ ob[m] = x /\ \A h \in Holders : h # m => ob[h] = w.obj[h]
  BY <1>1, <1>4 DEF WorldType
<1>7. ix \in [Pages -> Listing] /\ \A r \in Pages : r \notin gone => ix[r] = w.index[r]
  <2>1. Unused \in Listing BY Sizes DEF Unused, IndexPage, Listing, Page
  <2> QED BY <1>1, <2>1 DEF WorldType
<1>8. fr \in SUBSET Pages BY <1>1, <1>3 DEF WorldType
<1> HIDE DEF ob, ix, da, fr
<1>9. v = [obj |-> ob, index |-> ix, data |-> da, free |-> fr] BY <1>1, <1>5 DEF WorldType
<1>10. zb \in [Holders -> Object] /\ zb[m] = Zeroed /\ \A h \in Holders : h # m => zb[h] = w.obj[h]
  BY <1>1, <1>6, ZeroedIs
<1>11. y = [obj |-> zb, index |-> ix, data |-> da, free |-> fr] BY <1>9
<1> HIDE DEF y, zb
<1>12. Emptied(w, v, m)
  BY <1>2, <1>4, <1>6, <1>7, <1>8, <1>9 DEF Emptied, WorldType, fr
<1>13. Emptied(w, y, m)
  BY <1>2, <1>7, <1>8, <1>10, <1>11, ZeroedIs DEF Emptied, WorldType, fr
<1> QED BY <1>12, <1>13 DEF y

\* What one holder has is another's; nothing is left behind.
HandedOver(w, v, from, to) ==
  /\ WorldType(v) /\ v.free = w.free /\ v.index = w.index
  /\ v.obj[to] = w.obj[from] /\ v.obj[from] = Zeroed
  /\ \A h \in Holders : h # to /\ h # from => v.obj[h] = w.obj[h]

\* Nothing is owned twice after it, and nothing is lost.
LEMMA HandedOverKeeps ==
  ASSUME NEW w, WorldInv(w), NEW from \in Holders, NEW to \in Holders, from # to,
         Empty(w.obj[to]), Housed(to, w.obj[from]), NEW v, HandedOver(w, v, from, to)
  PROVE  WorldInv(v)
<1> DEFINE other(h) == IF h = to THEN from ELSE IF h = from THEN to ELSE h
<1>1. \A h \in Holders : Listed(w, w.obj[h]) /\ Numbered(w, w.obj[h]) /\ Filled(w.obj[h])
  BY DEF WorldInv, Sound
<1>2. ASSUME NEW h \in Holders, h # from
      PROVE  /\ Linked(v, v.obj[h].next) = Linked(w, w.obj[other(h)].next)
             /\ Payload(v, v.obj[h]) = Payload(w, w.obj[other(h)])
             /\ OwnedIn(v, v.obj[h]) = OwnedIn(w, w.obj[other(h)])
             /\ Listed(v, v.obj[h]) /\ v.obj[h] = w.obj[other(h)] /\ other(h) \in Holders
  <2>1. v.obj[h] = w.obj[other(h)] /\ other(h) \in Holders BY <1>2 DEF HandedOver
  <2>2. SameList(w.obj[other(h)], v.obj[h]) BY <2>1 DEF SameList
  <2>3. \A q \in Linked(w, w.obj[other(h)].next) : v.index[q] = w.index[q] BY DEF HandedOver
  <2> DEFINE o == w.obj[other(h)]
             x == v.obj[h]
  <2>4. Listed(w, o) /\ SameList(o, x) /\ \A q \in Linked(w, o.next) : v.index[q] = w.index[q]
    BY <1>1, <2>1, <2>2, <2>3
  <2> HIDE DEF o, x
  <2>5. /\ Linked(v, x.next) = Linked(w, o.next) /\ Payload(v, x) = Payload(w, o)
        /\ OwnedIn(v, x) = OwnedIn(w, o) /\ Listed(v, x)
    BY <2>4, SamePages
  <2> QED BY <2>1, <2>5 DEF o, x
<1>3. /\ OwnedIn(v, v.obj[from]) = {} /\ Listed(v, v.obj[from]) /\ Numbered(v, v.obj[from])
      /\ Filled(v.obj[from])
  BY ZeroedIs, EmptyIs DEF HandedOver
<1>4. OwnedIn(w, w.obj[to]) = {} BY EmptyIs
<1>5. Separate(v)
  <2> SUFFICES ASSUME NEW h \in Holders, NEW g \in Holders, h # g
               PROVE  OwnedIn(v, v.obj[h]) \cap OwnedIn(v, v.obj[g]) = {}
    BY DEF Separate
  <2>1. CASE h = from \/ g = from BY <1>3, <2>1
  <2>2. CASE h # from /\ g # from
    <3>1. other(h) # other(g) BY <2>2
    <3>2. other(h) \in Holders /\ other(g) \in Holders BY <1>2, <2>2
    <3> HIDE DEF other
    <3>3. OwnedIn(w, w.obj[other(h)]) \cap OwnedIn(w, w.obj[other(g)]) = {}
      BY <3>1, <3>2 DEF WorldInv, Separate
    <3> QED BY <1>2, <2>2, <3>3
  <2> QED BY <2>1, <2>2
<1>6. Covered(v)
  <2>1. ASSUME NEW p \in Pages
        PROVE  (\A h \in Holders : p \notin OwnedIn(v, v.obj[h]))
               <=> (\A h \in Holders : p \notin OwnedIn(w, w.obj[h]))
    <3>1. \A h \in Holders : h # from /\ h # to => OwnedIn(v, v.obj[h]) = OwnedIn(w, w.obj[h])
      BY <1>2
    <3>2. OwnedIn(v, v.obj[to]) = OwnedIn(w, w.obj[from]) BY <1>2
    <3> QED BY <1>3, <1>4, <3>1, <3>2
  <2> QED BY <2>1 DEF WorldInv, Covered, HandedOver
<1>7. ASSUME NEW h \in Holders PROVE Sound(v, h)
  <2>1. CASE h = from
    <3>1. Housed(h, v.obj[h]) BY <2>1, ZeroedIs DEF HandedOver, Housed, Empty
    <3> QED BY <1>3, <2>1, <3>1 DEF Sound
  <2>2. CASE h = to
    <3>1. v.obj[h] = w.obj[from] BY <2>2 DEF HandedOver
    <3>2. Payload(v, v.obj[h]) = Payload(w, w.obj[from])
          /\ Linked(v, v.obj[h].next) = Linked(w, w.obj[from].next) /\ Listed(v, v.obj[h])
      BY <1>2, <2>2
    <3> QED BY <1>1, <2>2, <3>1, <3>2 DEF Sound, Numbered
  <2>3. CASE h # from /\ h # to
    <3>1. v.obj[h] = w.obj[h] /\ Sound(w, h) BY <2>3 DEF HandedOver, WorldInv
    <3>2. Payload(v, v.obj[h]) = Payload(w, w.obj[h])
          /\ Linked(v, v.obj[h].next) = Linked(w, w.obj[h].next) /\ Listed(v, v.obj[h])
      BY <1>2, <2>3
    <3> QED BY <3>1, <3>2 DEF Sound, Numbered
  <2> QED BY <2>1, <2>2, <2>3
<1> QED BY <1>5, <1>6, <1>7 DEF WorldInv, HandedOver

\* It is what a move does.
LEMMA HandedIs ==
  ASSUME NEW w, WorldType(w), NEW from \in Holders, NEW to \in Holders, from # to
  PROVE  HandedOver(w, Handed(w, from, to), from, to)
<1> DEFINE ob == [w.obj EXCEPT ![to] = w.obj[from], ![from] = Zeroed]
           v == Handed(w, from, to)
<1>1. /\ ob \in [Holders -> Object] /\ ob[to] = w.obj[from] /\ ob[from] = Zeroed
      /\ \A h \in Holders : h # to /\ h # from => ob[h] = w.obj[h]
  BY ZeroedIs DEF WorldType
<1>2. v = [w EXCEPT !.obj = ob] BY DEF Handed
<1> HIDE DEF ob, v
<1>3. WorldType(v) /\ v.free = w.free /\ v.index = w.index /\ v.obj = ob
  BY <1>1, <1>2 DEF WorldType
<1>4. HandedOver(w, v, from, to) BY <1>1, <1>3 DEF HandedOver
<1> QED BY <1>4 DEF v

\* Contents do not matter here.
LEMMA DataOnly ==
  ASSUME NEW w, WorldInv(w), NEW d, NEW v, v = [w EXCEPT !.data = d]
  PROVE  WorldInv(v)
<1>1. WorldType(w) BY DEF WorldInv
<1>2. WorldType(v) /\ v.free = w.free /\ v.index = w.index /\ v.obj = w.obj
  BY <1>1 DEF WorldType
<1>3. \A h \in Holders : SameList(w.obj[h], v.obj[h]) /\ Housed(h, v.obj[h]) /\ Filled(v.obj[h])
  BY <1>2 DEF SameList, WorldInv, Sound
<1> QED BY <1>2, <1>3, SameWorld

(***************************************************************************)
(* Calls                                                                    *)
(***************************************************************************)
IInv == WorldInv(World)

\* A call that makes a world in order of it.
LEMMA BecomeKeeps ==
  ASSUME NEW w, WorldInv(w), Become(w)
  PROVE  IInv'
<1>1. World' = w BY DEF WorldInv, WorldType, World, Become
<1> QED BY <1>1 DEF IInv

\* append( buff, sz ) and appendUint8.
LEMMA AppendKeeps ==
  ASSUME IInv, NEW m \in Msgs, NEW n \in Nat \ {0},
         AppendBuff(m, n) \/ (n = 1 /\ AppendUint8(m))
  PROVE  IInv'
<1> DEFINE s == NewBytes(m, n)
           S == {s[k] : k \in 1 .. n}
<1>1. s \in Seq(S) /\ Len(s) = n
  <2>1. s = [k \in 1 .. n |-> s[k]] BY DEF NewBytes
  <2> HIDE DEF s
  <2>2. s \in [1 .. n -> S] BY <2>1
  <2> HIDE DEF S
  <2> QED BY <2>2
<1>2. Credit(World, m, Len(s) + 0) /\ WorldInv(World)
  <2>1. MayGrow(m, n) /\ WorldInv(World) BY DEF AppendBuff, AppendUint8, IInv
  <2>2. Credit(World, m, n) BY <2>1, MayGrowIs DEF Credit
  <2>3. n + 0 = n OBVIOUS
  <2> QED BY <1>1, <2>1, <2>2, <2>3
<1>3. CASE AppendBuff(m, n)
  <2>1. Become(Put(World, m, s)) BY <1>3 DEF AppendBuff
  <2> HIDE DEF s, S
  <2>2. WorldInv(Put(World, m, s)) BY <1>1, <1>2, PutKeeps
  <2> QED BY <2>1, <2>2, BecomeKeeps
<1>4. CASE n = 1 /\ AppendUint8(m)
  <2>1. Become(PutChunk(World, m, s).w) BY <1>4 DEF AppendUint8
  <2>2. s # <<>> BY <1>1
  <2> HIDE DEF s, S
  <2> DEFINE c == PutChunk(World, m, s)
  <2>3. c = PutChunk(World, m, s) OBVIOUS
  <2> HIDE DEF c
  <2>4. WorldInv(c.w) BY <1>1, <1>2, <2>2, <2>3, PutChunkKeeps
  <2> QED BY <2>1, <2>4, BecomeKeeps DEF c
<1> QED BY <1>3, <1>4

\* append( it, sz ), of a message to itself as well.
LEMMA AppendIterKeeps ==
  ASSUME IInv, NEW m \in Msgs, NEW from \in Msgs, NEW k \in Nat, NEW n \in Nat,
         AppendIter(m, from, k, n)
  PROVE  IInv'
<1> DEFINE g == GetReadIter(World, from)
           b == Blocks(World, g, k, Null)
           i == b.i
           c == Blocks(World, i, n, m)
<1>1. WorldInv(World) /\ World.obj = obj BY DEF IInv, World
<1>2. IsIter(g)
  <2>1. obj[from].totalSz \in Nat BY <1>1, MsgIs
  <2>2. obj[from].totalSz \notin 1 .. TotalReserved - 1 BY DEF AppendIter
  <2> QED BY <1>1, <2>1, <2>2, GetReadIterIs
<1>3. Credit(World, m, n)
  <2>1. MayGrow(m, n) BY DEF AppendIter
  <2> QED BY <1>1, <2>1, MayGrowIs DEF Credit
<1>4. Become(c.w) BY DEF AppendIter, Read, PutFrom
<1> HIDE DEF g
<1>5. IsIter(i)
  <2>1. BlocksOk(Null, b) BY <1>2, BlocksKeep, PageAssumption
  <2> QED BY <2>1 DEF BlocksOk
<1> HIDE DEF b, i
<1>6. BlocksOk(m, c) BY <1>1, <1>3, <1>5, BlocksKeep
<1> HIDE DEF c
<1> QED BY <1>4, <1>6, BecomeKeeps DEF BlocksOk

\* clear and the destructor.
LEMMA ClearKeeps ==
  ASSUME IInv, NEW m \in Msgs, ClearMsg(m) \/ Destroy(m)
  PROVE  IInv'
<1> DEFINE v == Clear(World, m)
           z == [v EXCEPT !.obj = [@ EXCEPT ![m] = Zeroed]]
<1>1. WorldInv(World) BY DEF IInv
<1>2. Emptied(World, v, m) /\ Emptied(World, z, m) BY <1>1, ClearIs
<1>3. Become(v) \/ Become(z) BY DEF ClearMsg, Destroy
<1> HIDE DEF v, z
<1>4. WorldInv(v) /\ WorldInv(z) BY <1>1, <1>2, EmptiedKeeps
<1> QED BY <1>3, <1>4, BecomeKeeps

\* operator = ( InternalMsg&& ) and restoreFromPointer.
LEMMA TakeOverKeeps ==
  ASSUME IInv, NEW from \in Holders, NEW to \in Msgs, from # to,
         Become(Handed(Clear(World, to), from, to))
  PROVE  IInv'
<1> DEFINE u == Clear(World, to)
           v == Handed(u, from, to)
<1>1. WorldInv(World) /\ to \in Holders /\ to \notin Pages BY MsgIs DEF IInv
<1>2. Emptied(World, u, to) BY <1>1, ClearIs
<1>3. Become(v) OBVIOUS
<1> HIDE DEF u
<1>4. WorldInv(u) /\ Empty(u.obj[to]) /\ WorldType(u)
  BY <1>1, <1>2, EmptiedKeeps DEF Emptied
<1>5. HandedOver(u, v, from, to) BY <1>1, <1>4, HandedIs
<1>6. Housed(to, u.obj[from]) BY <1>1, <1>4 DEF Housed, WorldInv, Sound
<1> HIDE DEF v
<1>7. WorldInv(v) BY <1>1, <1>4, <1>5, <1>6, HandedOverKeeps
<1> QED BY <1>3, <1>7, BecomeKeeps

\* convertToPointer: the object goes to its own first page, where no object was.
LEMMA ConvertKeeps ==
  ASSUME IInv, NEW m \in Msgs, ConvertToPointer(m)
  PROVE  IInv'
<1> DEFINE w == World
           p == w.obj[m].first[0]
           v == Handed(w, m, p)
           page == [i \in Cells |-> IF i < ObjectSize THEN Null ELSE w.data[p][i]]
           da == [v.data EXCEPT ![p] = page]
           z == [v EXCEPT !.data = da]
<1>1. WorldInv(w) /\ w.obj = obj BY DEF IInv, World
<1>2. Become(z) BY <1>1 DEF ConvertToPointer, Stored
<1> HIDE DEF w
<1>3. m \in Holders /\ m \notin Pages /\ w.obj[m] \in Object /\ Sound(w, m)
  BY <1>1, MsgIs DEF WorldInv
<1>4. w.obj[m].totalSz # 0 BY <1>1 DEF ConvertToPointer
<1>5. w.obj[m].pageCnt >= 1 BY <1>3, <1>4 DEF Sound, Housed
<1>6. p \in OwnedIn(w, w.obj[m]) /\ p \in Pages
  <2>1. 0 \in Local /\ 0 < w.obj[m].pageCnt BY <1>3, <1>5, Sizes DEF Local, Object
  <2>2. p \in LocalPages(w.obj[m]) BY <2>1, PayloadIs
  <2> QED BY <1>3, <2>2 DEF OwnedIn, Payload, Sound, Numbered
<1>7. p \in Holders /\ p # m BY <1>3, <1>6 DEF Holders
<1>8. Empty(w.obj[p])
  <2>1. w.obj[p] \in Object /\ Sound(w, p) BY <1>1, <1>7 DEF WorldInv, WorldType
  <2>2. ASSUME w.obj[p] # Zeroed PROVE FALSE
    <3>1. w.obj[p].pageCnt >= 1 /\ w.obj[p].first[0] = p
      BY <1>6, <2>1, <2>2 DEF Sound, Housed
    <3>2. 0 \in Local /\ 0 < w.obj[p].pageCnt BY <2>1, <3>1, Sizes DEF Local, Object
    <3>3. p \in OwnedIn(w, w.obj[p]) BY <3>1, <3>2, PayloadIs DEF OwnedIn, Payload
    <3> HIDE DEF p
    <3>4. Separate(w) BY <1>1 DEF WorldInv
    <3> QED BY <1>3, <1>6, <1>7, <3>3, <3>4 DEF Separate
  <2> QED BY <2>2, ZeroedIs
<1>9. Housed(p, w.obj[m]) BY <1>3, <1>5 DEF Housed, Sound
<1> HIDE DEF p
<1>10. HandedOver(w, v, m, p) BY <1>1, <1>3, <1>7, HandedIs DEF WorldInv
<1> HIDE DEF v, page
<1>11. WorldInv(v) BY <1>1, <1>3, <1>7, <1>8, <1>9, <1>10, HandedOverKeeps
<1>12. WorldInv(z) BY <1>11, DataOnly
<1> QED BY <1>2, <1>12, BecomeKeeps

\* appWriteData, which may take the first page.
LEMMA AppWriteKeeps ==
  ASSUME IInv, NEW m \in Msgs, AppWriteData(m)
  PROVE  IInv'
<1> DEFINE w == IF obj[m].totalSz # 0 THEN World ELSE AddPage(World, m)
           p == w.obj[m].first[0]
           page == [i \in Cells |-> IF i \in AppCells THEN "app" ELSE w.data[p][i]]
           z == [w EXCEPT !.data = [@ EXCEPT ![p] = page]]
<1>1. WorldInv(World) /\ World.obj = obj BY DEF IInv, World
<1>2. Become(z) BY Zenon DEF AppWriteData
<1>3. WorldInv(w)
  <2>1. CASE obj[m].totalSz # 0 BY <1>1, <2>1
  <2>2. CASE obj[m].totalSz = 0
    <3> DEFINE a == AddPage(World, m)
    <3>1. MayGrow(m, 0) BY Zenon DEF AppWriteData
    <3>2. PICK k \in Nat \ {0} : \E j \in Nat : Enough(World, m, 0, k, j)
      BY <1>1, <3>1, MayGrowIs
    <3>3. PICK j \in Nat : Enough(World, m, 0, k, j) BY <3>2
    <3>4. k \in Nat /\ k >= 1 /\ Cardinality(World.free) >= k + j
          /\ k <= Slots(World, World.obj[m]) + MaxAddressedByPage * j
      BY <3>3 DEF Enough
    <3>5. HasPages(World, m) BY <1>1, <3>4, OneMorePage
    <3>6. WorldInv(a) BY <1>1, <3>5, AddPageKeeps
    <3>7. w = a BY <2>2, Zenon
    <3> HIDE DEF w, a
    <3> QED BY <3>6, <3>7
  <2> QED BY <2>1, <2>2
<1> DEFINE d == [w.data EXCEPT ![p] = page]
<1>4. z = [w EXCEPT !.data = d] OBVIOUS
<1> HIDE DEF w, p, page, d, z
<1>5. WorldInv(z) BY <1>3, <1>4, DataOnly
<1> QED BY <1>2, <1>5, BecomeKeeps

(***************************************************************************)
(* The specification                                                        *)
(***************************************************************************)
LEMMA InitHolds ==
  ASSUME Init
  PROVE  IInv
<1>1. \A h \in Holders : World.obj[h] = Zeroed BY DEF Init, World
<1>2. WorldType(World)
  <2>1. Unused \in Listing BY Sizes DEF Unused, IndexPage, Listing, Page
  <2>2. obj \in [Holders -> Object] /\ index \in [Pages -> Listing] /\ free \in SUBSET Pages
    BY <2>1, ZeroedIs DEF Init
  <2> QED BY <2>2 DEF WorldType, World
<1>3. \A h \in Holders : /\ Listed(World, World.obj[h]) /\ Numbered(World, World.obj[h])
                         /\ Filled(World.obj[h]) /\ OwnedIn(World, World.obj[h]) = {}
  BY <1>1, ZeroedIs, EmptyIs
<1>4. \A h \in Holders : Housed(h, World.obj[h]) BY <1>1, ZeroedIs DEF Housed, Empty
<1>5. Separate(World) BY <1>3 DEF Separate
<1>6. Covered(World) BY <1>3 DEF Covered, Init, World
<1> QED BY <1>2, <1>3, <1>4, <1>5, <1>6 DEF IInv, WorldInv, Sound

\* Every call keeps the world in order.
LEMMA NextKeeps ==
  ASSUME IInv, [Next]_vars
  PROVE  IInv'
<1>1. ASSUME NEW m \in Msgs, NEW n \in AppendSizes, AppendBuff(m, n) PROVE IInv'
  BY <1>1, AppendKeeps, PageAssumption
<1>2. ASSUME NEW m \in Msgs, NEW from \in Msgs, NEW k \in SkipSizes, NEW n \in AppendSizes,
             AppendIter(m, from, k, n)
      PROVE  IInv'
  <2>1. k \in Nat /\ n \in Nat BY PageAssumption
  <2> QED BY <1>2, <2>1, AppendIterKeeps
<1>3. ASSUME NEW m \in Msgs, AppendUint8(m) PROVE IInv'
  <2>1. 1 \in Nat \ {0} OBVIOUS
  <2> QED BY <1>3, <2>1, AppendKeeps
<1>4. ASSUME NEW m \in Msgs, ClearMsg(m) \/ Destroy(m) PROVE IInv'
  BY <1>4, ClearKeeps
<1>5. ASSUME NEW m \in Msgs, ConvertToPointer(m) PROVE IInv'
  BY <1>5, ConvertKeeps
<1>6. ASSUME NEW m \in AppUsers, AppWriteData(m) PROVE IInv'
  BY <1>6, AppWriteKeeps, PageAssumption
<1>7. ASSUME NEW from \in Msgs, NEW to \in Msgs, Move(from, to) PROVE IInv'
  <2>1. from \in Holders BY DEF Holders
  <2> QED BY <1>7, <2>1, TakeOverKeeps DEF Move
<1>8. ASSUME NEW m \in Msgs, NEW p \in Pages, RestoreFromPointer(m, p) PROVE IInv'
  <2>1. p \in Holders /\ p # m BY PageAssumption DEF Holders
  <2> QED BY <1>8, <2>1, TakeOverKeeps DEF RestoreFromPointer
<1>9. CASE UNCHANGED vars BY <1>9 DEF vars, IInv, World
<1> QED BY <1>1, <1>2, <1>3, <1>4, <1>5, <1>6, <1>7, <1>8, <1>9 DEF Next

\* One owner at most, counted.
LEMMA OwnersOf ==
  ASSUME IInv, NEW p \in Pages
  PROVE  LET objects == {h \in Holders : obj[h] # Zeroed}
             owning == UNION {{h} \X Owned(obj[h]) : h \in objects}
         IN Cardinality({o \in owning : o[2] = p}) = IF p \in free THEN 0 ELSE 1
<1> DEFINE objects == {h \in Holders : obj[h] # Zeroed}
           owning == UNION {{h} \X Owned(obj[h]) : h \in objects}
           mine == {o \in owning : o[2] = p}
<1>1. WorldInv(World) /\ World.obj = obj /\ World.free = free BY DEF IInv, World
<1>2. \A h \in Holders : Owned(obj[h]) = OwnedIn(World, obj[h]) BY DEF Owned, OwnedIn, Payload
<1>3. \A o : o \in owning <=> \E h \in objects : \E r \in Owned(obj[h]) : o = <<h, r>>
  OBVIOUS
<1> HIDE DEF owning
<1>4. ASSUME p \in free PROVE Cardinality(mine) = 0
  <2>1. \A h \in Holders : p \notin Owned(obj[h]) BY <1>1, <1>2, <1>4 DEF WorldInv, Covered
  <2>2. mine = {} BY <1>3, <2>1
  <2> HIDE DEF mine
  <2> QED BY <2>2, FS_EmptySet
<1>5. ASSUME p \notin free PROVE Cardinality(mine) = 1
  <2>1. PICK h \in Holders : p \in Owned(obj[h]) BY <1>1, <1>2, <1>5 DEF WorldInv, Covered
  <2>2. h \in objects
    <3>1. OwnedIn(World, Zeroed) = {} BY ZeroedIs, EmptyIs
    <3> QED BY <1>2, <2>1, <3>1
  <2>3. \A g \in Holders : p \in Owned(obj[g]) => g = h
    BY <1>1, <1>2, <2>1 DEF WorldInv, Separate
  <2>4. mine = {<<h, p>>} BY <1>3, <2>1, <2>2, <2>3
  <2>5. Cardinality({<<h, p>>}) = 1 BY FS_Singleton
  <2> HIDE DEF mine
  <2> QED BY <2>4, <2>5
<1> HIDE DEF mine
<1>6. Cardinality(mine) = IF p \in free THEN 0 ELSE 1 BY <1>4, <1>5
<1> QED BY <1>6 DEF mine, owning

\* What every world in order satisfies.
LEMMA IInvImplies ==
  ASSUME IInv
  PROVE  TypeOK /\ PageAccounting
<1>1. WorldInv(World) /\ World.obj = obj /\ World.index = index /\ World.free = free
  BY DEF IInv, World
<1>2. TypeOK BY <1>1 DEF WorldInv, WorldType, TypeOK, Object, Listing
<1>3. ASSUME NEW h \in Holders, obj[h] # Zeroed
      PROVE  /\ Cardinality(Owned(obj[h]) \ Linked(World, obj[h].next)) = obj[h].pageCnt
             /\ h \in Pages => obj[h].first[0] = h
  <2>1. Sound(World, h) BY <1>1 DEF WorldInv
  <2>2. Owned(obj[h]) \ Linked(World, obj[h].next) = Payload(World, obj[h])
    BY <1>1, <2>1 DEF Sound, Numbered, Owned, Payload
  <2> QED BY <1>1, <1>3, <2>1, <2>2 DEF Sound, Numbered, Housed
<1>4. PageAccounting BY <1>3, OwnersOf DEF PageAccounting
<1> QED BY <1>2, <1>4

\* The world is always in order.
LEMMA IInvAlways == Spec => []IInv
<1>1. Init => IInv BY InitHolds
<1>2. IInv /\ [Next]_vars => IInv' BY NextKeeps
<1> QED BY <1>1, <1>2, PTL DEF Spec

\* The members keep their types; no index page names more pages than it has room for.
THEOREM MembersKeepTypes == Spec => []TypeOK
<1>1. IInv => TypeOK BY IInvImplies
<1> QED BY <1>1, IInvAlways, PTL

\* Every page malloc gave out has one owner, through any sequence of append, clear, move,
\* conversion to a pointer and back: none is lost and none is released twice.
THEOREM PagesAccounted == Spec => []PageAccounting
<1>1. IInv => PageAccounting BY IInvImplies
<1> QED BY <1>1, IInvAlways, PTL
================================================================================
