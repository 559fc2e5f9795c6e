----------------------------- MODULE InternalMsg -----------------------------
(***************************************************************************)
(* InternalMsg, a message kept in pages, and ReadIter, which reads it.       *)
(*                                                                          *)
(* The first LocalStorageSize pages are named in the message itself, the     *)
(* others in a list of index pages.  The beginning of the first page is      *)
(* reserved: for the message object, when the message is turned into a       *)
(* pointer, and for data of the application.  One thread owns a message, so  *)
(* an action is a whole call; its loops are recursive functions.             *)
(***************************************************************************)
EXTENDS Integers, FiniteSets, FiniteSetsExt, Sequences

CONSTANTS
  Msgs,                \* variables of type InternalMsg
  Pages,               \* pages malloc can return (numbers: the lowest is taken)
  Null,                \* nullptr, and the content of a cell never written
  PageSize,            \* pageSize
  LocalStorageSize,    \* localStorageSize
  MaxAddressedByPage,  \* maxAddressedByPage
  ObjectSize,          \* sizeof( InternalMsg )
  AppReserved,         \* app_reserved
  AppUsers,            \* messages to which the application adds data of its own
  AppendSizes,         \* sizes of appended data
  SkipSizes,           \* how far a reader has come when append( it, sz ) is called
  MaxSize,             \* bound: bytes of content of a message
  MaxPointers,         \* bound: messages turned into pointers at a time
  MaxCalls,            \* bound: calls
  MaxUsed              \* bound: firstHeader.usedCnt, which clear() lets grow

TotalReserved == AppReserved + ObjectSize
Local == 0 .. LocalStorageSize - 1
Cells == 0 .. PageSize - 1
AppCells == ObjectSize .. TotalReserved - 1

ASSUME PageAssumption ==
  /\ Pages \subseteq Nat /\ IsFiniteSet(Pages) /\ Null \notin Pages \cup Msgs
  /\ {PageSize, AppReserved, ObjectSize, MaxAddressedByPage} \subseteq Nat /\ ObjectSize # 0
  /\ TotalReserved < PageSize
  /\ LocalStorageSize \in 1 .. MaxAddressedByPage
  /\ AppUsers \subseteq Msgs /\ Msgs \cap Pages = {}
  /\ AppendSizes \subseteq Nat \ {0} /\ SkipSizes \subseteq Nat

VARIABLES
  obj,     \* the object in each variable, and in the front of each page
  index,   \* index pages
  data,    \* payload pages
  free,    \* pages not handed out by malloc
  text,    \* what was appended to each object and is still its content
  app,     \* the application's data of each object
  calls    \* how many calls were made

vars == <<obj, index, data, free, text, app, calls>>

Holders == Msgs \cup Pages

\* The members of an InternalMsg, as its constructor leaves them.
Zeroed == [first |-> [i \in Local |-> Null], used |-> 0, next |-> Null,
           pageCnt |-> 0, lip |-> Null, cur |-> Null, totalSz |-> 0]

\* What a call works on: all objects, both kinds of pages, and the free ones.
World == [obj |-> obj, index |-> index, data |-> data, free |-> free]
Become(w) == obj' = w.obj /\ index' = w.index /\ data' = w.data /\ free' = w.free

(***************************************************************************)
(* Adding pages and data                                                    *)
(***************************************************************************)
OffsetInCurrentPage(o) == o.totalSz % PageSize
RemainingSizeInCurrentPage(o) == PageSize - OffsetInCurrentPage(o)

IndexPage(n, p) ==
  [used |-> n, next |-> Null,
   pages |-> [i \in 0 .. MaxAddressedByPage - 1 |-> IF i = 0 THEN p ELSE Null]]
\* What is in memory malloc does not answer for.
Unused == IndexPage(0, Null)
Unwritten == [i \in Cells |-> Null]

\* Variant (the next definition with a slip in it; the specification does not use it,
\* it shows what the properties notice): full one page too late.
IndexIsFullLate(w, q) == w.index[q].used > MaxAddressedByPage
IndexIsFull(w, q) == w.index[q].used = MaxAddressedByPage

\* The pages are taken, and o is the object of m then.
Took(w, m, pages, o) == [w EXCEPT !.free = @ \ pages, !.obj = [@ EXCEPT ![m] = o]]
Grown(o, p) == [o EXCEPT !.cur = p, !.pageCnt = @ + 1]

\* Where the new page p is named: in the message itself, in the first index page q, in
\* one more index page q, or in the last index page there is.
NameInHeader(w, m, p) ==
  LET o == w.obj[m] IN
  Took(w, m, {p}, [Grown(o, p) EXCEPT !.first = [@ EXCEPT ![o.pageCnt] = p], !.used = @ + 1])
NameInFirstIndex(w, m, p, q) ==
  [Took(w, m, {p, q}, [Grown(w.obj[m], p) EXCEPT !.next = q, !.lip = q])
     EXCEPT !.index = [@ EXCEPT ![q] = IndexPage(1, p)]]
NameInNewIndex(w, m, p, q) ==
  LET last == w.obj[m].lip IN
  [Took(w, m, {p, q}, [Grown(w.obj[m], p) EXCEPT !.lip = q])
     EXCEPT !.index = [@ EXCEPT ![q] = IndexPage(1, p),
                                ![last] = [w.index[last] EXCEPT !.next = q]]]
NamedIn(l, p) == [l EXCEPT !.pages = [@ EXCEPT ![l.used] = p], !.used = @ + 1]
NameInLastIndex(w, m, p) ==
  LET last == w.obj[m].lip IN
  [Took(w, m, {p}, Grown(w.obj[m], p))
     EXCEPT !.index = [@ EXCEPT ![last] = NamedIn(w.index[last], p)]]

\* implAddPage: a payload page p, and an index page q where one is needed.
AddPage(w, m) ==
  LET o == w.obj[m]
      p == Min(w.free)
      q == Min(w.free \ {p})
  IN CASE o.pageCnt < LocalStorageSize -> NameInHeader(w, m, p)
       [] o.pageCnt >= LocalStorageSize /\ o.lip = Null -> NameInFirstIndex(w, m, p, q)
       [] o.pageCnt >= LocalStorageSize /\ o.lip # Null /\ IndexIsFull(w, o.lip) ->
            NameInNewIndex(w, m, p, q)
       [] OTHER -> NameInLastIndex(w, m, p)

\* reserveSpaceForConvertionToTag
Reserve(w, m) ==
  LET v == AddPage(w, m)
      reserved == [v.obj[m] EXCEPT !.totalSz = @ + TotalReserved]
  IN [v EXCEPT !.obj = [@ EXCEPT ![m] = reserved]]

PageToWrite(w, m) ==
  IF w.obj[m].cur # Null THEN w
  ELSE IF w.obj[m].totalSz # 0 THEN AddPage(w, m) ELSE Reserve(w, m)

\* One round of append: as much of s as the current page takes (all of appendUint8).
PutChunk(w, m, s) ==
  LET v == PageToWrite(w, m)
      o == v.obj[m]
      off == OffsetInCurrentPage(o)
      n == Min({Len(s), RemainingSizeInCurrentPage(o)})
      after == [o EXCEPT !.totalSz = @ + n,
                         !.cur = IF n = RemainingSizeInCurrentPage(o) THEN Null ELSE @]
      cells == [i \in Cells |->
                  IF i \in off .. off + n - 1 THEN s[i - off + 1] ELSE v.data[o.cur][i]]
  IN [w |-> [v EXCEPT !.obj = [@ EXCEPT ![m] = after], !.data = [@ EXCEPT ![o.cur] = cells]],
      s |-> SubSeq(s, n + 1, Len(s))]

\* Pages that n bytes can lie in: append and read go page by page.
PagesOf(n) == n \div PageSize + 2

\* append( buff, sz ): every round but the first and the last fills a page.
Put(w, m, s) ==
  LET round[k \in 0 .. PagesOf(Len(s))] ==
        IF k = 0 THEN [w |-> w, s |-> s]
        ELSE LET r == round[k - 1] IN IF r.s = <<>> THEN r ELSE PutChunk(r.w, m, r.s)
  IN round[PagesOf(Len(s))].w

(***************************************************************************)
(* Reading                                                                  *)
(***************************************************************************)
\* ip: the header of a message or an index page; what lies behind the last entry of
\* either is no page.
HeaderUsed(w, ip) == IF ip \in Msgs THEN w.obj[ip].used ELSE w.index[ip].used
HeaderNext(w, ip) == IF ip \in Msgs THEN w.obj[ip].next ELSE w.index[ip].next
HeaderPage(w, ip, i) ==
  CASE ip \in Msgs /\ i \in Local -> w.obj[ip].first[i]
    [] ip \in Pages /\ i < MaxAddressedByPage -> w.index[ip].pages[i]
    [] OTHER -> Null

\* Variant: one page further.
AtLastPageLate(w, ip, i) == i >= HeaderUsed(w, ip)
AtLastPage(w, ip, i) == i + 1 >= HeaderUsed(w, ip)

\* getReadIter: from the first byte behind the reserve.
GetReadIter(w, m) ==
  LET sz == IF w.obj[m].totalSz = 0 THEN 0 ELSE w.obj[m].totalSz - TotalReserved
  IN [ip |-> m, idx |-> 0, page |-> w.obj[m].first[0], off |-> TotalReserved,
      total |-> sz, rem |-> Min({sz, PageSize - TotalReserved})]

\* directRead( n ), impl_skip( n ): to the next page when this one is used up.
Advance(w, i, n) ==
  LET last == AtLastPage(w, i.ip, i.idx)
      ip == IF last THEN HeaderNext(w, i.ip) ELSE i.ip
      idx == IF last THEN 0 ELSE i.idx + 1
  IN IF i.total > n /\ i.rem = n
       THEN [ip |-> ip, idx |-> idx, page |-> HeaderPage(w, ip, idx), off |-> 0,
             total |-> i.total - n, rem |-> Min({i.total - n, PageSize})]
       ELSE [i EXCEPT !.off = @ + n, !.total = @ - n, !.rem = @ - n]

\* The iterator no longer points into a page.
Astray(i) == i.total > 0 /\ i.page = Null

Bytes(w, i, n) == [k \in 1 .. n |-> w.data[i.page][i.off + k - 1]]

\* read, skip and append( it, sz ) go block by block; append puts each block into the
\* message `to` before it looks for the next one, the others put it nowhere (Null).
Blocks(w, i, n, to) ==
  LET block[k \in 0 .. PagesOf(n)] ==
        IF k = 0 THEN [w |-> w, i |-> i, left |-> n, got |-> <<>>]
        ELSE LET prev == block[k - 1]
                 c == Min({prev.left, prev.i.rem})
             IN IF c = 0 \/ Astray(prev.i) THEN prev
                ELSE LET bytes == Bytes(prev.w, prev.i, c)
                     IN [w |-> IF to = Null THEN prev.w ELSE Put(prev.w, to, bytes),
                         i |-> Advance(prev.w, prev.i, c),
                         left |-> prev.left - c, got |-> prev.got \o bytes]
  IN block[PagesOf(n)]

Read(w, i, n) == Blocks(w, i, n, Null)

\* append( it, sz ): source and target may be the same message.
PutFrom(w, m, i, n) == Blocks(w, i, n, m).w

(***************************************************************************)
(* Releasing                                                                *)
(***************************************************************************)
\* The index pages from p on, and what the pages and the message itself name.
Linked(w, p) ==
  LET nth[k \in 1 .. Cardinality(Pages)] ==
        IF k = 1 THEN p
        ELSE LET q == nth[k - 1] IN IF q = Null THEN Null ELSE w.index[q].next
  IN {nth[k] : k \in 1 .. Cardinality(Pages)} \ {Null}
LocalPages(o) == {o.first[i] : i \in {j \in Local : j < o.pageCnt}}
IndexedPages(w, o) ==
  UNION {{w.index[q].pages[j] : j \in 0 .. w.index[q].used - 1} : q \in Linked(w, o.next)}

\* Variant: the index pages themselves are kept.
ReleasedPayload(w, o) == LocalPages(o) \cup IndexedPages(w, o)
\* implReleaseAllPages looks for index pages only when pages remain to be released.
Released(w, o) ==
  IF o.pageCnt <= LocalStorageSize THEN LocalPages(o)
  ELSE LocalPages(o) \cup IndexedPages(w, o) \cup Linked(w, o.next)

\* impl_clear: the pages named in the header, and their number, stay as they are.
Clear(w, m) ==
  LET gone == Released(w, w.obj[m])
      cleared == [w.obj[m] EXCEPT !.next = Null, !.lip = Null, !.cur = Null,
                                  !.totalSz = 0, !.pageCnt = 0]
  IN [w EXCEPT !.free = @ \cup gone,
               !.data = [p \in Pages |-> IF p \in gone THEN Unwritten ELSE @[p]],
               !.index = [p \in Pages |-> IF p \in gone THEN Unused ELSE @[p]],
               !.obj = [@ EXCEPT ![m] = cleared]]

\* The object in `from` becomes that in `to`; nothing is left behind.
Handed(w, from, to) ==
  [w EXCEPT !.obj = [@ EXCEPT ![to] = w.obj[from], ![from] = Zeroed]]
HandedHistory(from, to) ==
  /\ text' = [text EXCEPT ![to] = text[from], ![from] = <<>>]
  /\ app' = [app EXCEPT ![to] = app[from], ![from] = Null]

(***************************************************************************)
(* Calls                                                                    *)
(***************************************************************************)
Counted == calls < MaxCalls /\ calls' = calls + 1

\* malloc succeeds, and the bounds.
MayGrow(m, n) ==
  /\ LET pages == (n + TotalReserved) \div PageSize + 1
     IN Cardinality(free) >= pages + pages \div MaxAddressedByPage + 1
  /\ Len(text[m]) + n <= MaxSize /\ obj[m].used <= MaxUsed

NewBytes(m, n) == [k \in 1 .. n |-> <<m, Len(text[m]) + k>>]

AppendBuff(m, n) ==
  /\ Counted
  /\ MayGrow(m, n)
  /\ Become(Put(World, m, NewBytes(m, n)))
  /\ text' = [text EXCEPT ![m] = @ \o NewBytes(m, n)]
  /\ UNCHANGED app

AppendUint8(m) ==
  /\ Counted
  /\ MayGrow(m, 1)
  /\ Become(PutChunk(World, m, NewBytes(m, 1)).w)
  /\ text' = [text EXCEPT ![m] = @ \o NewBytes(m, 1)]
  /\ UNCHANGED app

\* append( it, sz ), with a reader of `from` that has read k bytes.
AppendIter(m, from, k, n) ==
  LET i == Read(World, GetReadIter(World, from), k).i IN
  /\ Counted
  /\ obj[from].totalSz \notin 1 .. TotalReserved - 1 /\ ~Astray(i)
  /\ MayGrow(m, n)
  /\ Become(PutFrom(World, m, i, n))
  /\ text' = [text EXCEPT ![m] = @ \o Read(World, i, n).got]
  /\ UNCHANGED app

ClearMsg(m) ==
  /\ Counted
  /\ Become(Clear(World, m))
  /\ text' = [text EXCEPT ![m] = <<>>] /\ app' = [app EXCEPT ![m] = Null]

\* ~InternalMsg; the variable then holds a new message.
Destroy(m) ==
  /\ Counted
  /\ LET w == Clear(World, m) IN Become([w EXCEPT !.obj = [@ EXCEPT ![m] = Zeroed]])
  /\ text' = [text EXCEPT ![m] = <<>>] /\ app' = [app EXCEPT ![m] = Null]

\* to = std::move( from )
Move(from, to) ==
  /\ Counted
  /\ from # to
  /\ Become(Handed(Clear(World, to), from, to))
  /\ HandedHistory(from, to)

\* Variant: all of the reserve is taken for the object.
StoredInReserve(w, m, p) ==
  LET v == Handed(w, m, p)
      page == [i \in Cells |-> IF i < TotalReserved THEN Null ELSE w.data[p][i]]
  IN [v EXCEPT !.data = [@ EXCEPT ![p] = page]]
\* The object is stored in the front of its own first page.
Stored(w, m, p) ==
  LET v == Handed(w, m, p)
      page == [i \in Cells |-> IF i < ObjectSize THEN Null ELSE w.data[p][i]]
  IN [v EXCEPT !.data = [@ EXCEPT ![p] = page]]

\* An empty message gives nullptr.
ConvertToPointer(m) ==
  /\ Counted
  /\ obj[m].totalSz # 0 /\ Cardinality({p \in Pages : obj[p] # Zeroed}) < MaxPointers
  /\ Become(Stored(World, m, obj[m].first[0]))
  /\ HandedHistory(m, obj[m].first[0])

\* restoreFromPointer( ptr ); with nullptr it is ClearMsg.
RestoreFromPointer(m, p) ==
  /\ Counted
  /\ obj[p] # Zeroed
  /\ Become(Handed(Clear(World, m), p, m))
  /\ HandedHistory(p, m)

\* appWriteData, of all the reserved bytes; an empty message gets its first page.
AppWriteData(m) ==
  /\ Counted
  /\ MayGrow(m, 0)
  /\ obj[m].totalSz = 0 => obj[m].cur = Null
  /\ LET w == IF obj[m].totalSz # 0 THEN World ELSE AddPage(World, m)
         p == w.obj[m].first[0]
         page == [i \in Cells |-> IF i \in AppCells THEN "app" ELSE w.data[p][i]]
     IN Become([w EXCEPT !.data = [@ EXCEPT ![p] = page]])
  /\ app' = [app EXCEPT ![m] = "app"]
  /\ UNCHANGED text

(***************************************************************************)
(* The specification                                                        *)
(***************************************************************************)
Init ==
  /\ obj = [h \in Holders |-> Zeroed]
  /\ index = [p \in Pages |-> Unused] /\ data = [p \in Pages |-> Unwritten]
  /\ free = Pages
  /\ text = [h \in Holders |-> <<>>] /\ app = [h \in Holders |-> Null]
  /\ calls = 0

Next ==
  \/ \E m \in Msgs, n \in AppendSizes : AppendBuff(m, n)
  \/ \E m \in Msgs, from \in Msgs, k \in SkipSizes, n \in AppendSizes : AppendIter(m, from, k, n)
  \/ \E m \in Msgs : AppendUint8(m) \/ ClearMsg(m) \/ Destroy(m) \/ ConvertToPointer(m)
  \/ \E m \in AppUsers : AppWriteData(m)
  \/ \E m \in Msgs, n \in Msgs : Move(m, n)
  \/ \E m \in Msgs, p \in Pages : RestoreFromPointer(m, p)

Spec == Init /\ [][Next]_vars

(***************************************************************************)
(* Properties                                                               *)
(***************************************************************************)
Page == Pages \cup {Null}
\* The members have the types of their declarations; an index page never names more
\* pages than it has room for.
TypeOK ==
  /\ obj \in [Holders -> [first : [Local -> Page], used : Nat, next : Page, pageCnt : Nat,
                          lip : Page, cur : Page, totalSz : Nat]]
  /\ index \in [Pages -> [used : 0 .. MaxAddressedByPage, next : Page,
                          pages : [0 .. MaxAddressedByPage - 1 -> Page]]]
  /\ free \in SUBSET Pages

\* Every page malloc gave out belongs to exactly one message, as payload or as index
\* page, and a message counts its payload pages correctly: none is lost, none would be
\* freed twice, through any sequence of append, clear, move and conversion.  A message
\* turned into a pointer lies in a page of its own.
Owned(o) == LocalPages(o) \cup IndexedPages(World, o) \cup Linked(World, o.next)
PageAccounting ==
  LET objects == {h \in Holders : obj[h] # Zeroed}
      owning == UNION {{h} \X Owned(obj[h]) : h \in objects}
  IN
  /\ \A p \in Pages : Cardinality({o \in owning : o[2] = p}) = IF p \in free THEN 0 ELSE 1
  /\ \A h \in objects :
       /\ Cardinality(Owned(obj[h]) \ Linked(World, obj[h].next)) = obj[h].pageCnt
       /\ h \in Pages => obj[h].first[0] = h

\* A message that was not used again after clear() and to which nothing of the
\* application was added before its content.
WellBegun(h) ==
  /\ obj[h].used = Min({obj[h].pageCnt, LocalStorageSize})
  /\ obj[h].totalSz = IF text[h] = <<>> THEN 0 ELSE TotalReserved + Len(text[h])

\* What reading a message in pieces of n bytes gives.
InPieces(m, n) ==
  LET i == GetReadIter(World, m)
      pieces == Len(text[m]) \div n + 1
      piece[k \in 0 .. pieces] ==
        IF k = 0 THEN [i |-> i, got |-> <<>>]
        ELSE LET d == piece[k - 1]
                 r == Read(World, d.i, n)
             IN [i |-> r.i, got |-> d.got \o r.got]
  IN piece[pieces].got

\* Reading a message in pieces of any size gives what was appended to it: the pages are
\* found in the order in which they were added, across the header and the index pages.
ReadsBack(m) == \A n \in {PageSize - 1, PageSize + 1} : InPieces(m, n) = text[m]
ReadBack == \A m \in Msgs : WellBegun(m) => ReadsBack(m)

\* The application's data stay what they were through appending, moving, conversion
\* and restoring.
AppDataKept ==
  \A h \in Holders :
    app[h] # Null /\ WellBegun(h) => \A i \in AppCells : data[obj[h].first[0]][i] = app[h]

\* Every message reads back what was appended to it, also when it was used before.
ReusedReadBack == \A m \in Msgs : ReadsBack(m)
=============================================================================
