-------------------------- MODULE ErrorValuesProofs --------------------------
(***************************************************************************)
(* Proofs about ErrorValues: types, that everything in memory has one owner,  *)
(* that nothing but two assignments loses memory, that texts are made as      *)
(* StackInfoCache says, and stay with their stacks.                          *)
(***************************************************************************)
EXTENDS ErrorValues, StackInfoCacheProofs

(***************************************************************************)
(* Who owns what, for one kind of memory.  P is what each owner refers to, F  *)
(* the memory.                                                              *)
(***************************************************************************)
OwnedBy(P, F) ==
  /\ \A w \in DOMAIN P : P[w] # Null => P[w] \in DOMAIN F /\ F[P[w]] # Null
  /\ \A w, x \in DOMAIN P : w # x /\ P[w] # Null => P[w] # P[x]

\* From memory F to memory G: all but a is kept, and b, if it is anything, is new (or a).
KeptBut(F, G, a, b) ==
  /\ DOMAIN G = DOMAIN F
  /\ \A x \in DOMAIN F : F[x] # Null /\ x # a => G[x] = F[x]
  /\ b # Null => b \in DOMAIN F /\ G[b] # Null /\ (F[b] = Null \/ b = a)

\* Nothing is new but b, and a is not there any more, unless it is b.
NoOther(F, G, a, b) == \A x \in DOMAIN F : G[x] # Null /\ x # b => F[x] # Null /\ x # a
Swaps(F, G, a, b) == KeptBut(F, G, a, b) /\ NoOther(F, G, a, b)

\* What is in memory, and nobody refers to.
LostIn(P, F) == {x \in DOMAIN F : F[x] # Null /\ \A w \in DOMAIN P : P[w] # x}

\* One owner lets go of what it has and takes something new.
LEMMA OwnerUpdates ==
  ASSUME NEW P, NEW F, NEW G, NEW D, P = [w \in D |-> P[w]], OwnedBy(P, F),
         NEW w \in D, NEW b, KeptBut(F, G, P[w], b)
  PROVE OwnedBy([P EXCEPT ![w] = b], G)
<1> DEFINE Q == [P EXCEPT ![w] = b]
<1>1. DOMAIN P = D /\ DOMAIN Q = D /\ Q[w] = b /\ \A x \in D : x # w => Q[x] = P[x]
  OBVIOUS
<1>2. ASSUME NEW x \in D, x # w, P[x] # Null
      PROVE P[x] \in DOMAIN G /\ G[P[x]] # Null /\ P[x] # b
  <2>1. P[x] \in DOMAIN F /\ F[P[x]] # Null /\ P[x] # P[w] BY <1>1, <1>2 DEF OwnedBy
  <2> QED BY <2>1, <1>2 DEF KeptBut
<1>3. b # Null => b \in DOMAIN G /\ G[b] # Null BY DEF KeptBut
<1>4. ASSUME NEW x \in D, NEW y \in D, x # y, Q[x] # Null PROVE Q[x] # Q[y]
  <2>1. CASE x = w BY <2>1, <1>1, <1>2, <1>4
  <2>2. CASE y = w BY <2>2, <1>1, <1>2, <1>4
  <2>3. CASE x # w /\ y # w BY <2>3, <1>1, <1>4 DEF OwnedBy
  <2> QED BY <2>1, <2>2, <2>3
<1>5. ASSUME NEW x \in D, Q[x] # Null PROVE Q[x] \in DOMAIN G /\ G[Q[x]] # Null
  BY <1>1, <1>2, <1>3, <1>5
<1> QED BY <1>1, <1>4, <1>5 DEF OwnedBy

\* One owner hands over what it has to another, which lets go of its own.
LEMMA OwnersMove ==
  ASSUME NEW P, NEW F, NEW G, NEW D, P = [w \in D |-> P[w]], OwnedBy(P, F),
         NEW w \in D, NEW f \in D, w # f, KeptBut(F, G, P[w], Null)
  PROVE OwnedBy([P EXCEPT ![w] = P[f], ![f] = Null], G)
<1> DEFINE Q == [P EXCEPT ![w] = P[f], ![f] = Null]
<1>1. DOMAIN P = D /\ DOMAIN Q = D /\ Q[w] = P[f] /\ Q[f] = Null
      /\ \A x \in D : x # w /\ x # f => Q[x] = P[x]
  OBVIOUS
<1>2. ASSUME NEW x \in D, x # w, P[x] # Null PROVE P[x] \in DOMAIN G /\ G[P[x]] # Null
  <2>1. P[x] \in DOMAIN F /\ F[P[x]] # Null /\ P[x] # P[w] BY <1>1, <1>2 DEF OwnedBy
  <2> QED BY <2>1, <1>2 DEF KeptBut
<1>3. ASSUME NEW x \in D, Q[x] # Null PROVE Q[x] \in DOMAIN G /\ G[Q[x]] # Null
  BY <1>1, <1>2, <1>3
<1>4. ASSUME NEW x \in D, NEW y \in D, x # y, Q[x] # Null PROVE Q[x] # Q[y]
  <2>1. CASE x = w BY <2>1, <1>1, <1>4 DEF OwnedBy
  <2>2. CASE x # w BY <2>2, <1>1, <1>4 DEF OwnedBy
  <2> QED BY <2>1, <2>2
<1> QED BY <1>1, <1>3, <1>4 DEF OwnedBy

\* It loses nothing but what it had, and not that when that is freed.
LEMMA OwnerLoses ==
  ASSUME NEW P, NEW F, NEW G, NEW D, P = [w \in D |-> P[w]], NEW w \in D, NEW a, NEW b,
         DOMAIN G = DOMAIN F, NoOther(F, G, a, b)
  PROVE LET Q == [P EXCEPT ![w] = b] IN
        /\ LostIn(Q, G) \subseteq LostIn(P, F) \cup {P[w]}
        /\ a = P[w] => LostIn(Q, G) \subseteq LostIn(P, F)
<1> DEFINE Q == [P EXCEPT ![w] = b]
<1>1. DOMAIN P = D /\ DOMAIN Q = D /\ Q[w] = b /\ \A x \in D : x # w => Q[x] = P[x]
  OBVIOUS
<1> HIDE DEF Q
<1>2. ASSUME NEW x \in LostIn(Q, G)
      PROVE x \in DOMAIN F /\ F[x] # Null /\ x # a /\ \A y \in D : y # w => P[y] # x
  BY <1>1 DEF LostIn, NoOther
<1>3. LostIn(Q, G) \subseteq LostIn(P, F) \cup {P[w]} BY <1>1, <1>2 DEF LostIn
<1>4. a = P[w] => LostIn(Q, G) \subseteq LostIn(P, F) BY <1>2, <1>3
<1> QED BY <1>3, <1>4 DEF Q

\* So it is when it takes what another has.
LEMMA MoveLoses ==
  ASSUME NEW P, NEW F, NEW G, NEW D, P = [w \in D |-> P[w]], NEW w \in D, NEW f \in D, w # f,
         NEW a, DOMAIN G = DOMAIN F, NoOther(F, G, a, Null), Null \notin DOMAIN F
  PROVE LET Q == [P EXCEPT ![w] = P[f], ![f] = Null] IN
        /\ LostIn(Q, G) \subseteq LostIn(P, F) \cup {P[w]}
        /\ a = P[w] => LostIn(Q, G) \subseteq LostIn(P, F)
<1> DEFINE Q == [P EXCEPT ![w] = P[f], ![f] = Null]
<1>1. /\ DOMAIN P = D /\ DOMAIN Q = D /\ Q[w] = P[f]
      /\ \A x \in D : x # w /\ x # f => Q[x] = P[x]
  OBVIOUS
<1> HIDE DEF Q
<1>2. ASSUME NEW x \in LostIn(Q, G)
      PROVE x \in DOMAIN F /\ F[x] # Null /\ x # a /\ \A y \in D : y # w => P[y] # x
  BY <1>1 DEF LostIn, NoOther
<1>3. LostIn(Q, G) \subseteq LostIn(P, F) \cup {P[w]} BY <1>1, <1>2 DEF LostIn
<1>4. a = P[w] => LostIn(Q, G) \subseteq LostIn(P, F) BY <1>2, <1>3
<1> QED BY <1>3, <1>4 DEF Q

\* Something let go of, then something taken.
LEMMA SwapsThrough ==
  ASSUME NEW F, NEW G, NEW H, NEW a, NEW c,
         Swaps(F, G, a, Null), Swaps(G, H, Null, c), Null \notin DOMAIN F
  PROVE Swaps(F, H, a, c)
<1>1. DOMAIN G = DOMAIN F /\ DOMAIN H = DOMAIN F BY DEF Swaps, KeptBut
<1>2. ASSUME NEW x \in DOMAIN F, F[x] # Null, x # a PROVE H[x] = F[x] /\ G[x] = F[x]
  <2>1. G[x] = F[x] BY <1>2 DEF Swaps, KeptBut
  <2> QED BY <2>1, <1>1, <1>2 DEF Swaps, KeptBut
<1>3. ASSUME c # Null PROVE c \in DOMAIN F /\ H[c] # Null /\ (F[c] = Null \/ c = a)
  <2>1. c \in DOMAIN F /\ H[c] # Null /\ G[c] = Null BY <1>1, <1>3 DEF Swaps, KeptBut
  <2> QED BY <2>1, <1>2
<1>4. ASSUME NEW x \in DOMAIN F, H[x] # Null, x # c PROVE F[x] # Null /\ x # a
  <2>1. G[x] # Null BY <1>1, <1>4 DEF Swaps, NoOther
  <2> QED BY <1>4, <2>1 DEF Swaps, NoOther
<1> QED BY <1>1, <1>2, <1>3, <1>4 DEF Swaps, KeptBut, NoOther

\* Something taken, something else taken, and the first let go of.
LEMMA SwapsThroughArgument ==
  ASSUME NEW F, NEW G, NEW H, NEW K, NEW a, NEW b,
         Swaps(F, G, Null, a), Swaps(G, H, Null, b), Swaps(H, K, a, Null),
         Null \notin DOMAIN F
  PROVE Swaps(F, K, Null, b)
<1>1. DOMAIN K = DOMAIN F /\ DOMAIN H = DOMAIN F /\ DOMAIN G = DOMAIN F BY DEF Swaps, KeptBut
<1>2. ASSUME NEW x \in DOMAIN F, F[x] # Null PROVE K[x] = F[x] /\ G[x] = F[x]
  <2>1. G[x] = F[x] BY <1>2 DEF Swaps, KeptBut
  <2>2. H[x] = G[x] BY <1>1, <1>2, <2>1 DEF Swaps, KeptBut
  <2>3. x # a BY <1>2, <1>1 DEF Swaps, KeptBut
  <2> QED BY <2>1, <2>2, <2>3, <1>1, <1>2 DEF Swaps, KeptBut
<1>3. ASSUME b # Null PROVE b \in DOMAIN F /\ K[b] # Null /\ F[b] = Null
  <2>1. b \in DOMAIN F /\ H[b] # Null /\ G[b] = Null BY <1>1, <1>3 DEF Swaps, KeptBut
  <2>2. b # a BY <2>1, <1>3 DEF Swaps, KeptBut
  <2>3. K[b] = H[b] BY <2>1, <2>2, <1>1 DEF Swaps, KeptBut
  <2> QED BY <2>1, <2>3, <1>2
<1>4. ASSUME NEW x \in DOMAIN F, K[x] # Null, x # b PROVE F[x] # Null /\ x # Null
  <2>1. H[x] # Null /\ x # a BY <1>1, <1>4 DEF Swaps, NoOther
  <2>2. G[x] # Null BY <1>1, <1>4, <2>1 DEF Swaps, NoOther
  <2> QED BY <1>4, <2>1, <2>2 DEF Swaps, NoOther
<1> QED BY <1>1, <1>2, <1>3, <1>4 DEF Swaps, KeptBut, NoOther

(***************************************************************************)
(* Memory as a whole                                                        *)
(***************************************************************************)
ValueHeap == [ValueIds -> ValueType \cup {Null}]
FrameHeap == [FrameIds -> Traces \cup {Null}]
StringHeap == [StringIds -> Seq(Infos) \cup {Null}]
Heaps == [values : ValueHeap, frames : FrameHeap, strings : StringHeap]

\* A text says of each pointer of a stack what the cache has of it.
Says(text, s) ==
  Len(text) = Len(s) /\ \A i \in 1 .. Len(text) : text[i] = resolvedData[s[i]]

\* The text r in strings S, if there is one, is of the stack p in frames F, if there is one.
IsOf(F, p, S, r) == p # Null /\ r # Null => (S[r] # <<>> => Says(S[r], F[p]))

\* What a StackInfo refers to is there, and its text is its own.
IsIn(info, m) ==
  /\ info \in StackInfoType
  /\ info.ptrs # Null => m.frames[info.ptrs] # Null
  /\ info.whereTaken.str # Null => m.strings[info.whereTaken.str] # Null
  /\ IsOf(m.frames, info.ptrs, m.strings, info.whereTaken.str)

\* Memory changes from m to n, and a StackInfo in it from info to new, with a text of its own.
Replaces(m, n, info, new) ==
  /\ n \in Heaps /\ n.values = m.values /\ new \in StackInfoType
  /\ IsOf(n.frames, new.ptrs, n.strings, new.whereTaken.str)
  /\ Swaps(m.frames, n.frames, info.ptrs, new.ptrs)
  /\ Swaps(m.strings, n.strings, info.whereTaken.str, new.whereTaken.str)

\* A string reference: a literal is empty, and one that is not may refer to any string.
LEMMA RefParts ==
  ASSUME NEW r \in StringRefType
  PROVE /\ r.str \in StringIds \cup {Null} /\ r.fromLiteral \in BOOLEAN
        /\ r.fromLiteral => r.str = Null
        /\ \A s \in StringIds \cup {Null} :
             (r.fromLiteral => s = Null)
               => [r EXCEPT !.str = s] \in StringRefType /\ [r EXCEPT !.str = s].str = s
<1>1. CASE r = EmptyLiteral
  <2>1. EmptyLiteral \in [fromLiteral : {TRUE}, str : {Null}] BY DEF EmptyLiteral
  <2>2. r \in [fromLiteral : {TRUE}, str : {Null}] BY <1>1, <2>1
  <2>3. [r EXCEPT !.str = Null] \in [fromLiteral : {TRUE}, str : {Null}] BY <2>2
  <2>4. ASSUME NEW x \in [fromLiteral : {TRUE}, str : {Null}] PROVE x = EmptyLiteral
    <3>1. x = [fromLiteral |-> x.fromLiteral, str |-> x.str] OBVIOUS
    <3>2. x.fromLiteral = TRUE /\ x.str = Null OBVIOUS
    <3> QED BY <3>1, <3>2 DEF EmptyLiteral
  <2> QED BY <1>1, <2>1, <2>2, <2>3, <2>4 DEF StringRefType
<1>2. CASE r \in [fromLiteral : {FALSE}, str : StringIds \cup {Null}]
  BY <1>2 DEF StringRefType
<1> QED BY <1>1, <1>2 DEF StringRefType

\* The references that refer to nothing.
LEMMA EmptyRefs ==
  /\ EmptyLiteral \in StringRefType /\ EmptyLiteral.str = Null
  /\ MovedString \in StringRefType /\ MovedString.str = Null
BY DEF StringRefType, EmptyLiteral, MovedString

\* A StackInfo is made of its parts.
LEMMA InfoOfParts ==
  ASSUME NEW p \in FrameIds \cup {Null}, NEW r \in StringRefType
  PROVE Info(p, r) \in StackInfoType /\ Info(p, r).ptrs = p /\ Info(p, r).whereTaken = r
BY DEF Info, StackInfoType

\* The parts of a StackInfo, and one that was moved.
LEMMA InfoParts ==
  /\ \A i \in StackInfoType : i.ptrs \in FrameIds \cup {Null} /\ i.whereTaken \in StringRefType
  /\ MovedInfo \in StackInfoType /\ MovedInfo.ptrs = Null /\ MovedInfo.whereTaken.str = Null
<1>1. MovedInfo \in StackInfoType /\ MovedInfo.ptrs = Null /\ MovedInfo.whereTaken = MovedString
  BY InfoOfParts, EmptyRefs DEF MovedInfo
<1> QED BY <1>1, EmptyRefs DEF StackInfoType

\* malloc for stack pointers.
LEMMA StoreFrames ==
  ASSUME NEW m \in Heaps, NEW s \in Traces
  PROVE LET r == Store(m, "frames", s) IN
        /\ r.heap \in Heaps /\ r.heap.values = m.values /\ r.heap.strings = m.strings
        /\ r.id \in FrameIds \cup {Null} /\ (r.id # Null => r.heap.frames[r.id] = s)
        /\ Swaps(m.frames, r.heap.frames, Null, r.id)
<1> DEFINE F == m.frames
           id == AnyOf(Free(F))
<1>1. F \in FrameHeap /\ DOMAIN F = FrameIds BY DEF Heaps, FrameHeap
<1>2. CASE Free(F) = {}
  BY <1>1, <1>2 DEF Store, Swaps, KeptBut, NoOther
<1>3. CASE Free(F) # {}
  <2>1. id \in FrameIds /\ F[id] = Null BY <1>1, <1>3 DEF AnyOf, Free, Live
  <2> DEFINE G == [F EXCEPT ![id] = s]
             n == [m EXCEPT !["frames"] = G]
  <2>2. Store(m, "frames", s) = [id |-> id, heap |-> n] BY <1>3 DEF Store
  <2>3. G \in FrameHeap BY <1>1, <2>1 DEF FrameHeap
  <2>4. Swaps(F, G, Null, id) BY <1>1, <2>1, MemoryAssumption DEF Swaps, KeptBut, NoOther
  <2>5. G[id] = s BY <1>1, <2>1
  <2> HIDE DEF G, id
  <2>6. /\ n \in Heaps /\ n.values = m.values /\ n.frames = G
        /\ n.strings = m.strings
    BY <2>3 DEF Heaps
  <2> HIDE DEF n
  <2> QED BY <2>1, <2>2, <2>4, <2>5, <2>6
<1> QED BY <1>2, <1>3

\* strdup.
LEMMA StoreString ==
  ASSUME NEW m \in Heaps, NEW s \in Seq(Infos)
  PROVE LET r == Store(m, "strings", s) IN
        /\ r.heap \in Heaps /\ r.heap.values = m.values /\ r.heap.frames = m.frames
        /\ r.id \in StringIds \cup {Null} /\ (r.id # Null => r.heap.strings[r.id] = s)
        /\ Swaps(m.strings, r.heap.strings, Null, r.id)
<1> DEFINE F == m.strings
           id == AnyOf(Free(F))
<1>1. F \in StringHeap /\ DOMAIN F = StringIds BY DEF Heaps, StringHeap
<1>2. CASE Free(F) = {}
  BY <1>1, <1>2 DEF Store, Swaps, KeptBut, NoOther
<1>3. CASE Free(F) # {}
  <2>1. id \in StringIds /\ F[id] = Null BY <1>1, <1>3 DEF AnyOf, Free, Live
  <2> DEFINE G == [F EXCEPT ![id] = s]
             n == [m EXCEPT !["strings"] = G]
  <2>2. Store(m, "strings", s) = [id |-> id, heap |-> n] BY <1>3 DEF Store
  <2>3. G \in StringHeap BY <1>1, <2>1 DEF StringHeap
  <2>4. Swaps(F, G, Null, id) BY <1>1, <2>1, MemoryAssumption DEF Swaps, KeptBut, NoOther
  <2>5. G[id] = s BY <1>1, <2>1
  <2> HIDE DEF G, id
  <2>6. /\ n \in Heaps /\ n.values = m.values /\ n.strings = G
        /\ n.frames = m.frames
    BY <2>3 DEF Heaps
  <2> HIDE DEF n
  <2> QED BY <2>1, <2>2, <2>4, <2>5, <2>6
<1> QED BY <1>2, <1>3

\* free of stack pointers.
LEMMA ReleaseFrames ==
  ASSUME NEW m \in Heaps, NEW id \in FrameIds \cup {Null}
  PROVE LET n == Release(m, "frames", id) IN
        /\ n \in Heaps /\ n.values = m.values /\ n.strings = m.strings
        /\ Swaps(m.frames, n.frames, id, Null)
<1>1. m.frames \in FrameHeap /\ DOMAIN m.frames = FrameIds BY DEF Heaps, FrameHeap
<1>2. CASE id = Null
  BY <1>1, <1>2 DEF Release, Swaps, KeptBut, NoOther
<1>3. CASE id # Null
  <2>1. Release(m, "frames", id) = [m EXCEPT !["frames"] = [m.frames EXCEPT ![id] = Null]]
    BY <1>3 DEF Release
  <2>2. [m.frames EXCEPT ![id] = Null] \in FrameHeap BY <1>1 DEF FrameHeap
  <2>3. Swaps(m.frames, [m.frames EXCEPT ![id] = Null], id, Null)
    BY <1>1 DEF Swaps, KeptBut, NoOther
  <2> QED BY <2>1, <2>2, <2>3 DEF Heaps
<1> QED BY <1>2, <1>3

\* release_str.
LEMMA ReleaseString ==
  ASSUME NEW m \in Heaps, NEW r \in StringRefType
  PROVE LET n == ReleaseStr(m, r) IN
        /\ n \in Heaps /\ n.values = m.values /\ n.frames = m.frames
        /\ Swaps(m.strings, n.strings, r.str, Null)
<1>1. m.strings \in StringHeap /\ DOMAIN m.strings = StringIds BY DEF Heaps, StringHeap
<1>2. r.str \in StringIds \cup {Null} /\ (r.fromLiteral => r.str = Null) BY RefParts
<1>3. CASE r.fromLiteral \/ r.str = Null
  BY <1>1, <1>2, <1>3 DEF ReleaseStr, Release, Swaps, KeptBut, NoOther
<1>4. CASE ~r.fromLiteral /\ r.str # Null
  <2>1. ReleaseStr(m, r) = [m EXCEPT !["strings"] = [m.strings EXCEPT ![r.str] = Null]]
    BY <1>4 DEF ReleaseStr, Release
  <2>2. [m.strings EXCEPT ![r.str] = Null] \in StringHeap BY <1>1 DEF StringHeap
  <2>3. Swaps(m.strings, [m.strings EXCEPT ![r.str] = Null], r.str, Null)
    BY <1>1 DEF Swaps, KeptBut, NoOther
  <2> QED BY <2>1, <2>2, <2>3 DEF Heaps
<1> QED BY <1>3, <1>4

\* StackPointers::init.
LEMMA InitFrames ==
  ASSUME NEW m \in Heaps, NEW s \in Traces \cup {<<>>}
  PROVE LET r == InitPointers(m, s) IN
        /\ r.heap \in Heaps /\ r.heap.values = m.values /\ r.heap.strings = m.strings
        /\ r.id \in FrameIds \cup {Null}
        /\ r.id # Null => s # <<>> /\ r.heap.frames[r.id] = s
        /\ Swaps(m.frames, r.heap.frames, Null, r.id)
<1>1. CASE s = <<>>
  <2>1. InitPointers(m, s) = [id |-> Null, heap |-> m] BY <1>1 DEF InitPointers
  <2> QED BY <2>1 DEF Swaps, KeptBut, NoOther
<1>2. CASE s # <<>>
  <2>1. InitPointers(m, s) = Store(m, "frames", s) BY <1>2 DEF InitPointers
  <2> QED BY <1>2, <2>1, StoreFrames
<1> QED BY <1>1, <1>2

\* duplicate_str.
LEMMA DuplicateString ==
  ASSUME NEW m \in Heaps, NEW r \in StringRefType, r.str # Null => m.strings[r.str] # Null
  PROVE LET d == DuplicateStr(m, r) IN
        /\ d.heap \in Heaps /\ d.heap.values = m.values /\ d.heap.frames = m.frames
        /\ d.id \in StringIds \cup {Null} /\ (r.fromLiteral => d.id = Null)
        /\ d.id # Null => r.str # Null /\ d.heap.strings[d.id] = m.strings[r.str]
        /\ Swaps(m.strings, d.heap.strings, Null, d.id)
<1>1. r.str \in StringIds \cup {Null} /\ (r.fromLiteral => r.str = Null) BY RefParts
<1>2. CASE r.fromLiteral \/ r.str = Null
  <2>1. DuplicateStr(m, r) = [id |-> Null, heap |-> m] BY <1>1, <1>2 DEF DuplicateStr
  <2> QED BY <2>1 DEF Swaps, KeptBut, NoOther
<1>3. CASE ~(r.fromLiteral \/ r.str = Null)
  <2>1. DuplicateStr(m, r) = Store(m, "strings", m.strings[r.str]) BY <1>3 DEF DuplicateStr
  <2>2. m.strings[r.str] \in Seq(Infos) BY <1>1, <1>3 DEF Heaps, StringHeap
  <2> QED BY <1>3, <2>1, <2>2, StoreString
<1> QED BY <1>2, <1>3

\* What was put in memory is there.
LEMMA NewIsIn ==
  ASSUME NEW m, NEW n, NEW info, NEW new, Replaces(m, n, info, new)
  PROVE IsIn(new, n)
BY DEF Replaces, IsIn, Swaps, KeptBut, NoOther

\* preinit takes what it refers to.
LEMMA CapturedIsNew ==
  ASSUME NEW m \in Heaps, NEW s \in Traces
  PROVE /\ Replaces(m, Captured(m, s).heap, MovedInfo, Captured(m, s).info)
        /\ Captured(m, s).info.whereTaken = EmptyLiteral
<1> DEFINE f == InitPointers(m, s)
<1>1. /\ f.heap \in Heaps /\ f.heap.values = m.values /\ f.heap.strings = m.strings
      /\ f.id \in FrameIds \cup {Null} /\ Swaps(m.frames, f.heap.frames, Null, f.id)
  BY InitFrames
<1>2. Captured(m, s) = [info |-> Info(f.id, EmptyLiteral), heap |-> f.heap] BY DEF Captured
<1> HIDE DEF f
<1>3. /\ Info(f.id, EmptyLiteral) \in StackInfoType
      /\ Info(f.id, EmptyLiteral).ptrs = f.id
      /\ Info(f.id, EmptyLiteral).whereTaken = EmptyLiteral
      /\ Info(f.id, EmptyLiteral).whereTaken.str = Null
  BY <1>1, InfoOfParts, EmptyRefs
<1>4. Swaps(m.strings, m.strings, Null, Null) BY DEF Swaps, KeptBut, NoOther
<1> QED BY <1>1, <1>2, <1>3, <1>4, InfoParts DEF Replaces, IsOf

\* A copy shares nothing with what it was copied from, and has no text if that has none.
LEMMA CopyIsNew ==
  ASSUME NEW m \in Heaps, NEW info, IsIn(info, m)
  PROVE /\ Replaces(m, CopiedInfo(m, info).heap, MovedInfo, CopiedInfo(m, info).info)
        /\ info.whereTaken.str = Null => CopiedInfo(m, info).info.whereTaken.str = Null
<1> DEFINE f == InitPointers(m, Pointed(m, info.ptrs))
           d == DuplicateStr(f.heap, info.whereTaken)
           r == [info.whereTaken EXCEPT !.str = d.id]
<1>1. info.ptrs \in FrameIds \cup {Null} /\ info.whereTaken \in StringRefType
  BY InfoParts DEF IsIn
<1>2. Pointed(m, info.ptrs) \in Traces \cup {<<>>}
  BY <1>1 DEF Pointed, IsIn, Heaps, FrameHeap
<1>3. /\ f.heap \in Heaps /\ f.heap.values = m.values /\ f.heap.strings = m.strings
      /\ f.id \in FrameIds \cup {Null} /\ Swaps(m.frames, f.heap.frames, Null, f.id)
      /\ f.id # Null => info.ptrs # Null /\ f.heap.frames[f.id] = m.frames[info.ptrs]
  BY <1>2, InitFrames DEF Pointed
<1>4. CopiedInfo(m, info) = [info |-> Info(f.id, r), heap |-> d.heap] BY DEF CopiedInfo
<1> HIDE DEF f
<1>5. /\ d.heap \in Heaps /\ d.heap.values = m.values /\ d.heap.frames = f.heap.frames
      /\ d.id \in StringIds \cup {Null} /\ (info.whereTaken.fromLiteral => d.id = Null)
      /\ d.id # Null =>
           info.whereTaken.str # Null /\ d.heap.strings[d.id] = m.strings[info.whereTaken.str]
      /\ Swaps(m.strings, d.heap.strings, Null, d.id)
  <2>1. info.whereTaken.str # Null => f.heap.strings[info.whereTaken.str] # Null
    BY <1>3 DEF IsIn
  <2> QED BY <1>1, <1>3, <2>1, DuplicateString
<1> HIDE DEF d
<1>6. r \in StringRefType /\ r.str = d.id BY <1>1, <1>5, RefParts
<1> HIDE DEF r
<1>7. Info(f.id, r) \in StackInfoType /\ Info(f.id, r).ptrs = f.id /\ Info(f.id, r).whereTaken = r
  BY <1>3, <1>6, InfoOfParts
<1>8. IsOf(d.heap.frames, f.id, d.heap.strings, d.id)
  BY <1>3, <1>5 DEF IsIn, IsOf
<1> QED BY <1>3, <1>4, <1>5, <1>6, <1>7, <1>8, InfoParts DEF Replaces

\* What a StackInfo had is let go of.
LEMMA InfoIsReleased ==
  ASSUME NEW m \in Heaps, NEW info \in StackInfoType
  PROVE Replaces(m, ReleasedInfo(m, info), info, MovedInfo)
<1> DEFINE f == Release(m, "frames", info.ptrs)
           n == ReleaseStr(f, info.whereTaken)
<1>1. info.ptrs \in FrameIds \cup {Null} /\ info.whereTaken \in StringRefType BY InfoParts
<1>2. /\ f \in Heaps /\ f.values = m.values /\ f.strings = m.strings
      /\ Swaps(m.frames, f.frames, info.ptrs, Null)
  BY <1>1, ReleaseFrames
<1>3. ReleasedInfo(m, info) = n BY DEF ReleasedInfo
<1> HIDE DEF f
<1>4. /\ n \in Heaps /\ n.values = f.values /\ n.frames = f.frames
      /\ Swaps(f.strings, n.strings, info.whereTaken.str, Null)
  BY <1>1, <1>2, ReleaseString
<1> HIDE DEF n
<1> QED BY <1>2, <1>3, <1>4, InfoParts DEF Replaces, IsOf

\* Assignment: what the one had is let go of, what it takes is its own.
LEMMA AssignedIsNew ==
  ASSUME NEW m \in Heaps, NEW info \in StackInfoType, NEW other,
         IsIn(other, ReleasedInfo(m, info)), Null \notin FrameIds \cup StringIds
  PROVE Replaces(m, AssignedInfo(m, info, other).heap, info, AssignedInfo(m, info, other).info)
<1> DEFINE n == ReleasedInfo(m, info)
           c == CopiedInfo(n, other)
<1>1. AssignedInfo(m, info, other) = c BY DEF AssignedInfo
<1>2. Replaces(m, n, info, MovedInfo) BY InfoIsReleased
<1>3. n \in Heaps BY <1>2 DEF Replaces
<1>4. Replaces(n, c.heap, MovedInfo, c.info) BY <1>3, CopyIsNew
<1> HIDE DEF n, c
<1>5. /\ Swaps(m.frames, n.frames, info.ptrs, Null)
      /\ Swaps(m.strings, n.strings, info.whereTaken.str, Null)
      /\ n.values = m.values
  BY <1>2, InfoParts DEF Replaces
<1>6. /\ Swaps(n.frames, c.heap.frames, Null, c.info.ptrs)
      /\ Swaps(n.strings, c.heap.strings, Null, c.info.whereTaken.str)
      /\ c.heap \in Heaps /\ c.heap.values = n.values /\ c.info \in StackInfoType
      /\ IsOf(c.heap.frames, c.info.ptrs, c.heap.strings, c.info.whereTaken.str)
  BY <1>4, InfoParts DEF Replaces
<1>7. DOMAIN m.frames = FrameIds /\ DOMAIN m.strings = StringIds
  BY DEF Heaps, FrameHeap, StringHeap
<1>8. /\ Swaps(m.frames, c.heap.frames, info.ptrs, c.info.ptrs)
      /\ Swaps(m.strings, c.heap.strings, info.whereTaken.str, c.info.whereTaken.str)
  BY <1>5, <1>6, <1>7, SwapsThrough
<1> QED BY <1>1, <1>5, <1>6, <1>8 DEF Replaces

\* A stack is copied from an argument, which took it and is destroyed.
LEMMA ArgumentIsNew ==
  ASSUME NEW m \in Heaps, NEW s \in Traces, Null \notin FrameIds \cup StringIds
  PROVE LET argument == Captured(m, s)
            copy == CopiedInfo(argument.heap, argument.info)
        IN Replaces(m, ReleasedInfo(copy.heap, argument.info), MovedInfo, copy.info)
<1> DEFINE argument == Captured(m, s)
           copy == CopiedInfo(argument.heap, argument.info)
           n == ReleasedInfo(copy.heap, argument.info)
<1>1. /\ Replaces(m, argument.heap, MovedInfo, argument.info)
      /\ argument.info.whereTaken.str = Null
  BY CapturedIsNew, EmptyRefs
<1>2. argument.heap \in Heaps /\ argument.info \in StackInfoType BY <1>1 DEF Replaces
<1>3. IsIn(argument.info, argument.heap) BY <1>1, NewIsIn
<1> HIDE DEF argument
<1>4. /\ Replaces(argument.heap, copy.heap, MovedInfo, copy.info)
      /\ copy.info.whereTaken.str = Null
  BY <1>1, <1>2, <1>3, CopyIsNew
<1>5. copy.heap \in Heaps /\ copy.info \in StackInfoType BY <1>4 DEF Replaces
<1> HIDE DEF copy
<1>6. Replaces(copy.heap, n, argument.info, MovedInfo) BY <1>2, <1>5, InfoIsReleased
<1> HIDE DEF n
<1>7. n \in Heaps /\ n.values = m.values BY <1>1, <1>4, <1>6 DEF Replaces
<1>8. DOMAIN m.frames = FrameIds /\ DOMAIN m.strings = StringIds
  BY DEF Heaps, FrameHeap, StringHeap
<1>9. Swaps(m.frames, n.frames, Null, copy.info.ptrs)
  <2>1. /\ Swaps(m.frames, argument.heap.frames, Null, argument.info.ptrs)
        /\ Swaps(argument.heap.frames, copy.heap.frames, Null, copy.info.ptrs)
        /\ Swaps(copy.heap.frames, n.frames, argument.info.ptrs, Null)
    BY <1>1, <1>4, <1>6, InfoParts DEF Replaces
  <2> QED BY <1>8, <2>1, SwapsThroughArgument
<1>10. Swaps(m.strings, n.strings, Null, copy.info.whereTaken.str)
  <2>1. /\ Swaps(m.strings, argument.heap.strings, Null, argument.info.whereTaken.str)
        /\ Swaps(argument.heap.strings, copy.heap.strings, Null, copy.info.whereTaken.str)
        /\ Swaps(copy.heap.strings, n.strings, argument.info.whereTaken.str, Null)
    BY <1>1, <1>4, <1>6, InfoParts DEF Replaces
  <2> QED BY <1>8, <2>1, SwapsThroughArgument
<1>11. Replaces(m, n, MovedInfo, copy.info)
  BY <1>4, <1>5, <1>7, <1>9, <1>10, InfoParts DEF Replaces, IsOf
<1> QED BY <1>11 DEF argument, copy, n

(***************************************************************************)
(* The invariant                                                            *)
(***************************************************************************)
\* What the errors and the owners refer to.
Vals == [e \in AllErrors |-> IF errors[e] = Gone THEN Null ELSE errors[e].value]
Ptrs == [w \in Owners |-> InfoAt(w).ptrs]
Strs == [w \in Owners |-> InfoAt(w).whereTaken.str]

ValuesOwned == OwnedBy(Vals, values)
PtrsOwned == OwnedBy(Ptrs, frames)
StrsOwned == OwnedBy(Strs, strings)
NoStringLost == LostIn(Strs, strings) = {}

\* What a text is made of is there, and its thread holds it.
Targets == \A t \in Threads : ~Idle(t) =>
  /\ target[t] \in Errors \cup StackInfos
  /\ HolderOf[target[t]] = t
  /\ IF target[t] \in AllErrors THEN HasValue(target[t]) ELSE infos[target[t]] # Gone

\* The stack each owner has, the texts that were made, and what the texts being made are of.
Traced == [w \in Owners |-> IF Ptrs[w] = Null THEN <<>> ELSE frames[Ptrs[w]]]
TextsOwn == \A w \in Owners : IsOf(frames, Ptrs[w], strings, Strs[w])
OwnerOf(o) == IF o \in AllErrors THEN errors[o].value ELSE o
Stacks == \A t \in Threads : ~Idle(t) => stack[t] = Traced[OwnerOf(target[t])]

Inv == /\ TypeOK /\ ValuesOwned /\ PtrsOwned /\ StrsOwned /\ Targets /\ CacheInv
       /\ TextsOwn /\ Stacks /\ NoStringLost

\* What a step loses: the value of an error that is assigned to, and the stack pointers of a
\* StackInfo that another is moved to.
Losses ==
  /\ \A v \in LostIn(Vals', values') \ LostIn(Vals, values) :
       \E e \in Errors : HasValue(e) /\ errors[e].value = v /\ errors'[e] # Gone
  /\ \A f \in LostIn(Ptrs', frames') \ LostIn(Ptrs, frames) :
       \E i, j \in StackInfos :
         /\ infos[i] # Gone /\ infos[i].ptrs = f
         /\ i # j /\ infos[j] # Gone /\ infos'[i] = infos[j] /\ infos'[j] = MovedInfo

\* Memory and its parts.
LEMMA HeapIsOne ==
  ASSUME TypeOK
  PROVE /\ Heap \in Heaps /\ Heap.values = values /\ Heap.frames = frames /\ Heap.strings = strings
        /\ values \in ValueHeap /\ frames \in FrameHeap /\ strings \in StringHeap
BY DEF TypeOK, Heap, Heaps, ValueHeap, FrameHeap, StringHeap

\* What an owner has is a StackInfo.
LEMMA InfoAtType ==
  ASSUME TypeOK, NEW w \in Owners
  PROVE InfoAt(w) \in StackInfoType
<1>1. CASE w \in StackInfos /\ infos[w] # Gone
  <2>1. infos[w] \in StackInfoType BY <1>1 DEF TypeOK
  <2> QED BY <1>1, <2>1 DEF InfoAt
<1>2. CASE w \in ValueIds /\ w \notin StackInfos /\ values[w] # Null
  <2>1. values[w] \in ValueType BY <1>2 DEF TypeOK
  <2> QED BY <1>2, <2>1 DEF InfoAt, ValueType
<1>3. CASE InfoAt(w) = MovedInfo
  BY <1>3, InfoParts
<1> QED BY <1>1, <1>2, <1>3 DEF Owners, InfoAt

\* What it refers to is there.
LEMMA InfoAtIsIn ==
  ASSUME TypeOK, PtrsOwned, StrsOwned, TextsOwn, NEW w \in Owners
  PROVE IsIn(InfoAt(w), Heap)
<1>1. InfoAt(w) \in StackInfoType BY InfoAtType
<1>2. InfoAt(w).ptrs # Null => frames[InfoAt(w).ptrs] # Null
  BY DEF PtrsOwned, Ptrs, OwnedBy
<1>3. InfoAt(w).whereTaken.str # Null => strings[InfoAt(w).whereTaken.str] # Null
  BY DEF StrsOwned, Strs, OwnedBy
<1>4. IsOf(frames, InfoAt(w).ptrs, strings, InfoAt(w).whereTaken.str)
  BY DEF TextsOwn, Ptrs, Strs
<1> QED BY <1>1, <1>2, <1>3, <1>4, HeapIsOne DEF IsIn

\* One owner's StackInfo changes, and memory with it.
LEMMA InfoChanges ==
  ASSUME TypeOK, PtrsOwned, StrsOwned, TextsOwn, NEW w \in Owners, NEW n, NEW new,
         Replaces(Heap, n, InfoAt(w), new), frames' = n.frames, strings' = n.strings,
         resolvedData' = resolvedData,
         Ptrs' = [Ptrs EXCEPT ![w] = new.ptrs], Strs' = [Strs EXCEPT ![w] = new.whereTaken.str]
  PROVE /\ PtrsOwned' /\ StrsOwned' /\ frames' \in FrameHeap /\ strings' \in StringHeap
        /\ TextsOwn' /\ \A x \in Owners : x # w => Traced'[x] = Traced[x]
        /\ LostIn(Ptrs', frames') \subseteq LostIn(Ptrs, frames)
        /\ LostIn(Strs', strings') \subseteq LostIn(Strs, strings)
<1>1. /\ KeptBut(frames, frames', Ptrs[w], new.ptrs)
      /\ KeptBut(strings, strings', Strs[w], new.whereTaken.str)
      /\ frames' \in FrameHeap /\ strings' \in StringHeap
      /\ NoOther(frames, frames', Ptrs[w], new.ptrs)
      /\ NoOther(strings, strings', Strs[w], new.whereTaken.str)
      /\ DOMAIN frames' = DOMAIN frames /\ DOMAIN strings' = DOMAIN strings
  BY HeapIsOne DEF Replaces, Swaps, KeptBut, Ptrs, Strs, Heaps
<1>2. Ptrs = [x \in Owners |-> Ptrs[x]] /\ Strs = [x \in Owners |-> Strs[x]] BY DEF Ptrs, Strs
<1>3. OwnedBy(Ptrs', frames')
  BY <1>1, <1>2, OwnerUpdates DEF PtrsOwned
<1>4. OwnedBy(Strs', strings')
  BY <1>1, <1>2, OwnerUpdates DEF StrsOwned
<1>5. ASSUME NEW x \in Owners, x # w
      PROVE /\ Ptrs'[x] = Ptrs[x] /\ (Ptrs[x] # Null => frames'[Ptrs[x]] = frames[Ptrs[x]])
            /\ Strs'[x] = Strs[x] /\ (Strs[x] # Null => strings'[Strs[x]] = strings[Strs[x]])
  <2>1. Ptrs'[x] = Ptrs[x] /\ Strs'[x] = Strs[x] BY <1>2, <1>5
  <2>2. DOMAIN Ptrs = Owners /\ DOMAIN Strs = Owners BY <1>2
  <2>3. Ptrs[x] # Null =>
          Ptrs[x] # Ptrs[w] /\ Ptrs[x] \in DOMAIN frames /\ frames[Ptrs[x]] # Null
    BY <1>5, <2>2 DEF PtrsOwned, OwnedBy
  <2>4. Strs[x] # Null =>
          Strs[x] # Strs[w] /\ Strs[x] \in DOMAIN strings /\ strings[Strs[x]] # Null
    BY <1>5, <2>2 DEF StrsOwned, OwnedBy
  <2> QED BY <1>1, <2>1, <2>3, <2>4 DEF KeptBut
<1>6. TextsOwn'
  <2>1. IsOf(frames', Ptrs'[w], strings', Strs'[w])
    <3>1. Ptrs'[w] = new.ptrs /\ Strs'[w] = new.whereTaken.str BY <1>2
    <3> QED BY <3>1 DEF Replaces
  <2>2. ASSUME NEW x \in Owners, x # w PROVE IsOf(frames', Ptrs'[x], strings', Strs'[x])
    <3>1. IsOf(frames, Ptrs[x], strings, Strs[x]) BY DEF TextsOwn
    <3> DEFINE p == Ptrs[x]
               r == Strs[x]
    <3>2. /\ Ptrs'[x] = p /\ (p # Null => frames'[p] = frames[p])
          /\ Strs'[x] = r /\ (r # Null => strings'[r] = strings[r])
      BY <1>5, <2>2
    <3> HIDE DEF p, r
    <3>3. IsOf(frames', p, strings', r)
      BY <3>1, <3>2 DEF p, r, IsOf
    <3> QED BY <3>2, <3>3
  <2>3. \A x \in Owners : IsOf(frames', Ptrs'[x], strings', Strs'[x]) BY <2>1, <2>2
  <2> QED BY <2>3 DEF TextsOwn, IsOf, Says
<1>7. ASSUME NEW x \in Owners, x # w PROVE Traced'[x] = Traced[x]
  BY <1>5, <1>7 DEF Traced
<1>8. LostIn(Ptrs', frames') \subseteq LostIn(Ptrs, frames) BY <1>1, <1>2, OwnerLoses
<1>9. LostIn(Strs', strings') \subseteq LostIn(Strs, strings) BY <1>1, <1>2, OwnerLoses
<1> QED BY <1>1, <1>3, <1>4, <1>6, <1>7, <1>8, <1>9 DEF PtrsOwned, StrsOwned

\* The other threads go on with what they make the text of.
LEMMA OthersTargets ==
  ASSUME TypeOK, Targets, NEW t \in Threads, Idle(t), UNCHANGED <<cacheVars, target>>,
         \A e \in Errors : HolderOf[e] # t => errors'[e] = errors[e],
         \A i \in StackInfos : HolderOf[i] # t => infos'[i] = infos[i]
  PROVE Targets' /\ target' \in [Threads -> Errors \cup StackInfos \cup {Null}]
<1>1. ASSUME NEW u \in Threads, ~Idle(u)'
      PROVE /\ target'[u] \in Errors \cup StackInfos /\ HolderOf[target'[u]] = u
            /\ IF target'[u] \in AllErrors THEN HasValue(target[u])' ELSE infos'[target'[u]] # Gone
  <2>1. at' = at /\ target' = target BY DEF cacheVars
  <2>2. ~Idle(u) /\ u # t BY <1>1, <2>1 DEF Idle
  <2>3. /\ target[u] \in Errors \cup StackInfos /\ HolderOf[target[u]] = u
        /\ IF target[u] \in AllErrors THEN HasValue(target[u]) ELSE infos[target[u]] # Gone
    BY <2>2 DEF Targets
  <2>4. CASE target[u] \in Errors
    BY <2>1, <2>2, <2>3, <2>4 DEF HasValue, AllErrors
  <2>5. CASE target[u] \in StackInfos
    BY <2>1, <2>2, <2>3, <2>5, ErrorAssumption DEF AllErrors
  <2> QED BY <2>3, <2>4, <2>5
<1> QED BY <1>1 DEF Targets, TypeOK, HasValue

\* What the other threads make the text of is not what the thread has, and is not free.
LEMMA OwnersApart ==
  ASSUME TypeOK, ValuesOwned, NEW t \in Threads, NEW o \in Errors \cup StackInfos,
         HolderOf[o] # t, IF o \in AllErrors THEN HasValue(o) ELSE infos[o] # Gone
  PROVE /\ OwnerOf(o) \in Owners
        /\ \A i \in StackInfos : HolderOf[i] = t => OwnerOf(o) # i
        /\ \A e \in Errors : HolderOf[e] = t => OwnerOf(o) # Vals[e]
        /\ \A v \in ValueIds : values[v] = Null => OwnerOf(o) # v
<1>1. CASE o \in AllErrors
  <2>1. o \in Errors BY <1>1, ErrorAssumption DEF AllErrors
  <2>2. OwnerOf(o) = Vals[o] /\ Vals[o] # Null BY <1>1 DEF OwnerOf, Vals, HasValue
  <2>3. DOMAIN Vals = AllErrors /\ DOMAIN values = ValueIds BY DEF Vals, TypeOK
  <2>4. Vals[o] \in ValueIds /\ values[Vals[o]] # Null
    BY <1>1, <2>2, <2>3 DEF ValuesOwned, OwnedBy
  <2>5. \A e \in Errors : HolderOf[e] = t => Vals[o] # Vals[e]
    BY <1>1, <2>2, <2>3 DEF ValuesOwned, OwnedBy, AllErrors
  <2> QED BY <2>2, <2>4, <2>5, ErrorAssumption DEF Owners
<1>2. CASE o \notin AllErrors
  <2>1. o \in StackInfos /\ OwnerOf(o) = o BY <1>2 DEF OwnerOf, AllErrors
  <2>2. \A e \in Errors : Vals[e] \in ValueIds \cup {Null}
    BY DEF Vals, TypeOK, ErrorType, AllErrors
  <2> QED BY <2>1, <2>2, ErrorAssumption, MemoryAssumption DEF Owners
<1> QED BY <1>1, <1>2

\* The stacks of the others stay as well.
LEMMA OthersStacks ==
  ASSUME Targets, Stacks, NEW t \in Threads, Idle(t), UNCHANGED <<cacheVars, target>>,
         \A e \in Errors : HolderOf[e] # t => errors'[e] = errors[e],
         \A o \in Errors \cup StackInfos :
           HolderOf[o] # t /\ (IF o \in AllErrors THEN HasValue(o) ELSE infos[o] # Gone)
             => Traced'[OwnerOf(o)] = Traced[OwnerOf(o)]
  PROVE Stacks'
<1>1. ASSUME NEW u \in Threads, ~Idle(u)' PROVE stack'[u] = Traced'[OwnerOf(target[u])']
  <2>1. at' = at /\ stack' = stack /\ target' = target BY DEF cacheVars
  <2>2. ~Idle(u) /\ u # t BY <1>1, <2>1 DEF Idle
  <2>3. /\ target[u] \in Errors \cup StackInfos /\ HolderOf[target[u]] = u
        /\ IF target[u] \in AllErrors THEN HasValue(target[u]) ELSE infos[target[u]] # Gone
        /\ stack[u] = Traced[OwnerOf(target[u])]
    BY <2>2 DEF Targets, Stacks
  <2>4. OwnerOf(target[u])' = OwnerOf(target[u])
    <3>1. CASE target[u] \in AllErrors
      BY <2>1, <2>2, <2>3, <3>1, ErrorAssumption DEF OwnerOf, AllErrors
    <3>2. CASE target[u] \notin AllErrors
      BY <2>1, <3>2 DEF OwnerOf
    <3> QED BY <3>1, <3>2
  <2> QED BY <2>1, <2>2, <2>3, <2>4
<1> QED BY <1>1 DEF Stacks

\* Entries of the cache stay as they are, so texts that were made are still right.
LEMMA CacheTexts ==
  ASSUME TypeOK, PtrsOwned, StrsOwned, TextsOwn, Ptrs' = Ptrs, Strs' = Strs, frames' = frames,
         strings' = strings,
         \A p \in Pointers : resolvedData[p] # Unresolved => resolvedData'[p] = resolvedData[p]
  PROVE TextsOwn'
<1>1. ASSUME NEW w \in Owners, Ptrs[w] # Null, Strs[w] # Null, strings[Strs[w]] # <<>>
      PROVE /\ Len(strings[Strs[w]]) = Len(frames[Ptrs[w]])
            /\ \A i \in 1 .. Len(strings[Strs[w]]) :
                 strings[Strs[w]][i] = resolvedData'[frames[Ptrs[w]][i]]
  <2>1. IsOf(frames, Ptrs[w], strings, Strs[w]) BY DEF TextsOwn
  <2>2. Says(strings[Strs[w]], frames[Ptrs[w]]) BY <1>1, <2>1 DEF IsOf
  <2>3. DOMAIN Ptrs = Owners /\ DOMAIN Strs = Owners BY DEF Ptrs, Strs
  <2>4. Ptrs[w] \in DOMAIN frames /\ frames[Ptrs[w]] # Null
    BY <1>1, <2>3 DEF PtrsOwned, OwnedBy
  <2>5. Strs[w] \in DOMAIN strings /\ strings[Strs[w]] # Null
    BY <1>1, <2>3 DEF StrsOwned, OwnedBy
  <2>6. frames[Ptrs[w]] \in Seq(Pointers) /\ strings[Strs[w]] \in Seq(Infos)
    BY <2>4, <2>5, CacheAssumption DEF TypeOK
  <2>7. ASSUME NEW i \in 1 .. Len(strings[Strs[w]])
        PROVE strings[Strs[w]][i] = resolvedData'[frames[Ptrs[w]][i]]
    <3>1. strings[Strs[w]][i] = resolvedData[frames[Ptrs[w]][i]] BY <2>2 DEF Says
    <3>2. strings[Strs[w]][i] \in Infos BY <2>6, Elements
    <3>3. frames[Ptrs[w]][i] \in Pointers BY <2>2, <2>6, Elements DEF Says
    <3>4. Unresolved \notin Infos BY CacheAssumption DEF Infos
    <3> QED BY <3>1, <3>2, <3>3, <3>4
  <2> QED BY <2>2, <2>7 DEF Says
<1> QED BY <1>1 DEF TextsOwn, IsOf, Says

\* The cache is as it was.
LEMMA CacheStays == ASSUME CacheInv, UNCHANGED cacheVars PROVE CacheInv' /\ CacheTypeOK'
<1>1. CacheInv' BY CacheStepKeeps
<1> QED BY <1>1 DEF CacheInv

\* What each owner refers to in the next state, when one of them has another StackInfo.
LEMMA OneInfoChanges ==
  ASSUME NEW w \in Owners, NEW new,
         \A x \in Owners : Ptrs'[x] = IF x = w THEN new.ptrs ELSE Ptrs[x],
         \A x \in Owners : Strs'[x] = IF x = w THEN new.whereTaken.str ELSE Strs[x]
  PROVE /\ Ptrs' = [Ptrs EXCEPT ![w] = new.ptrs]
        /\ Strs' = [Strs EXCEPT ![w] = new.whereTaken.str]
<1>1. /\ Ptrs' = [x \in Owners |-> Ptrs'[x]] /\ Strs' = [x \in Owners |-> Strs'[x]]
      /\ Ptrs = [x \in Owners |-> Ptrs[x]] /\ Strs = [x \in Owners |-> Strs[x]]
  BY DEF Ptrs, Strs
<1> QED BY <1>1

\* A StackInfo object of the thread changes.
LEMMA PutInfoKeeps ==
  ASSUME Inv, NEW t \in Threads, NEW i \in StackInfos, Mine(t, i), NEW x, NEW new, PutInfo(i, x),
         x.info = new \/ (x.info = Gone /\ new = MovedInfo),
         Replaces(Heap, x.heap, InfoAt(i), new)
  PROVE Inv' /\ Losses
<1>1. /\ infos' = [infos EXCEPT ![i] = x.info] /\ values' = x.heap.values
      /\ frames' = x.heap.frames /\ strings' = x.heap.strings
      /\ UNCHANGED <<cacheVars, errors, target>>
  BY DEF PutInfo, PutMemory
<1>2. /\ TypeOK /\ PtrsOwned /\ StrsOwned /\ TextsOwn /\ ValuesOwned /\ Targets /\ Stacks
      /\ CacheInv /\ NoStringLost /\ i \in Owners
  BY DEF Inv, Owners
<1>3. new \in StackInfoType /\ new # Gone /\ values' = values
  BY <1>1, <1>2, HeapIsOne, MemoryAssumption DEF Replaces
<1>4. infos \in [StackInfos -> StackInfoType \cup {Gone}] BY <1>2 DEF TypeOK
<1>5. ASSUME NEW w \in Owners
      PROVE /\ Ptrs'[w] = IF w = i THEN new.ptrs ELSE Ptrs[w]
            /\ Strs'[w] = IF w = i THEN new.whereTaken.str ELSE Strs[w]
  <2>1. CASE w = i
    BY <1>1, <1>3, <1>4, <2>1 DEF Ptrs, Strs, InfoAt
  <2>2. CASE w # i
    BY <1>1, <1>3, <1>4, <2>2 DEF Ptrs, Strs, InfoAt
  <2> QED BY <2>1, <2>2
<1>6. Ptrs' = [Ptrs EXCEPT ![i] = new.ptrs] /\ Strs' = [Strs EXCEPT ![i] = new.whereTaken.str]
  BY <1>2, <1>5, OneInfoChanges
<1>7. /\ PtrsOwned' /\ StrsOwned' /\ frames' \in FrameHeap /\ strings' \in StringHeap
      /\ TextsOwn' /\ \A y \in Owners : y # i => Traced'[y] = Traced[y]
      /\ LostIn(Ptrs', frames') \subseteq LostIn(Ptrs, frames) /\ NoStringLost'
  BY <1>1, <1>2, <1>6, InfoChanges DEF cacheVars, NoStringLost
<1>8. ValuesOwned' BY <1>1, <1>2, <1>3 DEF ValuesOwned, Vals
<1>9. Targets' /\ target' \in [Threads -> Errors \cup StackInfos \cup {Null}]
  BY <1>1, <1>2, OthersTargets DEF Mine
<1>10. CacheInv' /\ CacheTypeOK' BY <1>1, <1>2, CacheStays
<1>11. TypeOK'
  <2>1. infos' \in [StackInfos -> StackInfoType \cup {Gone}] BY <1>1, <1>3, <1>4
  <2> QED BY <1>1, <1>2, <1>3, <1>7, <1>9, <1>10, <2>1 DEF TypeOK, FrameHeap, StringHeap
<1>12. Stacks'
  <2>1. \A o \in Errors \cup StackInfos :
          HolderOf[o] # t /\ (IF o \in AllErrors THEN HasValue(o) ELSE infos[o] # Gone)
            => Traced'[OwnerOf(o)] = Traced[OwnerOf(o)]
    BY <1>2, <1>7, OwnersApart DEF Mine
  <2> QED BY <1>1, <1>2, <2>1, OthersStacks DEF Mine
<1>13. Losses
  <2>1. Vals' = Vals BY <1>1 DEF Vals
  <2> QED BY <1>3, <1>7, <2>1 DEF Losses
<1> QED BY <1>7, <1>8, <1>9, <1>10, <1>11, <1>12, <1>13 DEF Inv

\* StackInfo( true )
LEMMA CaptureKeeps ==
  ASSUME Inv, NEW t \in Threads, NEW i \in StackInfos, NEW s \in Traces, Capture(t, i, s)
  PROVE Inv' /\ Losses
<1> DEFINE x == Captured(Heap, s)
<1>1. Mine(t, i) /\ infos[i] = Gone /\ PutInfo(i, x) BY DEF Capture
<1>2. InfoAt(i) = MovedInfo BY <1>1 DEF InfoAt
<1>3. Heap \in Heaps BY HeapIsOne DEF Inv
<1>4. Replaces(Heap, x.heap, InfoAt(i), x.info) BY <1>2, <1>3, CapturedIsNew
<1> HIDE DEF x
<1> QED BY <1>1, <1>4, PutInfoKeeps

\* A copy.
LEMMA CopyInfoKeeps ==
  ASSUME Inv, NEW t \in Threads, NEW i \in StackInfos, NEW from \in StackInfos,
         CopyInfo(t, i, from)
  PROVE Inv' /\ Losses
<1> DEFINE x == CopiedInfo(Heap, infos[from])
<1>1. Mine(t, i) /\ infos[i] = Gone /\ infos[from] # Gone /\ PutInfo(i, x) BY DEF CopyInfo
<1>2. InfoAt(i) = MovedInfo /\ InfoAt(from) = infos[from] BY <1>1 DEF InfoAt
<1>3. Heap \in Heaps BY HeapIsOne DEF Inv
<1>4. IsIn(infos[from], Heap) BY <1>2, InfoAtIsIn DEF Inv, Owners
<1>5. Replaces(Heap, x.heap, InfoAt(i), x.info) BY <1>2, <1>3, <1>4, CopyIsNew
<1> HIDE DEF x
<1> QED BY <1>1, <1>5, PutInfoKeeps

\* What one owner has stays there when another lets go of its own.
LEMMA OtherStays ==
  ASSUME TypeOK, PtrsOwned, StrsOwned, TextsOwn, NEW w \in Owners, NEW v \in Owners, v # w
  PROVE IsIn(InfoAt(v), ReleasedInfo(Heap, InfoAt(w)))
<1> DEFINE n == ReleasedInfo(Heap, InfoAt(w))
<1>1. InfoAt(w) \in StackInfoType /\ InfoAt(v) \in StackInfoType BY InfoAtType
<1>2. Replaces(Heap, n, InfoAt(w), MovedInfo) BY <1>1, HeapIsOne, InfoIsReleased
<1>3. IsIn(InfoAt(v), Heap) BY InfoAtIsIn
<1> HIDE DEF n
<1>4. InfoAt(v).ptrs # Null =>
        /\ n.frames[InfoAt(v).ptrs] # Null
        /\ n.frames[InfoAt(v).ptrs] = frames[InfoAt(v).ptrs]
  <2>1. ASSUME InfoAt(v).ptrs # Null
        PROVE /\ InfoAt(v).ptrs \in DOMAIN frames /\ frames[InfoAt(v).ptrs] # Null
              /\ InfoAt(v).ptrs # InfoAt(w).ptrs
    BY <2>1 DEF PtrsOwned, OwnedBy, Ptrs
  <2>2. KeptBut(frames, n.frames, InfoAt(w).ptrs, Null)
    BY <1>2, HeapIsOne, InfoParts DEF Replaces, Swaps
  <2> QED BY <2>1, <2>2 DEF KeptBut
<1>5. InfoAt(v).whereTaken.str # Null =>
        /\ n.strings[InfoAt(v).whereTaken.str] # Null
        /\ n.strings[InfoAt(v).whereTaken.str] = strings[InfoAt(v).whereTaken.str]
  <2>1. ASSUME InfoAt(v).whereTaken.str # Null
        PROVE /\ InfoAt(v).whereTaken.str \in DOMAIN strings
              /\ strings[InfoAt(v).whereTaken.str] # Null
              /\ InfoAt(v).whereTaken.str # InfoAt(w).whereTaken.str
    BY <2>1 DEF StrsOwned, OwnedBy, Strs
  <2>2. KeptBut(strings, n.strings, InfoAt(w).whereTaken.str, Null)
    BY <1>2, HeapIsOne, InfoParts DEF Replaces, Swaps
  <2> QED BY <2>1, <2>2 DEF KeptBut
<1>6. IsIn(InfoAt(v), n) BY <1>1, <1>3, <1>4, <1>5, HeapIsOne DEF IsIn, IsOf
<1> QED BY <1>6 DEF n

\* operator = ( const StackInfo& )
LEMMA AssignInfoKeeps ==
  ASSUME Inv, NEW t \in Threads, NEW i \in StackInfos, NEW from \in StackInfos,
         AssignInfo(t, i, from)
  PROVE Inv' /\ Losses
<1> DEFINE x == AssignedInfo(Heap, infos[i], infos[from])
<1>1. Mine(t, i) /\ infos[i] # Gone /\ infos[from] # Gone /\ i # from /\ PutInfo(i, x)
  BY DEF AssignInfo
<1>2. InfoAt(i) = infos[i] /\ InfoAt(from) = infos[from] BY <1>1 DEF InfoAt
<1>3. /\ Heap \in Heaps /\ TypeOK /\ PtrsOwned /\ StrsOwned /\ TextsOwn
      /\ i \in Owners /\ from \in Owners
  BY HeapIsOne DEF Inv, Owners
<1>4. infos[i] \in StackInfoType BY <1>2, <1>3, InfoAtType
<1>5. IsIn(infos[from], ReleasedInfo(Heap, infos[i])) BY <1>1, <1>2, <1>3, OtherStays
<1>6. Null \notin FrameIds \cup StringIds BY MemoryAssumption
<1>7. Replaces(Heap, x.heap, infos[i], x.info) BY <1>3, <1>4, <1>5, <1>6, AssignedIsNew
<1> HIDE DEF x
<1> QED BY <1>1, <1>2, <1>7, PutInfoKeeps

\* The destructor.
LEMMA DestroyInfoKeeps ==
  ASSUME Inv, NEW t \in Threads, NEW i \in StackInfos, DestroyInfo(t, i)
  PROVE Inv' /\ Losses
<1> DEFINE x == [info |-> Gone, heap |-> ReleasedInfo(Heap, infos[i])]
<1>1. Mine(t, i) /\ infos[i] # Gone /\ PutInfo(i, x) BY DEF DestroyInfo
<1>2. InfoAt(i) = infos[i] BY <1>1 DEF InfoAt
<1>3. Heap \in Heaps /\ TypeOK /\ i \in Owners BY HeapIsOne DEF Inv, Owners
<1>4. infos[i] \in StackInfoType BY <1>2, <1>3, InfoAtType
<1>5. Replaces(Heap, x.heap, infos[i], MovedInfo) BY <1>3, <1>4, InfoIsReleased
<1>6. x.info = Gone OBVIOUS
<1> HIDE DEF x
<1> QED BY <1>1, <1>2, <1>5, <1>6, PutInfoKeeps

\* init: the pointers are others, the text stays as it is.
LEMMA InitInfoKeeps ==
  ASSUME Inv, NEW t \in Threads, NEW i \in StackInfos, NEW s \in Traces, InitInfo(t, i, s)
  PROVE Inv' /\ Losses
<1> DEFINE n == Release(Heap, "frames", infos[i].ptrs)
           f == InitPointers(n, s)
           x == [info |-> Info(f.id, infos[i].whereTaken), heap |-> f.heap]
<1>1. Mine(t, i) /\ infos[i] # Gone /\ PutInfo(i, x) BY DEF InitInfo
<1>2. InfoAt(i) = infos[i] BY <1>1 DEF InfoAt
<1>3. Heap \in Heaps /\ TypeOK /\ PtrsOwned /\ StrsOwned /\ TextsOwn /\ i \in Owners
  BY HeapIsOne DEF Inv, Owners
<1>4. infos[i].ptrs \in FrameIds \cup {Null} /\ infos[i].whereTaken \in StringRefType
  BY <1>2, <1>3, InfoAtType, InfoParts
<1>5. /\ n \in Heaps /\ n.values = Heap.values /\ n.strings = Heap.strings
      /\ Swaps(Heap.frames, n.frames, infos[i].ptrs, Null)
  BY <1>3, <1>4, ReleaseFrames
<1> HIDE DEF n
<1>6. /\ f.heap \in Heaps /\ f.heap.values = n.values /\ f.heap.strings = n.strings
      /\ f.id \in FrameIds \cup {Null} /\ Swaps(n.frames, f.heap.frames, Null, f.id)
  BY <1>5, InitFrames
<1> HIDE DEF f
<1>7. /\ x.info \in StackInfoType /\ x.info.ptrs = f.id
      /\ x.info.whereTaken = infos[i].whereTaken /\ x.heap = f.heap
  BY <1>4, <1>6, InfoOfParts
<1> HIDE DEF x
<1>8. Swaps(Heap.frames, f.heap.frames, infos[i].ptrs, f.id)
  <2>1. Null \notin DOMAIN Heap.frames BY <1>3, MemoryAssumption DEF Heaps, FrameHeap
  <2> QED BY <1>5, <1>6, <2>1, SwapsThrough
<1>9. Swaps(Heap.strings, Heap.strings, infos[i].whereTaken.str, infos[i].whereTaken.str)
  <2>1. IsIn(infos[i], Heap) BY <1>2, <1>3, InfoAtIsIn
  <2>2. infos[i].whereTaken.str \in StringIds \cup {Null} BY <1>4, RefParts
  <2>3. DOMAIN Heap.strings = StringIds BY <1>3 DEF Heaps, StringHeap
  <2> QED BY <2>1, <2>2, <2>3 DEF Swaps, KeptBut, NoOther, IsIn
<1>10. IsOf(f.heap.frames, f.id, f.heap.strings, infos[i].whereTaken.str)
  <2>1. Text(Heap, infos[i]) = <<>> BY DEF InitInfo
  <2> QED BY <1>5, <1>6, <2>1 DEF Text, IsOf
<1>11. Replaces(Heap, x.heap, infos[i], x.info)
  BY <1>5, <1>6, <1>7, <1>8, <1>9, <1>10 DEF Replaces
<1> QED BY <1>1, <1>2, <1>11, PutInfoKeeps

\* clear: the text is let go of, the pointers are kept.
LEMMA ClearInfoKeeps ==
  ASSUME Inv, NEW t \in Threads, NEW i \in StackInfos, ClearInfo(t, i)
  PROVE Inv' /\ Losses
<1> DEFINE n == ReleaseStr(Heap, infos[i].whereTaken)
           x == [info |-> Info(infos[i].ptrs, MovedString), heap |-> n]
<1>1. Mine(t, i) /\ infos[i] # Gone /\ PutInfo(i, x) BY DEF ClearInfo
<1>2. InfoAt(i) = infos[i] BY <1>1 DEF InfoAt
<1>3. Heap \in Heaps /\ TypeOK /\ PtrsOwned /\ StrsOwned /\ TextsOwn /\ i \in Owners
  BY HeapIsOne DEF Inv, Owners
<1>4. infos[i].ptrs \in FrameIds \cup {Null} /\ infos[i].whereTaken \in StringRefType
  BY <1>2, <1>3, InfoAtType, InfoParts
<1>5. /\ n \in Heaps /\ n.values = Heap.values /\ n.frames = Heap.frames
      /\ Swaps(Heap.strings, n.strings, infos[i].whereTaken.str, Null)
  BY <1>3, <1>4, ReleaseString
<1> HIDE DEF n
<1>6. /\ x.info \in StackInfoType /\ x.info.ptrs = infos[i].ptrs
      /\ x.info.whereTaken.str = Null /\ x.heap = n
  BY <1>4, InfoOfParts, EmptyRefs
<1> HIDE DEF x
<1>7. Swaps(Heap.frames, Heap.frames, infos[i].ptrs, infos[i].ptrs)
  <2>1. IsIn(infos[i], Heap) BY <1>2, <1>3, InfoAtIsIn
  <2>2. DOMAIN Heap.frames = FrameIds BY <1>3 DEF Heaps, FrameHeap
  <2> QED BY <1>4, <2>1, <2>2 DEF Swaps, KeptBut, NoOther, IsIn
<1>8. Replaces(Heap, x.heap, infos[i], x.info) BY <1>5, <1>6, <1>7 DEF Replaces, IsOf
<1> QED BY <1>1, <1>2, <1>8, PutInfoKeeps

\* A StackInfo object is moved to another.
LEMMA MoveInfoKeeps ==
  ASSUME Inv, NEW t \in Threads, NEW i \in StackInfos, NEW from \in StackInfos, NEW m \in Heaps,
         Mine(t, i), Mine(t, from), i # from, infos[from] # Gone, MoveInfo(t, i, from, m),
         m.values = values, m.frames = frames,
         Swaps(strings, m.strings, InfoAt(i).whereTaken.str, Null)
  PROVE Inv' /\ Losses
<1>1. /\ infos' = [infos EXCEPT ![i] = infos[from], ![from] = MovedInfo]
      /\ values' = values /\ frames' = frames /\ strings' = m.strings
      /\ UNCHANGED <<cacheVars, errors, target>>
  BY DEF MoveInfo, PutMemory
<1>2. /\ TypeOK /\ PtrsOwned /\ StrsOwned /\ TextsOwn /\ ValuesOwned /\ Targets /\ Stacks
      /\ CacheInv /\ NoStringLost
      /\ i \in Owners /\ from \in Owners
  BY DEF Inv, Owners
<1>3. infos \in [StackInfos -> StackInfoType \cup {Gone}] /\ infos[from] \in StackInfoType
  BY <1>2 DEF TypeOK
<1>4. MovedInfo \in StackInfoType /\ MovedInfo # Gone BY InfoParts, MemoryAssumption
<1>5. /\ infos'[i] = infos[from] /\ infos'[from] = MovedInfo
      /\ \A j \in StackInfos : j # i /\ j # from => infos'[j] = infos[j]
  BY <1>1, <1>3
<1>6. ASSUME NEW w \in Owners
      PROVE /\ Ptrs'[w] = IF w = from THEN Null ELSE IF w = i THEN Ptrs[from] ELSE Ptrs[w]
            /\ Strs'[w] = IF w = from THEN Null ELSE IF w = i THEN Strs[from] ELSE Strs[w]
  <2>1. CASE w = i
    <3>1. InfoAt(i)' = infos[from] BY <1>5 DEF InfoAt
    <3>2. InfoAt(from) = infos[from] BY DEF InfoAt
    <3>3. Ptrs'[i] = InfoAt(i)'.ptrs /\ Strs'[i] = InfoAt(i)'.whereTaken.str
      BY <1>2 DEF Ptrs, Strs
    <3>4. Ptrs[from] = InfoAt(from).ptrs /\ Strs[from] = InfoAt(from).whereTaken.str
      BY <1>2 DEF Ptrs, Strs
    <3> QED BY <2>1, <3>1, <3>2, <3>3, <3>4
  <2>2. CASE w = from
    <3>1. InfoAt(from)' = MovedInfo BY <1>4, <1>5 DEF InfoAt
    <3>2. Ptrs'[from] = InfoAt(from)'.ptrs /\ Strs'[from] = InfoAt(from)'.whereTaken.str
      BY <1>2 DEF Ptrs, Strs
    <3> QED BY <2>2, <3>1, <3>2, InfoParts
  <2>3. CASE w # i /\ w # from
    <3>1. values' = values /\ (w \in StackInfos => infos'[w] = infos[w]) BY <1>1, <1>5, <2>3
    <3>2. InfoAt(w)' = InfoAt(w) BY <3>1 DEF InfoAt
    <3> QED BY <2>3, <3>2 DEF Ptrs, Strs
  <2> QED BY <2>1, <2>2, <2>3
<1>7. /\ Ptrs' = [x \in Owners |-> Ptrs'[x]] /\ Strs' = [x \in Owners |-> Strs'[x]]
      /\ Ptrs = [x \in Owners |-> Ptrs[x]] /\ Strs = [x \in Owners |-> Strs[x]]
      /\ Strs[i] = InfoAt(i).whereTaken.str
  BY <1>2 DEF Ptrs, Strs
<1>8. /\ Ptrs' = [Ptrs EXCEPT ![i] = Ptrs[from], ![from] = Null]
      /\ Strs' = [Strs EXCEPT ![i] = Strs[from], ![from] = Null]
  BY <1>2, <1>6, <1>7
<1>9. PtrsOwned'
  <2>1. KeptBut(frames, frames', Ptrs[i], Null) BY <1>1 DEF KeptBut
  <2> QED BY <1>2, <1>7, <1>8, <2>1, OwnersMove DEF PtrsOwned
<1>10. StrsOwned'
  <2>1. KeptBut(strings, strings', Strs[i], Null) BY <1>1, <1>7 DEF Swaps
  <2> QED BY <1>2, <1>7, <1>8, <2>1, OwnersMove DEF StrsOwned
<1>11. ValuesOwned' BY <1>1, <1>2 DEF ValuesOwned, Vals
<1>12. Targets' /\ target' \in [Threads -> Errors \cup StackInfos \cup {Null}]
  BY <1>1, <1>2, <1>5, OthersTargets DEF Mine
<1>13. CacheInv' /\ CacheTypeOK' BY <1>1, <1>2, CacheStays
<1>14. TypeOK'
  <2>1. infos' \in [StackInfos -> StackInfoType \cup {Gone}] BY <1>1, <1>3, <1>4
  <2>2. strings' \in [StringIds -> Seq(Infos) \cup {Null}] BY <1>1 DEF Heaps, StringHeap
  <2> QED BY <1>1, <1>2, <1>12, <1>13, <2>1, <2>2 DEF TypeOK
<1>15. TextsOwn'
  <2>1. ASSUME NEW w \in Owners, w # i PROVE Strs[w] # Null => strings'[Strs[w]] = strings[Strs[w]]
    <3>1. DOMAIN Strs = Owners BY DEF Strs
    <3>2. Strs[w] # Null =>
            Strs[w] # Strs[i] /\ Strs[w] \in DOMAIN strings /\ strings[Strs[w]] # Null
      BY <1>2, <2>1, <3>1 DEF StrsOwned, OwnedBy
    <3> QED BY <1>1, <1>7, <3>2 DEF Swaps, KeptBut
  <2>2. ASSUME NEW w \in Owners PROVE IsOf(frames', Ptrs'[w], strings', Strs'[w])
    <3>1. IsOf(frames, Ptrs[w], strings, Strs[w]) /\ IsOf(frames, Ptrs[from], strings, Strs[from])
      BY <1>2 DEF TextsOwn
    <3>2. CASE w = from
      BY <1>6, <3>2 DEF IsOf
    <3>3. CASE w = i /\ w # from
      BY <1>1, <1>2, <1>6, <2>1, <3>1, <3>3 DEF IsOf
    <3>4. CASE w # i /\ w # from
      BY <1>1, <1>6, <2>1, <3>1, <3>4 DEF IsOf
    <3> QED BY <3>2, <3>3, <3>4
  <2>3. resolvedData' = resolvedData BY <1>1 DEF cacheVars
  <2> QED BY <2>2, <2>3 DEF TextsOwn, IsOf, Says
<1>16. Stacks'
  <2>1. ASSUME NEW w \in Owners, w # i, w # from PROVE Traced'[w] = Traced[w]
    BY <1>1, <1>6, <2>1 DEF Traced
  <2>2. \A o \in Errors \cup StackInfos :
          HolderOf[o] # t /\ (IF o \in AllErrors THEN HasValue(o) ELSE infos[o] # Gone)
            => Traced'[OwnerOf(o)] = Traced[OwnerOf(o)]
    BY <1>2, <2>1, OwnersApart DEF Mine
  <2> QED BY <1>1, <1>2, <2>2, OthersStacks DEF Mine
<1>17. DOMAIN frames = FrameIds /\ DOMAIN strings = StringIds /\ Null \notin FrameIds \cup StringIds
  BY <1>2, MemoryAssumption DEF TypeOK
<1>18. NoStringLost'
  <2>1. NoOther(strings, strings', Strs[i], Null) /\ DOMAIN strings' = DOMAIN strings
    BY <1>1, <1>7 DEF Swaps, KeptBut
  <2>2. LostIn(Strs', strings') \subseteq LostIn(Strs, strings)
    <3>1. /\ i \in Owners /\ from \in Owners /\ Strs = [x \in Owners |-> Strs[x]]
          /\ Strs' = [Strs EXCEPT ![i] = Strs[from], ![from] = Null]
          /\ Null \notin DOMAIN strings
      BY <1>2, <1>7, <1>8, <1>17
    <3> QED BY <2>1, <3>1, MoveLoses
  <2> QED BY <1>2, <2>2 DEF NoStringLost
<1>19. Losses
  <2>1. NoOther(frames, frames', Null, Null) BY <1>1, <1>17 DEF NoOther
  <2>2. LostIn(Ptrs', frames') \subseteq LostIn(Ptrs, frames) \cup {Ptrs[i]}
    <3>1. /\ i \in Owners /\ from \in Owners /\ Ptrs = [x \in Owners |-> Ptrs[x]]
          /\ Ptrs' = [Ptrs EXCEPT ![i] = Ptrs[from], ![from] = Null]
          /\ Null \notin DOMAIN frames /\ DOMAIN frames' = DOMAIN frames
      BY <1>1, <1>2, <1>7, <1>8, <1>17
    <3> QED BY <2>1, <3>1, MoveLoses
  <2>3. ASSUME NEW f \in LostIn(Ptrs', frames') \ LostIn(Ptrs, frames)
        PROVE infos[i] # Gone /\ infos[i].ptrs = f
    <3>1. f = Ptrs[i] /\ f # Null BY <1>1, <1>17, <2>2 DEF LostIn
    <3>2. Ptrs[i] = InfoAt(i).ptrs BY <1>2 DEF Ptrs
    <3> QED BY <3>1, <3>2, InfoParts DEF InfoAt
  <2>4. Vals' = Vals /\ values' = values BY <1>1 DEF Vals
  <2> QED BY <1>5, <2>3, <2>4 DEF Losses
<1> QED BY <1>9, <1>10, <1>11, <1>12, <1>13, <1>14, <1>15, <1>16, <1>18, <1>19 DEF Inv

\* The moves.
LEMMA MoveConstructInfoKeeps ==
  ASSUME Inv, NEW t \in Threads, NEW i \in StackInfos, NEW from \in StackInfos,
         MoveConstructInfo(t, i, from)
  PROVE Inv' /\ Losses
<1>1. /\ Mine(t, i) /\ Mine(t, from) /\ infos[i] = Gone /\ infos[from] # Gone
      /\ MoveInfo(t, i, from, Heap)
  BY DEF MoveConstructInfo
<1>2. /\ Heap \in Heaps /\ Heap.values = values /\ Heap.frames = frames
      /\ Heap.strings = strings
  BY HeapIsOne DEF Inv
<1>3. Swaps(strings, Heap.strings, InfoAt(i).whereTaken.str, Null)
  <2>1. InfoAt(i).whereTaken.str = Null BY <1>1, InfoParts DEF InfoAt
  <2>2. Null \notin DOMAIN strings BY <1>2, MemoryAssumption DEF Heaps, StringHeap
  <2> QED BY <1>2, <2>1, <2>2 DEF Swaps, KeptBut, NoOther
<1> QED BY <1>1, <1>2, <1>3, MoveInfoKeeps

\* The assignment lets go of the string.
LEMMA MoveAssignInfoKeeps ==
  ASSUME Inv, NEW t \in Threads, NEW i \in StackInfos, NEW from \in StackInfos,
         MoveAssignInfo(t, i, from)
  PROVE Inv' /\ Losses
<1> DEFINE n == ReleaseStr(Heap, infos[i].whereTaken)
<1>1. /\ Mine(t, i) /\ Mine(t, from) /\ infos[i] # Gone /\ infos[from] # Gone /\ i # from
      /\ MoveInfo(t, i, from, n)
  BY DEF MoveAssignInfo, MoveReleasedInfo
<1>2. /\ Heap \in Heaps /\ Heap.values = values /\ Heap.frames = frames
      /\ Heap.strings = strings /\ TypeOK /\ i \in Owners
  BY HeapIsOne DEF Inv, Owners
<1>3. InfoAt(i) = infos[i] BY <1>1 DEF InfoAt
<1>4. infos[i].whereTaken \in StringRefType BY <1>2, <1>3, InfoAtType, InfoParts
<1>5. /\ n \in Heaps /\ n.values = values /\ n.frames = frames
      /\ Swaps(strings, n.strings, InfoAt(i).whereTaken.str, Null)
  BY <1>2, <1>3, <1>4, ReleaseString
<1> HIDE DEF n
<1> QED BY <1>1, <1>5, MoveInfoKeeps

(***************************************************************************)
(* Errors                                                                   *)
(***************************************************************************)
\* An error of the thread, and the value at one address, change.
LEMMA PutErrorKeeps ==
  ASSUME Inv, NEW t \in Threads, NEW e \in Errors, Mine(t, e), NEW x, PutError(e, x),
         x.error \in ErrorType \cup {Gone},
         NEW v \in ValueIds, NEW value \in ValueType \cup {Null}, NEW new,
         x.heap.values = [values EXCEPT ![v] = value],
         new = IF value = Null THEN MovedInfo ELSE value.info,
         NEW n, x.heap.frames = n.frames, x.heap.strings = n.strings,
         Replaces(Heap, n, InfoAt(v), new),
         NEW own, own = IF x.error = Gone THEN Null ELSE x.error.value,
         KeptBut(values, x.heap.values, Vals[e], own), values[v] = Null \/ v = Vals[e],
         NoOther(values, x.heap.values, IF x.error = Gone THEN Vals[e] ELSE Null, own)
  PROVE Inv' /\ Losses
<1>1. /\ errors' = [errors EXCEPT ![e] = x.error] /\ values' = x.heap.values
      /\ frames' = n.frames /\ strings' = n.strings
      /\ UNCHANGED <<cacheVars, infos, target>>
  BY DEF PutError, PutMemory
<1>2. /\ TypeOK /\ PtrsOwned /\ StrsOwned /\ TextsOwn /\ ValuesOwned /\ Targets /\ Stacks
      /\ CacheInv /\ NoStringLost
      /\ v \in Owners /\ v \notin StackInfos /\ e \in AllErrors
  BY ErrorAssumption DEF Inv, Owners, AllErrors
<1>3. /\ values \in [ValueIds -> ValueType \cup {Null}]
      /\ errors \in [AllErrors -> ErrorType \cup {Gone}]
  BY <1>2 DEF TypeOK
<1>4. ASSUME NEW w \in Owners
      PROVE /\ Ptrs'[w] = IF w = v THEN new.ptrs ELSE Ptrs[w]
            /\ Strs'[w] = IF w = v THEN new.whereTaken.str ELSE Strs[w]
  <2>1. CASE w = v
    BY <1>1, <1>2, <1>3, <2>1 DEF Ptrs, Strs, InfoAt
  <2>2. CASE w # v
    BY <1>1, <1>2, <1>3, <2>2 DEF Ptrs, Strs, InfoAt, Owners
  <2> QED BY <2>1, <2>2
<1>5. Ptrs' = [Ptrs EXCEPT ![v] = new.ptrs] /\ Strs' = [Strs EXCEPT ![v] = new.whereTaken.str]
  BY <1>2, <1>4, OneInfoChanges
<1>6. /\ PtrsOwned' /\ StrsOwned' /\ frames' \in FrameHeap /\ strings' \in StringHeap
      /\ TextsOwn' /\ \A y \in Owners : y # v => Traced'[y] = Traced[y]
      /\ LostIn(Ptrs', frames') \subseteq LostIn(Ptrs, frames) /\ NoStringLost'
  BY <1>1, <1>2, <1>5, InfoChanges DEF cacheVars, NoStringLost
<1>7. ValuesOwned' /\ Losses
  <2>1. Vals = [f \in AllErrors |-> Vals[f]] BY DEF Vals
  <2>2. Vals' = [Vals EXCEPT ![e] = own] BY <1>1, <1>2, <1>3 DEF Vals
  <2>3. ValuesOwned' BY <1>1, <1>2, <2>1, <2>2, OwnerUpdates DEF ValuesOwned
  <2> DEFINE a == IF x.error = Gone THEN Vals[e] ELSE Null
  <2>4. NoOther(values, values', a, own) /\ DOMAIN values' = DOMAIN values BY <1>1, <1>3
  <2> HIDE DEF a
  <2>5. /\ LostIn(Vals', values') \subseteq LostIn(Vals, values) \cup {Vals[e]}
        /\ a = Vals[e] => LostIn(Vals', values') \subseteq LostIn(Vals, values)
    BY <1>2, <2>1, <2>2, <2>4, OwnerLoses
  <2>6. ASSUME NEW y \in LostIn(Vals', values') \ LostIn(Vals, values)
        PROVE HasValue(e) /\ errors[e].value = y /\ errors'[e] # Gone
    <3>1. y = Vals[e] /\ y \in ValueIds BY <1>1, <1>3, <2>5 DEF LostIn
    <3>2. y # Null BY <3>1, MemoryAssumption
    <3>3. errors'[e] # Gone BY <1>1, <1>2, <1>3, <2>5 DEF a
    <3> QED BY <1>2, <3>1, <3>2, <3>3 DEF Vals, HasValue
  <2> QED BY <1>6, <2>3, <2>6 DEF Losses
<1>8. \A f \in Errors : HolderOf[f] # t => errors'[f] = errors[f]
  BY <1>1, <1>3 DEF Mine, AllErrors
<1>9. Targets' /\ target' \in [Threads -> Errors \cup StackInfos \cup {Null}]
  BY <1>1, <1>2, <1>8, OthersTargets DEF Mine
<1>10. CacheInv' /\ CacheTypeOK' BY <1>1, <1>2, CacheStays
<1>11. TypeOK'
  <2>1. errors' \in [AllErrors -> ErrorType \cup {Gone}] BY <1>1, <1>3
  <2>2. values' \in [ValueIds -> ValueType \cup {Null}] BY <1>1, <1>3
  <2> QED BY <1>1, <1>2, <1>6, <1>9, <1>10, <2>1, <2>2 DEF TypeOK, FrameHeap, StringHeap
<1>12. Stacks'
  <2>1. \A o \in Errors \cup StackInfos :
          HolderOf[o] # t /\ (IF o \in AllErrors THEN HasValue(o) ELSE infos[o] # Gone)
            => Traced'[OwnerOf(o)] = Traced[OwnerOf(o)]
    BY <1>2, <1>6, OwnersApart DEF Mine
  <2> QED BY <1>1, <1>2, <1>8, <2>1, OthersStacks DEF Mine
<1> QED BY <1>6, <1>7, <1>9, <1>10, <1>11, <1>12 DEF Inv

\* The value of an error is there.
LEMMA ValueIsThere ==
  ASSUME TypeOK, ValuesOwned, NEW e \in AllErrors, HasValue(e)
  PROVE /\ errors[e].value \in ValueIds /\ Vals[e] = errors[e].value
        /\ ValueOf(e) \in ValueType /\ InfoAt(errors[e].value) = ValueOf(e).info
<1>1. errors[e] \in ErrorType /\ errors[e].value # Null BY DEF TypeOK, HasValue
<1>2. errors[e].value \in ValueIds BY <1>1 DEF ErrorType
<1>3. Vals[e] = errors[e].value BY DEF Vals, HasValue
<1>4. values[errors[e].value] # Null BY <1>1, <1>3 DEF ValuesOwned, OwnedBy, Vals
<1>5. errors[e].value \notin StackInfos BY <1>2, ErrorAssumption
<1> QED BY <1>2, <1>3, <1>4, <1>5 DEF ValueOf, InfoAt, TypeOK

\* Only errors of the thread change.
LEMMA ErrorsOnlyKeep ==
  ASSUME Inv, NEW t \in Threads, Idle(t), UNCHANGED <<cacheVars, memory, infos, target>>,
         errors' \in [AllErrors -> ErrorType \cup {Gone}], OwnedBy(Vals', values),
         \A f \in Errors : HolderOf[f] # t => errors'[f] = errors[f],
         NEW e \in Errors, LostIn(Vals', values) \subseteq LostIn(Vals, values) \cup {Vals[e]},
         errors'[e] = Gone => Vals[e] = Null
  PROVE Inv' /\ Losses
<1>1. TypeOK /\ PtrsOwned /\ StrsOwned /\ TextsOwn /\ Targets /\ Stacks /\ CacheInv
      /\ NoStringLost /\ e \in AllErrors
  BY DEF Inv, AllErrors
<1>2. values' = values /\ frames' = frames /\ strings' = strings /\ infos' = infos
  BY DEF memory
<1>3. ValuesOwned' BY <1>2 DEF ValuesOwned
<1>4. PtrsOwned' /\ StrsOwned'
  <2>1. Ptrs' = Ptrs /\ Strs' = Strs BY <1>2 DEF Ptrs, Strs, InfoAt
  <2> QED BY <1>1, <1>2, <2>1 DEF PtrsOwned, StrsOwned
<1>5. Targets' /\ target' \in [Threads -> Errors \cup StackInfos \cup {Null}]
  BY <1>1, <1>2, OthersTargets
<1>6. CacheInv' /\ CacheTypeOK' BY <1>1, CacheStays
<1>7. TypeOK' BY <1>1, <1>2, <1>5, <1>6 DEF TypeOK
<1>8. Ptrs' = Ptrs /\ Strs' = Strs /\ Traced' = Traced BY <1>2 DEF Ptrs, Strs, InfoAt, Traced
<1>9. TextsOwn'
  <2>1. /\ TypeOK /\ PtrsOwned /\ StrsOwned /\ TextsOwn /\ resolvedData' = resolvedData
        /\ frames' = frames /\ strings' = strings
    BY <1>1, <1>2 DEF cacheVars
  <2> QED BY <1>8, <2>1, CacheTexts
<1>10. Stacks' BY <1>1, <1>8, OthersStacks
<1>11. NoStringLost' BY <1>1, <1>2, <1>8 DEF NoStringLost
<1>12. Losses
  <2>1. ASSUME NEW y \in LostIn(Vals', values') \ LostIn(Vals, values)
        PROVE HasValue(e) /\ errors[e].value = y /\ errors'[e] # Gone
    <3>1. y = Vals[e] /\ y \in ValueIds BY <1>1, <1>2 DEF LostIn, TypeOK
    <3>2. y # Null BY <3>1, MemoryAssumption
    <3> QED BY <1>1, <3>1, <3>2 DEF Vals, HasValue
  <2> QED BY <1>2, <1>8, <2>1 DEF Losses
<1> QED BY <1>3, <1>4, <1>5, <1>6, <1>7, <1>9, <1>10, <1>11, <1>12 DEF Inv

\* An error of the thread lets go of its value, if any, or is there without one.
LEMMA EmptyErrorKeeps ==
  ASSUME Inv, NEW t \in Threads, NEW e \in Errors, Mine(t, e), NEW x \in {MovedError, Gone},
         UNCHANGED <<cacheVars, memory, infos, target>>, errors' = [errors EXCEPT ![e] = x],
         x = Gone => Vals[e] = Null
  PROVE Inv' /\ Losses
<1>1. /\ errors \in [AllErrors -> ErrorType \cup {Gone}] /\ e \in AllErrors
      /\ DOMAIN values = ValueIds
  BY DEF Inv, TypeOK, AllErrors
<1>2. MovedError \in ErrorType /\ MovedError.value = Null BY DEF MovedError, ErrorType
<1>3. errors' \in [AllErrors -> ErrorType \cup {Gone}] BY <1>1, <1>2
<1>4. \A f \in Errors : HolderOf[f] # t => errors'[f] = errors[f]
  BY <1>1 DEF Mine, AllErrors
<1>5. OwnedBy(Vals', values) /\ LostIn(Vals', values) \subseteq LostIn(Vals, values) \cup {Vals[e]}
  <2>1. Vals' = [Vals EXCEPT ![e] = Null] BY <1>1, <1>2 DEF Vals
  <2>2. KeptBut(values, values, Vals[e], Null) BY DEF KeptBut
  <2>3. Vals = [f \in AllErrors |-> Vals[f]] BY DEF Vals
  <2>4. OwnedBy(Vals, values) BY DEF Inv, ValuesOwned
  <2>5. NoOther(values, values, Null, Null)
    BY <1>1, MemoryAssumption DEF NoOther
  <2> QED BY <1>1, <2>1, <2>2, <2>3, <2>4, <2>5, OwnerUpdates, OwnerLoses
<1>6. errors'[e] = Gone => Vals[e] = Null BY <1>1
<1> QED BY <1>3, <1>4, <1>5, <1>6, ErrorsOnlyKeep DEF Mine

\* An error takes a value from another, and loses its own.
LEMMA MoveErrorKeeps ==
  ASSUME Inv, NEW t \in Threads, NEW e \in Errors, Mine(t, e), NEW from \in AllErrors,
         Visible(t, from), from \notin Globals, MoveError(t, e, from)
  PROVE Inv' /\ Losses
<1>1. /\ errors' = [errors EXCEPT ![e] = errors[from], ![from] = MovedError]
      /\ UNCHANGED <<cacheVars, memory, infos, target>>
  BY DEF MoveError
<1>2. errors \in [AllErrors -> ErrorType \cup {Gone}] /\ e \in AllErrors
  BY DEF Inv, TypeOK, AllErrors
<1>3. errors[from] # Gone /\ from \in Errors /\ HolderOf[from] = t BY DEF Visible
<1>4. MovedError \in ErrorType /\ MovedError.value = Null /\ MovedError # Gone
  BY MemoryAssumption DEF MovedError, ErrorType
<1>5. CASE e = from
  <2>1. errors' = [errors EXCEPT ![e] = MovedError] BY <1>1, <1>2, <1>5
  <2> QED BY <1>1, <1>4, <2>1, EmptyErrorKeeps
<1>6. CASE e # from
  <2>1. /\ errors'[e] = errors[from] /\ errors'[from] = MovedError
        /\ \A f \in AllErrors : f # e /\ f # from => errors'[f] = errors[f]
    BY <1>1, <1>2, <1>6
  <2>2. errors' \in [AllErrors -> ErrorType \cup {Gone}] BY <1>1, <1>2, <1>3, <1>4
  <2>3. \A f \in Errors : HolderOf[f] # t => errors'[f] = errors[f]
    BY <1>3, <2>1 DEF Mine, AllErrors
  <2>4. /\ OwnedBy(Vals', values)
        /\ LostIn(Vals', values) \subseteq LostIn(Vals, values) \cup {Vals[e]}
    <3>1. Vals' = [Vals EXCEPT ![e] = Vals[from], ![from] = Null]
      BY <1>2, <1>3, <1>4, <1>6, <2>1 DEF Vals
    <3>2. KeptBut(values, values, Vals[e], Null) BY DEF KeptBut
    <3>3. Vals = [f \in AllErrors |-> Vals[f]] BY DEF Vals
    <3>4. OwnedBy(Vals, values) BY DEF Inv, ValuesOwned
    <3>5. DOMAIN values = ValueIds /\ Null \notin ValueIds BY MemoryAssumption DEF Inv, TypeOK
    <3>6. NoOther(values, values, Null, Null) BY <3>5 DEF NoOther
    <3> QED BY <1>2, <1>6, <3>1, <3>2, <3>3, <3>4, <3>5, <3>6, OwnersMove, MoveLoses
  <2> QED BY <1>1, <1>3, <2>1, <2>2, <2>3, <2>4, ErrorsOnlyKeep DEF Mine
<1> QED BY <1>5, <1>6

\* An error takes a new value.
LEMMA NewValueKeeps ==
  ASSUME Inv, NEW t \in Threads, NEW e \in Errors, Mine(t, e), RoomForValue,
         NEW code \in Globals, NEW from, Replaces(Heap, from.heap, MovedInfo, from.info),
         PutError(e, NewValue(code, from))
  PROVE Inv' /\ Losses
<1> DEFINE id == AnyOf(Free(from.heap.values))
           value == [code |-> code, info |-> from.info]
           error == [domain |-> DomainOf(code), value |-> id]
           x == NewValue(code, from)
<1>1. TypeOK /\ values \in ValueHeap /\ DOMAIN values = ValueIds BY HeapIsOne DEF Inv, ValueHeap
<1>2. from.heap \in Heaps /\ from.heap.values = values /\ from.info \in StackInfoType
  BY <1>1, HeapIsOne DEF Replaces
<1>3. id \in ValueIds /\ values[id] = Null /\ id # Null
  BY <1>1, <1>2, MemoryAssumption DEF AnyOf, RoomForValue, Free, Live
<1>4. value \in ValueType /\ value # Null /\ value.info = from.info
  BY <1>2, MemoryAssumption DEF ValueType
<1>5. x.error = error /\ x.heap = [from.heap EXCEPT !.values[id] = value] BY DEF NewValue
<1> HIDE DEF id
<1>6. error \in ErrorType /\ error.value = id BY <1>3 DEF ErrorType, DomainOf
<1> HIDE DEF x, error, value
<1>7. /\ x.heap.values = [values EXCEPT ![id] = value]
      /\ x.heap.frames = from.heap.frames /\ x.heap.strings = from.heap.strings
  BY <1>2, <1>5 DEF Heaps
<1>8. InfoAt(id) = MovedInfo
  BY <1>3, ErrorAssumption DEF InfoAt
<1>9. KeptBut(values, x.heap.values, Vals[e], id)
  BY <1>1, <1>3, <1>4, <1>7 DEF KeptBut
<1>10. error # Gone BY <1>6, MemoryAssumption
<1>11. /\ x.error \in ErrorType \cup {Gone} /\ value \in ValueType \cup {Null}
       /\ from.info = IF value = Null THEN MovedInfo ELSE value.info
       /\ id = IF x.error = Gone THEN Null ELSE x.error.value
  BY <1>4, <1>5, <1>6, <1>10
<1>12. PutError(e, x) BY DEF x
<1>13. NoOther(values, x.heap.values, IF x.error = Gone THEN Vals[e] ELSE Null, id)
  BY <1>1, <1>5, <1>7, <1>10, MemoryAssumption DEF NoOther
<1> QED BY <1>3, <1>7, <1>8, <1>9, <1>11, <1>12, <1>13, PutErrorKeeps

\* Construction: the value is created from an argument.
LEMMA ConstructKeeps ==
  ASSUME Inv, NEW t \in Threads, NEW e \in Errors, NEW code \in Globals, NEW s \in Traces,
         Construct(t, e, code, s)
  PROVE Inv' /\ Losses
<1> DEFINE argument == Captured(Heap, s)
           copy == CopiedInfo(argument.heap, argument.info)
           from == [copy EXCEPT !.heap = ReleasedInfo(copy.heap, argument.info)]
<1>1. Mine(t, e) /\ RoomForValue /\ PutError(e, NewValue(code, from))
  BY DEF Construct, CreatedValue
<1>2. Heap \in Heaps /\ Null \notin FrameIds \cup StringIds
  BY HeapIsOne, MemoryAssumption DEF Inv
<1>3. Replaces(Heap, ReleasedInfo(copy.heap, argument.info), MovedInfo, copy.info)
  BY <1>2, ArgumentIsNew
<1>4. from.info = copy.info /\ from.heap = ReleasedInfo(copy.heap, argument.info)
  BY DEF CopiedInfo
<1> HIDE DEF argument, copy, from
<1> QED BY <1>1, <1>3, <1>4, NewValueKeeps

\* A clone: of an error that was moved, one like it.
LEMMA CloneKeeps ==
  ASSUME Inv, NEW t \in Threads, NEW e \in Errors, Mine(t, e), NEW from \in AllErrors,
         RoomToCopy(from), PutError(e, Clone(Heap, from))
  PROVE Inv' /\ Losses
<1>1. TypeOK /\ PtrsOwned /\ StrsOwned /\ TextsOwn /\ ValuesOwned BY DEF Inv
<1>2. CASE HasValue(from)
  <2> DEFINE c == CopiedInfo(Heap, ValueOf(from).info)
  <2>1. Clone(Heap, from) = NewValue(ValueOf(from).code, c) BY <1>2 DEF Clone
  <2>2. /\ ValueOf(from) \in ValueType /\ errors[from].value \in Owners
        /\ InfoAt(errors[from].value) = ValueOf(from).info
    BY <1>1, <1>2, ValueIsThere DEF Owners
  <2>3. IsIn(ValueOf(from).info, Heap) BY <1>1, <2>2, InfoAtIsIn
  <2>4. Replaces(Heap, c.heap, MovedInfo, c.info) BY <1>1, <2>3, HeapIsOne, CopyIsNew
  <2>5. RoomForValue /\ ValueOf(from).code \in Globals BY <1>2, <2>2 DEF RoomToCopy, ValueType
  <2> HIDE DEF c
  <2> QED BY <2>1, <2>4, <2>5, NewValueKeeps
<1>3. CASE ~HasValue(from)
  <2>1. Clone(Heap, from) = [error |-> MovedError, heap |-> Heap] BY <1>3 DEF Clone
  <2>2. /\ errors' = [errors EXCEPT ![e] = MovedError]
        /\ UNCHANGED <<cacheVars, memory, infos, target>>
    BY <1>1, <2>1, HeapIsOne DEF PutError, PutMemory, memory
  <2>3. MovedError # Gone BY MemoryAssumption DEF MovedError, ErrorType
  <2> QED BY <2>2, <2>3, EmptyErrorKeeps
<1> QED BY <1>2, <1>3

\* The destructor.
LEMMA DestroyKeeps ==
  ASSUME Inv, NEW t \in Threads, NEW e \in Errors, Destroy(t, e)
  PROVE Inv' /\ Losses
<1> DEFINE x == [error |-> Gone, heap |-> Destroyed(Heap, e)]
<1>1. Mine(t, e) /\ PutError(e, x) BY DEF Destroy
<1>2. /\ TypeOK /\ PtrsOwned /\ StrsOwned /\ TextsOwn /\ ValuesOwned /\ e \in AllErrors
      /\ Heap \in Heaps /\ Heap.values = values /\ values \in ValueHeap
  BY HeapIsOne DEF Inv, AllErrors
<1>3. CASE HasValue(e)
  <2> DEFINE v == errors[e].value
             n == ReleasedInfo(Heap, ValueOf(e).info)
  <2>1. /\ v \in ValueIds /\ v \in Owners /\ Vals[e] = v /\ v # Null
        /\ ValueOf(e) \in ValueType /\ InfoAt(v) = ValueOf(e).info
    BY <1>2, <1>3, ValueIsThere DEF Owners, HasValue
  <2>2. Replaces(Heap, n, InfoAt(v), MovedInfo)
    BY <1>2, <2>1, InfoAtType, InfoIsReleased
  <2>3. x.heap = [n EXCEPT !["values"][v] = Null] /\ x.error = Gone
    BY <1>3, <2>1 DEF Destroyed, Release
  <2> HIDE DEF x, n, v
  <2>4. /\ x.heap.values = [values EXCEPT ![v] = Null]
        /\ x.heap.frames = n.frames /\ x.heap.strings = n.strings
    BY <1>2, <2>2, <2>3 DEF Replaces, Heaps
  <2>5. KeptBut(values, x.heap.values, Vals[e], Null)
    BY <1>2, <2>1, <2>4 DEF KeptBut, ValueHeap
  <2>6. NoOther(values, x.heap.values, IF x.error = Gone THEN Vals[e] ELSE Null, Null)
    BY <1>2, <2>1, <2>3, <2>4, MemoryAssumption DEF NoOther, ValueHeap
  <2> QED BY <1>1, <2>1, <2>2, <2>3, <2>4, <2>5, <2>6, PutErrorKeeps
<1>4. CASE ~HasValue(e)
  <2>1. /\ errors' = [errors EXCEPT ![e] = Gone]
        /\ UNCHANGED <<cacheVars, memory, infos, target>>
    BY <1>1, <1>2, <1>4, HeapIsOne DEF Destroyed, PutError, PutMemory, memory
  <2>2. Vals[e] = Null BY <1>2, <1>4 DEF Vals, HasValue
  <2> QED BY <1>1, <2>1, <2>2, EmptyErrorKeeps
<1> QED BY <1>3, <1>4

\* Any step of an error.
LEMMA ErrorStepKeeps ==
  ASSUME Inv, NEW t \in Threads, NEW e \in Errors, ErrorStep(t, e)
  PROVE Inv' /\ Losses
<1>1. CASE \E code \in Globals, s \in Traces : Construct(t, e, code, s)
  BY <1>1, ConstructKeeps
<1>2. ASSUME NEW from \in AllErrors, CopyConstruct(t, e, from) \/ Assign(t, e, from)
      PROVE Inv' /\ Losses
  BY <1>2, CloneKeeps DEF CopyConstruct, Assign
<1>3. ASSUME NEW from \in AllErrors, MoveConstruct(t, e, from) \/ MoveAssign(t, e, from)
      PROVE Inv' /\ Losses
  BY <1>3, MoveErrorKeeps DEF MoveConstruct, MoveAssign
<1>4. CASE Destroy(t, e)
  BY <1>4, DestroyKeeps
<1> QED BY <1>1, <1>2, <1>3, <1>4 DEF ErrorStep

\* Any step of a StackInfo.
LEMMA InfoStepKeeps ==
  ASSUME Inv, NEW t \in Threads, NEW i \in StackInfos, InfoStep(t, i)
  PROVE Inv' /\ Losses
<1>1. ASSUME NEW s \in Traces, Capture(t, i, s) \/ InitInfo(t, i, s) PROVE Inv' /\ Losses
  BY <1>1, CaptureKeeps, InitInfoKeeps
<1>2. ASSUME NEW from \in StackInfos,
             \/ CopyInfo(t, i, from) \/ MoveConstructInfo(t, i, from)
             \/ AssignInfo(t, i, from) \/ MoveAssignInfo(t, i, from)
      PROVE Inv' /\ Losses
  BY <1>2, CopyInfoKeeps, MoveConstructInfoKeeps, AssignInfoKeeps, MoveAssignInfoKeeps
<1>3. CASE ClearInfo(t, i) \/ DestroyInfo(t, i)
  BY <1>3, ClearInfoKeeps, DestroyInfoKeeps
<1> QED BY <1>1, <1>2, <1>3 DEF InfoStep

(***************************************************************************)
(* Texts                                                                    *)
(***************************************************************************)
\* What an object that is there has.
LEMMA InfoOfObject ==
  ASSUME TypeOK, ValuesOwned, NEW o \in Errors \cup StackInfos,
         IF o \in AllErrors THEN HasValue(o) ELSE infos[o] # Gone
  PROVE OwnerOf(o) \in Owners /\ InfoAt(OwnerOf(o)) = InfoOf(o)
<1>1. CASE o \in AllErrors
  BY <1>1, ValueIsThere DEF OwnerOf, InfoOf, Owners
<1>2. CASE o \notin AllErrors
  BY <1>2 DEF OwnerOf, InfoOf, InfoAt, Owners, AllErrors
<1> QED BY <1>1, <1>2

\* The stack a text is made of is one that was taken.
LEMMA LogStarts ==
  ASSUME Inv, NEW t \in Threads, NEW o \in Errors \cup StackInfos, Log(t, o)
  PROVE \E s \in Traces \cup {<<>>} : Start(t, s)
<1>1. /\ TypeOK /\ PtrsOwned /\ StrsOwned /\ TextsOwn /\ ValuesOwned
      /\ IF o \in AllErrors THEN HasValue(o) ELSE infos[o] # Gone
      /\ Start(t, Pointed(Heap, InfoOf(o).ptrs))
  BY DEF Log, Inv
<1>2. IsIn(InfoOf(o), Heap) BY <1>1, InfoOfObject, InfoAtIsIn
<1>3. InfoOf(o).ptrs \in FrameIds \cup {Null} BY <1>2, InfoParts DEF IsIn
<1>4. Pointed(Heap, InfoOf(o).ptrs) \in Traces \cup {<<>>}
  BY <1>1, <1>2, <1>3, HeapIsOne DEF Pointed, IsIn, FrameHeap
<1> QED BY <1>1, <1>4

\* Nothing in memory changes.
LEMMA OwnedStays ==
  ASSUME PtrsOwned, StrsOwned, ValuesOwned, UNCHANGED <<memory, errors, infos>>
  PROVE /\ PtrsOwned' /\ StrsOwned' /\ ValuesOwned' /\ (NoStringLost => NoStringLost') /\ Losses
        /\ Ptrs' = Ptrs /\ Strs' = Strs /\ frames' = frames /\ strings' = strings
        /\ Traced' = Traced /\ \A o \in Errors \cup StackInfos : OwnerOf(o)' = OwnerOf(o)
<1>1. values' = values /\ frames' = frames /\ strings' = strings /\ infos' = infos
      /\ errors' = errors
  BY DEF memory
<1>2. Ptrs' = Ptrs /\ Strs' = Strs /\ Vals' = Vals BY <1>1 DEF Ptrs, Strs, Vals, InfoAt
<1>3. Traced' = Traced BY <1>1, <1>2 DEF Traced
<1> QED BY <1>1, <1>2, <1>3 DEF PtrsOwned, StrsOwned, ValuesOwned, NoStringLost, Losses, OwnerOf

\* log takes the target.
LEMMA LogKeeps ==
  ASSUME Inv, NEW t \in Threads, NEW o \in Errors \cup StackInfos, Log(t, o)
  PROVE Inv' /\ Losses
<1>1. TypeOK /\ PtrsOwned /\ StrsOwned /\ TextsOwn /\ ValuesOwned /\ Targets /\ Stacks /\ CacheInv
      /\ NoStringLost
  BY DEF Inv
<1>2. /\ HolderOf[o] = t /\ (IF o \in AllErrors THEN HasValue(o) ELSE infos[o] # Gone)
      /\ target' = [target EXCEPT ![t] = o] /\ UNCHANGED <<memory, errors, infos>>
      /\ at' = [at EXCEPT ![t] = "resolve"]
  BY DEF Log, Mine, Start
<1>3. PtrsOwned' /\ StrsOwned' /\ ValuesOwned' /\ NoStringLost' /\ Losses
  BY <1>1, <1>2, OwnedStays
<1>4. PICK s \in Traces \cup {<<>>} : Start(t, s) BY LogStarts
<1>5. s \in Seq(Pointers) BY CacheAssumption, Empty
<1>6. CacheInv' /\ CacheTypeOK'
  <2>1. CacheInv' BY <1>1, <1>4, <1>5, StartKeeps
  <2> QED BY <2>1 DEF CacheInv
<1>7. target \in [Threads -> Errors \cup StackInfos \cup {Null}] BY <1>1 DEF TypeOK
<1>8. at \in [Threads -> {"idle", "resolve", "look up"}] BY <1>1 DEF TypeOK, CacheTypeOK
<1>9. Targets'
  <2> SUFFICES ASSUME NEW u \in Threads, ~Idle(u)'
               PROVE /\ target'[u] \in Errors \cup StackInfos /\ HolderOf[target'[u]] = u
                     /\ IF target'[u] \in AllErrors THEN HasValue(target[u])'
                        ELSE infos'[target'[u]] # Gone
    BY DEF Targets
  <2>1. CASE u = t
    BY <1>2, <1>7, <2>1 DEF HasValue
  <2>2. CASE u # t
    <3>1. ~Idle(u) /\ target'[u] = target[u] BY <1>2, <1>7, <1>8, <2>2 DEF Idle
    <3> QED BY <1>1, <1>2, <3>1 DEF Targets, HasValue
  <2> QED BY <2>1, <2>2
<1>10. TypeOK' BY <1>1, <1>2, <1>6, <1>7 DEF TypeOK, memory
<1>11. TextsOwn'
  <2>1. resolvedData' = resolvedData BY <1>4 DEF Start
  <2> QED BY <1>1, <1>2, <2>1, OwnedStays, CacheTexts
<1>12. Stacks'
  <2> SUFFICES ASSUME NEW u \in Threads, ~Idle(u)'
               PROVE stack'[u] = Traced'[OwnerOf(target[u])']
    BY DEF Stacks
  <2>1. /\ Traced' = Traced /\ \A x \in Errors \cup StackInfos : OwnerOf(x)' = OwnerOf(x)
        /\ stack' = [stack EXCEPT ![t] = Pointed(Heap, InfoOf(o).ptrs)]
        /\ stack \in [Threads -> Seq(Pointers)]
    BY <1>1, <1>2, OwnedStays DEF Log, Start, TypeOK, CacheTypeOK
  <2>2. CASE u = t
    <3>1. target'[u] = o /\ stack'[u] = Pointed(Heap, InfoOf(o).ptrs) BY <1>2, <1>7, <2>1, <2>2
    <3>2. OwnerOf(o) \in Owners /\ InfoAt(OwnerOf(o)) = InfoOf(o) BY <1>1, <1>2, InfoOfObject
    <3>3. Traced[OwnerOf(o)] = Pointed(Heap, InfoOf(o).ptrs)
      BY <1>1, <3>2, HeapIsOne DEF Traced, Ptrs, Pointed
    <3>4. OwnerOf(target[u])' = OwnerOf(o)' BY <3>1 DEF OwnerOf
    <3> QED BY <2>1, <3>1, <3>3, <3>4
  <2>3. CASE u # t
    <3>1. ~Idle(u) /\ target'[u] = target[u] BY <1>2, <1>7, <1>8, <2>3 DEF Idle
    <3>2. target[u] \in Errors \cup StackInfos /\ stack[u] = Traced[OwnerOf(target[u])]
      BY <1>1, <3>1 DEF Targets, Stacks
    <3>3. OwnerOf(target[u])' = OwnerOf(target[u]) BY <1>2, <3>1 DEF OwnerOf
    <3> QED BY <2>1, <2>3, <3>2, <3>3
  <2> QED BY <2>2, <2>3
<1> QED BY <1>3, <1>6, <1>9, <1>10, <1>11, <1>12 DEF Inv

\* So do steps of the cache alone.
LEMMA SearchKeeps ==
  ASSUME Inv, NEW t \in Threads, ResolveStep(t) \/ LookUpStep(t)
  PROVE Inv' /\ Losses
<1>1. TypeOK /\ PtrsOwned /\ StrsOwned /\ TextsOwn /\ ValuesOwned /\ Targets /\ Stacks /\ CacheInv
      /\ NoStringLost
  BY DEF Inv
<1>2. UNCHANGED <<memory, errors, infos, target>> /\ (Resolve(t) \/ LookUp(t))
  BY DEF ResolveStep, LookUpStep
<1>3. PtrsOwned' /\ StrsOwned' /\ ValuesOwned' /\ NoStringLost' /\ Losses
  BY <1>1, <1>2, OwnedStays
<1>4. CacheInv' /\ CacheTypeOK'
  <2>1. CacheInv' BY <1>1, <1>2, ResolveKeeps, LookUpKeeps
  <2> QED BY <2>1 DEF CacheInv
<1>5. at \in [Threads -> {"idle", "resolve", "look up"}] BY <1>1 DEF TypeOK, CacheTypeOK
<1>6. ASSUME NEW u \in Threads, ~Idle(u)' PROVE ~Idle(u)
  <2>1. ~Idle(t) BY <1>2 DEF Idle, Resolve, LookUp
  <2>2. u # t => at'[u] = at[u] BY <1>2, <1>5 DEF Resolve, LookUp
  <2> QED BY <1>6, <2>1, <2>2 DEF Idle
<1>7. Targets' BY <1>1, <1>2, <1>6 DEF Targets, HasValue
<1>8. TypeOK' BY <1>1, <1>2, <1>4 DEF TypeOK, memory
<1>9. TextsOwn'
  <2>1. \A p \in Pointers : resolvedData[p] # Unresolved => resolvedData'[p] = resolvedData[p]
    <3>1. resolvedData \in [Pointers -> Infos \cup {Unresolved}] BY <1>1 DEF TypeOK, CacheTypeOK
    <3> QED BY <1>2, <3>1 DEF Resolve, LookUp, AddResolvedStackPtrData
  <2> QED BY <1>1, <1>2, <2>1, OwnedStays, CacheTexts
<1>10. Stacks'
  <2>1. Traced' = Traced /\ stack' = stack /\ target' = target /\ errors' = errors
    BY <1>1, <1>2, OwnedStays DEF Resolve, LookUp
  <2> QED BY <1>1, <1>6, <2>1 DEF Stacks, OwnerOf
<1> QED BY <1>3, <1>4, <1>7, <1>8, <1>9, <1>10 DEF Inv

\* The string of a StackInfo is replaced by the text.
LEMMA TextIsPut ==
  ASSUME TypeOK, PtrsOwned, StrsOwned, TextsOwn, NEW w \in Owners, NEW text \in Seq(Infos),
         InfoAt(w).ptrs # Null => Says(text, frames[InfoAt(w).ptrs])
  PROVE LET info == InfoAt(w)
            s == Store(ReleaseStr(Heap, info.whereTaken), "strings", text)
        IN Replaces(Heap, s.heap, info, Info(info.ptrs, [fromLiteral |-> FALSE, str |-> s.id]))
<1> DEFINE info == InfoAt(w)
           n == ReleaseStr(Heap, info.whereTaken)
           s == Store(n, "strings", text)
           r == [fromLiteral |-> FALSE, str |-> s.id]
<1>1. Heap \in Heaps /\ IsIn(info, Heap) BY HeapIsOne, InfoAtIsIn
<1>2. /\ info \in StackInfoType /\ info.ptrs \in FrameIds \cup {Null}
      /\ info.whereTaken \in StringRefType
  BY <1>1, InfoParts DEF IsIn
<1>3. /\ n \in Heaps /\ n.values = Heap.values /\ n.frames = Heap.frames
      /\ Swaps(Heap.strings, n.strings, info.whereTaken.str, Null)
  BY <1>1, <1>2, ReleaseString
<1> HIDE DEF n
<1>4. /\ s.heap \in Heaps /\ s.heap.values = n.values /\ s.heap.frames = n.frames
      /\ s.id \in StringIds \cup {Null} /\ Swaps(n.strings, s.heap.strings, Null, s.id)
      /\ s.id # Null => s.heap.strings[s.id] = text
  BY <1>3, StoreString
<1>5. IsOf(s.heap.frames, info.ptrs, s.heap.strings, s.id)
  BY <1>3, <1>4, HeapIsOne DEF IsOf
<1> HIDE DEF s, info
<1>6. r \in StringRefType /\ r.str = s.id BY <1>4 DEF StringRefType
<1> HIDE DEF r
<1>7. /\ Info(info.ptrs, r) \in StackInfoType /\ Info(info.ptrs, r).ptrs = info.ptrs
      /\ Info(info.ptrs, r).whereTaken = r
  BY <1>2, <1>6, InfoOfParts
<1>8. Swaps(Heap.strings, s.heap.strings, info.whereTaken.str, s.id)
  <2>1. Null \notin DOMAIN Heap.strings BY <1>1, MemoryAssumption DEF Heaps, StringHeap
  <2> QED BY <1>3, <1>4, <2>1, SwapsThrough
<1>9. Swaps(Heap.frames, Heap.frames, info.ptrs, info.ptrs)
  <2>1. DOMAIN Heap.frames = FrameIds BY <1>1 DEF Heaps, FrameHeap
  <2> QED BY <1>1, <1>2, <2>1 DEF Swaps, KeptBut, NoOther, IsIn
<1>10. Replaces(Heap, s.heap, info, Info(info.ptrs, r))
  BY <1>3, <1>4, <1>5, <1>6, <1>7, <1>8, <1>9 DEF Replaces
<1> QED BY <1>10 DEF s, r, n, info

\* What PutText changes of the values and StackInfo objects: the StackInfo of the owner.
LEMMA PutTextChanges ==
  ASSUME Inv, NEW t \in Threads, PutText(t)
  PROVE \E w \in Owners, n \in Heaps, new \in StackInfoType :
          /\ Replaces(Heap, n, InfoAt(w), new) /\ frames' = n.frames /\ strings' = n.strings
          /\ w = OwnerOf(target[t]) /\ target[t] \in Errors \cup StackInfos
          /\ HolderOf[target[t]] = t
          /\ IF target[t] \in AllErrors
             THEN /\ infos' = infos /\ w \in ValueIds /\ values[w] # Null
                  /\ values' = [values EXCEPT ![w] = [values[w] EXCEPT !.info = new]]
             ELSE /\ values' = values /\ infos[target[t]] # Gone
                  /\ infos' = [infos EXCEPT ![target[t]] = new]
<1>1. TypeOK /\ PtrsOwned /\ StrsOwned /\ TextsOwn /\ ValuesOwned /\ Targets /\ Stacks /\ CacheInv
  BY Zenon DEF Inv
<1>2. ~Idle(t) /\ Len(out[t]) = Len(stack[t])
  <2>1. Finish(t) BY Zenon DEF PutText
  <2> QED BY <2>1 DEF Finish, TextIsMade, Idle
<1> DEFINE o == target[t]
           info == InfoOf(o)
           s == Store(ReleaseStr(Heap, info.whereTaken), "strings", out[t])
           new == Info(info.ptrs, [fromLiteral |-> FALSE, str |-> s.id])
           w == OwnerOf(o)
<1>3. /\ o \in Errors \cup StackInfos /\ HolderOf[o] = t
      /\ IF o \in AllErrors THEN HasValue(o) ELSE infos[o] # Gone
  BY <1>1, <1>2 DEF Targets
<1>4. w \in Owners /\ InfoAt(w) = info BY <1>1, <1>3, InfoOfObject
<1>5. out[t] \in Seq(Infos) BY <1>1 DEF TypeOK, CacheTypeOK
<1>6. Replaces(Heap, s.heap, InfoAt(w), new)
  <2>2. Says(out[t], stack[t]) BY <1>1, <1>2 DEF CacheInv, Made, Says
  <2>3. stack[t] = Traced[w] BY <1>1, <1>2 DEF Stacks
  <2> HIDE DEF w, info
  <2>4. InfoAt(w).ptrs # Null => Traced[w] = frames[InfoAt(w).ptrs] BY <1>4 DEF Traced, Ptrs
  <2>5. InfoAt(w).ptrs # Null => Says(out[t], frames[InfoAt(w).ptrs]) BY <2>2, <2>3, <2>4
  <2>6. LET i == InfoAt(w)
            h == Store(ReleaseStr(Heap, i.whereTaken), "strings", out[t])
        IN Replaces(Heap, h.heap, i, Info(i.ptrs, [fromLiteral |-> FALSE, str |-> h.id]))
    BY <1>1, <1>4, <1>5, <2>5, TextIsPut
  <2> QED BY <1>4, <2>6
<1>7. s.heap \in Heaps /\ s.heap.values = values /\ new \in StackInfoType
  <2> HIDE DEF s, new, w
  <2> QED BY <1>1, <1>6, HeapIsOne DEF Replaces
<1>8. IF o \in AllErrors
      THEN /\ PutMemory([s.heap EXCEPT !.values[errors[o].value].info = new]) /\ infos' = infos
      ELSE /\ PutMemory(s.heap) /\ infos' = [infos EXCEPT ![o] = new]
  BY Zenon DEF PutText
<1> HIDE DEF s, new, info
<1>9. CASE o \in AllErrors
  <2>1. w \in ValueIds /\ values[w] \in ValueType /\ values[w] # Null /\ w = errors[o].value
    BY <1>1, <1>3, <1>9, ValueIsThere, MemoryAssumption DEF OwnerOf, ValueOf
  <2>2. /\ frames' = s.heap.frames /\ strings' = s.heap.strings
        /\ values' = [values EXCEPT ![w] = [values[w] EXCEPT !.info = new]]
    BY <1>7, <1>8, <1>9, <2>1 DEF PutMemory, Heaps
  <2> QED BY <1>3, <1>4, <1>6, <1>7, <1>8, <1>9, <2>1, <2>2
<1>10. CASE o \notin AllErrors
  <2>1. /\ frames' = s.heap.frames /\ strings' = s.heap.strings /\ values' = values
        /\ infos' = [infos EXCEPT ![o] = new]
    BY <1>7, <1>8, <1>10 DEF PutMemory
  <2> QED BY <1>3, <1>4, <1>6, <1>7, <1>10, <2>1
<1> QED BY <1>9, <1>10

\* The end of postinit.
LEMMA PutTextKeeps ==
  ASSUME Inv, NEW t \in Threads, PutText(t)
  PROVE Inv' /\ Losses
<1>1. TypeOK /\ PtrsOwned /\ StrsOwned /\ TextsOwn /\ ValuesOwned /\ Targets /\ Stacks /\ CacheInv
      /\ NoStringLost
  BY DEF Inv
<1>2. Finish(t) /\ target' = [target EXCEPT ![t] = Null] /\ errors' = errors
  BY DEF PutText
<1>3. PICK w \in Owners, n \in Heaps, new \in StackInfoType :
        /\ Replaces(Heap, n, InfoAt(w), new) /\ frames' = n.frames /\ strings' = n.strings
        /\ w = OwnerOf(target[t]) /\ target[t] \in Errors \cup StackInfos
        /\ HolderOf[target[t]] = t
        /\ IF target[t] \in AllErrors
           THEN /\ infos' = infos /\ w \in ValueIds /\ values[w] # Null
                /\ values' = [values EXCEPT ![w] = [values[w] EXCEPT !.info = new]]
           ELSE /\ values' = values /\ infos[target[t]] # Gone
                /\ infos' = [infos EXCEPT ![target[t]] = new]
  BY PutTextChanges
<1>4. /\ values \in [ValueIds -> ValueType \cup {Null}]
      /\ infos \in [StackInfos -> StackInfoType \cup {Gone}]
      /\ target \in [Threads -> Errors \cup StackInfos \cup {Null}]
      /\ at \in [Threads -> {"idle", "resolve", "look up"}]
  BY <1>1 DEF TypeOK, CacheTypeOK
<1>5. new # Gone BY MemoryAssumption
<1>6. /\ values' \in [ValueIds -> ValueType \cup {Null}]
      /\ infos' \in [StackInfos -> StackInfoType \cup {Gone}]
      /\ \A x \in Owners : InfoAt(x)' = IF x = w THEN new ELSE InfoAt(x)
      /\ \A v \in ValueIds : values[v] # Null => values'[v] # Null
      /\ \A i \in StackInfos : infos[i] # Gone => infos'[i] # Gone
  <2>1. CASE target[t] \in AllErrors
    <3>1. /\ infos' = infos /\ w \in ValueIds /\ values[w] \in ValueType /\ w \notin StackInfos
          /\ values' = [values EXCEPT ![w] = [values[w] EXCEPT !.info = new]]
      BY <1>3, <1>4, <2>1, ErrorAssumption
    <3>2. /\ [values[w] EXCEPT !.info = new] \in ValueType
          /\ [values[w] EXCEPT !.info = new].info = new
      BY <3>1 DEF ValueType
    <3>3. [values[w] EXCEPT !.info = new] # Null BY <3>2, MemoryAssumption
    <3>4. /\ values'[w] = [values[w] EXCEPT !.info = new]
          /\ \A v \in ValueIds : v # w => values'[v] = values[v]
          /\ values' \in [ValueIds -> ValueType \cup {Null}]
      BY <1>4, <3>1, <3>2
    <3>5. ASSUME NEW x \in Owners PROVE InfoAt(x)' = IF x = w THEN new ELSE InfoAt(x)
      <4>1. CASE x = w
        BY <3>1, <3>2, <3>3, <3>4, <4>1 DEF InfoAt
      <4>2. CASE x # w
        BY <3>1, <3>4, <4>2 DEF InfoAt, Owners
      <4> QED BY <4>1, <4>2
    <3> QED BY <1>4, <3>1, <3>3, <3>4, <3>5
  <2>2. CASE target[t] \notin AllErrors
    <3>1. /\ values' = values /\ w = target[t] /\ w \in StackInfos
          /\ infos' = [infos EXCEPT ![w] = new]
      BY <1>3, <2>2 DEF OwnerOf, AllErrors
    <3>2. /\ infos'[w] = new /\ \A i \in StackInfos : i # w => infos'[i] = infos[i]
          /\ infos' \in [StackInfos -> StackInfoType \cup {Gone}]
      BY <1>4, <3>1
    <3>3. ASSUME NEW x \in Owners PROVE InfoAt(x)' = IF x = w THEN new ELSE InfoAt(x)
      <4>1. CASE x = w
        BY <1>5, <3>1, <3>2, <4>1 DEF InfoAt
      <4>2. CASE x # w
        BY <3>1, <3>2, <4>2 DEF InfoAt
      <4> QED BY <4>1, <4>2
    <3> QED BY <1>4, <1>5, <3>1, <3>2, <3>3
  <2> QED BY <2>1, <2>2
<1>7. Ptrs' = [Ptrs EXCEPT ![w] = new.ptrs] /\ Strs' = [Strs EXCEPT ![w] = new.whereTaken.str]
  <2>1. ASSUME NEW x \in Owners
        PROVE /\ Ptrs'[x] = IF x = w THEN new.ptrs ELSE Ptrs[x]
              /\ Strs'[x] = IF x = w THEN new.whereTaken.str ELSE Strs[x]
    <3>1. InfoAt(x)' = IF x = w THEN new ELSE InfoAt(x) BY <1>6
    <3>2. Ptrs'[x] = InfoAt(x)'.ptrs /\ Strs'[x] = InfoAt(x)'.whereTaken.str BY DEF Ptrs, Strs
    <3>3. Ptrs[x] = InfoAt(x).ptrs /\ Strs[x] = InfoAt(x).whereTaken.str BY DEF Ptrs, Strs
    <3> QED BY <3>1, <3>2, <3>3
  <2> QED BY <2>1, OneInfoChanges
<1>8. /\ PtrsOwned' /\ StrsOwned' /\ frames' \in FrameHeap /\ strings' \in StringHeap
      /\ TextsOwn' /\ \A x \in Owners : x # w => Traced'[x] = Traced[x]
      /\ LostIn(Ptrs', frames') \subseteq LostIn(Ptrs, frames) /\ NoStringLost'
  <2>1. resolvedData' = resolvedData BY <1>2 DEF Finish
  <2> QED BY <1>1, <1>3, <1>7, <2>1, InfoChanges DEF NoStringLost
<1>9. ValuesOwned'
  <2>1. Vals' = Vals BY <1>2 DEF Vals
  <2>2. DOMAIN values' = ValueIds /\ DOMAIN values = ValueIds BY <1>4, <1>6
  <2> QED BY <1>1, <1>6, <2>1, <2>2 DEF ValuesOwned, OwnedBy
<1>10. CacheInv' /\ CacheTypeOK'
  <2>1. CacheInv' BY <1>1, <1>2, FinishKeeps
  <2> QED BY <2>1 DEF CacheInv
<1>11. Targets'
  <2>1. ASSUME NEW u \in Threads, ~Idle(u)' PROVE ~Idle(u) /\ target'[u] = target[u]
    <3>1. at'[t] = "idle" /\ (u # t => at'[u] = at[u]) BY <1>2, <1>4 DEF Finish
    <3> QED BY <1>2, <1>4, <2>1, <3>1 DEF Idle
  <2>2. ASSUME NEW u \in Threads, ~Idle(u)'
        PROVE /\ target'[u] \in Errors \cup StackInfos /\ HolderOf[target'[u]] = u
              /\ IF target'[u] \in AllErrors THEN HasValue(target[u])'
                 ELSE infos'[target'[u]] # Gone
    <3>1. ~Idle(u) /\ target'[u] = target[u] BY <2>1, <2>2
    <3>2. /\ target[u] \in Errors \cup StackInfos /\ HolderOf[target[u]] = u
          /\ IF target[u] \in AllErrors THEN HasValue(target[u]) ELSE infos[target[u]] # Gone
      BY <1>1, <3>1 DEF Targets
    <3>3. HasValue(target[u])' = HasValue(target[u]) BY <1>2, <3>1 DEF HasValue
    <3>4. target[u] \notin AllErrors => infos'[target[u]] # Gone
      BY <1>6, <3>2 DEF AllErrors
    <3> QED BY <3>1, <3>2, <3>3, <3>4
  <2> QED BY <2>1, <2>2 DEF Targets, HasValue
<1>12. TypeOK'
  <2>1. target' \in [Threads -> Errors \cup StackInfos \cup {Null}] BY <1>2, <1>4
  <2> QED BY <1>1, <1>2, <1>6, <1>8, <1>10, <2>1 DEF TypeOK, FrameHeap, StringHeap
<1>13. Stacks'
  <2>1. ASSUME NEW u \in Threads, ~Idle(u)' PROVE stack'[u] = Traced'[OwnerOf(target[u])']
    <3>1. at'[t] = "idle" /\ stack'= [stack EXCEPT ![t] = <<>>] /\ (u # t => at'[u] = at[u])
      BY <1>2, <1>4 DEF Finish
    <3>2. ~Idle(u) /\ u # t BY <2>1, <3>1 DEF Idle
    <3>3. target'[u] = target[u] /\ stack'[u] = stack[u]
      BY <1>1, <1>2, <1>4, <3>1, <3>2 DEF TypeOK, CacheTypeOK
    <3>4. /\ target[u] \in Errors \cup StackInfos /\ HolderOf[target[u]] = u
          /\ IF target[u] \in AllErrors THEN HasValue(target[u]) ELSE infos[target[u]] # Gone
          /\ stack[u] = Traced[OwnerOf(target[u])]
      BY <1>1, <3>2 DEF Targets, Stacks
    <3>5. OwnerOf(target[u])' = OwnerOf(target[u]) BY <1>2, <3>3 DEF OwnerOf
    <3>6. OwnerOf(target[u]) \in Owners /\ OwnerOf(target[u]) # w
      <4>1. CASE target[t] \in AllErrors
        <5>1. target[t] \in Errors /\ HolderOf[target[t]] = t
          BY <1>3, <4>1, ErrorAssumption DEF AllErrors
        <5>2. w = Vals[target[t]]
          <6>1. ~Idle(t) BY <1>2 DEF Finish, TextIsMade, Idle
          <6>2. HasValue(target[t]) BY <1>1, <4>1, <6>1 DEF Targets
          <6> QED BY <1>3, <4>1, <6>2 DEF OwnerOf, Vals, HasValue
        <5> QED BY <1>1, <3>2, <3>4, <5>1, <5>2, OwnersApart
      <4>2. CASE target[t] \notin AllErrors
        <5>1. w = target[t] /\ w \in StackInfos /\ HolderOf[w] = t
          BY <1>3, <4>2 DEF OwnerOf, AllErrors
        <5> QED BY <1>1, <3>2, <3>4, <5>1, OwnersApart
      <4> QED BY <4>1, <4>2
    <3> QED BY <1>8, <3>3, <3>4, <3>5, <3>6
  <2> QED BY <2>1 DEF Stacks
<1>14. Losses
  <2>1. Vals' = Vals BY <1>2 DEF Vals
  <2>2. DOMAIN values' = ValueIds /\ \A v \in ValueIds : values'[v] # Null => values[v] # Null
    BY <1>3, <1>4, <1>6
  <2>3. LostIn(Vals', values') \subseteq LostIn(Vals, values) BY <1>4, <2>1, <2>2 DEF LostIn
  <2> QED BY <1>8, <2>3 DEF Losses
<1> QED BY <1>8, <1>9, <1>10, <1>11, <1>12, <1>13, <1>14 DEF Inv

(***************************************************************************)
(* The theorems                                                             *)
(***************************************************************************)
\* The globals are apart in memory.
LEMMA GlobalsAreApart ==
  /\ ValueOfGlobal \in [Globals -> ValueIds] /\ FrameOfGlobal \in [Globals -> FrameIds]
  /\ \A g, h \in Globals : g # h => ValueOfGlobal[g] # ValueOfGlobal[h]
  /\ \A g, h \in Globals : g # h => FrameOfGlobal[g] # FrameOfGlobal[h]
  /\ \A g \in Globals : GlobalAt(ValueOfGlobal[g]) = g
<1>1. /\ ValueOfGlobal \in [Globals -> ValueIds] /\ FrameOfGlobal \in [Globals -> FrameIds]
      /\ Apart(ValueOfGlobal) /\ Apart(FrameOfGlobal)
  BY MemoryAssumption DEF ValueOfGlobal, FrameOfGlobal, Apart
<1>2. ASSUME NEW g \in Globals PROVE GlobalAt(ValueOfGlobal[g]) = g
  BY <1>1 DEF GlobalAt, Apart
<1> QED BY <1>1, <1>2 DEF Apart

\* The initial state.
LEMMA InitHolds == Init => Inv
<1> SUFFICES ASSUME Init PROVE Inv
  OBVIOUS
<1> DEFINE At(g) == [code |-> g, info |-> Info(FrameOfGlobal[g], EmptyLiteral)]
           S == AnyOf(Traces)
<1>1. /\ values = [x \in ValueIds |->
           IF \E g \in Globals : ValueOfGlobal[g] = x THEN At(GlobalAt(x)) ELSE Null]
      /\ frames = [x \in FrameIds |->
           IF \E g \in Globals : FrameOfGlobal[g] = x THEN S ELSE Null]
      /\ errors = [e \in AllErrors |->
           IF e \in Globals THEN [domain |-> DomainOf(e), value |-> ValueOfGlobal[e]] ELSE Gone]
      /\ strings = [x \in StringIds |-> Null] /\ infos = [i \in StackInfos |-> Gone]
      /\ target = [t \in Threads |-> Null] /\ CacheInit
  BY DEF Init
<1>2. S \in Traces /\ S # Null BY MemoryAssumption DEF AnyOf
<1> HIDE DEF S
<1>3. ASSUME NEW g \in Globals
      PROVE /\ At(g) \in ValueType /\ At(g) # Null /\ At(g).info.ptrs = FrameOfGlobal[g]
            /\ At(g).info.whereTaken.str = Null
  <2>1. FrameOfGlobal[g] \in FrameIds BY GlobalsAreApart
  <2>2. /\ Info(FrameOfGlobal[g], EmptyLiteral) \in StackInfoType
        /\ Info(FrameOfGlobal[g], EmptyLiteral).ptrs = FrameOfGlobal[g]
        /\ Info(FrameOfGlobal[g], EmptyLiteral).whereTaken = EmptyLiteral
    BY <2>1, InfoOfParts, EmptyRefs
  <2> QED BY <2>2, EmptyRefs, MemoryAssumption DEF ValueType
<1> HIDE DEF At
<1>4. ASSUME NEW g \in Globals
      PROVE ValueOfGlobal[g] \in ValueIds /\ values[ValueOfGlobal[g]] = At(g)
  BY <1>1, GlobalsAreApart
<1>5. \A x \in ValueIds : values[x] # Null =>
        \E g \in Globals : x = ValueOfGlobal[g]
  BY <1>1
<1>6. CacheInv /\ CacheTypeOK
  <2>1. CacheInv BY <1>1, CacheStarts
  <2> QED BY <2>1 DEF CacheInv
<1>7. TypeOK
  <2>1. values \in [ValueIds -> ValueType \cup {Null}]
    <3>1. ASSUME NEW x \in ValueIds PROVE values[x] \in ValueType \cup {Null}
      BY <1>3, <1>4, <1>5
    <3> QED BY <1>1, <3>1
  <2>2. frames \in [FrameIds -> Traces \cup {Null}] BY <1>1, <1>2
  <2>3. strings \in [StringIds -> Seq(Infos) \cup {Null}] BY <1>1
  <2>4. errors \in [AllErrors -> ErrorType \cup {Gone}]
    <3>1. ASSUME NEW e \in Globals
          PROVE [domain |-> DomainOf(e), value |-> ValueOfGlobal[e]] \in ErrorType
      BY <1>4 DEF ErrorType, DomainOf
    <3> QED BY <1>1, <3>1
  <2>5. /\ infos \in [StackInfos -> StackInfoType \cup {Gone}]
        /\ target \in [Threads -> Errors \cup StackInfos \cup {Null}]
    BY <1>1
  <2> QED BY <1>6, <2>1, <2>2, <2>3, <2>4, <2>5 DEF TypeOK
<1>8. ValuesOwned
  <2>1. /\ \A g \in Globals : Vals[g] = ValueOfGlobal[g]
        /\ \A e \in AllErrors : e \notin Globals => Vals[e] = Null
        /\ DOMAIN Vals = AllErrors /\ DOMAIN values = ValueIds
    <3>1. \A g \in Globals : [domain |-> DomainOf(g), value |-> ValueOfGlobal[g]] # Gone
      BY <1>4, MemoryAssumption DEF ErrorType, DomainOf
    <3> QED BY <1>1, <3>1 DEF Vals, AllErrors
  <2> QED BY <1>3, <1>4, <2>1, GlobalsAreApart DEF ValuesOwned, OwnedBy
<1>9. ASSUME NEW w \in Owners
      PROVE /\ Strs[w] = Null
            /\ Ptrs[w] # Null =>
                 \E g \in Globals : w = ValueOfGlobal[g] /\ Ptrs[w] = FrameOfGlobal[g]
  <2>1. CASE \E g \in Globals : w = ValueOfGlobal[g]
    <3>1. PICK g \in Globals : w = ValueOfGlobal[g] BY <2>1
    <3>2. w \notin StackInfos BY <1>4, <3>1, ErrorAssumption
    <3>3. InfoAt(w) = At(g).info BY <1>3, <1>4, <3>1, <3>2 DEF InfoAt
    <3> QED BY <1>3, <3>1, <3>3 DEF Ptrs, Strs
  <2>2. CASE ~\E g \in Globals : w = ValueOfGlobal[g]
    <3>1. InfoAt(w) = MovedInfo BY <1>1, <1>5, <2>2 DEF InfoAt, Owners
    <3> QED BY <3>1, InfoParts DEF Ptrs, Strs
  <2> QED BY <2>1, <2>2
<1>10. PtrsOwned
  <2>1. DOMAIN Ptrs = Owners /\ DOMAIN frames = FrameIds BY <1>1 DEF Ptrs
  <2>2. \A g \in Globals : FrameOfGlobal[g] \in FrameIds /\ frames[FrameOfGlobal[g]] # Null
    BY <1>1, <1>2, GlobalsAreApart
  <2> QED BY <1>9, <2>1, <2>2, GlobalsAreApart DEF PtrsOwned, OwnedBy
<1>11. StrsOwned
  <2>1. DOMAIN Strs = Owners BY DEF Strs
  <2> QED BY <1>9, <2>1 DEF StrsOwned, OwnedBy
<1>12. Targets /\ Stacks BY <1>1 DEF Targets, Stacks, CacheInit, Idle
<1>13. TextsOwn BY <1>9 DEF TextsOwn, IsOf
<1>14. NoStringLost BY <1>1 DEF NoStringLost, LostIn
<1> QED BY <1>6, <1>7, <1>8, <1>10, <1>11, <1>12, <1>13, <1>14 DEF Inv

\* Every step.
LEMMA StepKeeps == Inv /\ [Next]_vars => Inv' /\ Losses
<1> SUFFICES ASSUME Inv, [Next]_vars PROVE Inv' /\ Losses
  OBVIOUS
<1>1. ASSUME NEW t \in Threads, NEW e \in Errors, ErrorStep(t, e) PROVE Inv' /\ Losses
  BY <1>1, ErrorStepKeeps
<1>2. ASSUME NEW t \in Threads, NEW i \in StackInfos, InfoStep(t, i) PROVE Inv' /\ Losses
  BY <1>2, InfoStepKeeps
<1>3. ASSUME NEW t \in Threads, NEW o \in Errors \cup StackInfos, Log(t, o) PROVE Inv' /\ Losses
  BY <1>3, LogKeeps
<1>4. ASSUME NEW t \in Threads, ResolveStep(t) \/ LookUpStep(t) PROVE Inv' /\ Losses
  BY <1>4, SearchKeeps
<1>5. ASSUME NEW t \in Threads, PutText(t) PROVE Inv' /\ Losses
  BY <1>5, PutTextKeeps
<1>6. CASE UNCHANGED vars
  <2>1. TypeOK /\ PtrsOwned /\ StrsOwned /\ TextsOwn /\ ValuesOwned /\ Targets /\ Stacks /\ CacheInv
        /\ NoStringLost
    BY DEF Inv
  <2>2. UNCHANGED <<cacheVars, memory, errors, infos, target>> BY <1>6 DEF vars
  <2>3. PtrsOwned' /\ StrsOwned' /\ ValuesOwned' /\ NoStringLost' /\ Losses
    BY <2>1, <2>2, OwnedStays
  <2>4. CacheInv' /\ CacheTypeOK' BY <2>1, <2>2, CacheStays
  <2>5. Targets' BY <2>1, <2>2 DEF Targets, HasValue, Idle, cacheVars
  <2>6. TypeOK' BY <2>1, <2>2, <2>4 DEF TypeOK, memory
  <2>7. TextsOwn'
    <3>1. resolvedData' = resolvedData BY <2>2 DEF cacheVars
    <3> QED BY <2>1, <2>2, <3>1, OwnedStays, CacheTexts
  <2>8. Stacks'
    <3>1. Traced' = Traced BY <2>1, <2>2, OwnedStays
    <3> QED BY <2>1, <2>2, <3>1 DEF Stacks, OwnerOf, Idle, cacheVars
  <2> QED BY <2>3, <2>4, <2>5, <2>6, <2>7, <2>8 DEF Inv
<1> QED BY <1>1, <1>2, <1>3, <1>4, <1>5, <1>6 DEF Next

\* The steps of the cache are those of StackInfoCache.
LEMMA StepIsCacheStep == Inv /\ [Next]_vars => [CacheNext]_cacheVars
<1> SUFFICES ASSUME Inv, [Next]_vars PROVE [CacheNext]_cacheVars
  OBVIOUS
<1>1. ASSUME NEW t \in Threads, NEW e \in Errors, ErrorStep(t, e) PROVE UNCHANGED cacheVars
  BY <1>1 DEF ErrorStep, Construct, CopyConstruct, MoveConstruct, Assign, MoveAssign, Destroy,
              PutError, MoveError
<1>2. ASSUME NEW t \in Threads, NEW i \in StackInfos, InfoStep(t, i) PROVE UNCHANGED cacheVars
  BY <1>2 DEF InfoStep, Capture, InitInfo, CopyInfo, MoveConstructInfo, AssignInfo,
              MoveAssignInfo, ClearInfo, DestroyInfo, PutInfo, MoveInfo
<1>3. ASSUME NEW t \in Threads, NEW o \in Errors \cup StackInfos, Log(t, o) PROVE CacheNext
  <2>1. \E s \in Traces \cup {<<>>} : Start(t, s) BY <1>3, LogStarts
  <2>2. CacheStep(t) BY <2>1 DEF CacheStep
  <2> QED BY <2>2 DEF CacheNext
<1>4. ASSUME NEW t \in Threads, ResolveStep(t) \/ LookUpStep(t) \/ PutText(t) PROVE CacheNext
  <2>1. CASE PutText(t)
    <3>1. Finish(t) BY <2>1, Zenon DEF PutText
    <3> QED BY <3>1 DEF CacheNext, CacheStep
  <2>2. CASE ResolveStep(t) \/ LookUpStep(t)
    BY <2>2 DEF CacheNext, CacheStep, ResolveStep, LookUpStep
  <2> QED BY <1>4, <2>1, <2>2
<1>5. CASE UNCHANGED vars
  BY <1>5 DEF vars
<1> QED BY <1>1, <1>2, <1>3, <1>4, <1>5 DEF Next

\* Whatever errors and StackInfo objects there are, and however little memory: types are
\* kept, everything an error or a StackInfo refers to is there and is its own (error.h,
\* stack_info.h, string_ref.h: no copy, move, assignment or failed allocation makes two of
\* them free the same).
THEOREM MemoryIsOwned == Spec => [](TypeOK /\ OwnedOnce)
<1>1. Spec => []Inv BY InitHolds, StepKeeps, PTL DEF Spec
<1>2. ASSUME Inv PROVE TypeOK /\ OwnedOnce
  <2>1. TypeOK /\ ValuesOwned /\ PtrsOwned /\ StrsOwned /\ TextsOwn BY <1>2 DEF Inv
  <2>2. \A e \in AllErrors : HasValue(e) => Vals[e] = errors[e].value /\ errors[e].value # Null
    BY DEF Vals, HasValue
  <2>3. /\ OwnedValues \subseteq Live(values)
        /\ \A e, f \in {x \in AllErrors : HasValue(x)} : e # f => errors[e].value # errors[f].value
    BY <2>1, <2>2 DEF OwnedValues, Live, ValuesOwned, OwnedBy, Vals
  <2>4. /\ OwnedFrames \subseteq Live(frames)
        /\ \A w, x \in Owners : w # x =>
             (InfoAt(w).ptrs # Null => InfoAt(w).ptrs # InfoAt(x).ptrs)
    BY <2>1 DEF OwnedFrames, Live, PtrsOwned, OwnedBy, Ptrs
  <2>5. /\ OwnedStrings \subseteq Live(strings)
        /\ \A w, x \in Owners : w # x =>
             (InfoAt(w).whereTaken.str # Null
                => InfoAt(w).whereTaken.str # InfoAt(x).whereTaken.str)
    BY <2>1 DEF OwnedStrings, Live, StrsOwned, OwnedBy, Strs
  <2> QED BY <2>1, <2>3, <2>4, <2>5 DEF OwnedOnce
<1> QED BY <1>1, <1>2, PTL

\* All types are kept, in particular by copies that fail in the middle.
THEOREM TypesAreKept == Spec => []TypeOK
<1>1. Spec => []Inv BY InitHolds, StepKeeps, PTL DEF Spec
<1> QED BY <1>1, PTL DEF Inv

\* What is lost, of each kind of memory, is what no owner refers to.
SameLost ==
  /\ LostValues = LostIn(Vals, values) /\ LostFrames = LostIn(Ptrs, frames)
  /\ Live(strings) \ OwnedStrings = LostIn(Strs, strings)

LEMMA LostIsLost == ASSUME TypeOK PROVE SameLost
<1>1. /\ DOMAIN values = ValueIds /\ DOMAIN frames = FrameIds /\ DOMAIN strings = StringIds
      /\ Null \notin ValueIds \cup FrameIds \cup StringIds
  BY MemoryAssumption DEF TypeOK
<1>2. /\ DOMAIN Vals = AllErrors /\ DOMAIN Ptrs = Owners /\ DOMAIN Strs = Owners
  BY DEF Vals, Ptrs, Strs
<1>3. LostValues = LostIn(Vals, values)
  <2>1. \A v \in ValueIds : v \in OwnedValues <=> \E e \in AllErrors : Vals[e] = v
    BY <1>1 DEF OwnedValues, Vals, HasValue
  <2> QED BY <1>1, <1>2, <2>1 DEF LostValues, Live, LostIn
<1>4. LostFrames = LostIn(Ptrs, frames)
  BY <1>1, <1>2 DEF LostFrames, Live, LostIn, OwnedFrames, Ptrs
<1>5. Live(strings) \ OwnedStrings = LostIn(Strs, strings)
  BY <1>1, <1>2 DEF Live, LostIn, OwnedStrings, Strs
<1> QED BY <1>3, <1>4, <1>5 DEF SameLost

\* However objects are copied, moved, assigned and destroyed, and whichever allocation fails:
\* memory is lost only by the two assignments that overwrite what they had (error::operator =,
\* StackPointers::operator = ( StackPointers&& )), and each loses only what its own target had.
\* No string is ever lost.
THEOREM LossesAreAssignments == Spec => LostOnlyByAssignment
<1>1. Spec => []Inv BY InitHolds, StepKeeps, PTL DEF Spec
<1>2. Inv => SameLost BY LostIsLost DEF Inv
<1>3. Inv /\ Inv' /\ SameLost /\ SameLost' /\ [Next]_vars =>
        [/\ \A v \in LostValues' \ LostValues :
              \E e \in Errors : HasValue(e) /\ errors[e].value = v /\ errors'[e] # Gone
         /\ \A f \in LostFrames' \ LostFrames :
              \E i, j \in StackInfos :
                /\ infos[i] # Gone /\ infos[i].ptrs = f
                /\ i # j /\ infos[j] # Gone /\ infos'[i] = infos[j] /\ infos'[j] = MovedInfo
         /\ Live(strings)' \subseteq OwnedStrings']_vars
  <2> SUFFICES ASSUME Inv, Inv', SameLost, SameLost', [Next]_vars
               PROVE /\ \A v \in LostValues' \ LostValues :
                          \E e \in Errors :
                            HasValue(e) /\ errors[e].value = v /\ errors'[e] # Gone
                     /\ \A f \in LostFrames' \ LostFrames :
                          \E i, j \in StackInfos :
                            /\ infos[i] # Gone /\ infos[i].ptrs = f
                            /\ i # j /\ infos[j] # Gone
                            /\ infos'[i] = infos[j] /\ infos'[j] = MovedInfo
                     /\ Live(strings)' \subseteq OwnedStrings'
    OBVIOUS
  <2>1. Losses BY StepKeeps
  <2>2. NoStringLost' BY DEF Inv
  <2>3. /\ LostValues = LostIn(Vals, values) /\ LostFrames = LostIn(Ptrs, frames)
        /\ LostValues' = LostIn(Vals', values') /\ LostFrames' = LostIn(Ptrs', frames')
        /\ Live(strings)' \ OwnedStrings' = LostIn(Strs', strings')
    BY DEF SameLost, LostIn
  <2>4. Live(strings)' \subseteq OwnedStrings' BY <2>2, <2>3 DEF NoStringLost, LostIn
  <2> QED BY <2>1, <2>3, <2>4 DEF Losses
<1> QED BY <1>1, <1>2, <1>3, PTL DEF Spec, LostOnlyByAssignment

\* Errors and StackInfo objects use the cache as StackInfoCache says.
THEOREM UsesTheCache == Spec => CacheSpec
<1>1. Spec => []Inv BY InitHolds, StepKeeps, PTL DEF Spec
<1>2. Init => CacheInit BY DEF Init
<1> QED BY <1>1, <1>2, StepIsCacheStep, PTL DEF Spec, CacheSpec

\* So every pointer is looked up once and all threads read the same, whatever they log.
THEOREM TextsAgree == Spec => [](LookedUpOnce /\ ReadersAgree)
<1>1. CacheSpec => []CacheInv BY CacheStarts, CacheStepKeeps, PTL DEF CacheSpec
<1>2. CacheInv => LookedUpOnce /\ ReadersAgree BY DEF CacheInv, Made, ReadersAgree
<1> QED BY <1>1, <1>2, UsesTheCache, PTL

\* A text is made of a stack once, and kept, copied, moved and assigned with it; still it says
\* of each pointer of the stack it is with what the cache has, though the cache was filled by
\* other threads and the stack put elsewhere in between (postinit, stack_info_impl.h).
THEOREM TextsAreOwn == Spec => []TextIsOwn
<1>1. Spec => []Inv BY InitHolds, StepKeeps, PTL DEF Spec
<1>2. ASSUME Inv PROVE TextIsOwn
  <2>1. TypeOK /\ TextsOwn BY <1>2 DEF Inv
  <2>2. ASSUME NEW w \in Owners, InfoAt(w).ptrs # Null, Text(Heap, InfoAt(w)) # <<>>
        PROVE Says(Text(Heap, InfoAt(w)), frames[InfoAt(w).ptrs])
    <3>1. /\ InfoAt(w).whereTaken.str # Null
          /\ Text(Heap, InfoAt(w)) = strings[InfoAt(w).whereTaken.str]
      BY <2>1, <2>2, HeapIsOne DEF Text
    <3>2. IsOf(frames, InfoAt(w).ptrs, strings, InfoAt(w).whereTaken.str)
      BY <2>1 DEF TextsOwn, Ptrs, Strs
    <3> QED BY <2>2, <3>1, <3>2 DEF IsOf
  <2> QED BY <2>2 DEF TextIsOwn, Says
<1> QED BY <1>1, <1>2, PTL
=============================================================================
