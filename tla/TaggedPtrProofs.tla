--------------------------- MODULE TaggedPtrProofs ---------------------------
(***************************************************************************)
(* Theorems about TaggedPtr, for words, alignments and fields of any size.   *)
(***************************************************************************)
EXTENDS TaggedPtr, TLAPS

(***************************************************************************)
(* Bits                                                                     *)
(***************************************************************************)
\* A bit of a word shifted to the left, without the bits that fall out of it.
LEMMA ShlMember ==
  ASSUME NEW x \in SUBSET Int, NEW n \in Int, NEW b \in Int
  PROVE  b \in Shl(x, n) <=> b \in Bits /\ b - n \in x
BY DEF Shl

\* Likewise for a shift to the right.
LEMMA ShrMember ==
  ASSUME NEW x \in SUBSET Nat, NEW n \in Nat, NEW b \in Int
  PROVE  b \in Shr(x, n) <=> b >= 0 /\ b + n \in x
BY DEF Shr

\* The two shifts over the unused upper bits undo each other: data of `heap', and the
\* lowest data bits of `paired'.
LEMMA UpperRoundTrip ==
  ASSUME NEW d, d \subseteq Low(UpperBits)
  PROVE  /\ Shl(d, WordBits - UpperBits) \subseteq Upper
         /\ Shr(Shl(d, WordBits - UpperBits), WordBits - UpperBits) = d
<1> DEFINE n == WordBits - UpperBits
           s == Shl(d, n)
<1>1. n \in Nat /\ d \in SUBSET Int /\ UpperBits \in Nat /\ WordBits \in Nat
  BY LayoutAssumption DEF Low
<1>2. \A b \in d : b \in Nat /\ b < UpperBits
  BY <1>1 DEF Low
<1>3. s \subseteq Bits
  BY DEF Shl
<1>4. s \subseteq Upper
  <2> SUFFICES ASSUME NEW b \in s PROVE b \in Upper
    OBVIOUS
  <2>1. b \in Int
    BY <1>3, <1>1 DEF Bits
  <2>2. b - n \in d /\ b \in Bits
    BY <2>1, <1>1, ShlMember
  <2> QED
    BY <2>1, <2>2, <1>1, <1>2 DEF Upper, Bits
<1>5. s \in SUBSET Nat
  BY <1>3, <1>1 DEF Bits
<1>6. Shr(s, n) \subseteq d
  <2> SUFFICES ASSUME NEW b \in Shr(s, n) PROVE b \in d
    OBVIOUS
  <2>1. b \in Int
    BY <1>5, <1>1 DEF Shr
  <2>2. b + n \in s
    BY <2>1, <1>1, <1>5, ShrMember
  <2>3. b + n - n \in d
    BY <2>1, <2>2, <1>1, ShlMember
  <2> QED
    BY <2>1, <2>3, <1>1
<1>7. d \subseteq Shr(s, n)
  <2> SUFFICES ASSUME NEW b \in d PROVE b \in Shr(s, n)
    OBVIOUS
  <2>1. b \in Int /\ b + n \in Bits /\ b + n - n = b
    BY <1>1, <1>2 DEF Bits
  <2>2. b + n \in s
    BY <2>1, <1>1, ShlMember
  <2> QED
    BY <2>1, <2>2, <1>1, <1>2, <1>5, ShrMember
<1> QED
  BY <1>4, <1>6, <1>7

(***************************************************************************)
(* The data of `paired', in three parts                                     *)
(***************************************************************************)
\* The sizes that the parts of the data need.
LEMMA Layout ==
  /\ WordBits \in Nat /\ UpperBits \in Nat /\ LowerBits \in Nat /\ PairFlags \in Nat
  /\ PairedHighFrom \in Nat /\ PairedHighFrom >= UpperBits /\ PairedHighFrom >= UpperBits + PairFlags
  /\ UpperBits - PairFlags \in Nat /\ WordBits - UpperBits \in Nat
  /\ WordBits - 2 * UpperBits - PairFlags \in Nat
  /\ LowerBits < WordBits - UpperBits /\ PairedHighFrom < WordBits
BY LayoutAssumption DEF PairedHighFrom

\* The middle part of the data, bit by bit.
LEMMA MiddleMember ==
  ASSUME NEW d \in SUBSET Nat, NEW b \in Int
  PROVE  b \in PairedDataMiddle(d) <=>
           /\ b \in Bits /\ b >= PairFlags /\ b < LowerBits
           /\ b - PairFlags + UpperBits \in d
<1> DEFINE part == d \cap (UpperBits .. PairedHighFrom - 1)
<1>1. part \in SUBSET Nat /\ Shr(part, UpperBits) \in SUBSET Int
  BY Layout DEF Shr
<1>2. b \in Shl(Shr(part, UpperBits), PairFlags)
        <=> b \in Bits /\ b - PairFlags \in Shr(part, UpperBits)
  BY <1>1, Layout, ShlMember
<1>3. b - PairFlags \in Shr(part, UpperBits)
        <=> b - PairFlags >= 0 /\ b - PairFlags + UpperBits \in part
  BY <1>1, Layout, ShrMember
<1>4. PairedDataMiddle(d) = Shl(Shr(part, UpperBits), PairFlags)
  BY DEF PairedDataMiddle, PairedHighFrom
<1> QED
  BY <1>2, <1>3, <1>4, Layout DEF PairedHighFrom

\* The highest part of the data, bit by bit.
LEMMA HighMember ==
  ASSUME NEW d \in SUBSET Nat, NEW b \in Int
  PROVE  b \in PairedDataHigh(d) <=>
           LET c == b - (WordBits - UpperBits) + UpperBits + PairFlags
           IN b \in Bits /\ c \in d /\ PairedHighFrom <= c /\ c < PairedHighFrom + UpperBits
<1> DEFINE part == d \cap (PairedHighFrom .. PairedHighFrom + UpperBits - 1)
           k == UpperBits + PairFlags
           n == WordBits - UpperBits
<1>1. part \in SUBSET Nat /\ Shr(part, k) \in SUBSET Int /\ k \in Nat /\ n \in Nat
  BY Layout DEF Shr
<1>2. b \in Shl(Shr(part, k), n) <=> b \in Bits /\ b - n \in Shr(part, k)
  BY <1>1, Layout, ShlMember
<1>3. b - n \in Shr(part, k) <=> b - n >= 0 /\ b - n + k \in part
  BY <1>1, Layout, ShrMember
<1>4. PairedDataHigh(d) = Shl(Shr(part, k), n)
  BY DEF PairedDataHigh, PairedHighFrom
<1>5. b - n + k = b - (WordBits - UpperBits) + UpperBits + PairFlags
  BY Layout
<1> QED
  BY <1>2, <1>3, <1>4, <1>5, Layout DEF PairedHighFrom

\* The parts lie where neither the pointers nor the flags are.
LEMMA PartsApart ==
  ASSUME NEW d, d \subseteq Low(DataSize)
  PROVE  /\ d \in SUBSET Nat
         /\ PairedDataLow(d) \subseteq Upper
         /\ PairedDataMiddle(d) \subseteq PairFlags .. LowerBits - 1
         /\ PairedDataHigh(d) \subseteq Upper
<1>1. d \in SUBSET Nat
  BY LayoutAssumption DEF Low
<1>2. PairedDataLow(d) \subseteq Upper
  <2>1. d \cap Low(UpperBits) \subseteq Low(UpperBits)
    OBVIOUS
  <2> QED
    BY <2>1, UpperRoundTrip DEF PairedDataLow
<1>3. PairedDataMiddle(d) \subseteq Bits /\ PairedDataHigh(d) \subseteq Bits
  BY DEF PairedDataMiddle, PairedDataHigh, Shl
<1>4. PairedDataMiddle(d) \subseteq PairFlags .. LowerBits - 1
  BY <1>1, <1>3, MiddleMember, Layout DEF Bits
<1>5. PairedDataHigh(d) \subseteq Upper
  BY <1>1, <1>3, HighMember, Layout DEF Bits, Upper
<1> QED
  BY <1>1, <1>2, <1>4, <1>5

\* What set_data stores, get_data gives back, whatever pointers and flags are in the
\* words: the three parts of the data do not meet one another or anything else.
THEOREM DataRoundTrip ==
  ASSUME NEW d, d \subseteq Low(DataSize), NEW w, w \in Words
  PROVE  PairedGetData(PairedSetData(w, d)) = d
<1> DEFINE v == PairedSetData(w, d)
           high == v.alloc \cap Upper
           low == v.ptr \cap Upper
           middle == v.alloc \cap (PairFlags .. LowerBits - 1)
<1>1. /\ d \in SUBSET Nat
      /\ PairedDataLow(d) \subseteq Upper
      /\ PairedDataMiddle(d) \subseteq PairFlags .. LowerBits - 1
      /\ PairedDataHigh(d) \subseteq Upper
  BY PartsApart
<1>2. /\ v.ptr = (w.ptr \cap PtrMask) \cup PairedDataLow(d)
      /\ v.alloc = (w.alloc \cap (AllocMask \cup Low(PairFlags)))
                     \cup PairedDataHigh(d) \cup PairedDataMiddle(d)
  BY DEF PairedSetData
<1>3. low = PairedDataLow(d)
  BY <1>1, <1>2 DEF PtrMask
<1>4. Upper \cap (PairFlags .. LowerBits - 1) = {} /\ Upper \cap Low(PairFlags) = {}
  BY Layout, LayoutAssumption DEF Upper, Low
<1>5. AllocMask \cap (PairFlags .. LowerBits - 1) = {} /\ AllocMask \cap Upper = {}
  BY Layout DEF AllocMask, PtrMask, Lower
<1>6. Low(PairFlags) \cap (PairFlags .. LowerBits - 1) = {}
  BY Layout DEF Low
<1>7. high = PairedDataHigh(d) /\ middle = PairedDataMiddle(d)
  BY <1>1, <1>2, <1>4, <1>5, <1>6
<1>8. high \in SUBSET Nat /\ middle \in SUBSET Nat
  BY Layout DEF Upper
<1>9. Shr(low, WordBits - UpperBits) = d \cap Low(UpperBits)
  <2>1. d \cap Low(UpperBits) \subseteq Low(UpperBits)
    OBVIOUS
  <2> QED
    BY <1>3, <2>1, UpperRoundTrip DEF PairedDataLow
<1>10. Shl(middle, UpperBits - PairFlags) = d \cap (UpperBits .. PairedHighFrom - 1)
  <2> DEFINE back == Shl(middle, UpperBits - PairFlags)
  <2>1. ASSUME NEW b \in Int
        PROVE  b \in back <=> b \in d /\ UpperBits <= b /\ b < PairedHighFrom
    <3> DEFINE c == b - (UpperBits - PairFlags)
    <3>1. c \in Int /\ c - PairFlags + UpperBits = b
      BY Layout
    <3>2. b \in back <=> b \in Bits /\ c \in middle
      BY <1>8, Layout, ShlMember
    <3>3. c \in middle <=> c \in Bits /\ c >= PairFlags /\ c < LowerBits /\ b \in d
      BY <3>1, <1>1, <1>7, MiddleMember
    <3> QED
      BY <3>1, <3>2, <3>3, Layout DEF Bits, PairedHighFrom
  <2>2. back \subseteq Int
    BY Layout DEF Shl, Bits
  <2>3. back = d \cap (UpperBits .. PairedHighFrom - 1)
    <3> HIDE DEF back
    <3>1. back \subseteq d \cap (UpperBits .. PairedHighFrom - 1)
      BY <2>1, <2>2, <1>1, Layout
    <3>2. d \cap (UpperBits .. PairedHighFrom - 1) \subseteq back
      <4> SUFFICES ASSUME NEW b \in d, b \in UpperBits .. PairedHighFrom - 1 PROVE b \in back
        OBVIOUS
      <4> QED
        BY <2>1, Layout
    <3> QED
      BY <3>1, <3>2
  <2> QED
    BY <2>3
<1>11. Shr(high, WordBits - 2 * UpperBits - PairFlags) = d \cap (PairedHighFrom .. PairedHighFrom + UpperBits - 1)
  <2> DEFINE back == Shr(high, WordBits - 2 * UpperBits - PairFlags)
  <2>1. ASSUME NEW b \in Int
        PROVE  b \in back <=> b \in d /\ PairedHighFrom <= b /\ b < PairedHighFrom + UpperBits
    <3> DEFINE c == b + (WordBits - 2 * UpperBits - PairFlags)
    <3>1. c \in Int /\ c - (WordBits - UpperBits) + UpperBits + PairFlags = b
      BY Layout
    <3>2. b \in back <=> b >= 0 /\ c \in high
      BY <1>8, Layout, ShrMember
    <3>3. c \in high <=> c \in Bits /\ b \in d /\ PairedHighFrom <= b /\ b < PairedHighFrom + UpperBits
      BY <3>1, <1>1, <1>7, HighMember
    <3>4. b \in d => b >= 0 /\ b < 2 * UpperBits + PairFlags
      BY <1>1, LayoutAssumption DEF Low
    <3>5. PairedHighFrom <= b /\ b < 2 * UpperBits + PairFlags => c \in Bits
      BY Layout DEF Bits, PairedHighFrom
    <3> HIDE DEF c
    <3> QED
      BY <3>2, <3>3, <3>4, <3>5
  <2>2. back \subseteq Int
    BY <1>8, Layout DEF Shr
  <2>3. back = d \cap (PairedHighFrom .. PairedHighFrom + UpperBits - 1)
    <3> HIDE DEF back
    <3>1. back \subseteq d \cap (PairedHighFrom .. PairedHighFrom + UpperBits - 1)
      BY <2>1, <2>2, <1>1, Layout
    <3>2. d \cap (PairedHighFrom .. PairedHighFrom + UpperBits - 1) \subseteq back
      <4> SUFFICES ASSUME NEW b \in d, b \in PairedHighFrom .. PairedHighFrom + UpperBits - 1 PROVE b \in back
        OBVIOUS
      <4> QED
        BY <2>1, Layout
    <3> QED
      BY <3>1, <3>2
  <2> QED
    BY <2>3
<1>12. d \subseteq Low(UpperBits) \cup (UpperBits .. PairedHighFrom - 1) \cup (PairedHighFrom .. PairedHighFrom + UpperBits - 1)
  BY Layout, LayoutAssumption DEF Low, PairedHighFrom
<1> QED
  BY <1>9, <1>10, <1>11, <1>12 DEF PairedGetData

(***************************************************************************)
(* What the words of an optimized form are, given the members of the generic *)
(***************************************************************************)
\* A structure has no members but its own.
Unused(k, g) ==
  /\ k # "paired" => g.alloc = {}
  /\ k \notin {"heap", "paired"} => g.data = {}
  /\ k \in {"plain", "heap"} => g.flags = {}
  /\ k # "masked" => g.mask = {}
  /\ ~Mortal(k) => ~g.zombie

RepresentsPaired(g, w) ==
  IF g.zombie
  THEN w.ptr \cap PtrMask = ZombieIndicator /\ w.alloc \cap Low(PairFlags) = g.flags
  ELSE /\ w.ptr = g.ptr \cup PairedDataLow(g.data)
       /\ w.alloc = g.alloc \cup g.flags \cup PairedDataHigh(g.data) \cup PairedDataMiddle(g.data)

Represents(k, g, w) ==
  CASE k = "plain" -> w.ptr = IF g.zombie THEN ZombieIndicator ELSE g.ptr
    [] k = "heap" -> w.ptr = IF g.zombie THEN ZombieIndicator
                             ELSE g.ptr \cup Shl(g.data, WordBits - UpperBits)
    [] k = "flagged" -> w.ptr = g.ptr \cup g.flags
    [] k = "masked" -> w.ptr = g.ptr \cup g.mask \cup {MaskedFlag(f) : f \in g.flags}
    [] k = "paired" -> RepresentsPaired(g, w)

Good(k, g, w) == g \in Members(k) /\ w \in Words /\ Unused(k, g) /\ Represents(k, g, w)

\* The masks of a word and the fields under them: which are apart, which are inside which.
LEMMA Regions ==
  /\ Lower \cap AllocMask = {} /\ Upper \cap PtrMask = {} /\ Upper \cap Lower = {}
  /\ AllocMask \subseteq PtrMask /\ AllocMask \subseteq HeapMask /\ HeapMask \subseteq PtrMask
  /\ PtrMask \subseteq Bits /\ Upper \subseteq Bits /\ Lower \subseteq PtrMask
  /\ PtrMask = AllocMask \cup Lower
  /\ ZombieIndicator \subseteq AllocMask
  /\ Low(NFlags) \subseteq Lower /\ Low(PairFlags) \subseteq Lower /\ Low(MaskSize) \subseteq Lower
  /\ (PairFlags .. LowerBits - 1) \subseteq Lower
  /\ (PairFlags .. LowerBits - 1) \cap Low(PairFlags) = {}
<1> USE LayoutAssumption DEF Lower, AllocMask, PtrMask, Upper, HeapMask, Bits, Low, ZombieIndicator
<1>1. Lower \cap AllocMask = {} /\ Upper \cap PtrMask = {} /\ Upper \cap Lower = {}
  OBVIOUS
<1>2. AllocMask \subseteq PtrMask /\ AllocMask \subseteq HeapMask /\ HeapMask \subseteq PtrMask
  OBVIOUS
<1>3. PtrMask \subseteq Bits /\ Upper \subseteq Bits /\ Lower \subseteq PtrMask
  OBVIOUS
<1>4. PtrMask = AllocMask \cup Lower
  BY <1>3
<1>5. ZombieIndicator \subseteq AllocMask
  OBVIOUS
<1>6. Low(NFlags) \subseteq Lower /\ Low(PairFlags) \subseteq Lower /\ Low(MaskSize) \subseteq Lower
  OBVIOUS
<1>7. /\ (PairFlags .. LowerBits - 1) \subseteq Lower
      /\ (PairFlags .. LowerBits - 1) \cap Low(PairFlags) = {}
  OBVIOUS
<1> QED
  BY <1>1, <1>2, <1>3, <1>4, <1>5, <1>6, <1>7

\* An address has a bit above the zombie indicator.
LEMMA AddressAbove ==
  ASSUME NEW k \in Kinds, NEW p \in Pointers(k), p # {}
  PROVE  /\ p \subseteq PtrMask
         /\ k \notin {"plain", "paired"} => p \subseteq AllocMask
         /\ \E b \in p : b > LowerBits
BY InputAssumption DEF Pointers

\* What the members are subsets of.
LEMMA MemberRanges ==
  ASSUME NEW k \in Kinds, NEW g \in Members(k)
  PROVE  /\ g.zombie \in BOOLEAN /\ g.ptr \in Pointers(k) /\ g.ptr \subseteq PtrMask
         /\ k \notin {"plain", "paired"} => g.ptr \subseteq AllocMask
         /\ g.alloc \in AllocPointers /\ g.alloc \subseteq AllocMask
         /\ g.data \in {{}} \cup Data(k) /\ g.data \subseteq Low(IF k = "heap" THEN UpperBits ELSE DataSize)
         /\ g.flags \subseteq Low(IF k = "paired" THEN PairFlags ELSE NFlags)
         /\ g.mask \in {{}} \cup MaskValues /\ g.mask \subseteq Low(MaskSize)
         /\ g = [zombie |-> g.zombie, ptr |-> g.ptr, alloc |-> g.alloc, data |-> g.data,
                 flags |-> g.flags, mask |-> g.mask]
<1>1. /\ g.zombie \in BOOLEAN /\ g.ptr \in Pointers(k) /\ g.alloc \in AllocPointers
      /\ g.data \in {{}} \cup Data(k) /\ g.flags \subseteq Flags(k) /\ g.mask \in {{}} \cup MaskValues
      /\ g = [zombie |-> g.zombie, ptr |-> g.ptr, alloc |-> g.alloc, data |-> g.data,
              flags |-> g.flags, mask |-> g.mask]
  BY DEF Members
<1>2. g.ptr \subseteq PtrMask /\ (k \notin {"plain", "paired"} => g.ptr \subseteq AllocMask)
  BY <1>1, AddressAbove
<1>3. g.alloc \subseteq AllocMask
  BY <1>1 DEF AllocPointers
<1>4. g.data \subseteq Low(IF k = "heap" THEN UpperBits ELSE DataSize)
  BY <1>1 DEF Data
<1>5. g.mask \subseteq Low(MaskSize)
  BY <1>1, InputAssumption
<1>6. g.flags \subseteq Low(IF k = "paired" THEN PairFlags ELSE NFlags)
  BY <1>1 DEF Flags
<1> QED
  BY <1>1, <1>2, <1>3, <1>4, <1>5, <1>6

\* What is seen of a zombie and of an object alive.
LEMMA SeenIs ==
  ASSUME NEW k \in Kinds, NEW g \in Members(k)
  PROVE  /\ g.zombie => Seen(g) = [zombie |-> TRUE, ptr |-> {}, alloc |-> {}, data |-> {},
                                   flags |-> g.flags, mask |-> {}]
         /\ ~g.zombie => Seen(g) = [zombie |-> FALSE, ptr |-> g.ptr, alloc |-> g.alloc,
                                    data |-> g.data, flags |-> g.flags, mask |-> g.mask]
<1>1. CASE g.zombie
  BY <1>1 DEF Seen, Blank, Started
<1>2. CASE ~g.zombie
  <2>1. g.zombie = FALSE
    BY <1>2, MemberRanges
  <2>2. Seen(g) = g
    BY <1>2 DEF Seen
  <2> QED
    BY <2>1, <2>2, MemberRanges
<1> QED
  BY <1>1, <1>2

\* ptr_with_zombie_property: the word gives back what the generic form holds.
LEMMA PlainReads ==
  ASSUME NEW g, NEW w, Good("plain", g, w)
  PROVE  /\ PlainFields(w) = Seen(g)
         /\ AboveZombie(w.ptr) <=> ~g.zombie /\ g.ptr # {}
<1>1. g \in Members("plain") /\ Unused("plain", g) /\ "plain" \in Kinds
  BY DEF Good, Kinds
<1>2. w.ptr = IF g.zombie THEN ZombieIndicator ELSE g.ptr
  BY DEF Good, Represents
<1>3. g.ptr # {} => \E b \in g.ptr : b > LowerBits
  BY <1>1, MemberRanges, AddressAbove
<1>4. LowerBits \in Nat /\ PtrMask \subseteq Nat
  BY LayoutAssumption DEF PtrMask, Bits
<1>5. g.ptr # ZombieIndicator
  BY <1>3, <1>4 DEF ZombieIndicator
<1>6. PlainFields(w) = Seen(g)
  <2>0. g.alloc = {} /\ g.data = {} /\ g.flags = {} /\ g.mask = {}
    BY <1>1 DEF Unused
  <2>1. CASE g.zombie
    <3>1. PlainFields(w) = [zombie |-> TRUE, ptr |-> {}, alloc |-> {}, data |-> {},
                            flags |-> {}, mask |-> {}]
      BY <2>1, <1>2 DEF PlainFields, Blank, Started
    <3> QED
      BY <2>0, <2>1, <3>1, <1>1, SeenIs
  <2>2. CASE ~g.zombie
    <3>1. PlainFields(w) = [zombie |-> FALSE, ptr |-> g.ptr, alloc |-> {}, data |-> {},
                            flags |-> {}, mask |-> {}]
      <4>1. w.ptr = g.ptr /\ w.ptr # ZombieIndicator
        BY <2>2, <1>2, <1>5
      <4>2. PlainFields(w) = [Blank EXCEPT !.ptr = g.ptr]
        BY <4>1 DEF PlainFields
      <4> QED
        BY <4>2 DEF Blank, Started
    <3> QED
      BY <2>0, <2>2, <3>1, <1>1, SeenIs
  <2> QED
    BY <2>1, <2>2
<1>7. AboveZombie(w.ptr) <=> ~g.zombie /\ g.ptr # {}
  BY <1>1, <1>2, <1>3, <1>4, MemberRanges DEF AboveZombie, ZombieIndicator
<1> QED
  BY <1>6, <1>7

\* allocptr_with_zombie_property_and_data: likewise; only a null pointer with data beside it
\* cannot be told from a pointer by comparing the word.
LEMMA HeapReads ==
  ASSUME NEW g, NEW w, Good("heap", g, w)
  PROVE  /\ HeapFields(w) = Seen(g)
         /\ ~(g.ptr = {} /\ g.data # {}) => (AboveZombie(w.ptr) <=> ~g.zombie /\ g.ptr # {})
<1> DEFINE s == Shl(g.data, WordBits - UpperBits)
<1>1. g \in Members("heap") /\ Unused("heap", g) /\ "heap" \in Kinds
  BY DEF Good, Kinds
<1>2. w.ptr = IF g.zombie THEN ZombieIndicator ELSE g.ptr \cup s
  BY DEF Good, Represents
<1>3. g.ptr \subseteq AllocMask /\ (g.ptr # {} => \E b \in g.ptr : b > LowerBits)
  BY <1>1, MemberRanges, AddressAbove
<1>4. g.data \subseteq Low(UpperBits)
  BY <1>1, MemberRanges
<1>5. s \subseteq Upper /\ Shr(s, WordBits - UpperBits) = g.data
  BY <1>4, UpperRoundTrip
<1>6. LowerBits \in Nat /\ PtrMask \subseteq Nat /\ \A b \in Upper : b \in Nat /\ b > LowerBits
  BY LayoutAssumption DEF PtrMask, Bits, Upper
<1>7. g.ptr \cup s # ZombieIndicator
  BY <1>3, <1>5, <1>6, Regions DEF ZombieIndicator
<1>8. (g.ptr \cup s) \cap HeapMask = g.ptr
  BY <1>3, <1>5, Regions
<1>9. Shr(g.ptr \cup s, WordBits - UpperBits) = Shr(s, WordBits - UpperBits)
  <2>1. \A b \in g.ptr : ~(b >= WordBits - UpperBits)
    BY <1>3, LayoutAssumption DEF AllocMask, PtrMask, Bits, Upper
  <2> HIDE DEF s
  <2> QED
    BY <2>1 DEF Shr
<1> HIDE DEF s
<1>10. HeapFields(w) = Seen(g)
  <2>0. g.alloc = {} /\ g.flags = {} /\ g.mask = {}
    BY <1>1 DEF Unused
  <2>1. CASE g.zombie
    <3>1. HeapFields(w) = [Blank EXCEPT !.zombie = TRUE]
      BY <2>1, <1>2 DEF HeapFields
    <3>2. Seen(g) = [zombie |-> TRUE, ptr |-> {}, alloc |-> {}, data |-> {}, flags |-> {}, mask |-> {}]
      BY <2>0, <2>1, <1>1, SeenIs
    <3> QED
      BY <3>1, <3>2 DEF Blank, Started
  <2>2. CASE ~g.zombie
    <3>1. w.ptr = g.ptr \cup s /\ w.ptr # ZombieIndicator
      BY <2>2, <1>2, <1>7
    <3>2. HeapFields(w) = [Blank EXCEPT !.ptr = g.ptr, !.data = g.data]
      BY <3>1, <1>5, <1>8, <1>9 DEF HeapFields
    <3>3. Seen(g) = [zombie |-> FALSE, ptr |-> g.ptr, alloc |-> {}, data |-> g.data,
                     flags |-> {}, mask |-> {}]
      BY <2>0, <2>2, <1>1, SeenIs
    <3> QED
      BY <3>2, <3>3 DEF Blank, Started
  <2> QED
    BY <2>1, <2>2
<1>11. ~(g.ptr = {} /\ g.data # {}) => (AboveZombie(w.ptr) <=> ~g.zombie /\ g.ptr # {})
  <2>1. CASE g.zombie
    BY <2>1, <1>2, <1>6 DEF AboveZombie, ZombieIndicator
  <2>2. CASE ~g.zombie /\ g.ptr # {}
    BY <2>2, <1>2, <1>3 DEF AboveZombie
  <2>3. CASE ~g.zombie /\ g.ptr = {} /\ g.data = {}
    <3>1. s = {}
      BY <2>3 DEF s, Shl
    <3> QED
      BY <2>3, <3>1, <1>2 DEF AboveZombie
  <2> QED
    BY <2>1, <2>2, <2>3, <1>1, MemberRanges
<1> QED
  BY <1>10, <1>11

\* allocated_ptr_with_flags: pointer and flags are read apart.
LEMMA FlaggedReads ==
  ASSUME NEW g, NEW w, Good("flagged", g, w)
  PROVE  FlaggedFields(w) = Seen(g)
<1>1. g \in Members("flagged") /\ Unused("flagged", g) /\ "flagged" \in Kinds
  BY DEF Good, Kinds
<1>2. w.ptr = g.ptr \cup g.flags
  BY DEF Good, Represents
<1>3. g.ptr \subseteq AllocMask /\ g.flags \subseteq Low(NFlags)
  BY <1>1, MemberRanges
<1>4. w.ptr \ Lower = g.ptr /\ w.ptr \cap Low(NFlags) = g.flags
  BY <1>2, <1>3, Regions
<1>5. FlaggedFields(w) = [Blank EXCEPT !.ptr = g.ptr, !.flags = g.flags]
  BY <1>4 DEF FlaggedFields
<1>6. ~g.zombie /\ g.alloc = {} /\ g.data = {} /\ g.mask = {}
  BY <1>1 DEF Unused, Mortal
<1>7. Seen(g) = [zombie |-> FALSE, ptr |-> g.ptr, alloc |-> {}, data |-> {},
                 flags |-> g.flags, mask |-> {}]
  BY <1>6, <1>1, SeenIs
<1> QED
  BY <1>5, <1>7 DEF Blank, Started

\* The flags of `masked' lie above every address and mask.
LEMMA MaskedFlagsAbove ==
  ASSUME NEW F, F \subseteq Low(NFlags)
  PROVE  /\ {MaskedFlag(f) : f \in F} \subseteq Upper
         /\ {f \in Low(NFlags) : MaskedFlag(f) \in {MaskedFlag(h) : h \in F}} = F
<1>1. \A f \in Low(NFlags) : MaskedFlag(f) \in Upper
  BY LayoutAssumption DEF Low, MaskedFlag, Upper
<1>2. \A f, h \in Low(NFlags) : MaskedFlag(f) = MaskedFlag(h) => f = h
  BY LayoutAssumption DEF Low, MaskedFlag
<1> QED
  BY <1>1, <1>2

\* allocated_ptr_with_mask_and_flags: pointer, mask and flags are read apart.
LEMMA MaskedReads ==
  ASSUME NEW g, NEW w, Good("masked", g, w)
  PROVE  MaskedFields(w) = Seen(g)
<1> DEFINE above == {MaskedFlag(f) : f \in g.flags}
<1>1. g \in Members("masked") /\ Unused("masked", g) /\ "masked" \in Kinds
  BY DEF Good, Kinds
<1>2. w.ptr = g.ptr \cup g.mask \cup above
  BY DEF Good, Represents
<1>3. g.ptr \subseteq AllocMask /\ g.flags \subseteq Low(NFlags) /\ g.mask \subseteq Low(MaskSize)
  BY <1>1, MemberRanges
<1>4. above \subseteq Upper /\ {f \in Low(NFlags) : MaskedFlag(f) \in above} = g.flags
  BY <1>3, MaskedFlagsAbove
<1>5. \A f \in Low(NFlags) : MaskedFlag(f) \in Upper
  BY LayoutAssumption DEF Low, MaskedFlag, Upper
<1> HIDE DEF above
<1>6. w.ptr \cap AllocMask = g.ptr /\ w.ptr \cap Lower = g.mask
  BY <1>2, <1>3, <1>4, Regions
<1>7. {f \in Low(NFlags) : MaskedFlag(f) \in w.ptr} = g.flags
  BY <1>2, <1>3, <1>4, <1>5, Regions
<1>8. MaskedFields(w) = [Blank EXCEPT !.ptr = g.ptr, !.mask = g.mask, !.flags = g.flags]
  BY <1>6, <1>7 DEF MaskedFields
<1>9. ~g.zombie /\ g.alloc = {} /\ g.data = {}
  BY <1>1 DEF Unused, Mortal
<1>10. Seen(g) = [zombie |-> FALSE, ptr |-> g.ptr, alloc |-> {}, data |-> {},
                  flags |-> g.flags, mask |-> g.mask]
  BY <1>9, <1>1, SeenIs
<1> QED
  BY <1>8, <1>10 DEF Blank, Started

\* PairedSetData builds exactly the words that represent the data.
LEMMA PairedGet ==
  ASSUME NEW g \in Members("paired"), ~g.zombie, NEW w \in Words, RepresentsPaired(g, w)
  PROVE  /\ PairedGetData(w) = g.data
         /\ w.ptr \cap PtrMask = g.ptr /\ w.alloc \cap AllocMask = g.alloc
         /\ w.alloc \cap Low(PairFlags) = g.flags
<1> DEFINE p == g.ptr
           a == g.alloc
           d == g.data
           F == g.flags
<1>0. /\ p \subseteq PtrMask /\ a \subseteq AllocMask /\ d \subseteq Low(DataSize)
      /\ F \subseteq Low(PairFlags)
      /\ w.ptr = p \cup PairedDataLow(d)
      /\ w.alloc = a \cup F \cup PairedDataHigh(d) \cup PairedDataMiddle(d)
  BY MemberRanges DEF RepresentsPaired, Kinds
<1> HIDE DEF p, a, d, F
<1>1. /\ PairedDataLow(d) \subseteq Upper
      /\ PairedDataMiddle(d) \subseteq PairFlags .. LowerBits - 1
      /\ PairedDataHigh(d) \subseteq Upper
  BY <1>0, PartsApart
<1>2. w.ptr \cap PtrMask = p
  BY <1>0, <1>1, Regions
<1>3. /\ w.alloc \cap AllocMask = a /\ w.alloc \cap Low(PairFlags) = F
      /\ w.alloc \cap (AllocMask \cup Low(PairFlags)) = a \cup F
  BY <1>0, <1>1, Regions
<1>4. w = [ptr |-> w.ptr, alloc |-> w.alloc]
  BY DEF Words
<1>5. PairedSetData(w, d) = w
  BY <1>0, <1>2, <1>3, <1>4 DEF PairedSetData
<1>6. PairedGetData(PairedSetData(w, d)) = d
  BY <1>0, DataRoundTrip
<1> QED
  BY <1>2, <1>3, <1>5, <1>6 DEF p, a, d, F

\* allocated_ptr_and_ptr_and_data_and_flags: all four fields are read apart.
LEMMA PairedReads ==
  ASSUME NEW g, NEW w, Good("paired", g, w)
  PROVE  /\ PairedFields(w) = Seen(g)
         /\ AboveZombie(w.ptr \cap PtrMask) <=> ~g.zombie /\ g.ptr # {}
<1>1. g \in Members("paired") /\ Unused("paired", g) /\ "paired" \in Kinds /\ w \in Words
  BY DEF Good, Kinds
<1>2. RepresentsPaired(g, w)
  BY DEF Good, Represents
<1>3. /\ g.ptr \subseteq PtrMask /\ g.alloc \subseteq AllocMask /\ g.data \subseteq Low(DataSize)
      /\ g.flags \subseteq Low(PairFlags) /\ g.ptr \in Pointers("paired")
  BY <1>1, MemberRanges
<1>4. g.ptr # {} => \E b \in g.ptr : b > LowerBits
  BY <1>1, <1>3, AddressAbove
<1>5. LowerBits \in Nat /\ PtrMask \subseteq Nat
  BY LayoutAssumption DEF PtrMask, Bits
<1>6. g.mask = {}
  BY <1>1 DEF Unused
<1>7. CASE g.zombie
  <2>1. w.ptr \cap PtrMask = ZombieIndicator /\ w.alloc \cap Low(PairFlags) = g.flags
    BY <1>2, <1>7 DEF RepresentsPaired
  <2>2. PairedFields(w) = [Blank EXCEPT !.zombie = TRUE, !.flags = g.flags]
    BY <2>1 DEF PairedFields
  <2>3. PairedFields(w) = Seen(g)
    BY <2>2, <1>7 DEF Seen
  <2>4. ~AboveZombie(ZombieIndicator)
    BY <1>5 DEF AboveZombie, ZombieIndicator
  <2> QED
    BY <2>1, <2>3, <2>4, <1>7
<1>8. CASE ~g.zombie
  <2>2. /\ PairedGetData(w) = g.data
        /\ w.ptr \cap PtrMask = g.ptr /\ w.alloc \cap AllocMask = g.alloc
        /\ w.alloc \cap Low(PairFlags) = g.flags
    BY <1>1, <1>2, <1>8, PairedGet
  <2>3. g.ptr # ZombieIndicator
    BY <1>4, <1>5 DEF ZombieIndicator
  <2>4. PairedFields(w) = [Blank EXCEPT !.ptr = g.ptr, !.alloc = g.alloc,
                                        !.data = g.data, !.flags = g.flags]
    BY <2>2, <2>3 DEF PairedFields
  <2>5. Seen(g) = [zombie |-> FALSE, ptr |-> g.ptr, alloc |-> g.alloc, data |-> g.data,
                   flags |-> g.flags, mask |-> {}]
    BY <1>6, <1>8, <1>1, SeenIs
  <2>6. PairedFields(w) = Seen(g)
    BY <2>4, <2>5 DEF Blank, Started
  <2>7. AboveZombie(g.ptr) <=> g.ptr # {}
    BY <1>4 DEF AboveZombie
  <2> QED
    BY <2>2, <2>6, <2>7, <1>8
<1> QED
  BY <1>7, <1>8

\* What is read of a good pair is the same in both forms.
LEMMA Reads ==
  ASSUME NEW k \in Kinds, NEW g, NEW w, Good(k, g, w)
  PROVE  /\ Fields(k, w) = Seen(g)
         /\ Mortal(k) /\ ~(k = "heap" /\ g.ptr = {} /\ g.data # {})
              => GenericDereference(g) = PackedDereference(k, w)
<1>1. Fields(k, w) = Seen(g)
  BY PlainReads, HeapReads, FlaggedReads, MaskedReads, PairedReads DEF Fields, Kinds
<1>2. ASSUME Mortal(k), ~(k = "heap" /\ g.ptr = {} /\ g.data # {})
      PROVE  GenericDereference(g) = PackedDereference(k, w)
  <2>1. AboveZombie(IF k = "paired" THEN w.ptr \cap PtrMask ELSE w.ptr)
          <=> ~g.zombie /\ g.ptr # {}
    BY <1>2, PlainReads, HeapReads, PairedReads DEF Mortal
  <2>2. g \in Members(k)
    BY DEF Good
  <2>3. CASE g.zombie
    <3>1. Fields(k, w).zombie
      BY <1>1, <2>2, <2>3, SeenIs
    <3> QED
      BY <2>1, <2>3, <3>1 DEF GenericDereference, PackedDereference, Answer, DereferenceError
  <2>4. CASE ~g.zombie
    <3>1. ~Fields(k, w).zombie /\ Fields(k, w).ptr = g.ptr
      BY <1>1, <2>2, <2>4, SeenIs
    <3> QED
      BY <2>1, <2>4, <3>1 DEF GenericDereference, PackedDereference, Answer, DereferenceError
  <2> QED
    BY <2>3, <2>4
<1> QED
  BY <1>1, <1>2

(***************************************************************************)
(* The calls keep the two forms together                                    *)
(***************************************************************************)
\* Nothing to shift.
LEMMA EmptyShift == \A n \in Int : Shl({}, n) = {} /\ Shr({}, n) = {}
BY DEF Shl, Shr

\* No data, no bits.
LEMMA EmptyParts ==
  PairedDataLow({}) = {} /\ PairedDataMiddle({}) = {} /\ PairedDataHigh({}) = {}
<1>1. \A S : {} \cap S = {}
  OBVIOUS
<1>2. PairedDataLow({}) = {}
  BY <1>1, EmptyShift, Layout DEF PairedDataLow
<1>3. PairedDataMiddle({}) \subseteq Bits /\ PairedDataHigh({}) \subseteq Bits
  BY DEF PairedDataMiddle, PairedDataHigh, Shl
<1>4. Bits \subseteq Int
  BY DEF Bits
<1>5. ASSUME NEW b \in Int PROVE b \notin PairedDataMiddle({}) /\ b \notin PairedDataHigh({})
  <2>1. {} \in SUBSET Nat
    OBVIOUS
  <2>2. b \in PairedDataMiddle({}) => b - PairFlags + UpperBits \in {}
    BY <2>1, MiddleMember
  <2>3. b \in PairedDataHigh({}) => b - (WordBits - UpperBits) + UpperBits + PairFlags \in {}
    BY <2>1, HighMember
  <2> QED
    BY <2>2, <2>3
<1> QED
  BY <1>2, <1>3, <1>4, <1>5

\* A zero word is an empty object.
LEMMA BlankGood ==
  ASSUME NEW k \in Kinds
  PROVE  Good(k, Blank, ZeroWords)
<1>1. Blank \in Members(k) /\ ZeroWords \in Words
  BY DEF Blank, Started, Members, ZeroWords, Words, Pointers, AllocPointers
<1>2. Unused(k, Blank)
  BY DEF Unused, Blank, Started
<1>3. Shl({}, WordBits - UpperBits) = {}
  BY EmptyShift, Layout
<1>4. {MaskedFlag(f) : f \in {}} = {}
  OBVIOUS
<1>5. Represents(k, Blank, ZeroWords)
  BY <1>3, <1>4, EmptyParts DEF Represents, RepresentsPaired, Blank, Started, ZeroWords, Kinds
<1> QED
  BY <1>1, <1>2, <1>5 DEF Good

\* set_data of `paired' on words that hold p, a and the flags F.
LEMMA PairedPut ==
  ASSUME NEW d, d \subseteq Low(DataSize), NEW w \in Words
  PROVE  /\ PairedSetData(w, d) \in Words
         /\ PairedSetData(w, d).ptr = (w.ptr \cap PtrMask) \cup PairedDataLow(d)
         /\ PairedSetData(w, d).alloc = (w.alloc \cap AllocMask) \cup (w.alloc \cap Low(PairFlags))
                                         \cup PairedDataHigh(d) \cup PairedDataMiddle(d)
         /\ PairedSetData(w, d).ptr \cap PtrMask = w.ptr \cap PtrMask
         /\ PairedSetData(w, d).alloc \cap Low(PairFlags) = w.alloc \cap Low(PairFlags)
<1>1. /\ PairedDataLow(d) \subseteq Upper
      /\ PairedDataMiddle(d) \subseteq PairFlags .. LowerBits - 1
      /\ PairedDataHigh(d) \subseteq Upper
  BY PartsApart
<1>2. /\ PairedSetData(w, d).ptr = (w.ptr \cap PtrMask) \cup PairedDataLow(d)
      /\ PairedSetData(w, d).alloc = (w.alloc \cap (AllocMask \cup Low(PairFlags)))
                                      \cup PairedDataHigh(d) \cup PairedDataMiddle(d)
  BY DEF PairedSetData
<1>3. w.ptr \subseteq Bits /\ w.alloc \subseteq Bits
  BY DEF Words
<1>4. /\ PairedSetData(w, d).ptr \subseteq Bits /\ PairedSetData(w, d).alloc \subseteq Bits
      /\ PairedSetData(w, d).ptr \cap PtrMask = w.ptr \cap PtrMask
      /\ PairedSetData(w, d).alloc \cap Low(PairFlags) = w.alloc \cap Low(PairFlags)
  BY <1>1, <1>2, <1>3, Regions
<1>5. PairedSetData(w, d) \in Words
  BY <1>4 DEF PairedSetData, Words
<1> QED
  BY <1>2, <1>4, <1>5

\* init leaves words that represent the arguments.
LEMMA FreshGood ==
  ASSUME NEW k \in Kinds, NEW p \in Pointers(k), NEW a \in AllocPointers,
         NEW d \in {{}} \cup Data(k),
         k # "paired" => a = {}, k \notin {"heap", "paired"} => d = {}
  PROVE  Good(k, Started(p, a, d), Fresh(k, p, a, d))
<1> DEFINE g == Started(p, a, d)
           w == Fresh(k, p, a, d)
<1>1. g = [zombie |-> FALSE, ptr |-> p, alloc |-> a, data |-> d, flags |-> {}, mask |-> {}]
  BY DEF Started
<1>2. g \in Members(k) /\ Unused(k, g)
  BY <1>1 DEF Members, Unused
<1> SUFFICES Good(k, g, w)
  OBVIOUS
<1> HIDE DEF g
<1>3. /\ p \subseteq PtrMask /\ a \subseteq AllocMask
      /\ k \notin {"plain", "paired"} => p \subseteq AllocMask
      /\ d \subseteq Low(IF k = "heap" THEN UpperBits ELSE DataSize)
  BY <1>1, <1>2, MemberRanges
<1>4. CASE k = "plain"
  <2>1. w = [ptr |-> p, alloc |-> {}] /\ p \subseteq Bits
    BY <1>3, <1>4, Regions DEF Fresh, PlainInit
  <2>2. w \in Words /\ w.ptr = p
    BY <2>1 DEF Words
  <2> HIDE DEF w
  <2>3. Represents(k, g, w)
    BY <1>1, <1>4, <2>2 DEF Represents
  <2> QED
    BY <1>2, <2>2, <2>3 DEF Good
<1>5. CASE k = "heap"
  <2>1. Shl(d, WordBits - UpperBits) \subseteq Upper
    BY <1>3, <1>5, UpperRoundTrip
  <2>2. w = [ptr |-> p \cup Shl(d, WordBits - UpperBits), alloc |-> {}]
    BY <1>5 DEF Fresh, HeapInit
  <2>3. w \in Words
    BY <1>3, <2>1, <2>2, Regions DEF Words
  <2> HIDE DEF w
  <2>4. Represents(k, g, w)
    BY <1>1, <1>5, <2>2 DEF Represents
  <2> QED
    BY <1>2, <2>3, <2>4 DEF Good
<1>6. CASE k = "flagged"
  <2>1. p \ Lower = p /\ p \subseteq Bits
    BY <1>3, <1>6, Regions
  <2>2. w = [ptr |-> p, alloc |-> {}]
    BY <1>6, <2>1 DEF Fresh, FlaggedInit
  <2> HIDE DEF w
  <2>3. Represents(k, g, w) /\ w \in Words
    BY <1>1, <1>6, <2>1, <2>2 DEF Represents, Words
  <2> QED
    BY <1>2, <2>3 DEF Good
<1>7. CASE k = "masked"
  <2>1. w = [ptr |-> p, alloc |-> {}] /\ p \subseteq Bits
    BY <1>3, <1>7, Regions DEF Fresh, MaskedInit
  <2>2. p = g.ptr \cup g.mask \cup {MaskedFlag(f) : f \in g.flags}
    BY <1>1
  <2> HIDE DEF w
  <2>3. Represents(k, g, w) /\ w \in Words
    BY <1>7, <2>1, <2>2 DEF Represents, Words
  <2> QED
    BY <1>2, <2>3 DEF Good
<1>8. CASE k = "paired"
  <2> DEFINE v == [ptr |-> p \cap PtrMask, alloc |-> a \cap AllocMask]
  <2>1. v.ptr = p /\ v.alloc = a /\ v \in Words /\ a \cap Low(PairFlags) = {}
    BY <1>3, Regions DEF Words
  <2>2. w = PairedSetData(v, d)
    BY <1>8 DEF Fresh, PairedInit
  <2> HIDE DEF v, w
  <2>3. d \subseteq Low(DataSize)
    BY <1>3, <1>8
  <2>4. /\ w \in Words
        /\ w.ptr = (v.ptr \cap PtrMask) \cup PairedDataLow(d)
        /\ w.alloc = (v.alloc \cap AllocMask) \cup (v.alloc \cap Low(PairFlags))
                       \cup PairedDataHigh(d) \cup PairedDataMiddle(d)
    BY <2>1, <2>2, <2>3, PairedPut
  <2>5. RepresentsPaired(g, w)
    BY <1>1, <1>3, <2>1, <2>4 DEF RepresentsPaired
  <2> QED
    BY <1>2, <1>8, <2>4, <2>5 DEF Good, Represents
<1> QED
  BY <1>4, <1>5, <1>6, <1>7, <1>8 DEF Kinds

\* set_zombie leaves a zombie in both forms, with its flags.
LEMMA ZombieGood ==
  ASSUME NEW k \in Kinds, NEW g, NEW w, Good(k, g, w), Mortal(k)
  PROVE  Good(k, [g EXCEPT !.zombie = TRUE], [w EXCEPT !.ptr = ZombieIndicator])
<1> DEFINE h == [g EXCEPT !.zombie = TRUE]
           v == [w EXCEPT !.ptr = ZombieIndicator]
<1>1. g \in Members(k) /\ w \in Words /\ Unused(k, g) /\ Represents(k, g, w)
  BY DEF Good
<1>2. h \in Members(k) /\ h.zombie /\ h.flags = g.flags /\ Unused(k, h)
  BY <1>1 DEF Members, Unused
<1>3. ZombieIndicator \subseteq Bits /\ ZombieIndicator \cap PtrMask = ZombieIndicator
  BY Regions
<1>4. v \in Words /\ v.ptr = ZombieIndicator /\ v.alloc = w.alloc
  BY <1>1, <1>3 DEF Words
<1>5. CASE k = "paired"
  <2>1. w.alloc \cap Low(PairFlags) = g.flags
    <3>1. CASE g.zombie
      BY <1>1, <1>5, <3>1 DEF Represents, RepresentsPaired
    <3>2. CASE ~g.zombie
      BY <1>1, <1>5, <3>2, PairedGet DEF Represents
    <3> QED
      BY <3>1, <3>2
  <2> QED
    BY <1>2, <1>3, <1>4, <1>5, <2>1 DEF Good, Represents, RepresentsPaired
<1>6. CASE k # "paired"
  BY <1>2, <1>4, <1>6 DEF Good, Represents, Mortal
<1> QED
  BY <1>5, <1>6

\* set_ptr changes the pointer in both forms (`masked' had no flags to lose).
LEMMA SetPtrGood ==
  ASSUME NEW k \in Kinds, NEW g, NEW w, Good(k, g, w), Settable(k), ~g.zombie,
         k = "masked" => g.flags = {}, NEW p \in Pointers(k)
  PROVE  Good(k, [g EXCEPT !.ptr = p], WithPtr(k, w, p))
<1> DEFINE h == [g EXCEPT !.ptr = p]
           v == WithPtr(k, w, p)
<1> SUFFICES Good(k, h, v)
  OBVIOUS
<1>1. g \in Members(k) /\ w \in Words /\ Unused(k, g) /\ Represents(k, g, w)
  BY DEF Good
<1>2. /\ h \in Members(k) /\ h.ptr = p /\ h.alloc = g.alloc /\ h.data = g.data
      /\ h.flags = g.flags /\ h.mask = g.mask /\ h.zombie = g.zombie /\ Unused(k, h)
  BY <1>1 DEF Members, Unused
<1> HIDE DEF h
<1>3. p \subseteq PtrMask /\ (k # "paired" => p \subseteq AllocMask)
  BY <1>2, MemberRanges DEF Settable
<1>4. /\ g.ptr \subseteq PtrMask /\ (k # "paired" => g.ptr \subseteq AllocMask)
      /\ g.data \subseteq Low(IF k = "heap" THEN UpperBits ELSE DataSize)
      /\ g.flags \subseteq Low(IF k = "paired" THEN PairFlags ELSE NFlags)
      /\ g.mask \subseteq Low(MaskSize)
  BY <1>1, MemberRanges DEF Settable
<1>5. w.ptr \subseteq Bits /\ w.alloc \subseteq Bits
  BY <1>1 DEF Words
<1>6. CASE k = "flagged"
  <2>1. w.ptr = g.ptr \cup g.flags
    BY <1>1, <1>6 DEF Represents
  <2>2. v = [w EXCEPT !.ptr = p \cup g.flags]
    BY <2>1, <1>3, <1>4, <1>6, Regions DEF WithPtr, FlaggedSetPtr
  <2>3. v \in Words /\ v.ptr = p \cup g.flags
    BY <2>2, <1>1, <1>3, <1>4, <1>6, Regions DEF Words
  <2> HIDE DEF v
  <2>4. Represents(k, h, v)
    BY <1>2, <1>6, <2>3 DEF Represents
  <2> QED
    BY <1>2, <2>3, <2>4 DEF Good
<1>7. CASE k = "masked"
  <2>1. w.ptr = g.ptr \cup g.mask
    BY <1>1, <1>7 DEF Represents
  <2>2. v = [w EXCEPT !.ptr = p \cup g.mask]
    BY <2>1, <1>3, <1>4, <1>7, Regions DEF WithPtr, MaskedSetPtr
  <2>3. v \in Words /\ v.ptr = p \cup g.mask
    BY <2>2, <1>1, <1>3, <1>4, <1>7, Regions DEF Words
  <2> HIDE DEF v
  <2>4. Represents(k, h, v)
    BY <1>2, <1>7, <2>3 DEF Represents
  <2> QED
    BY <1>2, <2>3, <2>4 DEF Good
<1>8. CASE k = "paired"
  <2>1. /\ w.ptr = g.ptr \cup PairedDataLow(g.data)
        /\ w.alloc = g.alloc \cup g.flags \cup PairedDataHigh(g.data) \cup PairedDataMiddle(g.data)
    BY <1>1, <1>8 DEF Represents, RepresentsPaired
  <2>2. PairedDataLow(g.data) \subseteq Upper
    BY <1>4, <1>8, PartsApart
  <2>3. v = [w EXCEPT !.ptr = p \cup PairedDataLow(g.data)]
    BY <2>1, <2>2, <1>3, <1>4, <1>8, Regions DEF WithPtr, PairedSetPtr
  <2>4. v \in Words /\ v.ptr = p \cup PairedDataLow(g.data) /\ v.alloc = w.alloc
    BY <2>2, <2>3, <1>1, <1>3, Regions DEF Words
  <2> HIDE DEF v
  <2>5. Represents(k, h, v)
    BY <1>2, <1>8, <2>1, <2>4 DEF Represents, RepresentsPaired
  <2> QED
    BY <1>2, <2>4, <2>5 DEF Good
<1> QED
  BY <1>6, <1>7, <1>8 DEF Settable

\* set_allocated_ptr changes the allocated pointer in both forms.
LEMMA SetAllocatedPtrGood ==
  ASSUME NEW g, NEW w, Good("paired", g, w), NEW a \in AllocPointers
  PROVE  Good("paired", [g EXCEPT !.alloc = a], PairedSetAllocatedPtr(w, a))
<1> DEFINE h == [g EXCEPT !.alloc = a]
           v == PairedSetAllocatedPtr(w, a)
<1> SUFFICES Good("paired", h, v)
  OBVIOUS
<1>1. /\ g \in Members("paired") /\ w \in Words /\ Unused("paired", g)
      /\ RepresentsPaired(g, w) /\ "paired" \in Kinds
  BY DEF Good, Represents, Kinds
<1>2. /\ h \in Members("paired") /\ h.ptr = g.ptr /\ h.alloc = a /\ h.data = g.data
      /\ h.flags = g.flags /\ h.zombie = g.zombie /\ Unused("paired", h)
  BY <1>1 DEF Members, Unused
<1>3. a \subseteq AllocMask /\ a \cap AllocMask = a
  BY <1>1, <1>2, MemberRanges
<1>4. /\ g.alloc \subseteq AllocMask /\ g.data \subseteq Low(DataSize) /\ g.flags \subseteq Low(PairFlags)
  BY <1>1, MemberRanges
<1>5. v = [w EXCEPT !.alloc = (w.alloc \ AllocMask) \cup a]
  BY <1>3 DEF PairedSetAllocatedPtr
<1>6. v \in Words /\ v.ptr = w.ptr /\ v.alloc = (w.alloc \ AllocMask) \cup a
  BY <1>1, <1>3, <1>5, Regions DEF Words
<1> HIDE DEF h, v
<1>7. CASE g.zombie
  <2>1. v.alloc \cap Low(PairFlags) = w.alloc \cap Low(PairFlags)
    BY <1>3, <1>6, Regions
  <2> QED
    BY <1>1, <1>2, <1>6, <1>7, <2>1 DEF Good, Represents, RepresentsPaired
<1>8. CASE ~g.zombie
  <2>1. w.alloc = g.alloc \cup g.flags \cup PairedDataHigh(g.data) \cup PairedDataMiddle(g.data)
    BY <1>1, <1>8 DEF RepresentsPaired
  <2>2. PairedDataHigh(g.data) \subseteq Upper /\ PairedDataMiddle(g.data) \subseteq Lower
    BY <1>4, PartsApart, Regions
  <2>3. v.alloc = a \cup g.flags \cup PairedDataHigh(g.data) \cup PairedDataMiddle(g.data)
    BY <1>4, <1>6, <2>1, <2>2, Regions
  <2> QED
    BY <1>1, <1>2, <1>6, <1>8, <2>3 DEF Good, Represents, RepresentsPaired
<1> QED
  BY <1>7, <1>8

\* set_flag and unset_flag change one flag in both forms.
LEMMA FlagGood ==
  ASSUME NEW k \in Kinds, NEW g, NEW w, Good(k, g, w), Settable(k), NEW f \in Flags(k)
  PROVE  /\ Good(k, [g EXCEPT !.flags = @ \cup {f}], WithFlag(k, w, f))
         /\ Good(k, [g EXCEPT !.flags = @ \ {f}], WithoutFlag(k, w, f))
<1> DEFINE hs == [g EXCEPT !.flags = @ \cup {f}]
           hu == [g EXCEPT !.flags = @ \ {f}]
           vs == WithFlag(k, w, f)
           vu == WithoutFlag(k, w, f)
<1> SUFFICES Good(k, hs, vs) /\ Good(k, hu, vu)
  OBVIOUS
<1>1. g \in Members(k) /\ w \in Words /\ Unused(k, g) /\ Represents(k, g, w)
  BY DEF Good
<1>2. /\ hs \in Members(k) /\ hs.ptr = g.ptr /\ hs.alloc = g.alloc /\ hs.data = g.data
      /\ hs.flags = g.flags \cup {f} /\ hs.mask = g.mask /\ hs.zombie = g.zombie
      /\ Unused(k, hs)
  BY <1>1 DEF Members, Unused, Settable
<1>3. /\ hu \in Members(k) /\ hu.ptr = g.ptr /\ hu.alloc = g.alloc /\ hu.data = g.data
      /\ hu.flags = g.flags \ {f} /\ hu.mask = g.mask /\ hu.zombie = g.zombie
      /\ Unused(k, hu)
  BY <1>1 DEF Members, Unused, Settable
<1>4. /\ g.ptr \subseteq PtrMask /\ (k # "paired" => g.ptr \subseteq AllocMask)
      /\ g.alloc \subseteq AllocMask
      /\ g.data \subseteq Low(IF k = "heap" THEN UpperBits ELSE DataSize)
      /\ g.flags \subseteq Low(IF k = "paired" THEN PairFlags ELSE NFlags)
      /\ g.mask \subseteq Low(MaskSize)
  BY <1>1, MemberRanges DEF Settable
<1>5. w.ptr \subseteq Bits /\ w.alloc \subseteq Bits
  BY <1>1 DEF Words
<1>6. f \in Low(IF k = "paired" THEN PairFlags ELSE NFlags)
  BY DEF Flags
<1> HIDE DEF hs, hu
<1>7. CASE k = "flagged"
  <2>1. w.ptr = g.ptr \cup g.flags /\ f \in Lower
    BY <1>1, <1>6, <1>7, Regions DEF Represents
  <2>2. f \notin g.ptr /\ f \in Bits
    BY <2>1, <1>4, <1>7, Regions
  <2>3. vs = [w EXCEPT !.ptr = @ \cup {f}] /\ vu = [w EXCEPT !.ptr = @ \ {f}]
    BY <1>7 DEF WithFlag, WithoutFlag
  <2>4. /\ vs \in Words /\ vs.ptr = g.ptr \cup hs.flags
        /\ vu \in Words /\ vu.ptr = g.ptr \cup hu.flags
    BY <2>1, <2>2, <2>3, <1>1, <1>2, <1>3, <1>5 DEF Words
  <2> HIDE DEF vs, vu
  <2>5. Represents(k, hs, vs) /\ Represents(k, hu, vu)
    BY <2>4, <1>2, <1>3, <1>7 DEF Represents
  <2> QED
    BY <2>4, <2>5, <1>2, <1>3 DEF Good
<1>8. CASE k = "masked"
  <2> DEFINE M(F) == {MaskedFlag(h) : h \in F}
  <2>1. w.ptr = g.ptr \cup g.mask \cup M(g.flags)
    BY <1>1, <1>8 DEF Represents
  <2>2. MaskedFlag(f) \in Upper /\ MaskedFlag(f) \in Bits
    BY <1>6, <1>8, LayoutAssumption, Regions DEF Low, MaskedFlag, Upper
  <2>3. MaskedFlag(f) \notin g.ptr /\ MaskedFlag(f) \notin g.mask
    BY <2>2, <1>4, <1>8, Regions
  <2>4. \A h \in Low(NFlags) : MaskedFlag(h) = MaskedFlag(f) => h = f
    BY <1>6, <1>8, LayoutAssumption DEF Low, MaskedFlag
  <2>5. M(g.flags) \cup {MaskedFlag(f)} = M(hs.flags) /\ M(g.flags) \ {MaskedFlag(f)} = M(hu.flags)
    BY <2>4, <1>2, <1>3, <1>4, <1>8
  <2>6. vs = [w EXCEPT !.ptr = @ \cup {MaskedFlag(f)}] /\ vu = [w EXCEPT !.ptr = @ \ {MaskedFlag(f)}]
    BY <1>8 DEF WithFlag, WithoutFlag
  <2> HIDE DEF M
  <2>7. /\ vs \in Words /\ vs.ptr = w.ptr \cup {MaskedFlag(f)}
        /\ vu \in Words /\ vu.ptr = w.ptr \ {MaskedFlag(f)}
    BY <2>2, <2>6, <1>1, <1>5 DEF Words
  <2>8. /\ vs.ptr = g.ptr \cup g.mask \cup M(hs.flags)
        /\ vu.ptr = g.ptr \cup g.mask \cup M(hu.flags)
    BY <2>1, <2>3, <2>5, <2>7
  <2> HIDE DEF vs, vu
  <2>9. Represents(k, hs, vs) /\ Represents(k, hu, vu)
    BY <2>8, <1>2, <1>3, <1>8 DEF Represents, M
  <2> QED
    BY <2>7, <2>9, <1>2, <1>3 DEF Good
<1>9. CASE k = "paired"
  <2>1. f \in Low(PairFlags) /\ f \in Lower /\ f \in Bits
    BY <1>6, <1>9, Regions
  <2>2. vs = [w EXCEPT !.alloc = @ \cup {f}] /\ vu = [w EXCEPT !.alloc = @ \ {f}]
    BY <1>9 DEF WithFlag, WithoutFlag
  <2>3. /\ vs \in Words /\ vs.ptr = w.ptr /\ vs.alloc = w.alloc \cup {f}
        /\ vu \in Words /\ vu.ptr = w.ptr /\ vu.alloc = w.alloc \ {f}
    BY <2>1, <2>2, <1>1, <1>5 DEF Words
  <2> HIDE DEF vs, vu
  <2>4. RepresentsPaired(g, w)
    BY <1>1, <1>9 DEF Represents
  <2>5. CASE g.zombie
    <3>1. w.ptr \cap PtrMask = ZombieIndicator /\ w.alloc \cap Low(PairFlags) = g.flags
      BY <2>4, <2>5 DEF RepresentsPaired
    <3>2. /\ vs.alloc \cap Low(PairFlags) = hs.flags
          /\ vu.alloc \cap Low(PairFlags) = hu.flags
      BY <2>1, <2>3, <3>1, <1>2, <1>3
    <3> QED
      BY <2>3, <2>5, <3>1, <3>2, <1>2, <1>3, <1>9 DEF Good, Represents, RepresentsPaired
  <2>6. CASE ~g.zombie
    <3>1. /\ w.ptr = g.ptr \cup PairedDataLow(g.data)
          /\ w.alloc = g.alloc \cup g.flags \cup PairedDataHigh(g.data) \cup PairedDataMiddle(g.data)
      BY <2>4, <2>6 DEF RepresentsPaired
    <3>2. /\ PairedDataHigh(g.data) \subseteq Upper
          /\ PairedDataMiddle(g.data) \subseteq PairFlags .. LowerBits - 1
      BY <1>4, <1>9, PartsApart
    <3>3. f \notin g.alloc /\ f \notin PairedDataHigh(g.data) /\ f \notin PairedDataMiddle(g.data)
      BY <2>1, <3>2, <1>4, Regions
    <3>4. /\ vs.alloc = g.alloc \cup hs.flags \cup PairedDataHigh(g.data) \cup PairedDataMiddle(g.data)
          /\ vu.alloc = g.alloc \cup hu.flags \cup PairedDataHigh(g.data) \cup PairedDataMiddle(g.data)
      BY <2>3, <3>1, <3>3, <1>2, <1>3
    <3> QED
      BY <2>3, <2>6, <3>1, <3>4, <1>2, <1>3, <1>9 DEF Good, Represents, RepresentsPaired
  <2> QED
    BY <2>5, <2>6
<1> QED
  BY <1>7, <1>8, <1>9 DEF Settable

\* set_mask changes the mask in both forms.
LEMMA SetMaskGood ==
  ASSUME NEW g, NEW w, Good("masked", g, w), NEW m \in MaskValues
  PROVE  Good("masked", [g EXCEPT !.mask = m], MaskedSetMask(w, m))
<1> DEFINE h == [g EXCEPT !.mask = m]
           v == MaskedSetMask(w, m)
<1> SUFFICES Good("masked", h, v)
  OBVIOUS
<1>1. /\ g \in Members("masked") /\ w \in Words /\ Unused("masked", g)
      /\ Represents("masked", g, w) /\ "masked" \in Kinds
  BY DEF Good, Kinds
<1>2. /\ h \in Members("masked") /\ h.ptr = g.ptr /\ h.mask = m /\ h.flags = g.flags
      /\ Unused("masked", h)
  BY <1>1 DEF Members, Unused
<1>3. /\ g.ptr \subseteq AllocMask /\ g.flags \subseteq Low(NFlags) /\ g.mask \subseteq Lower /\ m \subseteq Lower
  BY <1>1, <1>2, MemberRanges, Regions
<1> DEFINE above == {MaskedFlag(f) : f \in g.flags}
<1>4. above \subseteq Upper /\ w.ptr = g.ptr \cup g.mask \cup above
  BY <1>1, <1>3, MaskedFlagsAbove DEF Represents
<1> HIDE DEF above
<1>5. v = [w EXCEPT !.ptr = g.ptr \cup m \cup above]
  BY <1>3, <1>4, Regions DEF MaskedSetMask
<1>6. v \in Words /\ v.ptr = g.ptr \cup m \cup above
  BY <1>1, <1>3, <1>4, <1>5, Regions DEF Words
<1> HIDE DEF h, v
<1>7. Represents("masked", h, v)
  BY <1>2, <1>6 DEF Represents, above
<1> QED
  BY <1>2, <1>6, <1>7 DEF Good

\* set_data changes the data in both forms.
LEMMA SetDataGood ==
  ASSUME NEW k \in {"heap", "paired"}, NEW g, NEW w, Good(k, g, w), NEW d \in Data(k),
         k = "heap" => ~g.zombie
  PROVE  Good(k, [g EXCEPT !.data = d],
              IF k = "heap" THEN HeapSetData(w, d) ELSE PairedSetData(w, d))
<1> DEFINE h == [g EXCEPT !.data = d]
           v == IF k = "heap" THEN HeapSetData(w, d) ELSE PairedSetData(w, d)
<1> SUFFICES Good(k, h, v)
  OBVIOUS
<1>1. g \in Members(k) /\ w \in Words /\ Unused(k, g) /\ Represents(k, g, w) /\ k \in Kinds
  BY DEF Good, Kinds
<1>2. /\ h \in Members(k) /\ h.ptr = g.ptr /\ h.alloc = g.alloc /\ h.data = d
      /\ h.flags = g.flags /\ h.zombie = g.zombie /\ Unused(k, h)
  BY <1>1 DEF Members, Unused
<1>3. /\ g.ptr \subseteq PtrMask /\ (k = "heap" => g.ptr \subseteq AllocMask)
      /\ d \subseteq Low(IF k = "heap" THEN UpperBits ELSE DataSize)
      /\ g.data \subseteq Low(IF k = "heap" THEN UpperBits ELSE DataSize)
  BY <1>1, <1>2, MemberRanges
<1> HIDE DEF h
<1>4. CASE k = "heap"
  <2> DEFINE old == Shl(g.data, WordBits - UpperBits)
             new == Shl(d, WordBits - UpperBits)
  <2>1. w.ptr = g.ptr \cup old
    BY <1>1, <1>4 DEF Represents
  <2>2. old \subseteq Upper /\ new \subseteq Upper
    BY <1>3, <1>4, UpperRoundTrip
  <2>3. v = [w EXCEPT !.ptr = (@ \ Upper) \cup new]
    BY <1>4 DEF HeapSetData
  <2> HIDE DEF old, new
  <2>4. v = [w EXCEPT !.ptr = g.ptr \cup new]
    BY <2>1, <2>2, <2>3, <1>3, Regions
  <2>5. v \in Words /\ v.ptr = g.ptr \cup new
    BY <2>2, <2>4, <1>1, <1>3, Regions DEF Words
  <2> HIDE DEF v
  <2>6. Represents(k, h, v)
    BY <2>5, <1>2, <1>4 DEF Represents, new
  <2> QED
    BY <2>5, <2>6, <1>2 DEF Good
<1>5. CASE k = "paired"
  <2>1. /\ v \in Words
        /\ v.ptr = (w.ptr \cap PtrMask) \cup PairedDataLow(d)
        /\ v.alloc = (w.alloc \cap AllocMask) \cup (w.alloc \cap Low(PairFlags))
                       \cup PairedDataHigh(d) \cup PairedDataMiddle(d)
        /\ v.ptr \cap PtrMask = w.ptr \cap PtrMask
        /\ v.alloc \cap Low(PairFlags) = w.alloc \cap Low(PairFlags)
    BY <1>1, <1>3, <1>5, PairedPut
  <2>2. RepresentsPaired(g, w)
    BY <1>1, <1>5 DEF Represents
  <2> HIDE DEF v
  <2>3. RepresentsPaired(h, v)
    <3>1. CASE g.zombie
      BY <2>1, <2>2, <3>1, <1>2 DEF RepresentsPaired
    <3>2. CASE ~g.zombie
      <4>1. /\ w.ptr \cap PtrMask = g.ptr /\ w.alloc \cap AllocMask = g.alloc
            /\ w.alloc \cap Low(PairFlags) = g.flags
        BY <2>2, <3>2, <1>1, <1>5, PairedGet
      <4> QED
        BY <2>1, <3>2, <4>1, <1>2 DEF RepresentsPaired
    <3> QED
      BY <3>1, <3>2
  <2> QED
    BY <2>1, <2>3, <1>2, <1>5 DEF Good, Represents
<1> QED
  BY <1>4, <1>5

(***************************************************************************)
(* The invariant                                                            *)
(***************************************************************************)
Inv ==
  /\ kind \in Kinds
  /\ generic \in [Objects -> Members(kind)]
  /\ packed \in [Objects -> Words]
  /\ \A o \in Objects : Good(kind, generic[o], packed[o])
  /\ thrown["generic"] = thrown["packed"]

\* The invariant holds of objects just made.
LEMMA InvInit == Init => Inv
<1> SUFFICES ASSUME Init PROVE Inv
  OBVIOUS
<1>1. Good(kind, Blank, ZeroWords)
  BY BlankGood DEF Init
<1> QED
  BY <1>1 DEF Init, Inv, Good, Nothing, Forms

\* A call on one object keeps the invariant when it leaves a good pair.
LEMMA PutKeeps ==
  ASSUME Inv, NEW o \in Objects, NEW g, NEW w, Good(kind, g, w), Put(o, g, w)
  PROVE  Inv'
<1>1. kind' = kind /\ kind \in Kinds
  BY DEF Inv, Put
<1>2. generic' = [generic EXCEPT ![o] = g] /\ packed' = [packed EXCEPT ![o] = w]
  BY DEF Put
<1>3. g \in Members(kind) /\ w \in Words
  BY DEF Good
<1>4. generic' \in [Objects -> Members(kind)] /\ packed' \in [Objects -> Words]
  BY <1>2, <1>3 DEF Inv
<1>5. \A q \in Objects : Good(kind, generic'[q], packed'[q])
  BY <1>2 DEF Inv
<1>6. thrown'["generic"] = thrown'["packed"]
  BY DEF Put, Nothing, Forms
<1> QED
  BY <1>1, <1>4, <1>5, <1>6 DEF Inv

\* The forms agree on which objects are zombies.
LEMMA SameDead ==
  ASSUME Inv, NEW o \in Objects
  PROVE  /\ Fields(kind, packed[o]).zombie <=> generic[o].zombie
         /\ Good(kind, generic[o], packed[o])
<1>1. kind \in Kinds /\ generic[o] \in Members(kind) /\ Good(kind, generic[o], packed[o])
  BY DEF Inv
<1>2. Fields(kind, packed[o]) = Seen(generic[o])
  BY <1>1, Reads
<1>3. Seen(generic[o]).zombie <=> generic[o].zombie
  BY <1>1, SeenIs, MemberRanges
<1> QED
  BY <1>1, <1>2, <1>3

\* A call that may refuse zombies keeps the invariant when what it would do keeps it.
LEMMA PutUnlessDeadKeeps ==
  ASSUME Inv, NEW S \in SUBSET Objects, NEW gs, NEW ws, PutUnlessDead(S, gs, ws),
         (\A o \in S : ~generic[o].zombie) =>
            /\ gs \in [Objects -> Members(kind)] /\ ws \in [Objects -> Words]
            /\ \A o \in Objects : Good(kind, gs[o], ws[o])
  PROVE  Inv'
<1>1. (\E o \in S : generic[o].zombie) <=> (\E o \in S : Fields(kind, packed[o]).zombie)
  BY SameDead
<1>2. kind' = kind
  BY DEF PutUnlessDead
<1>3. CASE \E o \in S : generic[o].zombie
  <2>1. generic' = generic /\ packed' = packed
    BY <1>1, <1>3 DEF PutUnlessDead
  <2>2. thrown'["generic"] = ZombieError(kind) /\ thrown'["packed"] = ZombieError(kind)
    BY <1>1, <1>3 DEF PutUnlessDead, Forms
  <2> QED
    BY <2>1, <2>2, <1>2 DEF Inv
<1>4. CASE ~\E o \in S : generic[o].zombie
  <2>1. generic' = gs /\ packed' = ws
    BY <1>1, <1>4 DEF PutUnlessDead
  <2>2. thrown'["generic"] = None /\ thrown'["packed"] = None
    BY <1>1, <1>4 DEF PutUnlessDead, Forms
  <2> QED
    BY <2>1, <2>2, <1>2, <1>4 DEF Inv
<1> QED
  BY <1>3, <1>4

\* Every call keeps the invariant, unless set_ptr of `masked' is called with flags set.
LEMMA InvNext ==
  ASSUME ~FlagsBeforeSetPtr
  PROVE  Inv /\ [Next]_vars => Inv'
<1> SUFFICES ASSUME Inv, [Next]_vars PROVE Inv'
  OBVIOUS
<1>1. /\ kind \in Kinds /\ generic \in [Objects -> Members(kind)] /\ packed \in [Objects -> Words]
      /\ \A o \in Objects : Good(kind, generic[o], packed[o])
  BY DEF Inv
<1>2. Good(kind, Blank, ZeroWords) /\ Blank \in Members(kind) /\ ZeroWords \in Words
  BY <1>1, BlankGood DEF Good
<1>3. ASSUME NEW o \in Objects, NEW p \in Pointers(kind), NEW a \in AllocPointers,
             NEW d \in {{}} \cup Data(kind), InitWith(o, p, a, d)
      PROVE  Inv'
  <2>1. (kind # "paired" => a = {}) /\ (kind \notin {"heap", "paired"} => d = {})
    BY <1>3 DEF InitWith
  <2>2. Good(kind, Started(p, a, d), Fresh(kind, p, a, d))
    BY <1>1, <2>1, FreshGood
  <2> QED
    BY <1>3, <2>2, PutKeeps DEF InitWith
<1>4. ASSUME NEW o \in Objects, Reset(o) PROVE Inv'
  BY <1>2, <1>4, PutKeeps DEF Reset
<1>5. ASSUME NEW o \in Objects, SetZombie(o) PROVE Inv'
  <2>1. Good(kind, [generic[o] EXCEPT !.zombie = TRUE], [packed[o] EXCEPT !.ptr = ZombieIndicator])
    BY <1>1, <1>5, ZombieGood DEF SetZombie
  <2> QED
    BY <1>5, <2>1, PutKeeps DEF SetZombie
<1>6. ASSUME NEW o \in Objects, NEW p \in Pointers(kind), SetPtr(o, p) PROVE Inv'
  <2>1. Settable(kind) /\ ~generic[o].zombie /\ (kind = "masked" => generic[o].flags = {})
    BY <1>6 DEF SetPtr
  <2>2. Good(kind, [generic[o] EXCEPT !.ptr = p], WithPtr(kind, packed[o], p))
    BY <1>1, <2>1, SetPtrGood
  <2> QED
    BY <1>6, <2>2, PutKeeps DEF SetPtr
<1>7. ASSUME NEW o \in Objects, NEW a \in AllocPointers, SetAllocatedPtr(o, a) PROVE Inv'
  <2>1. Good(kind, [generic[o] EXCEPT !.alloc = a], PairedSetAllocatedPtr(packed[o], a))
    BY <1>1, <1>7, SetAllocatedPtrGood DEF SetAllocatedPtr
  <2> QED
    BY <1>7, <2>1, PutKeeps DEF SetAllocatedPtr
<1>8. ASSUME NEW o \in Objects, NEW f \in Flags(kind), SetFlag(o, f) PROVE Inv'
  <2>1. Good(kind, [generic[o] EXCEPT !.flags = @ \cup {f}], WithFlag(kind, packed[o], f))
    BY <1>1, <1>8, FlagGood DEF SetFlag
  <2> QED
    BY <1>8, <2>1, PutKeeps DEF SetFlag
<1>9. ASSUME NEW o \in Objects, NEW f \in Flags(kind), UnsetFlag(o, f) PROVE Inv'
  <2>1. Good(kind, [generic[o] EXCEPT !.flags = @ \ {f}], WithoutFlag(kind, packed[o], f))
    BY <1>1, <1>9, FlagGood DEF UnsetFlag
  <2> QED
    BY <1>9, <2>1, PutKeeps DEF UnsetFlag
<1>10. ASSUME NEW o \in Objects, NEW m \in MaskValues, SetMask(o, m) PROVE Inv'
  <2>1. Good(kind, [generic[o] EXCEPT !.mask = m], MaskedSetMask(packed[o], m))
    BY <1>1, <1>10, SetMaskGood DEF SetMask
  <2> QED
    BY <1>10, <2>1, PutKeeps DEF SetMask
<1>11. ASSUME NEW o \in Objects, NEW d \in Data(kind), SetData(o, d) PROVE Inv'
  <2>1. CASE kind = "heap"
    <3> DEFINE g == [generic[o] EXCEPT !.data = d]
               w == HeapSetData(packed[o], d)
               gs == [generic EXCEPT ![o] = g]
               ws == [packed EXCEPT ![o] = w]
    <3>1. PutUnlessDead({o}, gs, ws)
      BY <1>11, <2>1 DEF SetData
    <3>2. ASSUME ~generic[o].zombie
          PROVE  /\ gs \in [Objects -> Members(kind)] /\ ws \in [Objects -> Words]
                 /\ \A q \in Objects : Good(kind, gs[q], ws[q])
      <4>1. Good(kind, g, w)
        BY <1>1, <2>1, <3>2, SetDataGood
      <4>2. g \in Members(kind) /\ w \in Words
        BY <4>1 DEF Good
      <4> HIDE DEF g, w
      <4> QED
        BY <1>1, <4>1, <4>2
    <3> HIDE DEF gs, ws
    <3> QED
      BY <3>1, <3>2, PutUnlessDeadKeeps
  <2>2. CASE kind = "paired"
    <3>1. Good(kind, [generic[o] EXCEPT !.data = d], PairedSetData(packed[o], d))
      BY <1>1, <2>2, SetDataGood
    <3> QED
      BY <1>11, <2>2, <3>1, PutKeeps DEF SetData
  <2> QED
    BY <1>11, <2>1, <2>2 DEF SetData
<1>12. ASSUME NEW o \in Objects, NEW from \in Objects, CopyFrom(o, from) PROVE Inv'
  <2> DEFINE gs == [generic EXCEPT ![o] = generic[from]]
             ws == [packed EXCEPT ![o] = packed[from]]
  <2>1. PutUnlessDead({o, from}, gs, ws)
    BY <1>12 DEF CopyFrom
  <2>2. /\ gs \in [Objects -> Members(kind)] /\ ws \in [Objects -> Words]
        /\ \A q \in Objects : Good(kind, gs[q], ws[q])
    BY <1>1
  <2> HIDE DEF gs, ws
  <2> QED
    BY <2>1, <2>2, PutUnlessDeadKeeps
<1>13. ASSUME NEW o \in Objects, NEW from \in Objects, MoveFrom(o, from) PROVE Inv'
  <2> DEFINE gs == [generic EXCEPT ![o] = generic[from], ![from] = Blank]
             ws == [packed EXCEPT ![o] = packed[from], ![from] = ZeroWords]
  <2>1. PutUnlessDead({o, from}, gs, ws)
    BY <1>13 DEF MoveFrom
  <2>2. /\ gs \in [Objects -> Members(kind)] /\ ws \in [Objects -> Words]
        /\ \A q \in Objects : Good(kind, gs[q], ws[q])
    BY <1>1, <1>2
  <2> HIDE DEF gs, ws
  <2> QED
    BY <2>1, <2>2, PutUnlessDeadKeeps
<1>14. ASSUME NEW o \in Objects, NEW from \in Objects, Swap(o, from) PROVE Inv'
  <2> DEFINE gs == [generic EXCEPT ![o] = generic[from], ![from] = generic[o]]
             ws == [packed EXCEPT ![o] = packed[from], ![from] = packed[o]]
  <2>1. PutUnlessDead({o, from}, gs, ws)
    BY <1>14 DEF Swap
  <2>2. /\ gs \in [Objects -> Members(kind)] /\ ws \in [Objects -> Words]
        /\ \A q \in Objects : Good(kind, gs[q], ws[q])
    BY <1>1
  <2> HIDE DEF gs, ws
  <2> QED
    BY <2>1, <2>2, PutUnlessDeadKeeps
<1>15. CASE UNCHANGED vars
  BY <1>15 DEF vars, Inv
<1> QED
  BY <1>3, <1>4, <1>5, <1>6, <1>7, <1>8, <1>9, <1>10, <1>11, <1>12, <1>13, <1>14, <1>15 DEF Next

\* What both forms hold is of its type, whatever was called.
THEOREM TypeCorrect ==
  ASSUME ~FlagsBeforeSetPtr
  PROVE  Spec => []TypeOK
<1>1. Inv => TypeOK
  BY DEF Inv, TypeOK
<1> QED
  BY <1>1, InvInit, InvNext, PTL DEF Spec

\* Both forms answer alike, whatever the sizes of words, fields and alignments.
THEOREM FormsAgree ==
  ASSUME ~FlagsBeforeSetPtr
  PROVE  Spec => []SameAnswers
<1>1. Inv => SameAnswers
  <2> SUFFICES ASSUME Inv, NEW o \in Objects
               PROVE  /\ Getters(kind, generic[o]) = Getters(kind, Fields(kind, packed[o]))
                      /\ Mortal(kind) /\ ~(kind = "heap" /\ generic[o].ptr = {} /\ generic[o].data # {})
                           => GenericDereference(generic[o]) = PackedDereference(kind, packed[o])
    BY DEF SameAnswers, Inv
  <2>1. /\ kind \in Kinds /\ generic[o] \in Members(kind) /\ Good(kind, generic[o], packed[o])
        /\ Unused(kind, generic[o])
    BY DEF Inv, Good
  <2>2. Getters(kind, generic[o]) = Getters(kind, Fields(kind, packed[o]))
    <3>1. Fields(kind, packed[o]) = Seen(generic[o])
      BY <2>1, Reads
    <3>2. Getters(kind, generic[o]) = Getters(kind, Seen(generic[o]))
      <4>1. CASE generic[o].zombie
        <5>1. generic[o].zombie = TRUE /\ generic[o].mask = {}
          BY <2>1, <4>1, MemberRanges DEF Unused, Mortal
        <5>2. /\ Seen(generic[o]).zombie = TRUE /\ Seen(generic[o]).mask = {}
              /\ Seen(generic[o]).flags = generic[o].flags
          BY <2>1, <4>1, SeenIs
        <5> QED
          BY <5>1, <5>2 DEF Getters, Answer
      <4>2. CASE ~generic[o].zombie
        BY <4>2 DEF Seen
      <4> QED
        BY <4>1, <4>2
    <3> QED
      BY <3>1, <3>2
  <2> QED
    BY <2>1, <2>2, Reads
<1> QED
  BY <1>1, InvInit, InvNext, PTL DEF Spec

(***************************************************************************)
(* Both forms implement TagStore                                            *)
(***************************************************************************)
\* A call that may refuse zombies either throws and does nothing or does it all.
LEMMA RefusedOrDone ==
  ASSUME Inv, NEW S \in SUBSET Objects, NEW gs, NEW ws, PutUnlessDead(S, gs, ws)
  PROVE  \/ /\ \E o \in S : generic[o].zombie
            /\ generic' = generic /\ thrown'["generic"] # None
         \/ /\ \A o \in S : ~generic[o].zombie
            /\ generic' = gs /\ thrown'["generic"] = None
<1>1. CASE \E o \in S : generic[o].zombie
  BY <1>1, InputAssumption DEF PutUnlessDead, Forms, ZombieError
<1>2. CASE ~\E o \in S : generic[o].zombie
  BY <1>2 DEF PutUnlessDead, Forms
<1> QED
  BY <1>1, <1>2

\* Every call on the generic forms is one of TagStore.
LEMMA GenericStep ==
  ASSUME Inv, Inv', Next
  PROVE  GenericStore!Next
<1> DEFINE v == [o \in Objects |-> Seen(generic[o])]
<1>1. /\ kind \in Kinds /\ generic \in [Objects -> Members(kind)]
      /\ \A o \in Objects : Unused(kind, generic[o])
  BY DEF Inv, Good
<1>2. ASSUME NEW o \in Objects, NEW p, NEW a, NEW d, InitWith(o, p, a, d)
      PROVE  GenericStore!Start(o)
  <2>1. generic' = [generic EXCEPT ![o] = Started(p, a, d)] /\ thrown'["generic"] = None
    BY <1>2 DEF InitWith, Put, Nothing, Forms
  <2>2. \A q \in Objects \ {o} : generic'[q] = generic[q]
    BY <2>1, <1>1
  <2>3. /\ generic'[o].zombie = FALSE /\ generic'[o].flags = {} /\ generic'[o].mask = {}
        /\ Seen(generic'[o]) = generic'[o]
    BY <2>1, <1>1 DEF Seen, Started
  <2> QED
    BY <2>1, <2>2, <2>3 DEF GenericStore!Start
<1>3. ASSUME NEW o \in Objects, Reset(o) PROVE GenericStore!Start(o)
  <2>1. generic' = [generic EXCEPT ![o] = Blank] /\ thrown'["generic"] = None
    BY <1>3 DEF Reset, Put, Nothing, Forms
  <2>2. \A q \in Objects \ {o} : generic'[q] = generic[q]
    BY <2>1, <1>1
  <2>3. /\ generic'[o].zombie = FALSE /\ generic'[o].flags = {} /\ generic'[o].mask = {}
        /\ Seen(generic'[o]) = generic'[o]
    BY <2>1, <1>1 DEF Seen, Blank, Started
  <2> QED
    BY <2>1, <2>2, <2>3 DEF GenericStore!Start
<1>4. ASSUME NEW o \in Objects, SetZombie(o) PROVE GenericStore!Bury(o)
  <2>1. generic' = [generic EXCEPT ![o] = [generic[o] EXCEPT !.zombie = TRUE]] /\ thrown'["generic"] = None
    BY <1>4 DEF SetZombie, Put, Nothing, Forms
  <2>2. /\ \A q \in Objects \ {o} : generic'[q] = generic[q]
        /\ generic'[o] = [generic[o] EXCEPT !.zombie = TRUE]
    BY <2>1, <1>1
  <2>3. generic'[o].zombie = TRUE /\ generic'[o].flags = generic[o].flags
    BY <2>2, <1>1 DEF Members
  <2>4. Seen(generic'[o]) = [Blank EXCEPT !.zombie = TRUE, !.flags = generic[o].flags]
    BY <2>3 DEF Seen
  <2>5. Seen(generic[o]).flags = generic[o].flags
    BY DEF Seen, Blank, Started
  <2>6. v' = [v EXCEPT ![o] = [Blank EXCEPT !.zombie = TRUE, !.flags = v[o].flags]]
    BY <2>2, <2>4, <2>5
  <2>7. GenericStore!Blank = Blank
    BY DEF GenericStore!Blank, Blank, Started
  <2> QED
    BY <2>1, <2>6, <2>7 DEF GenericStore!Bury
\* A setter of one member writes one field, or the flags of a zombie.
<1>5. ASSUME NEW o \in Objects, NEW f \in {"ptr", "alloc", "data", "flags", "mask"}, NEW x,
             generic' = [generic EXCEPT ![o] = [generic[o] EXCEPT ![f] = x]],
             thrown'["generic"] = None
      PROVE  \E g \in {"ptr", "alloc", "data", "flags", "mask"} : GenericStore!Write(o, g)
  <2>1. /\ \A q \in Objects \ {o} : generic'[q] = generic[q]
        /\ generic'[o] = [generic[o] EXCEPT ![f] = x]
    BY <1>1, <1>5
  <2>2. /\ generic'[o].zombie = generic[o].zombie
        /\ f # "flags" => generic'[o].flags = generic[o].flags
    BY <2>1, <1>1 DEF Members
  <2>3. CASE generic[o].zombie
    <3>1. /\ v[o] = [Blank EXCEPT !.zombie = TRUE, !.flags = generic[o].flags]
          /\ v'[o] = [Blank EXCEPT !.zombie = TRUE, !.flags = generic'[o].flags]
      BY <2>2, <2>3 DEF Seen
    <3>2. v'[o] = [v[o] EXCEPT !["flags"] = v'[o]["flags"]]
      BY <3>1 DEF Blank, Started
    <3>3. v' = [v EXCEPT ![o]["flags"] = v'[o]["flags"]]
      BY <3>2, <2>1
    <3>4. GenericStore!Write(o, "flags")
      BY <1>5, <3>3 DEF GenericStore!Write
    <3> QED
      BY <3>4
  <2>4. CASE ~generic[o].zombie
    <3>1. v[o] = generic[o] /\ v'[o] = generic'[o]
      BY <2>2, <2>4 DEF Seen
    <3>2. v'[o] = [v[o] EXCEPT ![f] = v'[o][f]]
      BY <3>1, <2>1, <1>1 DEF Members
    <3>3. v' = [v EXCEPT ![o][f] = v'[o][f]]
      BY <3>2, <2>1
    <3>4. GenericStore!Write(o, f)
      BY <1>5, <2>4, <3>1, <3>3 DEF GenericStore!Write
    <3> QED
      BY <3>4
  <2> QED
    BY <2>3, <2>4
<1>6. ASSUME NEW o \in Objects, NEW p, SetPtr(o, p)
      PROVE  \E g \in {"ptr", "alloc", "data", "flags", "mask"} : GenericStore!Write(o, g)
  <2>1. /\ generic' = [generic EXCEPT ![o] = [generic[o] EXCEPT !["ptr"] = p]]
        /\ thrown'["generic"] = None
    BY <1>6 DEF SetPtr, Put, Nothing, Forms
  <2> QED
    BY <2>1, <1>5
<1>7. ASSUME NEW o \in Objects, NEW a, SetAllocatedPtr(o, a)
      PROVE  \E g \in {"ptr", "alloc", "data", "flags", "mask"} : GenericStore!Write(o, g)
  <2>1. /\ generic' = [generic EXCEPT ![o] = [generic[o] EXCEPT !["alloc"] = a]]
        /\ thrown'["generic"] = None
    BY <1>7 DEF SetAllocatedPtr, Put, Nothing, Forms
  <2> QED
    BY <2>1, <1>5
<1>8. ASSUME NEW o \in Objects, NEW f, SetFlag(o, f)
      PROVE  \E g \in {"ptr", "alloc", "data", "flags", "mask"} : GenericStore!Write(o, g)
  <2>1. /\ generic' = [generic EXCEPT ![o] = [generic[o] EXCEPT !["flags"] = generic[o].flags \cup {f}]]
        /\ thrown'["generic"] = None
    BY <1>8 DEF SetFlag, Put, Nothing, Forms
  <2> QED
    BY <2>1, <1>5
<1>9. ASSUME NEW o \in Objects, NEW f, UnsetFlag(o, f)
      PROVE  \E g \in {"ptr", "alloc", "data", "flags", "mask"} : GenericStore!Write(o, g)
  <2>1. /\ generic' = [generic EXCEPT ![o] = [generic[o] EXCEPT !["flags"] = generic[o].flags \ {f}]]
        /\ thrown'["generic"] = None
    BY <1>9 DEF UnsetFlag, Put, Nothing, Forms
  <2> QED
    BY <2>1, <1>5
<1>10. ASSUME NEW o \in Objects, NEW m, SetMask(o, m)
      PROVE  \E g \in {"ptr", "alloc", "data", "flags", "mask"} : GenericStore!Write(o, g)
  <2>1. /\ generic' = [generic EXCEPT ![o] = [generic[o] EXCEPT !["mask"] = m]]
        /\ thrown'["generic"] = None
    BY <1>10 DEF SetMask, Put, Nothing, Forms
  <2> QED
    BY <2>1, <1>5
<1>11. ASSUME NEW o \in Objects, NEW d, SetData(o, d)
      PROVE  \/ \E g \in {"ptr", "alloc", "data", "flags", "mask"} : GenericStore!Write(o, g)
             \/ GenericStore!Refuse(o, o)
  <2>1. CASE kind = "heap"
    <3> DEFINE gs == [generic EXCEPT ![o] = [generic[o] EXCEPT !["data"] = d]]
               ws == [packed EXCEPT ![o] = HeapSetData(packed[o], d)]
    <3>1. PutUnlessDead({o}, gs, ws)
      BY <1>11, <2>1 DEF SetData
    <3> HIDE DEF ws
    <3>2. CASE generic[o].zombie
      <4>1. generic' = generic /\ thrown'["generic"] # None
        BY <3>1, <3>2, RefusedOrDone
      <4>2. v[o].zombie /\ v' = v
        BY <3>2, <4>1 DEF Seen, Blank, Started
      <4> QED
        BY <4>1, <4>2 DEF GenericStore!Refuse, GenericStore!Dead
    <3>3. CASE ~generic[o].zombie
      <4>1. generic' = gs /\ thrown'["generic"] = None
        BY <3>1, <3>3, RefusedOrDone
      <4> QED
        BY <4>1, <1>5
    <3> QED
      BY <3>2, <3>3
  <2>2. CASE kind = "paired"
    <3>1. /\ generic' = [generic EXCEPT ![o] = [generic[o] EXCEPT !["data"] = d]]
          /\ thrown'["generic"] = None
      BY <1>11, <2>2 DEF SetData, Put, Nothing, Forms
    <3> QED
      BY <3>1, <1>5
  <2> QED
    BY <1>11, <2>1, <2>2 DEF SetData
\* The calls between two objects refuse zombies, each for the same reason.
<1>12. ASSUME NEW o \in Objects, NEW from \in Objects, NEW gs, NEW ws,
              PutUnlessDead({o, from}, gs, ws)
       PROVE  \/ GenericStore!Refuse(o, from)
              \/ /\ generic' = gs /\ thrown'["generic"] = None
                 /\ ~generic[o].zombie /\ ~generic[from].zombie
                 /\ v[o] = generic[o] /\ v[from] = generic[from]
                 /\ ~GenericStore!Dead(o, from)
  <2>1. CASE generic[o].zombie \/ generic[from].zombie
    <3>1. generic' = generic /\ thrown'["generic"] # None
      BY <1>12, <2>1, RefusedOrDone
    <3>2. v' = v /\ (v[o].zombie \/ v[from].zombie)
      BY <2>1, <3>1 DEF Seen, Blank, Started
    <3> QED
      BY <3>1, <3>2 DEF GenericStore!Refuse, GenericStore!Dead
  <2>2. CASE ~generic[o].zombie /\ ~generic[from].zombie
    <3>1. generic' = gs /\ thrown'["generic"] = None
      BY <1>12, <2>2, RefusedOrDone
    <3>2. v[o] = generic[o] /\ v[from] = generic[from]
      BY <2>2 DEF Seen
    <3> QED
      BY <2>2, <3>1, <3>2 DEF GenericStore!Dead
  <2> QED
    BY <2>1, <2>2
<1>13. ASSUME NEW o \in Objects, NEW from \in Objects, CopyFrom(o, from)
       PROVE  GenericStore!Copy(o, from) \/ GenericStore!Refuse(o, from)
  <2> DEFINE gs == [generic EXCEPT ![o] = generic[from]]
             ws == [packed EXCEPT ![o] = packed[from]]
  <2>1. PutUnlessDead({o, from}, gs, ws)
    BY <1>13 DEF CopyFrom
  <2> SUFFICES ASSUME generic' = gs, thrown'["generic"] = None, v[from] = generic[from],
                      ~GenericStore!Dead(o, from)
               PROVE  GenericStore!Copy(o, from)
    BY <2>1, <1>12
  <2>2. v' = [v EXCEPT ![o] = v[from]]
    BY <1>1
  <2> QED
    BY <2>2 DEF GenericStore!Copy
<1>14. ASSUME NEW o \in Objects, NEW from \in Objects, MoveFrom(o, from)
       PROVE  GenericStore!Move(o, from) \/ GenericStore!Refuse(o, from)
  <2> DEFINE gs == [generic EXCEPT ![o] = generic[from], ![from] = Blank]
             ws == [packed EXCEPT ![o] = packed[from], ![from] = ZeroWords]
  <2>1. PutUnlessDead({o, from}, gs, ws)
    BY <1>14 DEF MoveFrom
  <2> SUFFICES ASSUME generic' = gs, thrown'["generic"] = None, v[from] = generic[from],
                      ~GenericStore!Dead(o, from)
               PROVE  GenericStore!Move(o, from)
    BY <2>1, <1>12
  <2>2. Seen(Blank) = Blank /\ GenericStore!Blank = Blank
    BY DEF Seen, Blank, Started, GenericStore!Blank
  <2>3. v' = [v EXCEPT ![o] = v[from], ![from] = Blank]
    BY <2>2, <1>1
  <2> QED
    BY <2>2, <2>3 DEF GenericStore!Move
<1>15. ASSUME NEW o \in Objects, NEW from \in Objects, Swap(o, from)
       PROVE  GenericStore!Swap(o, from) \/ GenericStore!Refuse(o, from)
  <2> DEFINE gs == [generic EXCEPT ![o] = generic[from], ![from] = generic[o]]
             ws == [packed EXCEPT ![o] = packed[from], ![from] = packed[o]]
  <2>1. PutUnlessDead({o, from}, gs, ws)
    BY <1>15 DEF Swap
  <2> SUFFICES ASSUME generic' = gs, thrown'["generic"] = None, v[from] = generic[from],
                      v[o] = generic[o], ~GenericStore!Dead(o, from)
               PROVE  GenericStore!Swap(o, from)
    BY <2>1, <1>12
  <2>2. v' = [v EXCEPT ![o] = v[from], ![from] = v[o]]
    BY <1>1
  <2> QED
    BY <2>2 DEF GenericStore!Swap
<1> QED
  BY <1>2, <1>3, <1>4, <1>6, <1>7, <1>8, <1>9, <1>10, <1>11, <1>13, <1>14, <1>15
     DEF Next, GenericStore!Next

\* Under the invariant the two forms are the same store.
SameView ==
  /\ [o \in Objects |-> Fields(kind, packed[o])] = [o \in Objects |-> Seen(generic[o])]
  /\ thrown["generic"] = thrown["packed"]

\* ... which the invariant says.
LEMMA SameStore == Inv => SameView
<1>1. Inv => \A o \in Objects : Fields(kind, packed[o]) = Seen(generic[o])
  BY Reads DEF Inv
<1> QED
  BY <1>1 DEF Inv, SameView

\* Every call on the optimized forms is the same one of TagStore.
LEMMA PackedStep ==
  ASSUME Inv, Inv', Next
  PROVE  PackedStore!Next
<1> DEFINE u == [o \in Objects |-> Seen(generic[o])]
           v == [o \in Objects |-> Fields(kind, packed[o])]
<1>0. SameView /\ SameView'
  BY SameStore, PTL
<1>1. v = u /\ thrown["generic"] = thrown["packed"]
  BY <1>0 DEF SameView
<1>2. v' = u' /\ thrown'["generic"] = thrown'["packed"]
  BY <1>0 DEF SameView
<1>3. PackedStore!Blank = GenericStore!Blank
  BY DEF PackedStore!Blank, GenericStore!Blank
<1>4. ASSUME NEW o \in Objects
      PROVE  /\ GenericStore!Start(o) => PackedStore!Start(o)
             /\ GenericStore!Bury(o) => PackedStore!Bury(o)
  BY <1>1, <1>2, <1>3
     DEF GenericStore!Start, PackedStore!Start, GenericStore!Bury, PackedStore!Bury
<1>5. ASSUME NEW o \in Objects, NEW f \in {"ptr", "alloc", "data", "flags", "mask"}
      PROVE  GenericStore!Write(o, f) => PackedStore!Write(o, f)
  BY <1>1, <1>2 DEF GenericStore!Write, PackedStore!Write
<1>6. ASSUME NEW o \in Objects, NEW from \in Objects
      PROVE  /\ GenericStore!Copy(o, from) => PackedStore!Copy(o, from)
             /\ GenericStore!Move(o, from) => PackedStore!Move(o, from)
             /\ GenericStore!Swap(o, from) => PackedStore!Swap(o, from)
             /\ GenericStore!Refuse(o, from) => PackedStore!Refuse(o, from)
  BY <1>1, <1>2, <1>3
     DEF GenericStore!Copy, PackedStore!Copy, GenericStore!Move, PackedStore!Move,
         GenericStore!Swap, PackedStore!Swap, GenericStore!Refuse, PackedStore!Refuse,
         GenericStore!Dead, PackedStore!Dead
<1> QED
  BY <1>4, <1>5, <1>6, GenericStep DEF GenericStore!Next, PackedStore!Next

\* Both forms start as TagStore does.
LEMMA StoreInit == Init => GenericStore!Init /\ PackedStore!Init
<1> SUFFICES ASSUME Init PROVE GenericStore!Init /\ PackedStore!Init
  OBVIOUS
<1>1. GenericStore!Init
  BY DEF Init, GenericStore!Init, GenericStore!Blank, Seen, Blank, Started, Nothing, Forms
<1>2. Inv
  BY InvInit
<1>3. PackedStore!Init
  BY <1>1, <1>2, SameStore DEF SameView, GenericStore!Init, PackedStore!Init, GenericStore!Blank, PackedStore!Blank
<1> QED
  BY <1>1, <1>3

\* The optimized forms are tagged pointers: no call disturbs what it does not name.
THEOREM PackedRefines ==
  ASSUME ~FlagsBeforeSetPtr
  PROVE  Spec => PackedIsStore
<1>1. Inv /\ Inv' /\ [Next]_vars => [PackedStore!Next]_(PackedStore!vars)
  BY PackedStep DEF vars, PackedStore!vars
<1> QED
  BY <1>1, InvInit, InvNext, StoreInit, PTL DEF Spec, PackedIsStore, PackedStore!Spec

\* So are the generic forms.
THEOREM GenericRefines ==
  ASSUME ~FlagsBeforeSetPtr
  PROVE  Spec => GenericIsStore
<1>1. Inv /\ Inv' /\ [Next]_vars => [GenericStore!Next]_(GenericStore!vars)
  BY GenericStep DEF vars, GenericStore!vars
<1> QED
  BY <1>1, InvInit, InvNext, StoreInit, PTL DEF Spec, GenericIsStore, GenericStore!Spec
===============================================================================
