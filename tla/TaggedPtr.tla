------------------------------ MODULE TaggedPtr ------------------------------
(***************************************************************************)
(* The five structures of tagged_ptr_impl.h that keep data beside a pointer, *)
(* each in its two forms: generic (one member per field) and optimized (the  *)
(* fields packed into the bits a pointer does not use).  A build selects one  *)
(* of the forms under one name (foundation.h:49); here both get every call.  *)
(*                                                                          *)
(* A word is the set of the positions of its 1 bits: & is \cap, | is \cup,    *)
(* & ~m is \ m, and a shift moves the positions.                             *)
(***************************************************************************)
EXTENDS Integers, FiniteSets

CONSTANTS
  Objects,      \* objects of one of the structures
  WordBits,     \* nodecpp_ptr_pointer_bit_size
  UpperBits,    \* nodecpp_ptr_unused_upper_bit_count
  LowerBits,    \* allocated_ptr_unused_lower_bit_count
  HeapBits,     \* low bits that allocptrMask_ = 0xFFFFFFFFFFF8 clears
  NFlags,       \* nflags of `flagged' and `masked'
  PairFlags,    \* nflags of `paired'
  MaskSize,     \* masksize
  DataSize,     \* dataminsize
  Addresses,    \* pointers passed in
  DataValues,   \* data passed in
  MaskValues,   \* masks passed in
  FlagsBeforeSetPtr, \* whether set_ptr of `masked' is called with flags set
  None          \* no exception

Bits == 0 .. WordBits - 1
Lower == 0 .. LowerBits - 1
Upper == WordBits - UpperBits .. WordBits - 1
PtrMask == Bits \ Upper
AllocMask == PtrMask \ Lower
HeapMask == {b \in PtrMask : b >= HeapBits}

\* Results are cut to the width of a word.
Shl(x, n) == {b + n : b \in x} \cap Bits
Shr(x, n) == {b - n : b \in {c \in x : c >= n}}
Low(n) == 0 .. n - 1

ASSUME LayoutAssumption ==
  /\ WordBits \in Nat /\ UpperBits \in Nat /\ LowerBits \in Nat /\ HeapBits \in Nat
  /\ NFlags \in Nat /\ PairFlags \in Nat /\ MaskSize \in Nat /\ DataSize \in Nat
  /\ LowerBits < WordBits - UpperBits /\ HeapBits <= LowerBits
  /\ NFlags <= LowerBits /\ NFlags <= UpperBits /\ MaskSize <= LowerBits
  \* What set_data and get_data of `paired' need; the static_asserts ask for less.
  /\ 2 * PairFlags <= LowerBits /\ PairFlags <= UpperBits
  /\ DataSize <= 2 * UpperBits + PairFlags /\ 2 * UpperBits + PairFlags <= WordBits

\* A pointer that is not null lies above the first page of memory, so it has a bit above
\* that of the zombie indicator.
ASSUME InputAssumption ==
  /\ \A p \in Addresses : p \subseteq PtrMask /\ \E b \in p : b > LowerBits
  /\ \A d \in DataValues : d \subseteq Nat
  /\ \A m \in MaskValues : m \subseteq Low(MaskSize)
  /\ FlagsBeforeSetPtr \in BOOLEAN
  /\ None \notin {"zero_pointer_access", "zombie_pointer_access"}

Kinds == {"plain", "heap", "flagged", "masked", "paired"}

VARIABLES
  kind,     \* which of the structures
  generic,  \* the members of the generic form of each object
  packed,   \* the words of its optimized form
  thrown    \* what the last call threw, by form

vars == <<kind, generic, packed, thrown>>

Forms == {"generic", "packed"}

(***************************************************************************)
(* The calls                                                                *)
(***************************************************************************)
Pointers(k) == {{}} \cup (IF k \in {"plain", "paired"} THEN Addresses
                          ELSE {p \in Addresses : p \subseteq AllocMask})
AllocPointers == {{}} \cup {p \in Addresses : p \subseteq AllocMask}
Data(k) == {d \in DataValues : d \subseteq Low(IF k = "heap" THEN UpperBits ELSE DataSize)}
Flags(k) == Low(IF k = "paired" THEN PairFlags ELSE NFlags)
\* The structures an object of which can be a zombie, and those with set_ptr and flags.
Mortal(k) == k \in {"plain", "heap", "paired"}
Settable(k) == k \in {"flagged", "masked", "paired"}

\* The members of a generic form after init( p, a, d ).
Started(p, a, d) ==
  [zombie |-> FALSE, ptr |-> p, alloc |-> a, data |-> d, flags |-> {}, mask |-> {}]
Blank == Started({}, {}, {})
ZeroWords == [ptr |-> {}, alloc |-> {}]

(***************************************************************************)
(* Optimized forms                                                          *)
(***************************************************************************)
ZombieIndicator == {LowerBits}

\* word > zombie_indicator
AboveZombie(w) == \/ \E b \in w : b > LowerBits
                  \/ LowerBits \in w /\ \E b \in w : b < LowerBits

\* ptr_with_zombie_property
PlainInit(p) == [ptr |-> p, alloc |-> {}]
PlainFields(w) == IF w.ptr = ZombieIndicator THEN [Blank EXCEPT !.zombie = TRUE]
                  ELSE [Blank EXCEPT !.ptr = w.ptr]

\* allocptr_with_zombie_property_and_data: the data above the pointer.
HeapInit(p, d) == [ptr |-> p \cup Shl(d, WordBits - UpperBits), alloc |-> {}]
\* Variant (the next definition with a slip in it; the specification does not use it, it
\* shows what the properties notice): the old data stay.
HeapAddData(w, d) == [w EXCEPT !.ptr = @ \cup Shl(d, WordBits - UpperBits)]
HeapSetData(w, d) == [w EXCEPT !.ptr = (@ \ Upper) \cup Shl(d, WordBits - UpperBits)]
HeapFields(w) == IF w.ptr = ZombieIndicator THEN [Blank EXCEPT !.zombie = TRUE]
                 ELSE [Blank EXCEPT !.ptr = w.ptr \cap HeapMask,
                                    !.data = Shr(w.ptr, WordBits - UpperBits)]

\* allocated_ptr_with_flags: the flags below the pointer.
FlaggedInit(p) == [ptr |-> p \ Lower, alloc |-> {}]
FlaggedSetPtr(w, p) == [w EXCEPT !.ptr = (@ \cap Lower) \cup (p \ Lower)]
FlaggedFields(w) == [Blank EXCEPT !.ptr = w.ptr \ Lower, !.flags = w.ptr \cap Low(NFlags)]

\* allocated_ptr_with_mask_and_flags: the mask below, the flags above.
MaskedInit(p) == [ptr |-> p, alloc |-> {}]
MaskedSetPtr(w, p) == [w EXCEPT !.ptr = (@ \cap Lower) \cup (p \ Lower)]
\* Variant: counted from the top of the word.
MaskedFlagFromTop(f) == WordBits - f
MaskedFlag(f) == WordBits - UpperBits + f
MaskedSetMask(w, m) == [w EXCEPT !.ptr = (@ \ Lower) \cup m]
MaskedFields(w) == [Blank EXCEPT !.ptr = w.ptr \cap AllocMask, !.mask = w.ptr \cap Lower,
                                 !.flags = {f \in Low(NFlags) : MaskedFlag(f) \in w.ptr}]

\* allocated_ptr_and_ptr_and_data_and_flags: the lowest data bits above the pointer, the
\* next between the flags and the allocated pointer, the others above that.
PairedHighFrom == UpperBits + LowerBits - PairFlags
PairedDataLow(d) == Shl(d \cap Low(UpperBits), WordBits - UpperBits)
PairedDataMiddle(d) ==
  Shl(Shr(d \cap (UpperBits .. PairedHighFrom - 1), UpperBits), PairFlags)
PairedDataHigh(d) ==
  Shl(Shr(d \cap (PairedHighFrom .. PairedHighFrom + UpperBits - 1), UpperBits + PairFlags),
      WordBits - UpperBits)
PairedSetData(w, d) ==
  [ptr |-> (w.ptr \cap PtrMask) \cup PairedDataLow(d),
   alloc |-> (w.alloc \cap (AllocMask \cup Low(PairFlags)))
               \cup PairedDataHigh(d) \cup PairedDataMiddle(d)]
PairedGetData(w) ==
  Shr(w.alloc \cap Upper, WordBits - 2 * UpperBits - PairFlags)
    \cup Shr(w.ptr \cap Upper, WordBits - UpperBits)
    \cup Shl(w.alloc \cap (PairFlags .. LowerBits - 1), UpperBits - PairFlags)
PairedInit(p, a, d) == PairedSetData([ptr |-> p \cap PtrMask, alloc |-> a \cap AllocMask], d)
\* Variant: the lowest data bits are lost.
PairedNewPtr(w, p) == [w EXCEPT !.ptr = p \cap PtrMask]
PairedSetPtr(w, p) == [w EXCEPT !.ptr = (@ \cap Upper) \cup (p \cap PtrMask)]
PairedSetAllocatedPtr(w, a) == [w EXCEPT !.alloc = (@ \ AllocMask) \cup (a \cap AllocMask)]
PairedFields(w) ==
  LET flags == w.alloc \cap Low(PairFlags) IN
  IF w.ptr \cap PtrMask = ZombieIndicator THEN [Blank EXCEPT !.zombie = TRUE, !.flags = flags]
  ELSE [Blank EXCEPT !.ptr = w.ptr \cap PtrMask, !.alloc = w.alloc \cap AllocMask,
                     !.data = PairedGetData(w), !.flags = flags]

\* The words after init, set_ptr, set_flag and unset_flag.  `masked' keeps a flag in the
\* word of the pointer, `paired' in that of the allocated pointer.
Fresh(k, p, a, d) ==
  CASE k = "plain" -> PlainInit(p)
    [] k = "heap" -> HeapInit(p, d)
    [] k = "flagged" -> FlaggedInit(p)
    [] k = "masked" -> MaskedInit(p)
    [] k = "paired" -> PairedInit(p, a, d)
WithPtr(k, w, p) ==
  CASE k = "flagged" -> FlaggedSetPtr(w, p)
    [] k = "masked" -> MaskedSetPtr(w, p)
    [] k = "paired" -> PairedSetPtr(w, p)
WithFlag(k, w, f) ==
  CASE k = "flagged" -> [w EXCEPT !.ptr = @ \cup {f}]
    [] k = "masked" -> [w EXCEPT !.ptr = @ \cup {MaskedFlag(f)}]
    [] k = "paired" -> [w EXCEPT !.alloc = @ \cup {f}]
WithoutFlag(k, w, f) ==
  CASE k = "flagged" -> [w EXCEPT !.ptr = @ \ {f}]
    [] k = "masked" -> [w EXCEPT !.ptr = @ \ {MaskedFlag(f)}]
    [] k = "paired" -> [w EXCEPT !.alloc = @ \ {f}]

\* What the getters of an optimized form make of its words; nothing but the flags is
\* read of a zombie.
Fields(k, w) ==
  CASE k = "plain" -> PlainFields(w)
    [] k = "heap" -> HeapFields(w)
    [] k = "flagged" -> FlaggedFields(w)
    [] k = "masked" -> MaskedFields(w)
    [] k = "paired" -> PairedFields(w)

\* The generic form, seen likewise.
Seen(g) == IF g.zombie THEN [Blank EXCEPT !.zombie = TRUE, !.flags = g.flags] ELSE g

(***************************************************************************)
(* What a caller gets                                                       *)
(***************************************************************************)
\* throwZombieAccess of `paired' throws what a null pointer throws.
ZombieError(k) == IF k = "paired" THEN "zero_pointer_access" ELSE "zombie_pointer_access"
DereferenceError(zombie) == IF zombie THEN "zombie_pointer_access" ELSE "zero_pointer_access"

Answer(ok, x, e) == IF ok THEN [value |-> x, error |-> None] ELSE [value |-> {}, error |-> e]

GenericDereference(g) == Answer(~g.zombie /\ g.ptr # {}, g.ptr, DereferenceError(g.zombie))

\* The optimized forms compare a word with the zombie indicator; `heap' all of it.
PackedDereference(k, w) ==
  Answer(AboveZombie(IF k = "paired" THEN w.ptr \cap PtrMask ELSE w.ptr),
         Fields(k, w).ptr, DereferenceError(Fields(k, w).zombie))

\* The other getters, by fields; a zombie has only flags (get_data of `paired' does not
\* look: it is not asked of a zombie).
Getters(k, f) ==
  [zombie |-> f.zombie, flags |-> f.flags, mask |-> f.mask,
   ptr |-> Answer(~f.zombie, f.ptr, ZombieError(k)),
   data |-> Answer(~f.zombie, f.data, ZombieError(k)),
   alloc |-> Answer(~f.zombie, f.alloc, ZombieError(k)),
   allocDereference |-> Answer(~f.zombie /\ f.alloc # {}, f.alloc, DereferenceError(f.zombie))]

(***************************************************************************)
(* Actions                                                                  *)
(***************************************************************************)
Nothing == [form \in Forms |-> None]

\* A call that changes one object in both forms and throws nothing.
Put(o, g, w) ==
  /\ generic' = [generic EXCEPT ![o] = g]
  /\ packed' = [packed EXCEPT ![o] = w]
  /\ thrown' = Nothing
  /\ UNCHANGED kind

\* init in all its forms; what a structure does not have is {}.
InitWith(o, p, a, d) ==
  /\ kind # "paired" => a = {}
  /\ kind \notin {"heap", "paired"} => d = {}
  /\ Put(o, Started(p, a, d), Fresh(kind, p, a, d))

Reset(o) == kind \in {"plain", "heap"} /\ Put(o, Blank, ZeroWords)

\* The allocated pointer of `paired' stays in its word.
SetZombie(o) ==
  /\ Mortal(kind)
  /\ Put(o, [generic[o] EXCEPT !.zombie = TRUE], [packed[o] EXCEPT !.ptr = ZombieIndicator])

\* set_ptr of a zombie `paired' would revive its optimized form only: it is initialised
\* instead.
SetPtr(o, p) ==
  /\ Settable(kind)
  /\ ~generic[o].zombie
  /\ kind = "masked" /\ ~FlagsBeforeSetPtr => generic[o].flags = {}
  /\ Put(o, [generic[o] EXCEPT !.ptr = p], WithPtr(kind, packed[o], p))

SetAllocatedPtr(o, a) ==
  /\ kind = "paired"
  /\ Put(o, [generic[o] EXCEPT !.alloc = a], PairedSetAllocatedPtr(packed[o], a))

SetFlag(o, f) ==
  /\ Settable(kind)
  /\ Put(o, [generic[o] EXCEPT !.flags = @ \cup {f}], WithFlag(kind, packed[o], f))

UnsetFlag(o, f) ==
  /\ Settable(kind)
  /\ Put(o, [generic[o] EXCEPT !.flags = @ \ {f}], WithoutFlag(kind, packed[o], f))

SetMask(o, m) ==
  /\ kind = "masked"
  /\ Put(o, [generic[o] EXCEPT !.mask = m], MaskedSetMask(packed[o], m))

\* Variant: throws only when all of the objects are zombies.
PutUnlessAllDead(S, gs, ws) ==
  LET dead(form) == \A o \in S : IF form = "generic" THEN generic[o].zombie
                                 ELSE Fields(kind, packed[o]).zombie
  IN
  /\ generic' = IF dead("generic") THEN generic ELSE gs
  /\ packed' = IF dead("packed") THEN packed ELSE ws
  /\ thrown' = [form \in Forms |-> IF dead(form) THEN ZombieError(kind) ELSE None]
  /\ UNCHANGED kind

\* A call that throws when one of the objects is a zombie; each form sees for itself.
PutUnlessDead(S, gs, ws) ==
  LET dead(form) == \E o \in S : IF form = "generic" THEN generic[o].zombie
                                 ELSE Fields(kind, packed[o]).zombie
  IN
  /\ generic' = IF dead("generic") THEN generic ELSE gs
  /\ packed' = IF dead("packed") THEN packed ELSE ws
  /\ thrown' = [form \in Forms |-> IF dead(form) THEN ZombieError(kind) ELSE None]
  /\ UNCHANGED kind

\* `paired' does not look whether it is a zombie, `heap' throws.
SetData(o, d) ==
  \/ /\ kind = "heap"
     /\ PutUnlessDead({o}, [generic EXCEPT ![o] = [@ EXCEPT !.data = d]],
                           [packed EXCEPT ![o] = HeapSetData(@, d)])
  \/ /\ kind = "paired"
     /\ Put(o, [generic[o] EXCEPT !.data = d], PairedSetData(packed[o], d))

CopyFrom(o, from) ==
  /\ Mortal(kind)
  /\ PutUnlessDead({o, from}, [generic EXCEPT ![o] = generic[from]],
                              [packed EXCEPT ![o] = packed[from]])

\* An object moved to itself: the generic forms of `plain' and `heap' lose the pointer, the
\* optimized ones keep it; callers do not do it.
MoveFrom(o, from) ==
  /\ Mortal(kind)
  /\ o # from \/ kind = "paired"
  /\ PutUnlessDead({o, from}, [generic EXCEPT ![o] = generic[from], ![from] = Blank],
                              [packed EXCEPT ![o] = packed[from], ![from] = ZeroWords])

Swap(o, from) ==
  /\ Mortal(kind)
  /\ PutUnlessDead({o, from}, [generic EXCEPT ![o] = generic[from], ![from] = generic[o]],
                              [packed EXCEPT ![o] = packed[from], ![from] = packed[o]])

\* The objects of kinds without a constructor have been initialised.
Init ==
  /\ kind \in Kinds
  /\ generic = [o \in Objects |-> Blank]
  /\ packed = [o \in Objects |-> ZeroWords]
  /\ thrown = Nothing

Next ==
  \E o \in Objects :
    \/ \E p \in Pointers(kind), a \in AllocPointers, d \in {{}} \cup Data(kind) : InitWith(o, p, a, d)
    \/ Reset(o) \/ SetZombie(o)
    \/ \E p \in Pointers(kind) : SetPtr(o, p)
    \/ \E a \in AllocPointers : SetAllocatedPtr(o, a)
    \/ \E f \in Flags(kind) : SetFlag(o, f) \/ UnsetFlag(o, f)
    \/ \E m \in MaskValues : SetMask(o, m)
    \/ \E d \in Data(kind) : SetData(o, d)
    \/ \E from \in Objects : CopyFrom(o, from) \/ MoveFrom(o, from) \/ Swap(o, from)

Spec == Init /\ [][Next]_vars

(***************************************************************************)
(* Properties                                                               *)
(***************************************************************************)
\* The members are in the range of what was passed in, and words are words.
Members(k) ==
  [zombie : BOOLEAN, ptr : Pointers(k), alloc : AllocPointers, data : {{}} \cup Data(k),
   flags : SUBSET Flags(k), mask : {{}} \cup MaskValues]
Words == [ptr : SUBSET Bits, alloc : SUBSET Bits]
TypeOK ==
  /\ kind \in Kinds
  /\ generic \in [Objects -> Members(kind)]
  /\ packed \in [Objects -> Words]

\* Both forms of a structure give the same results and throw the same exceptions, after
\* any sequence of calls: no flag, mask, data or pointer bit gets lost or leaks into
\* another field by being packed with it.  One difference is known: dereferencing a null
\* pointer with data beside it, which the optimized `heap' takes for a pointer.
SameAnswers ==
  /\ thrown["generic"] = thrown["packed"]
  /\ \A o \in Objects :
       LET g == generic[o]
           w == packed[o]
       IN /\ Getters(kind, g) = Getters(kind, Fields(kind, w))
          /\ Mortal(kind) /\ ~(kind = "heap" /\ g.ptr = {} /\ g.data # {})
               => GenericDereference(g) = PackedDereference(kind, w)

\* Each form keeps the promise of TagStore: a setter leaves the other fields alone, a
\* zombie stays one until it is initialised, and the calls between two objects move all
\* of the fields or throw and change nothing.
GenericStore == INSTANCE TagStore
  WITH val <- [o \in Objects |-> Seen(generic[o])], thrown <- thrown["generic"]
PackedStore == INSTANCE TagStore
  WITH val <- [o \in Objects |-> Fields(kind, packed[o])], thrown <- thrown["packed"]
GenericIsStore == GenericStore!Spec
PackedIsStore == PackedStore!Spec

\* set_ptr gives an object another pointer and keeps its flags.
SetPtrKeepsFlags ==
  [][\A o \in Objects, p \in Pointers(kind) :
       SetPtr(o, p) => Fields(kind, packed'[o]).flags = Fields(kind, packed[o]).flags]_vars
===============================================================================
