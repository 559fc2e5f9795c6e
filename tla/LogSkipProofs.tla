----------------------------- MODULE LogSkipProofs -----------------------------
(***************************************************************************)
(* The counters of skipped messages: whatever is refused is told or still   *)
(* counted, in the buffer or by a thread of the line.                       *)
(***************************************************************************)
EXTENDS LogChainProofs, WellFoundedInduction

(***************************************************************************)
(* Sums over finite sets                                                    *)
(***************************************************************************)
\* Among finitely many sets one has none of the others in it.
LEMMA SmallestSet ==
  ASSUME NEW D, IsFiniteSet(D), NEW B, B \subseteq SUBSET D, B # {}
  PROVE  \E s \in B : \A r \in SUBSET s : r # s => r \notin B
<1> DEFINE N == {Cardinality(s) : s \in B}
<1>1. \A s \in SUBSET D : IsFiniteSet(s) /\ Cardinality(s) \in Nat
  BY FS_Subset, FS_CardinalityType
<1>2. N \subseteq Nat /\ N # {} BY <1>1
<1>3. PICK n \in N : \A k \in N : ~(k < n)
  <2> HIDE DEF N
  <2>1. \E n \in N : \A k \in N : <<k, n>> \notin OpToRel(<, Nat)
    BY <1>2, NatLessThanWellFounded, WFMin
  <2> QED BY <1>2, <2>1 DEF OpToRel
<1>4. PICK s \in B : n = Cardinality(s) OBVIOUS
<1>5. ASSUME NEW r \in SUBSET s, r # s, r \in B PROVE FALSE
  <2>1. Cardinality(r) <= Cardinality(s) /\ Cardinality(r) # Cardinality(s)
    BY <1>1, <1>5, FS_Subset
  <2>2. Cardinality(r) \in Nat /\ Cardinality(s) \in Nat /\ Cardinality(r) \in N BY <1>1, <1>5
  <2> QED BY <1>3, <1>4, <2>1, <2>2
<1> QED BY <1>5

\* How FoldFunction adds up a function: one of its arguments and then the others.
Any(s) == CHOOSE x \in s : TRUE
Adds(g, f, s) == g[s] = IF s = {} THEN 0 ELSE f[Any(s)] + g[s \ {Any(s)}]
Sums(f) ==
  CHOOSE g : g = [s \in SUBSET DOMAIN f |->
                    IF s = {} THEN 0 ELSE f[Any(s)] + g[s \ {Any(s)}]]
Sum(f) == FoldFunction(LAMBDA x, y : x + y, 0, f)

LEMMA SumIsLast == \A f : Sum(f) = Sums(f)[DOMAIN f]
BY DEF Sum, FoldFunction, FoldFunctionOnSet, MapThenFoldSet, Sums, Any

\* There is such a function: sums of larger and larger sets.
LEMMA SumsAdd ==
  ASSUME NEW D, IsFiniteSet(D), NEW f \in [D -> Nat]
  PROVE  \A s \in SUBSET D : Adds(Sums(f), f, s)
<1> DEFINE Good(n) == \E g \in [SUBSET D -> Nat] :
                        \A s \in SUBSET D : Cardinality(s) < n => Adds(g, f, s)
           T == {n \in Nat : ~Good(n)}
<1>1. \A s \in SUBSET D : IsFiniteSet(s) /\ Cardinality(s) \in Nat
  BY FS_Subset, FS_CardinalityType
<1>2. \A s \in SUBSET D : s # {} => Any(s) \in s /\ f[Any(s)] \in Nat
  BY DEF Any
<1>3. \A s \in SUBSET D : s # {} => Cardinality(s \ {Any(s)}) = Cardinality(s) - 1
  BY <1>1, <1>2, FS_RemoveElement
<1>4. T = {}
  <2> SUFFICES ASSUME T # {} PROVE FALSE
    OBVIOUS
  <2>1. PICK n \in T : \A k \in T : ~(k < n)
    <3>1. T \subseteq Nat OBVIOUS
    <3> HIDE DEF T
    <3>2. \E n \in T : \A k \in T : <<k, n>> \notin OpToRel(<, Nat)
      BY <3>1, NatLessThanWellFounded, WFMin
    <3> QED BY <3>1, <3>2 DEF OpToRel
  <2>2. n \in Nat /\ ~Good(n) /\ \A k \in Nat : ~Good(k) => ~(k < n)
    BY <2>1
  <2>3. Good(0)
    <3> DEFINE g == [s \in SUBSET D |-> 0]
    <3>1. g \in [SUBSET D -> Nat] OBVIOUS
    <3>2. \A s \in SUBSET D : Cardinality(s) < 0 => Adds(g, f, s) BY <1>1
    <3> HIDE DEF g
    <3> QED BY <3>1, <3>2
  <2> HIDE DEF T
  <2>a. Good(n - 1)
    <3> HIDE DEF Good
    <3>1. n # 0 BY <2>2, <2>3
    <3>2. n - 1 \in Nat /\ n - 1 < n BY <2>2, <3>1
    <3> QED BY <2>2, <3>2
  <2>4. PICK g \in [SUBSET D -> Nat] : \A s \in SUBSET D : Cardinality(s) < n - 1 => Adds(g, f, s)
    BY <2>a
  <2> DEFINE h == [s \in SUBSET D |-> IF s = {} THEN 0 ELSE f[Any(s)] + g[s \ {Any(s)}]]
  <2>5. h \in [SUBSET D -> Nat] BY <1>2
  <2>6. ASSUME NEW s \in SUBSET D, Cardinality(s) < n PROVE Adds(h, f, s)
    <3>1. CASE s = {} BY <3>1 DEF Adds
    <3>2. CASE s # {}
      <4> DEFINE r == s \ {Any(s)}
      <4>1. h[s] = f[Any(s)] + g[r] BY <3>2
      <4>2. r \in SUBSET D /\ Cardinality(r) < n - 1 BY <1>1, <1>3, <2>2, <2>6, <3>2
      <4>3. g[r] = h[r] BY <2>4, <4>2 DEF Adds
      <4> QED BY <3>2, <4>1, <4>3 DEF Adds
    <3> QED BY <3>1, <3>2
  <2>7. Good(n) BY <2>5, <2>6
  <2> QED BY <2>2, <2>7
<1>5. Cardinality(D) + 1 \in Nat BY <1>1
<1>6. Good(Cardinality(D) + 1) BY <1>4, <1>5
<1>7. PICK g \in [SUBSET D -> Nat] : \A s \in SUBSET D : Adds(g, f, s)
  <2>1. PICK g \in [SUBSET D -> Nat] :
          \A s \in SUBSET D : Cardinality(s) < Cardinality(D) + 1 => Adds(g, f, s)
    BY <1>6
  <2>2. \A s \in SUBSET D : Cardinality(s) < Cardinality(D) + 1
    BY <1>1, FS_Subset
  <2> QED BY <2>1, <2>2
<1>8. DOMAIN f = D OBVIOUS
<1>9. g = [s \in SUBSET DOMAIN f |-> IF s = {} THEN 0 ELSE f[Any(s)] + g[s \ {Any(s)}]]
  BY <1>7, <1>8 DEF Adds
<1>10. Sums(f) = [s \in SUBSET DOMAIN f |->
                    IF s = {} THEN 0 ELSE f[Any(s)] + Sums(f)[s \ {Any(s)}]]
  BY <1>9 DEF Sums
<1> QED BY <1>8, <1>10 DEF Adds

\* One argument changes, and the sum with it.
LEMMA SumChanges ==
  ASSUME NEW D, IsFiniteSet(D), NEW f \in [D -> Nat], NEW t \in D, NEW n \in Nat
  PROVE  Sum(f) \in Nat /\ Sum([f EXCEPT ![t] = n]) = Sum(f) - f[t] + n
<1> DEFINE h == [f EXCEPT ![t] = n]
           Good(s) == /\ Sums(f)[s] \in Nat
                      /\ Sums(h)[s] = Sums(f)[s] + IF t \in s THEN n - f[t] ELSE 0
           B == {s \in SUBSET D : ~Good(s)}
<1>1. h \in [D -> Nat] /\ h[t] = n /\ \A x \in D : x # t => h[x] = f[x] OBVIOUS
<1>2. /\ \A s \in SUBSET D : Adds(Sums(f), f, s)
      /\ \A s \in SUBSET D : Adds(Sums(h), h, s)
  <2>1. \A k \in [D -> Nat] : \A s \in SUBSET D : Adds(Sums(k), k, s) BY SumsAdd
  <2>2. h \in [D -> Nat] BY <1>1
  <2> HIDE DEF h
  <2> QED BY <2>1, <2>2
<1> HIDE DEF h
<1>3. B = {}
  <2> SUFFICES ASSUME B # {} PROVE FALSE
    OBVIOUS
  <2>1. PICK s \in B : \A r \in SUBSET s : r # s => r \notin B
    <3>1. B \subseteq SUBSET D OBVIOUS
    <3> HIDE DEF B
    <3> QED BY <3>1, SmallestSet
  <2>2. CASE s = {}
    <3>1. Sums(f)[s] = 0 /\ Sums(h)[s] = 0 BY <1>2, <2>2 DEF Adds
    <3>2. t \notin s BY <2>2
    <3>3. Good(s) BY <3>1, <3>2
    <3> QED BY <2>1, <3>3
  <2>3. CASE s # {}
    <3> DEFINE x == Any(s)
               r == s \ {x}
    <3>1. x \in s /\ x \in D BY <2>1, <2>3 DEF Any
    <3>2. r \in SUBSET D /\ r # s /\ x \notin r BY <2>1, <3>1
    <3>3. Good(r) BY <2>1, <3>2
    <3>4. Sums(f)[s] = f[x] + Sums(f)[r] /\ Sums(h)[s] = h[x] + Sums(h)[r]
      BY <1>2, <2>1, <2>3 DEF Adds
    <3>5. f[x] \in Nat /\ f[t] \in Nat BY <3>1
    <3>6. t \in r <=> t \in s /\ t # x BY <3>1
    <3> HIDE DEF x, r
    <3>7. Good(s)
      <4>1. CASE x = t BY <1>1, <3>1, <3>3, <3>4, <3>5, <3>6, <4>1
      <4>2. CASE x # t BY <1>1, <3>1, <3>3, <3>4, <3>5, <3>6, <4>2
      <4> QED BY <4>1, <4>2
    <3> QED BY <2>1, <3>7
  <2> QED BY <2>2, <2>3
<1>4. Good(D) BY <1>3
<1>5. DOMAIN f = D /\ DOMAIN h = D BY <1>1
<1>6. Sum(f) = Sums(f)[D] /\ Sum(h) = Sums(h)[D] BY <1>5, SumIsLast
<1>7. f[t] \in Nat OBVIOUS
<1> QED BY <1>4, <1>6, <1>7 DEF h

\* Of nothing but zeros.
LEMMA SumOfZeros ==
  ASSUME NEW D, IsFiniteSet(D), NEW f \in [D -> Nat], \A x \in D : f[x] = 0
  PROVE  Sum(f) = 0
<1> DEFINE B == {s \in SUBSET D : Sums(f)[s] # 0}
<1>1. \A s \in SUBSET D : Adds(Sums(f), f, s) BY SumsAdd
<1>2. B = {}
  <2> SUFFICES ASSUME B # {} PROVE FALSE
    OBVIOUS
  <2>1. PICK s \in B : \A r \in SUBSET s : r # s => r \notin B
    <3>1. B \subseteq SUBSET D OBVIOUS
    <3> HIDE DEF B
    <3> QED BY <3>1, SmallestSet
  <2>2. CASE s = {} BY <1>1, <2>1, <2>2 DEF Adds
  <2>3. CASE s # {}
    <3> DEFINE x == Any(s)
               r == s \ {x}
    <3>1. x \in s /\ x \in D BY <2>1, <2>3 DEF Any
    <3>2. r \in SUBSET D /\ r # s BY <2>1, <3>1
    <3>3. Sums(f)[r] = 0 BY <2>1, <3>2
    <3>4. Sums(f)[s] = f[x] + Sums(f)[r] BY <1>1, <2>1, <2>3 DEF Adds
    <3> HIDE DEF x, r
    <3> QED BY <2>1, <3>1, <3>3, <3>4
  <2> QED BY <2>2, <2>3
<1>3. DOMAIN f = D OBVIOUS
<1> QED BY <1>2, <1>3, SumIsLast

(***************************************************************************)
(* The counters                                                             *)
(***************************************************************************)
\* Only a thread of the line counts for others; the assertion at line 273, thrown before the
\* report is in, is what lets a thread leave with a count.
CountersQueued == 273 \notin failed => \A t \in Threads : dSkipped[t] # 0 => t \in Queued
Accounted == 273 \notin failed => dropped = skipped + reported + Sum(dSkipped)
SkipInv == Accounted /\ CountersQueued

Pcs == {"idle", "enter", "waitWrite", "chained", "released", "handOver", "stuck"}

\* What the counters are.
LEMMA SkipTypes ==
  ASSUME TypeInv
  PROVE  /\ skipped \in Nat /\ dropped \in Nat /\ reported \in Nat
         /\ dSkipped \in [Threads -> Nat] /\ pc \in [Threads -> Pcs]
BY DEF TypeInv, TypeOK, SkipType, CallType, Pcs

\* With the sum under its name the accounting is a plain equation.
LEMMA AccountedSum == Accounted => SkipsAccounted
BY DEF Accounted, SkipsAccounted, Sum

\* Steps that count nothing, and in which nobody leaves the line.
LEMMA CountsKept ==
  ASSUME SkipInv, failed \subseteq failed', UNCHANGED <<skipVars, dSkipped>>,
         Queued \subseteq Queued'
  PROVE  SkipInv'
<1>1. Accounted' BY DEF Accounted, SkipInv, skipVars
<1>2. CountersQueued' BY DEF SkipInv, CountersQueued
<1> QED BY <1>1, <1>2 DEF SkipInv

\* Steps of a thread outside the line that count nothing.
LEMMA OutsideKept ==
  ASSUME TypeInv, SkipInv, failed \subseteq failed', UNCHANGED <<skipVars, dSkipped>>,
         NEW t \in Threads, t \notin Queued, NEW x \in Pcs, pc' = [pc EXCEPT ![t] = x]
  PROVE  SkipInv'
<1>1. Queued \subseteq Queued' BY SkipTypes DEF Queued
<1> QED BY <1>1, CountsKept

\* A new call has a new counter: the old one was zero, or the thread is not counted on.
LEMMA CallCounts ==
  ASSUME IsFiniteSet(Threads), TypeInv, SkipInv, NEW t \in Threads, Call(t)
  PROVE  SkipInv'
<1>1. /\ pc[t] = "idle" /\ pc' = [pc EXCEPT ![t] = "enter"]
      /\ dSkipped' = [dSkipped EXCEPT ![t] = 0]
      /\ UNCHANGED <<skipped, dropped, reported, failed>>
  BY DEF Call, skipVars
<1>2. Queued' = Queued /\ t \notin Queued BY <1>1, SkipTypes DEF Queued, Pcs
<1>3. CASE 273 \notin failed
  <2>1. dSkipped[t] = 0 BY <1>2, <1>3 DEF SkipInv, CountersQueued
  <2>2. dSkipped' = dSkipped BY <1>1, <2>1, SkipTypes
  <2>3. UNCHANGED <<skipVars, dSkipped>> BY <1>1, <2>2 DEF skipVars
  <2> QED BY <1>1, <1>2, <2>3, CountsKept
<1>4. CASE 273 \in failed
  BY <1>1, <1>4 DEF Accounted, SkipInv, CountersQueued
<1> QED BY <1>3, <1>4

\* A refused message is counted by the last thread in line, which is queued, or by the buffer.
LEMMA SkipCounts ==
  ASSUME IsFiniteSet(Threads), TypeInv, ChainInv, SkipInv, NEW t \in Threads, AddMsgSkip(t)
  PROVE  SkipInv'
<1>1. /\ pc[t] = "enter" /\ pc' = [pc EXCEPT ![t] = "idle"]
      /\ dropped' = dropped + 1 /\ UNCHANGED <<reported, failed>>
      /\ IF nextToAdd # Null
           THEN /\ firstToRelease # Null
                /\ dSkipped' = [dSkipped EXCEPT ![nextToAdd] = @ + 1] /\ skipped' = skipped
           ELSE skipped' = skipped + 1 /\ dSkipped' = dSkipped
  BY DEF AddMsgSkip
<1>2. Queued' = Queued BY <1>1, SkipTypes DEF Queued, Pcs
<1>3. Sum(dSkipped) \in Nat BY SkipTypes, SumChanges
<1>4. CASE nextToAdd = Null
  <2>1. Accounted'
    BY <1>1, <1>3, <1>4, SkipTypes DEF Accounted, SkipInv
  <2>2. CountersQueued' BY <1>1, <1>2, <1>4 DEF SkipInv, CountersQueued
  <2> QED BY <2>1, <2>2 DEF SkipInv
<1>5. CASE nextToAdd # Null
  <2>1. nextToAdd \in Queued
    <3>1. firstToRelease \in Threads
      BY <1>1, <1>5 DEF TypeInv, TypeOK, ChainType
    <3>2. ~Lost BY <3>1 DEF Lost, Turn
    <3>3. PICK c \in [Nat -> Threads \cup {Null}], a \in Nat, b \in Nat, k \in Turns :
            InLine(c, a, b, k)
      BY <3>2 DEF ChainInv, Orderly
    <3>4. a < b /\ nextToAdd = c[b - 1] BY <1>5, <3>3 DEF InLine, Line
    <3> QED BY <3>3, <3>4 DEF InLine, Line
  <2>2. nextToAdd \in Threads BY <2>1 DEF Queued
  <2>3. dSkipped[nextToAdd] \in Nat BY <2>2, SkipTypes
  <2>4. dSkipped' = [dSkipped EXCEPT ![nextToAdd] = dSkipped[nextToAdd] + 1] BY <1>1, <1>5
  <2>5. Sum(dSkipped') = Sum(dSkipped) - dSkipped[nextToAdd] + (dSkipped[nextToAdd] + 1)
    <3> DEFINE n == dSkipped[nextToAdd] + 1
    <3>1. n \in Nat BY <2>3
    <3>2. dSkipped' = [dSkipped EXCEPT ![nextToAdd] = n] BY <2>4
    <3>3. dSkipped \in [Threads -> Nat] BY SkipTypes
    <3>4. Sum([dSkipped EXCEPT ![nextToAdd] = n]) = Sum(dSkipped) - dSkipped[nextToAdd] + n
      <4> HIDE DEF n
      <4> QED BY <2>2, <3>1, <3>3, SumChanges
    <3> QED BY <3>2, <3>4
  <2>6. Accounted'
    BY <1>1, <1>3, <1>5, <2>3, <2>5, SkipTypes DEF Accounted, SkipInv
  <2>7. CountersQueued'
    BY <1>1, <1>2, <2>1, <2>2, <2>4, SkipTypes DEF SkipInv, CountersQueued
  <2> QED BY <2>6, <2>7 DEF SkipInv
<1> QED BY <1>4, <1>5

\* Unless the assertion at line 273 throws, a report goes in whole and takes the counter over.
LEMMA ReportTakesOver ==
  ASSUME TypeInv, NEW t \in Threads, NEW n \in Nat, NEW r \in Reports(n), NEW crit,
         InsertFails(t, r, crit) # 273
  PROVE  Cleared(r, n) = 0 /\ ReportedNow(r, n) = n
<1>1. r \in Nat /\ (r > 0 \/ n = 0) BY SizeAssumption DEF Reports
<1>2. msg[t].sz \in Nat /\ AvailableSize \in Int
  BY SizeAssumption DEF TypeInv, TypeOK, RingType, CallType, Message, AvailableSize
<1>3. r + msg[t].sz <= AvailableSize BY <1>1, <1>2 DEF InsertFails
<1>4. r <= AvailableSize BY <1>1, <1>2, <1>3
<1> QED BY <1>1, <1>4 DEF Cleared, ReportedNow

\* A call that inserts at once reports what the buffer counted.
LEMMA CopyCounts ==
  ASSUME IsFiniteSet(Threads), TypeInv, SkipInv, NEW t \in Threads, AddMsgCopy(t)
  PROVE  SkipInv'
<1>1. PICK r \in Reports(skipped) :
        /\ skipped' = Cleared(r, skipped)
        /\ reported' = reported + ReportedNow(r, skipped)
        /\ IF InsertFails(t, r, msg[t].crit) = 0
             THEN /\ pc' = [pc EXCEPT ![t] = IF msg[t].crit THEN "waitWrite" ELSE "idle"]
                  /\ failed' = failed
             ELSE Throw(t, InsertFails(t, r, msg[t].crit))
  BY DEF AddMsgCopy
<1>2. pc[t] = "enter" /\ dropped' = dropped /\ dSkipped' = dSkipped BY DEF AddMsgCopy, dVars
<1>3. PICK x \in Pcs : pc' = [pc EXCEPT ![t] = x]
  BY <1>1 DEF Throw, Pcs
<1>4. Queued \subseteq Queued' BY <1>2, <1>3, SkipTypes DEF Queued
<1>5. failed \subseteq failed' /\ (273 \notin failed' => InsertFails(t, r, msg[t].crit) # 273)
  BY <1>1 DEF Throw
<1>6. ASSUME 273 \notin failed' PROVE skipped' + reported' = skipped + reported
  <2>1. skipped \in Nat BY SkipTypes
  <2>2. Cleared(r, skipped) = 0 /\ ReportedNow(r, skipped) = skipped
    BY <1>1, <1>5, <1>6, <2>1, ReportTakesOver
  <2> QED BY <1>1, <2>1, <2>2, SkipTypes
<1>7. Accounted' BY <1>2, <1>5, <1>6 DEF Accounted, SkipInv
<1>8. CountersQueued' BY <1>2, <1>4, <1>5 DEF SkipInv, CountersQueued
<1> QED BY <1>7, <1>8 DEF SkipInv

\* The front of the line reports what it counted when it inserts.
LEMMA InsertCounts ==
  ASSUME IsFiniteSet(Threads), TypeInv, SkipInv, NEW t \in Threads, ChainInsert(t)
  PROVE  SkipInv'
<1> DEFINE crit == msg[t].lvl <= levelGuaranteedWrite
<1>1. PICK r \in Reports(dSkipped[t]) :
        /\ dSkipped' = [dSkipped EXCEPT ![t] = Cleared(r, dSkipped[t])]
        /\ reported' = reported + ReportedNow(r, dSkipped[t])
        /\ IF InsertFails(t, r, crit) = 0
             THEN /\ pc' = [pc EXCEPT ![t] = IF dNext[t] = Null THEN "idle" ELSE "handOver"]
                  /\ failed' = failed
             ELSE Throw(t, InsertFails(t, r, crit))
  BY DEF ChainInsert
<1>2. dropped' = dropped /\ skipped' = skipped BY DEF ChainInsert
<1>3. PICK x \in Pcs : pc' = [pc EXCEPT ![t] = x]
  BY <1>1 DEF Throw, Pcs
<1>4. Queued \ {t} \subseteq Queued' BY <1>3, SkipTypes DEF Queued
<1>5. failed \subseteq failed' /\ (273 \notin failed' => InsertFails(t, r, crit) # 273)
  BY <1>1 DEF Throw
<1>6. CASE 273 \in failed'
  BY <1>6 DEF Accounted, SkipInv, CountersQueued
<1>7. CASE 273 \notin failed'
  <2>1. dSkipped[t] \in Nat /\ dSkipped \in [Threads -> Nat] BY SkipTypes
  <2>2. Cleared(r, dSkipped[t]) = 0 /\ ReportedNow(r, dSkipped[t]) = dSkipped[t]
    <3> HIDE DEF crit
    <3> QED BY <1>1, <1>5, <1>7, <2>1, ReportTakesOver
  <2>3. dSkipped' = [dSkipped EXCEPT ![t] = 0] /\ reported' = reported + dSkipped[t]
    BY <1>1, <2>2
  <2>4. /\ Sum(dSkipped) \in Nat
        /\ \A n \in Nat : Sum([dSkipped EXCEPT ![t] = n]) = Sum(dSkipped) - dSkipped[t] + n
    BY <2>1, SumChanges
  <2>5. Sum(dSkipped') = Sum(dSkipped) - dSkipped[t]
    <3>1. Sum(dSkipped') = Sum([dSkipped EXCEPT ![t] = 0]) BY <2>3
    <3>2. Sum([dSkipped EXCEPT ![t] = 0]) = Sum(dSkipped) - dSkipped[t] + 0 BY <2>4
    <3> HIDE DEF Sum
    <3> QED BY <2>1, <2>4, <3>1, <3>2
  <2>6. Accounted'
    BY <1>2, <1>5, <1>7, <2>1, <2>3, <2>4, <2>5, SkipTypes DEF Accounted, SkipInv
  <2>7. CountersQueued' BY <1>4, <1>5, <1>7, <2>1, <2>3 DEF SkipInv, CountersQueued, Queued
  <2> QED BY <2>6, <2>7 DEF SkipInv
<1> QED BY <1>6, <1>7

\* Every step keeps the counters.
LEMMA NextCounts ==
  ASSUME IsFiniteSet(Threads), TypeInv, ChainInv, SkipInv, [Next]_vars
  PROVE  SkipInv'
<1>1. ASSUME NEW t \in Threads, Logger(t) PROVE SkipInv'
  <2>1. CASE Call(t) BY <2>1, CallCounts
  <2>2. CASE AddMsgRefused(t)
    <3>1. pc[t] = "enter" /\ t \notin Queued /\ failed \subseteq failed'
          /\ UNCHANGED <<skipVars, dSkipped>>
      BY <2>2 DEF AddMsgRefused, Throw, Queued, dVars
    <3>2. PICK x \in Pcs : pc' = [pc EXCEPT ![t] = x]
      BY <2>2 DEF AddMsgRefused, Throw, Pcs
    <3> QED BY <3>1, <3>2, OutsideKept
  <2>3. CASE AddMsgSkip(t) BY <2>3, SkipCounts
  <2>4. CASE AddMsgQueue(t)
    BY <2>4, OutsideKept DEF AddMsgQueue, Queued, Pcs
  <2>5. CASE AddMsgCopy(t) BY <2>5, CopyCounts
  <2>6. CASE GuaranteedReturn(t)
    BY <2>6, OutsideKept DEF GuaranteedReturn, Queued, dVars, Pcs
  <2>7. CASE ChainWake(t)
    <3>1. Queued \subseteq Queued' BY <2>7, SkipTypes DEF ChainWake, Queued
    <3> QED BY <2>7, <3>1, CountsKept DEF ChainWake
  <2>8. CASE ChainWaitAgain(t)
    <3>1. Queued \subseteq Queued' BY <2>8, SkipTypes DEF ChainWaitAgain, Queued
    <3> QED BY <2>8, <3>1, CountsKept DEF ChainWaitAgain, dVars
  <2>9. CASE ChainInsert(t) BY <2>9, InsertCounts
  <2>10. CASE HandOver(t)
    BY <2>10, OutsideKept DEF HandOver, Queued, Pcs
  <2> QED BY <1>1, <2>1, <2>2, <2>3, <2>4, <2>5, <2>6, <2>7, <2>8, <2>9, <2>10
          DEF Logger, LoggerResume
<1>2. ASSUME Writer \/ Owner \/ UNCHANGED vars PROVE SkipInv'
  <2>1. UNCHANGED <<pc, skipVars, dSkipped>> /\ failed \subseteq failed'
    <3> USE DEF loggerVars, dVars
    <3>1. CASE WriterStart \/ WriterWake \/ WriterSnapshot \/ JustWrite \/ WriterAdvance
      BY <3>1 DEF WriterStart, WriterWake, WriterSnapshot, JustWrite, WriterAdvance
    <3>2. CASE ReleaseGuaranteed \/ NextGuaranteed \/ ReleaseChain
      BY <3>2 DEF ReleaseGuaranteed, NextGuaranteed, ReleaseChain
    <3>3. CASE TerminateIfAlone \/ WriterUnwind
      BY <3>3 DEF TerminateIfAlone, WriterUnwind
    <3>4. CASE Owner
      BY <3>4 DEF Owner, SetPhase, DropTransport, SetGuaranteedLevel, SetCriticalLevel
    <3>5. CASE UNCHANGED vars BY <3>5 DEF vars
    <3> QED BY <1>2, <3>1, <3>2, <3>3, <3>4, <3>5 DEF Writer
  <2>2. Queued' = Queued BY <2>1 DEF Queued
  <2> QED BY <2>1, <2>2, CountsKept
<1> QED BY <1>1, <1>2 DEF Next

\* A message refused as skippable is counted once, whatever happens to those who count it:
\* it is in a report of the stream, in the buffer's counter, or in that of a queued thread.
\* (A program has finitely many threads; a sum over more is not defined.)
THEOREM SkipsAreCounted ==
  ASSUME IsFiniteSet(Threads)
  PROVE  Spec => []SkipsAccounted
<1>1. Init => SkipInv
  <2>1. ASSUME Init PROVE SkipInv
    <3>1. /\ skipped = 0 /\ dropped = 0 /\ reported = 0
          /\ dSkipped \in [Threads -> Nat] /\ \A t \in Threads : dSkipped[t] = 0
      BY <2>1 DEF Init
    <3>2. Sum(dSkipped) = 0 BY <3>1, SumOfZeros
    <3> QED BY <3>1, <3>2 DEF Accounted, SkipInv, CountersQueued
  <2> QED BY <2>1
<1>2. TypeInv /\ ChainInv /\ SkipInv /\ [Next]_vars => SkipInv'
  BY NextCounts
<1>3. SkipInv => SkipsAccounted BY AccountedSum DEF SkipInv
<1> QED BY <1>1, <1>2, <1>3, ChainAlways, PTL DEF Spec
================================================================================
