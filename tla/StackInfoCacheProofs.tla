------------------------ MODULE StackInfoCacheProofs ------------------------
(***************************************************************************)
(* Proofs about StackInfoCache, for any threads, stacks and answers of the    *)
(* lookup.                                                                  *)
(***************************************************************************)
EXTENDS StackInfoCache, SequenceTheorems, TLAPS

\* A thread that looks a pointer up holds the lock, and there is no entry for the pointer.
Searching(t) ==
  at[t] = "look up" =>
    /\ mxSearcher = t
    /\ Len(out[t]) < Len(stack[t])
    /\ resolvedData[NextPointer(t)] = Unresolved

Made(t) ==
  /\ Len(out[t]) <= Len(stack[t])
  /\ \A i \in 1 .. Len(out[t]) : out[t][i] = resolvedData[stack[t][i]]

CacheInv == CacheTypeOK /\ LookedUpOnce /\ (\A t \in Threads : Searching(t) /\ Made(t))

\* What a sequence consists of.
LEMMA Elements ==
  ASSUME NEW S, NEW s \in Seq(S)
  PROVE Len(s) \in Nat /\ \A i \in 1 .. Len(s) : s[i] \in S
BY ElementOfSeq, LenProperties

\* Stack and text of one thread.
LEMMA OfOne ==
  ASSUME CacheTypeOK, NEW t \in Threads
  PROVE /\ stack[t] \in Seq(Pointers) /\ Len(stack[t]) \in Nat
        /\ \A i \in 1 .. Len(stack[t]) : stack[t][i] \in Pointers
        /\ out[t] \in Seq(Infos) /\ Len(out[t]) \in Nat
        /\ \A i \in 1 .. Len(out[t]) : out[t][i] \in Infos
<1>1. stack[t] \in Seq(Pointers) /\ out[t] \in Seq(Infos) BY DEF CacheTypeOK
<1> QED BY <1>1, Elements

\* The empty sequence.
LEMMA Empty == ASSUME NEW S PROVE <<>> \in Seq(S) /\ Len(<<>>) = 0
OBVIOUS

\* The initial state.
LEMMA CacheStarts == CacheInit => CacheInv
<1> SUFFICES ASSUME CacheInit PROVE CacheInv
  OBVIOUS
<1>1. <<>> \in Seq(Pointers) /\ <<>> \in Seq(Infos) /\ Len(<<>>) = 0 BY Empty
<1>2. CacheTypeOK BY <1>1 DEF CacheInit, CacheTypeOK
<1>3. ASSUME NEW t \in Threads PROVE Searching(t) /\ Made(t)
  BY <1>1 DEF CacheInit, Searching, Made
<1> QED BY <1>2, <1>3 DEF CacheInv, CacheInit, LookedUpOnce

\* What a thread has next to resolve is a pointer of its stack.
LEMMA NextIsPointer ==
  ASSUME CacheTypeOK, NEW t \in Threads, Len(out[t]) < Len(stack[t])
  PROVE NextPointer(t) \in Pointers
<1>1. Len(out[t]) + 1 \in 1 .. Len(stack[t]) BY OfOne
<1> QED BY <1>1, OfOne DEF NextPointer

\* An entry put into the text: what is there so far stays, and the new one is last.
LEMMA OneMore ==
  ASSUME NEW S, NEW s \in Seq(S), NEW x \in S
  PROVE /\ Append(s, x) \in Seq(S) /\ Len(Append(s, x)) = Len(s) + 1
        /\ \A i \in 1 .. Len(s) : Append(s, x)[i] = s[i]
        /\ Append(s, x)[Len(s) + 1] = x
BY AppendProperties

\* A new text begins empty.
LEMMA StartKeeps ==
  ASSUME CacheInv, NEW t \in Threads, NEW s \in Seq(Pointers), Start(t, s)
  PROVE CacheInv'
<1>0. CacheTypeOK /\ <<>> \in Seq(Infos) /\ Len(<<>>) = 0 BY Empty DEF CacheInv
<1>1. CacheTypeOK'
  BY <1>0 DEF CacheTypeOK, Start
<1>2. LookedUpOnce'
  BY DEF CacheInv, LookedUpOnce, Start
<1>3. ASSUME NEW u \in Threads, u # t PROVE Searching(u)' /\ Made(u)'
  <2>1. at'[u] = at[u] /\ stack'[u] = stack[u] /\ out'[u] = out[u] /\ resolvedData' = resolvedData
        /\ mxSearcher' = mxSearcher
    BY <1>0, <1>3 DEF CacheTypeOK, Start
  <2> QED BY <2>1 DEF CacheInv, Searching, Made, NextPointer
<1>4. Searching(t)' /\ Made(t)'
  <2>1. at'[t] = "resolve" /\ stack'[t] = s /\ out'[t] = <<>> BY <1>0 DEF CacheTypeOK, Start
  <2>2. Len(s) \in Nat BY Elements
  <2> QED BY <1>0, <2>1, <2>2 DEF Searching, Made
<1> QED BY <1>1, <1>2, <1>3, <1>4 DEF CacheInv

\* An entry found is what the cache has; without one the thread takes the lock, which no other
\* thread that looks up can have.
LEMMA ResolveKeeps ==
  ASSUME CacheInv, NEW t \in Threads, Resolve(t)
  PROVE CacheInv'
<1> DEFINE found == resolvedData[NextPointer(t)]
<1>0. NextPointer(t) \in Pointers /\ found \in Infos \cup {Unresolved} /\ CacheTypeOK
  BY NextIsPointer DEF CacheInv, CacheTypeOK, Resolve
<1>1. CASE found # Unresolved
  <2>1. out' = [out EXCEPT ![t] = Append(out[t], found)] /\ found \in Infos
        /\ UNCHANGED <<mxSearcher, at, resolvedData, stack, assumptionFailed>>
    BY <1>0, <1>1 DEF Resolve
  <2>2. /\ out'[t] \in Seq(Infos) /\ Len(out'[t]) = Len(out[t]) + 1
        /\ \A i \in 1 .. Len(out[t]) : out'[t][i] = out[t][i]
        /\ out'[t][Len(out[t]) + 1] = found
    <3>1. out[t] \in Seq(Infos) /\ out'[t] = Append(out[t], found) BY <2>1, <1>0 DEF CacheTypeOK
    <3> QED BY <3>1, <2>1, OneMore
  <2>3. CacheTypeOK' BY <2>1, <2>2, <1>0 DEF CacheTypeOK
  <2>4. Searching(t)' /\ Made(t)'
    <3>1. at[t] = "resolve" /\ Len(out[t]) < Len(stack[t]) /\ Len(out[t]) \in Nat /\ Len(stack[t]) \in Nat
      BY <1>0, OfOne DEF Resolve
    <3>2. stack'[t] = stack[t] /\ resolvedData' = resolvedData BY <2>1
    <3>3. ASSUME NEW i \in 1 .. Len(out'[t]) PROVE out'[t][i] = resolvedData[stack[t][i]]
      <4>1. CASE i = Len(out[t]) + 1 BY <4>1, <2>2 DEF NextPointer
      <4>2. CASE i # Len(out[t]) + 1
        BY <4>2, <2>2, <3>1 DEF CacheInv, Made
      <4> QED BY <4>1, <4>2
    <3>4. Len(out'[t]) <= Len(stack[t]) BY <3>1, <2>2
    <3>5. at'[t] = "resolve" BY <3>1, <2>1
    <3> QED BY <3>2, <3>3, <3>4, <3>5 DEF Searching, Made
  <2>5. ASSUME NEW u \in Threads, u # t PROVE Searching(u)' /\ Made(u)'
    <3>1. /\ out'[u] = out[u] /\ at' = at /\ stack' = stack /\ mxSearcher' = mxSearcher
          /\ resolvedData' = resolvedData
      BY <2>5, <2>1, <1>0 DEF CacheTypeOK
    <3>2. Searching(u) /\ Made(u) BY DEF CacheInv
    <3> QED BY <3>1, <3>2 DEF Searching, Made, NextPointer
  <2> QED BY <2>1, <2>3, <2>4, <2>5 DEF CacheInv, LookedUpOnce
<1>2. CASE found = Unresolved
  <2>1. mxSearcher' = t /\ at' = [at EXCEPT ![t] = "look up"] /\ mxSearcher = NoThread
        /\ UNCHANGED <<out, resolvedData, stack, assumptionFailed>>
    BY <1>2 DEF Resolve, SearcherIsFree
  <2>2. CacheTypeOK' BY <2>1, <1>0 DEF CacheTypeOK
  <2>3. ASSUME NEW u \in Threads PROVE Searching(u)' /\ Made(u)'
    <3>1. at[u] # "look up" BY <2>1, CacheAssumption DEF CacheInv, Searching
    <3>2. CASE u = t
      <4>1. at'[t] = "look up" /\ Len(out[t]) < Len(stack[t]) BY <2>1, <1>0 DEF CacheTypeOK, Resolve
      <4>2. Made(t) BY DEF CacheInv
      <4> QED BY <3>2, <4>1, <4>2, <2>1, <1>2 DEF Searching, Made, NextPointer
    <3>3. CASE u # t
      <4>1. at'[u] = at[u] BY <3>3, <2>1, <1>0 DEF CacheTypeOK
      <4>2. Made(u) BY DEF CacheInv
      <4> QED BY <3>1, <4>1, <4>2, <2>1 DEF Searching, Made
    <3> QED BY <3>2, <3>3
  <2> QED BY <2>1, <2>2, <2>3 DEF CacheInv, LookedUpOnce
<1> QED BY <1>1, <1>2

\* The entry put there is new, so that nothing in a text is of an entry that changes.
LEMMA LookUpKeeps ==
  ASSUME CacheInv, NEW t \in Threads, LookUp(t)
  PROVE CacheInv'
<1> DEFINE p == NextPointer(t)
<1>0. CacheTypeOK /\ Len(out[t]) < Len(stack[t]) /\ p \in Pointers /\ resolvedData[p] = Unresolved
      /\ mxSearcher = t /\ at[t] = "look up" /\ Len(out[t]) \in Nat /\ Len(stack[t]) \in Nat
  <2>1. CacheTypeOK /\ at[t] = "look up" /\ Searching(t) BY DEF CacheInv, LookUp
  <2>2. Len(out[t]) < Len(stack[t]) /\ mxSearcher = t /\ resolvedData[p] = Unresolved
    BY <2>1 DEF Searching
  <2> QED BY <2>1, <2>2, NextIsPointer, OfOne
<1>1. PICK info \in StackPointerToInfo(p) :
        AddResolvedStackPtrData(p, info) /\ out' = [out EXCEPT ![t] = Append(@, info)]
  BY DEF LookUp
<1>2. info \in Infos BY <1>1 DEF StackPointerToInfo, Infos
<1>3. /\ resolvedData' = [resolvedData EXCEPT ![p] = info] /\ assumptionFailed' = assumptionFailed
      /\ out' = [out EXCEPT ![t] = Append(out[t], info)]
      /\ mxSearcher' = NoThread /\ at' = [at EXCEPT ![t] = "resolve"] /\ stack' = stack
  BY <1>0, <1>1 DEF AddResolvedStackPtrData, LookUp
<1>4. /\ out'[t] \in Seq(Infos) /\ Len(out'[t]) = Len(out[t]) + 1
      /\ \A i \in 1 .. Len(out[t]) : out'[t][i] = out[t][i]
      /\ out'[t][Len(out[t]) + 1] = info
  <2>1. out[t] \in Seq(Infos) /\ out'[t] = Append(out[t], info) BY <1>0, <1>3 DEF CacheTypeOK
  <2> QED BY <2>1, <1>2, OneMore
<1>5. CacheTypeOK' BY <1>0, <1>2, <1>3, <1>4 DEF CacheTypeOK
<1>6. ASSUME NEW u \in Threads, NEW i \in 1 .. Len(out[u])
      PROVE resolvedData'[stack[u][i]] = resolvedData[stack[u][i]]
  <2>1. out[u][i] \in Infos /\ out[u][i] = resolvedData[stack[u][i]]
    BY <1>0, OfOne DEF CacheInv, Made
  <2>2. stack[u][i] # p BY <2>1, <1>0, CacheAssumption DEF Infos
  <2>3. stack[u][i] \in Pointers
    <3>1. Made(u) BY DEF CacheInv
    <3>2. Len(out[u]) <= Len(stack[u]) /\ Len(out[u]) \in Nat /\ Len(stack[u]) \in Nat
      BY <3>1, <1>0, OfOne DEF Made
    <3>3. i \in 1 .. Len(stack[u]) BY <3>2
    <3> QED BY <3>3, <1>0, OfOne
  <2> QED BY <2>2, <2>3, <1>3, <1>0 DEF CacheTypeOK
<1>7. ASSUME NEW u \in Threads, u # t PROVE Searching(u)' /\ Made(u)'
  <2>1. at[u] # "look up" BY <1>0, <1>7, CacheAssumption DEF CacheInv, Searching
  <2>2. out'[u] = out[u] /\ at'[u] = at[u] /\ stack'[u] = stack[u] BY <1>0, <1>3, <1>7 DEF CacheTypeOK
  <2>3. Made(u) /\ \A i \in 1 .. Len(out[u]) : resolvedData'[stack[u][i]] = resolvedData[stack[u][i]]
    BY <1>6 DEF CacheInv
  <2> QED BY <2>1, <2>2, <2>3 DEF Searching, Made
<1>8. Searching(t)' /\ Made(t)'
  <2>0. Len(out'[t]) = Len(out[t]) + 1 /\ Len(out[t]) \in Nat /\ Len(stack[t]) \in Nat
        /\ Len(out[t]) < Len(stack[t])
    BY <1>0, <1>4
  <2>1. at'[t] = "resolve" /\ stack'[t] = stack[t] BY <1>0, <1>3 DEF CacheTypeOK
  <2>2. ASSUME NEW i \in 1 .. Len(out'[t]) PROVE out'[t][i] = resolvedData'[stack[t][i]]
    <3>1. CASE i = Len(out[t]) + 1 BY <3>1, <1>0, <1>3, <1>4 DEF NextPointer, CacheTypeOK
    <3>2. CASE i # Len(out[t]) + 1
      <4>1. i \in 1 .. Len(out[t]) BY <3>2, <2>0
      <4> QED BY <4>1, <1>4, <1>6 DEF CacheInv, Made
    <3> QED BY <3>1, <3>2
  <2>3. Len(out'[t]) <= Len(stack[t]) BY <2>0
  <2> QED BY <2>1, <2>2, <2>3 DEF Searching, Made
<1> QED BY <1>3, <1>5, <1>7, <1>8 DEF CacheInv, LookedUpOnce

\* A text that is done is forgotten.
LEMMA FinishKeeps ==
  ASSUME CacheInv, NEW t \in Threads, Finish(t)
  PROVE CacheInv'
<1>0. CacheTypeOK /\ <<>> \in Seq(Infos) /\ <<>> \in Seq(Pointers) /\ Len(<<>>) = 0
  BY Empty DEF CacheInv
<1>1. CacheTypeOK'
  BY <1>0 DEF CacheTypeOK, Finish
<1>2. ASSUME NEW u \in Threads, u # t PROVE Searching(u)' /\ Made(u)'
  <2>1. at'[u] = at[u] /\ stack'[u] = stack[u] /\ out'[u] = out[u] /\ resolvedData' = resolvedData
        /\ mxSearcher' = mxSearcher
    BY <1>0, <1>2 DEF CacheTypeOK, Finish
  <2> QED BY <2>1 DEF CacheInv, Searching, Made, NextPointer
<1>3. Searching(t)' /\ Made(t)'
  <2>1. at'[t] = "idle" /\ stack'[t] = <<>> /\ out'[t] = <<>> BY <1>0 DEF CacheTypeOK, Finish
  <2> QED BY <1>0, <2>1 DEF Searching, Made
<1> QED BY <1>1, <1>2, <1>3 DEF CacheInv, LookedUpOnce, Finish

\* The invariant is kept by every step.
LEMMA CacheStepKeeps == CacheInv /\ [CacheNext]_cacheVars => CacheInv'
<1> SUFFICES ASSUME CacheInv, [CacheNext]_cacheVars PROVE CacheInv'
  OBVIOUS
<1>1. CASE UNCHANGED cacheVars
  BY <1>1 DEF cacheVars, CacheInv, CacheTypeOK, LookedUpOnce, Searching, Made, NextPointer
<1>2. CASE CacheNext
  <2>1. PICK t \in Threads : CacheStep(t) BY <1>2 DEF CacheNext
  <2>2. ASSUME NEW s \in Traces \cup {<<>>} PROVE s \in Seq(Pointers) BY CacheAssumption, Empty
  <2> QED BY <2>1, <2>2, StartKeeps, ResolveKeeps, LookUpKeeps, FinishKeeps DEF CacheStep
<1> QED BY <1>1, <1>2

\* Any number of threads that make texts of any stacks look each pointer up once and agree on
\* what it is (StackPointerInfoCache::resolveData).
THEOREM CacheIsRight == CacheSpec => [](CacheTypeOK /\ LookedUpOnce /\ ReadersAgree)
<1>1. CacheInv => CacheTypeOK /\ LookedUpOnce /\ ReadersAgree
  BY DEF CacheInv, Made, ReadersAgree
<1> QED BY <1>1, CacheStarts, CacheStepKeeps, PTL DEF CacheSpec
=============================================================================
