---------------------------- MODULE ErrorValues ----------------------------
(***************************************************************************)
(* Errors, the values they own, the StackInfo in each value and StackInfo     *)
(* objects of their own (error.h, std_error.h, safe_memory_error.h,          *)
(* stack_info.h, string_ref.h), in a build with stack information.  Each      *)
(* thread has objects of its own and copies the global errors; the text of a  *)
(* stack is made by StackInfoCache when it is first logged.                  *)
(***************************************************************************)
EXTENDS StackInfoCache, FiniteSets

CONSTANTS
  Globals,     \* global errors, by their codes
  Errors,      \* other errors
  StackInfos,  \* StackInfo objects
  HolderOf,    \* the thread an error or StackInfo belongs to
  ValueIds, FrameIds, StringIds, \* memory for error values, stack pointers and strings
  MaxLost,     \* bound: values and arrays of pointers that assignments lose
  MaxObjects,  \* bound: errors and StackInfo objects at a time, besides the globals
  Gone,        \* an object that is not there
  Null

\* merrc and errc.
zero_pointer_access == 1
memory_access_violation == 2
out_of_range == 3
lately_detected_zombie_pointer_access == 4
early_detected_zombie_pointer_access == 5
bad_address == 14
DomainOf(code) == IF code = bad_address THEN "std" ELSE "memory"

ASSUME ErrorAssumption ==
  /\ Globals \subseteq {1, 2, 3, 4, 5, 14}
  /\ HolderOf \in [Errors \cup StackInfos -> Threads]
  /\ StackInfos \cap (ValueIds \cup Globals \cup Errors) = {} /\ Globals \cap Errors = {}
  \* Memory is above the first page.
  /\ ValueIds \subseteq Nat /\ \A v \in ValueIds : v > 255

VARIABLES
  values,   \* error values in memory: code and StackInfo
  frames,   \* arrays of stack pointers
  strings,  \* duplicated strings
  errors,   \* the errors: domain and value
  infos,    \* the StackInfo objects
  target    \* what each thread makes the text of

memory == <<values, frames, strings>>
vars == <<cacheVars, memory, errors, infos, target>>

AllErrors == Globals \cup Errors

Live(m) == {x \in DOMAIN m : m[x] # Null}
Free(m) == DOMAIN m \ Live(m)
AnyOf(S) == CHOOSE x \in S : TRUE

(***************************************************************************)
(* Memory.  malloc and strdup fail when all of it is in use.                 *)
(***************************************************************************)
Heap == [values |-> values, frames |-> frames, strings |-> strings]

Store(m, pool, x) ==
  IF Free(m[pool]) = {} THEN [id |-> Null, heap |-> m]
  ELSE LET id == AnyOf(Free(m[pool])) IN [id |-> id, heap |-> [m EXCEPT ![pool][id] = x]]
Release(m, pool, id) == IF id = Null THEN m ELSE [m EXCEPT ![pool][id] = Null]

(***************************************************************************)
(* string_ref and StackPointers                                             *)
(***************************************************************************)
EmptyLiteral == [fromLiteral |-> TRUE, str |-> Null]
MovedString == [fromLiteral |-> FALSE, str |-> Null]
StringRefType == {EmptyLiteral} \cup [fromLiteral : {FALSE}, str : StringIds \cup {Null}]

DuplicateStr(m, r) ==
  IF r.fromLiteral \/ r.str = Null THEN [id |-> r.str, heap |-> m]
  ELSE Store(m, "strings", m.strings[r.str])
ReleaseStr(m, r) == IF r.fromLiteral THEN m ELSE Release(m, "strings", r.str)

\* Variant: no pointers are copied like others.
InitNoPointers(m, s) == Store(m, "frames", s)
\* StackPointers::init of an object without pointers.
InitPointers(m, s) ==
  IF s = <<>> THEN [id |-> Null, heap |-> m] ELSE Store(m, "frames", s)
Pointed(m, ptrs) == IF ptrs = Null THEN <<>> ELSE m.frames[ptrs]

(***************************************************************************)
(* StackInfo                                                                *)
(***************************************************************************)
Info(ptrs, where) == [ptrs |-> ptrs, whereTaken |-> where]
MovedInfo == Info(Null, MovedString)
StackInfoType == [ptrs : FrameIds \cup {Null}, whereTaken : StringRefType]
Text(m, info) ==
  IF info.whereTaken.str = Null THEN <<>> ELSE m.strings[info.whereTaken.str]

\* preinit
Captured(m, s) ==
  LET f == InitPointers(m, s) IN [info |-> Info(f.id, EmptyLiteral), heap |-> f.heap]

CopiedInfo(m, info) ==
  LET f == InitPointers(m, Pointed(m, info.ptrs))
      s == DuplicateStr(f.heap, info.whereTaken)
  IN [info |-> Info(f.id, [info.whereTaken EXCEPT !.str = s.id]), heap |-> s.heap]

ReleasedInfo(m, info) == ReleaseStr(Release(m, "frames", info.ptrs), info.whereTaken)

\* Variant: a text is copied only when there is one.
TextKeptInfo(m, info, other) ==
  IF other.whereTaken.str # Null THEN CopiedInfo(ReleasedInfo(m, info), other)
  ELSE [CopiedInfo(Release(m, "frames", info.ptrs), other) EXCEPT
          !.info.whereTaken = info.whereTaken]

\* operator = ( const StackInfo& ): both members let go of what they have.
AssignedInfo(m, info, other) == CopiedInfo(ReleasedInfo(m, info), other)

\* Variant: the pointers do, the string does not.
PointersReleasedInfo(m, info) == Release(m, "frames", info.ptrs)
\* operator = ( StackInfo&& ): the string lets go of what it has, the pointers do not.
MoveReleasedInfo(m, info) == ReleaseStr(m, info.whereTaken)

(***************************************************************************)
(* Error values                                                             *)
(***************************************************************************)
ValueType == [code : Globals, info : StackInfoType]
ErrorType == [domain : {"std", "memory", Null}, value : ValueIds \cup {Null}]
HasValue(e) == errors[e] # Gone /\ errors[e].value # Null
ValueOf(e) == values[errors[e].value]
MovedError == [domain |-> Null, value |-> Null]

\* new, with a StackInfo captured or copied (no memory for the value itself ends the
\* expression, and is left out).
NewValue(code, from) ==
  LET id == AnyOf(Free(from.heap.values)) IN
  [error |-> [domain |-> DomainOf(code), value |-> id],
   heap |-> [from.heap EXCEPT !.values[id] = [code |-> code, info |-> from.info]]]

\* create_value: a copy of the argument, which took the stack and is destroyed.
CreatedValue(m, code, s) ==
  LET argument == Captured(m, s)
      copy == CopiedInfo(argument.heap, argument.info)
  IN NewValue(code, [copy EXCEPT !.heap = ReleasedInfo(copy.heap, argument.info)])

\* Variant: a clone shares the stack information.
SharedClone(m, e) == NewValue(ValueOf(e).code, [info |-> ValueOf(e).info, heap |-> m])
\* clone_value; an error that was moved has none.
Clone(m, e) ==
  IF HasValue(e) THEN NewValue(ValueOf(e).code, CopiedInfo(m, ValueOf(e).info))
  ELSE [error |-> MovedError, heap |-> m]

\* destroy_value
Destroyed(m, e) ==
  IF ~HasValue(e) THEN m
  ELSE Release(ReleasedInfo(m, ValueOf(e).info), "values", errors[e].value)

\* is_equivalent of the domain of the value at address v.
IsSameErrorCode(v, w) == values[v].code = values[w].code
IsEquivalent(domain, v, src) ==
  \/ src.domain = domain /\ IsSameErrorCode(v, src.value)
  \* The switch is on the address, as if it were the code.
  \/ /\ domain = "memory" /\ src.domain = "std"
     /\ v \in {zero_pointer_access, memory_access_violation,
               lately_detected_zombie_pointer_access, early_detected_zombie_pointer_access}
     /\ values[src.value].code = bad_address
\* operator ==
Equal(a, b) ==
  IF a.domain = b.domain THEN IsSameErrorCode(a.value, b.value)
  ELSE IsEquivalent(a.domain, a.value, b) \/ IsEquivalent(b.domain, b.value, a)

\* Null and Gone are nothing else, and there is memory for the globals.
ASSUME MemoryAssumption ==
  /\ Null \notin ValueIds \cup FrameIds \cup StringIds
  /\ Null \notin ValueType /\ Null \notin Traces /\ Null \notin Seq(Infos)
  /\ Null \notin Errors \cup StackInfos
  /\ Gone \notin ErrorType /\ Gone \notin StackInfoType
  /\ Traces # {}
  /\ \E f \in [Globals -> ValueIds] : \A g, h \in Globals : g # h => f[g] # f[h]
  /\ \E f \in [Globals -> FrameIds] : \A g, h \in Globals : g # h => f[g] # f[h]

(***************************************************************************)
(* Who owns what                                                            *)
(***************************************************************************)
OwnedValues == {errors[e].value : e \in {x \in AllErrors : HasValue(x)}}
LostValues == Live(values) \ OwnedValues

\* What may have a StackInfo, and that StackInfo; nobody's is as one that was moved.  A lost
\* value keeps what it has.
Owners == ValueIds \cup StackInfos
InfoAt(w) ==
  IF w \in StackInfos THEN (IF infos[w] = Gone THEN MovedInfo ELSE infos[w])
  ELSE IF values[w] = Null THEN MovedInfo ELSE values[w].info
OwnedFrames == {InfoAt(w).ptrs : w \in Owners} \ {Null}
OwnedStrings == {InfoAt(w).whereTaken.str : w \in Owners} \ {Null}
LostFrames == Live(frames) \ OwnedFrames
MayLose == Cardinality(LostValues) + Cardinality(LostFrames) < MaxLost

(***************************************************************************)
(* Actions of a thread.  It uses its own objects, and copies those of others  *)
(* that nobody changes.                                                     *)
(***************************************************************************)
Mine(t, o) == Idle(t) /\ HolderOf[o] = t
Objects == {e \in Errors : errors[e] # Gone} \cup {i \in StackInfos : infos[i] # Gone}
RoomForObject == Cardinality(Objects) < MaxObjects
Visible(t, e) == errors[e] # Gone /\ e \in Globals \cup {x \in Errors : HolderOf[x] = t}

PutMemory(m) ==
  /\ values' = m.values /\ frames' = m.frames /\ strings' = m.strings

RoomForValue == Free(values) # {}
RoomToCopy(e) == HasValue(e) => RoomForValue

PutError(e, x) ==
  /\ errors' = [errors EXCEPT ![e] = x.error]
  /\ PutMemory(x.heap)
  /\ UNCHANGED <<cacheVars, infos, target>>

PutInfo(i, x) ==
  /\ infos' = [infos EXCEPT ![i] = x.info]
  /\ PutMemory(x.heap)
  /\ UNCHANGED <<cacheVars, errors, target>>

Construct(t, e, code, s) ==
  /\ Mine(t, e) /\ errors[e] = Gone /\ RoomForObject /\ RoomForValue
  /\ PutError(e, CreatedValue(Heap, code, s))

\* Also: a global error is thrown, an exception is caught by value.
CopyConstruct(t, e, from) ==
  /\ Mine(t, e) /\ errors[e] = Gone /\ RoomForObject /\ Visible(t, from) /\ RoomToCopy(from)
  /\ PutError(e, Clone(Heap, from))

MoveError(t, e, from) ==
  /\ errors' = [errors EXCEPT ![e] = errors[from], ![from] = MovedError]
  /\ UNCHANGED <<cacheVars, memory, infos, target>>

MoveConstruct(t, e, from) ==
  /\ Mine(t, e) /\ errors[e] = Gone /\ RoomForObject /\ Visible(t, from) /\ from \notin Globals
  /\ MoveError(t, e, from)

\* Nothing is released; the copy that operator = returns is made and destroyed at once.
Assign(t, e, from) ==
  /\ Mine(t, e) /\ errors[e] # Gone /\ Visible(t, from) /\ RoomToCopy(from)
  /\ HasValue(e) => MayLose
  /\ PutError(e, Clone(Heap, from))

MoveAssign(t, e, from) ==
  /\ Mine(t, e) /\ errors[e] # Gone /\ Visible(t, from) /\ from \notin Globals
  /\ HasValue(e) => MayLose
  /\ MoveError(t, e, from)

Destroy(t, e) ==
  /\ Mine(t, e) /\ errors[e] # Gone
  /\ PutError(e, [error |-> Gone, heap |-> Destroyed(Heap, e)])

\* StackInfo( true )
Capture(t, i, s) ==
  /\ Mine(t, i) /\ infos[i] = Gone /\ RoomForObject
  /\ PutInfo(i, Captured(Heap, s))

CopyInfo(t, i, from) ==
  /\ Mine(t, i) /\ Mine(t, from) /\ infos[i] = Gone /\ RoomForObject /\ infos[from] # Gone
  /\ PutInfo(i, CopiedInfo(Heap, infos[from]))

\* Assigned to itself it copies memory just released; callers do not do it.
AssignInfo(t, i, from) ==
  /\ Mine(t, i) /\ Mine(t, from) /\ infos[i] # Gone /\ infos[from] # Gone /\ i # from
  /\ PutInfo(i, AssignedInfo(Heap, infos[i], infos[from]))

MoveInfo(t, i, from, m) ==
  /\ infos' = [infos EXCEPT ![i] = infos[from], ![from] = MovedInfo]
  /\ PutMemory(m)
  /\ UNCHANGED <<cacheVars, errors, target>>

MoveConstructInfo(t, i, from) ==
  /\ Mine(t, i) /\ Mine(t, from) /\ infos[i] = Gone /\ RoomForObject /\ infos[from] # Gone
  /\ MoveInfo(t, i, from, Heap)

MoveAssignInfo(t, i, from) ==
  /\ Mine(t, i) /\ Mine(t, from) /\ infos[i] # Gone /\ infos[from] # Gone /\ i # from
  /\ infos[i].ptrs # Null => MayLose
  /\ MoveInfo(t, i, from, MoveReleasedInfo(Heap, infos[i]))

\* init: another stack; not once the text was made, which it would keep.
InitInfo(t, i, s) ==
  /\ Mine(t, i) /\ infos[i] # Gone /\ Text(Heap, infos[i]) = <<>>
  /\ LET f == InitPointers(Release(Heap, "frames", infos[i].ptrs), s) IN
       PutInfo(i, [info |-> Info(f.id, infos[i].whereTaken), heap |-> f.heap])

\* clear: the text, not the stack.
ClearInfo(t, i) ==
  /\ Mine(t, i) /\ infos[i] # Gone
  /\ PutInfo(i, [info |-> Info(infos[i].ptrs, MovedString),
                 heap |-> ReleaseStr(Heap, infos[i].whereTaken)])

DestroyInfo(t, i) ==
  /\ Mine(t, i) /\ infos[i] # Gone
  /\ PutInfo(i, [info |-> Gone, heap |-> ReleasedInfo(Heap, infos[i])])

\* The StackInfo of an error or of its own.
InfoOf(o) == IF o \in AllErrors THEN ValueOf(o).info ELSE infos[o]

\* log, of an error with a value or of a StackInfo; with a text there is nothing to make.
Log(t, o) ==
  /\ Mine(t, o)
  /\ IF o \in AllErrors THEN HasValue(o) ELSE infos[o] # Gone
  /\ Text(Heap, InfoOf(o)) = <<>>
  /\ Start(t, Pointed(Heap, InfoOf(o).ptrs))
  /\ target' = [target EXCEPT ![t] = o]
  /\ UNCHANGED <<memory, errors, infos>>

\* whereTaken = out.c_str(), the end of postinit
PutText(t) ==
  LET o == target[t]
      info == InfoOf(o)
  IN
  /\ Finish(t)
  /\ LET s == Store(ReleaseStr(Heap, info.whereTaken), "strings", out[t])
         made == Info(info.ptrs, [fromLiteral |-> FALSE, str |-> s.id])
     IN
       IF o \in AllErrors
       THEN /\ PutMemory([s.heap EXCEPT !.values[errors[o].value].info = made])
            /\ UNCHANGED infos
       ELSE /\ PutMemory(s.heap)
            /\ infos' = [infos EXCEPT ![o] = made]
  /\ target' = [target EXCEPT ![t] = Null]
  /\ UNCHANGED errors

\* Where the initialization of the program puts the values of the globals and their stacks.
Apart(f) == \A g, h \in Globals : g # h => f[g] # f[h]
ValueOfGlobal == CHOOSE f \in [Globals -> ValueIds] : Apart(f)
FrameOfGlobal == CHOOSE f \in [Globals -> FrameIds] : Apart(f)
GlobalAt(v) == CHOOSE g \in Globals : ValueOfGlobal[g] = v

Init ==
  /\ CacheInit
  /\ values = [x \in ValueIds |->
       IF \E g \in Globals : ValueOfGlobal[g] = x
       THEN [code |-> GlobalAt(x), info |-> Info(FrameOfGlobal[GlobalAt(x)], EmptyLiteral)]
       ELSE Null]
  /\ frames = [x \in FrameIds |->
       IF \E g \in Globals : FrameOfGlobal[g] = x THEN AnyOf(Traces) ELSE Null]
  /\ errors = [e \in AllErrors |->
       IF e \in Globals THEN [domain |-> DomainOf(e), value |-> ValueOfGlobal[e]] ELSE Gone]
  /\ strings = [x \in StringIds |-> Null]
  /\ infos = [i \in StackInfos |-> Gone]
  /\ target = [t \in Threads |-> Null]

ErrorStep(t, e) ==
  \/ \E code \in Globals, s \in Traces : Construct(t, e, code, s)
  \/ \E from \in AllErrors :
       \/ CopyConstruct(t, e, from) \/ MoveConstruct(t, e, from)
       \/ Assign(t, e, from) \/ MoveAssign(t, e, from)
  \/ Destroy(t, e)

InfoStep(t, i) ==
  \/ \E s \in Traces : Capture(t, i, s) \/ InitInfo(t, i, s)
  \/ \E from \in StackInfos :
       \/ CopyInfo(t, i, from) \/ MoveConstructInfo(t, i, from)
       \/ AssignInfo(t, i, from) \/ MoveAssignInfo(t, i, from)
  \/ ClearInfo(t, i)
  \/ DestroyInfo(t, i)

ResolveStep(t) == Resolve(t) /\ UNCHANGED <<memory, errors, infos, target>>
LookUpStep(t) == LookUp(t) /\ UNCHANGED <<memory, errors, infos, target>>

Next == \E t \in Threads :
  \/ \E e \in Errors : ErrorStep(t, e)
  \/ \E i \in StackInfos : InfoStep(t, i)
  \/ \E o \in Errors \cup StackInfos : Log(t, o)
  \/ ResolveStep(t) \/ LookUpStep(t) \/ PutText(t)

\* A thread making a text goes on: mxSearcher is held for a lookup only, and a thread that
\* finds it free gets it.
Fairness == \A t \in Threads : WF_vars(ResolveStep(t) \/ LookUpStep(t) \/ PutText(t))

Spec == Init /\ [][Next]_vars
FairSpec == Spec /\ Fairness

(***************************************************************************)
(* Properties                                                               *)
(***************************************************************************)
TypeOK ==
  /\ CacheTypeOK
  /\ values \in [ValueIds -> ValueType \cup {Null}]
  /\ frames \in [FrameIds -> Traces \cup {Null}]
  /\ strings \in [StringIds -> Seq(Infos) \cup {Null}]
  /\ errors \in [AllErrors -> ErrorType \cup {Gone}]
  /\ infos \in [StackInfos -> StackInfoType \cup {Gone}]
  /\ target \in [Threads -> Errors \cup StackInfos \cup {Null}]

\* Whatever is copied, moved, assigned and destroyed, in whatever order, and whichever
\* allocation failed: what an error or a StackInfo refers to is in memory, and nothing else
\* refers to it, so that it is freed once and never used after that.
OwnedOnce ==
  /\ OwnedValues \subseteq Live(values)
  /\ OwnedFrames \subseteq Live(frames)
  /\ OwnedStrings \subseteq Live(strings)
  /\ \A e, f \in {x \in AllErrors : HasValue(x)} : e # f => errors[e].value # errors[f].value
  /\ \A w, x \in Owners : w # x =>
       /\ InfoAt(w).ptrs # Null => InfoAt(w).ptrs # InfoAt(x).ptrs
       /\ InfoAt(w).whereTaken.str # Null => InfoAt(w).whereTaken.str # InfoAt(x).whereTaken.str

\* Assignment leaks, and nothing else does: memory is lost only by the error assigned to (its
\* value) and by the StackInfo another is moved to (its stack pointers), and no string is.
LostOnlyByAssignment ==
  [][/\ \A v \in LostValues' \ LostValues :
          \E e \in Errors : HasValue(e) /\ errors[e].value = v /\ errors'[e] # Gone
     /\ \A f \in LostFrames' \ LostFrames :
          \E i, j \in StackInfos :
            /\ infos[i] # Gone /\ infos[i].ptrs = f
            /\ i # j /\ infos[j] # Gone /\ infos'[i] = infos[j] /\ infos'[j] = MovedInfo
     /\ Live(strings)' \subseteq OwnedStrings']_vars

\* A text that was made is of the stack it is kept with, through all copies and moves: it
\* says of each pointer what the cache has of it.
TextIsOwn ==
  \A w \in Owners :
    LET ptrs == InfoAt(w).ptrs
        text == Text(Heap, InfoAt(w))
    IN ptrs # Null /\ text # <<>> =>
         /\ Len(text) = Len(frames[ptrs])
         /\ \A i \in 1 .. Len(text) : text[i] = resolvedData[frames[ptrs][i]]

\* A thread that logs an error or a StackInfo gets its text, whatever the other threads log:
\* they hold mxSearcher at most once for each pointer.
LogEnds == \A t \in Threads : ~Idle(t) ~> Idle(t)

\* An error caught as bad address equals zero_pointer_access: the test of the comparison
\* takes that for right (main.cpp:131).
BadAddressIsZeroPointer ==
  \A e \in Errors, g \in Globals :
    HasValue(e) /\ ValueOf(e).code = bad_address /\ g = zero_pointer_access
      => Equal(errors[e], errors[g])
=============================================================================
