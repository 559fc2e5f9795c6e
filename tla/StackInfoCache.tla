--------------------------- MODULE StackInfoCache ---------------------------
(***************************************************************************)
(* How the text of a stack is made (stack_info.cpp, stack_info_impl.h): for   *)
(* each stack pointer what is known of it is taken from a cache shared by all *)
(* threads, or looked up in the module it belongs to and put there.          *)
(*                                                                          *)
(* A text is the sequence of what was found for each pointer, and of that what *)
(* an entry of the cache keeps: module, function, source and line.           *)
(***************************************************************************)
EXTENDS Naturals, Sequences

CONSTANTS
  Threads,
  Pointers,   \* addresses on the stacks
  Traces,     \* the stacks backtrace may give
  InModule,   \* those dladdr finds a module for
  Details,    \* what addr2line may say of one: e.g. function and line, or nothing
  Nothing,    \* an empty StackFrameInfo
  Unresolved, \* no entry
  NoThread

ASSUME CacheAssumption ==
  /\ InModule \subseteq Pointers
  /\ Traces \subseteq Seq(Pointers)
  /\ NoThread \notin Threads
  /\ Unresolved \notin Details \cup {Nothing}

VARIABLES
  mxSearcher,    \* the thread that holds it
  resolvedData,  \* the cache
  at,            \* where each thread is in postinit
  stack,         \* the stack it makes the text of
  out,           \* the text so far
  assumptionFailed \* whether "!!! Assumptions ... failed" was logged

cacheVars == <<mxSearcher, resolvedData, at, stack, out, assumptionFailed>>

Infos == Details \cup {Nothing}
Idle(t) == at[t] = "idle"
NextPointer(t) == stack[t][Len(out[t]) + 1]

\* stackPointerToInfo: the details depend on what addr2line, run as a process, answers at
\* that moment.
StackPointerToInfo(p) == IF p \in InModule THEN Infos ELSE {Nothing}

\* Variant (the next definition with a slip in it; the specification does not use it, it
\* shows what the properties notice): nothing found is not stored.
AddFoundStackPtrData(p, info) ==
  IF resolvedData[p] = Unresolved
  THEN /\ resolvedData' = [resolvedData EXCEPT ![p] = IF info = Nothing THEN @ ELSE info]
       /\ UNCHANGED assumptionFailed
  ELSE /\ assumptionFailed' = TRUE
       /\ UNCHANGED resolvedData

\* An entry is not replaced; a failed lookup is an entry, too.
AddResolvedStackPtrData(p, info) ==
  IF resolvedData[p] = Unresolved
  THEN /\ resolvedData' = [resolvedData EXCEPT ![p] = info]
       /\ UNCHANGED assumptionFailed
  ELSE /\ assumptionFailed' = TRUE
       /\ UNCHANGED resolvedData

\* Variant: any thread may go on.
SearcherIsAnyones(t) == TRUE
SearcherIsFree(t) == mxSearcher = NoThread

Start(t, s) ==
  /\ Idle(t)
  /\ at' = [at EXCEPT ![t] = "resolve"]
  /\ stack' = [stack EXCEPT ![t] = s]
  /\ out' = [out EXCEPT ![t] = <<>>]
  /\ UNCHANGED <<mxSearcher, resolvedData, assumptionFailed>>

\* resolveData up to the lookup; with an entry it is done.
Resolve(t) ==
  /\ at[t] = "resolve" /\ Len(out[t]) < Len(stack[t])
  /\ SearcherIsFree(t)
  /\ LET found == resolvedData[NextPointer(t)] IN
     IF found # Unresolved
     THEN /\ out' = [out EXCEPT ![t] = Append(@, found)]
          /\ UNCHANGED <<mxSearcher, at>>
     ELSE /\ mxSearcher' = t
          /\ at' = [at EXCEPT ![t] = "look up"]
          /\ UNCHANGED out
  /\ UNCHANGED <<resolvedData, stack, assumptionFailed>>

\* The lookup, with the lock held, and the release of the lock.
LookUp(t) ==
  /\ at[t] = "look up"
  /\ \E info \in StackPointerToInfo(NextPointer(t)) :
       /\ AddResolvedStackPtrData(NextPointer(t), info)
       /\ out' = [out EXCEPT ![t] = Append(@, info)]
  /\ mxSearcher' = NoThread
  /\ at' = [at EXCEPT ![t] = "resolve"]
  /\ UNCHANGED stack

TextIsMade(t) == at[t] = "resolve" /\ Len(out[t]) = Len(stack[t])

Finish(t) ==
  /\ TextIsMade(t)
  /\ at' = [at EXCEPT ![t] = "idle"]
  /\ stack' = [stack EXCEPT ![t] = <<>>]
  /\ out' = [out EXCEPT ![t] = <<>>]
  /\ UNCHANGED <<mxSearcher, resolvedData, assumptionFailed>>

CacheInit ==
  /\ mxSearcher = NoThread
  /\ resolvedData = [p \in Pointers |-> Unresolved]
  /\ at = [t \in Threads |-> "idle"]
  /\ stack = [t \in Threads |-> <<>>]
  /\ out = [t \in Threads |-> <<>>]
  /\ assumptionFailed = FALSE

CacheStep(t) == (\E s \in Traces \cup {<<>>} : Start(t, s)) \/ Resolve(t) \/ LookUp(t) \/ Finish(t)
CacheNext == \E t \in Threads : CacheStep(t)

CacheSpec == CacheInit /\ [][CacheNext]_cacheVars

CacheTypeOK ==
  /\ mxSearcher \in Threads \cup {NoThread}
  /\ resolvedData \in [Pointers -> Infos \cup {Unresolved}]
  /\ at \in [Threads -> {"idle", "resolve", "look up"}]
  /\ stack \in [Threads -> Seq(Pointers)]
  /\ out \in [Threads -> Seq(Infos)]
  /\ assumptionFailed \in BOOLEAN

(***************************************************************************)
(* Properties                                                               *)
(***************************************************************************)
\* No thread finds an entry where it is about to put one: a pointer is looked up once
\* (the message at stack_info_impl.h:145 is never logged).
LookedUpOnce == ~assumptionFailed

\* All threads get the same for a pointer, whenever they ask, and though the lookup might
\* give something else each time.
ReadersAgree ==
  \A t \in Threads : \A i \in 1 .. Len(out[t]) : out[t][i] = resolvedData[stack[t][i]]
=============================================================================
