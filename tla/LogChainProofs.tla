---------------------------- MODULE LogChainProofs ----------------------------
(***************************************************************************)
(* The chain of threads that wait for room in the buffer: it is a line in   *)
(* the order of arrival, and one party at a time may let its front run.     *)
(***************************************************************************)
EXTENDS LogBufferProofs

\* Who lets the front of the line run: it is firstToRelease, the writer has taken it, it
\* was told to (d.w.canRun), it runs, or the thread before it has still to tell it.
Turns == {"head", "writer", "told", "runs", "before", "nobody"}

\* The queued threads are c[a], ..., c[b - 1], each linked to the next by d.next.
Line(c, a, b) ==
  /\ a <= b
  /\ \A i \in a .. b - 1 : c[i] \in Queued
  /\ \A t \in Queued : \E i \in a .. b - 1 : t = c[i]
  /\ \A i, j \in a .. b - 1 : c[i] = c[j] => i = j
  /\ \A i \in a .. b - 1 : dNext[c[i]] = IF i = b - 1 THEN Null ELSE c[i + 1]
  /\ nextToAdd = IF a = b THEN Null ELSE c[b - 1]

\* Party k, and no other, lets the thread f run.
Turn(k, f) ==
  /\ \A t \in Threads :
       /\ firstToRelease = t <=> (k = "head" /\ t = f)
       /\ WriterHolds(t) <=> (k = "writer" /\ t = f)
       /\ dCanRun[t] = TRUE <=> (k = "told" /\ t = f)
       /\ pc[t] = "released" <=> (k = "runs" /\ t = f)
       /\ pc[t] = "handOver" => (k = "before" /\ dNext[t] = f)
  /\ k = "before" => \E t \in Threads : pc[t] = "handOver"
  /\ \A t, u \in Threads : pc[t] = "handOver" /\ pc[u] = "handOver" => t = u

\* Nobody is linked to a call that only begins.
Fresh == \A t \in Threads : pc[t] = "enter" => dNext[t] = Null

\* Past the assertion at line 134 the writer releases one kind of waiting objects only.
OneKind == wpc \in {"advance", "release", "next"} => wG = Null \/ wP = Null

InLine(c, a, b, k) == Line(c, a, b) /\ (k = "nobody" <=> a = b) /\ Turn(k, c[a])
Orderly ==
  \E c \in [Nat -> Threads \cup {Null}], a \in Nat, b \in Nat, k \in Turns : InLine(c, a, b, k)

\* After an assertion threw in the middle of a release the queued threads wait for ever,
\* and nobody joins or leaves them.
Lost == ChainBroken /\ nextToAdd # Null /\ Turn("nobody", Null)

ChainInv == Fresh /\ OneKind /\ (Orderly \/ Lost)

(***************************************************************************)
(* Steps in general                                                         *)
(***************************************************************************)
LEMMA NullIsNoThread == Null \notin Threads
BY ThreadsAssumption

\* An assertion that threw stays on record.
LEMMA BrokenStays == ASSUME ChainBroken, failed \subseteq failed' PROVE ChainBroken'
BY DEF ChainBroken

\* Steps that neither let a thread join or leave the line nor relink it.
LEMMA LineKept ==
  ASSUME NEW c, NEW a \in Nat, NEW b \in Nat, Line(c, a, b),
         nextToAdd' = nextToAdd, Queued' = Queued, \A t \in Queued : dNext'[t] = dNext[t]
  PROVE  Line(c, a, b)'
BY DEF Line

\* Steps that change nobody's turn.
LEMMA TurnKept ==
  ASSUME NEW k, NEW f, Turn(k, f),
         \A t \in Threads :
           /\ firstToRelease' = t <=> firstToRelease = t
           /\ WriterHolds(t)' <=> WriterHolds(t)
           /\ dCanRun'[t] = TRUE <=> dCanRun[t] = TRUE
           /\ pc'[t] = "released" <=> pc[t] = "released"
           /\ pc'[t] = "handOver" <=> pc[t] = "handOver"
           /\ pc[t] = "handOver" => dNext'[t] = dNext[t]
  PROVE  Turn(k, f)'
BY DEF Turn

\* Both together.
LEMMA ChainKept ==
  ASSUME Orderly \/ Lost, failed \subseteq failed',
         nextToAdd' = nextToAdd, Queued' = Queued, \A t \in Queued : dNext'[t] = dNext[t],
         \A t \in Threads :
           /\ firstToRelease' = t <=> firstToRelease = t
           /\ WriterHolds(t)' <=> WriterHolds(t)
           /\ dCanRun'[t] = TRUE <=> dCanRun[t] = TRUE
           /\ pc'[t] = "released" <=> pc[t] = "released"
           /\ pc'[t] = "handOver" <=> pc[t] = "handOver"
           /\ pc[t] = "handOver" => dNext'[t] = dNext[t]
  PROVE  (Orderly \/ Lost)'
<1>1. CASE Orderly
  <2>1. PICK c \in [Nat -> Threads \cup {Null}], a \in Nat, b \in Nat, k \in Turns :
          InLine(c, a, b, k)
    BY <1>1 DEF Orderly
  <2>2. Line(c, a, b)'
    BY <2>1, LineKept DEF InLine
  <2>3. Turn(k, c[a])'
    BY <2>1, TurnKept DEF InLine
  <2>4. InLine(c, a, b, k)'
    BY <2>1, <2>2, <2>3 DEF InLine
  <2> QED BY <2>4 DEF Orderly
<1>2. CASE Lost
  <2>1. Turn("nobody", Null)'
    BY <1>2, TurnKept DEF Lost
  <2> QED BY <1>2, <2>1, BrokenStays DEF Lost
<1> QED BY <1>1, <1>2

\* A step of one thread that is not queued before or after it, and not handing over.
LEMMA BystanderStep ==
  ASSUME TypeInv, ChainInv, NEW t \in Threads,
         NEW x \in {"idle", "enter", "waitWrite", "stuck"},
         pc[t] \in {"idle", "enter", "waitWrite"},
         pc' = [pc EXCEPT ![t] = x], failed \subseteq failed',
         UNCHANGED <<chainVars, wpc, wP, wG>>,
         \A u \in Threads : u # t => dNext'[u] = dNext[u] /\ dCanRun'[u] = dCanRun[u],
         dCanRun'[t] = dCanRun[t] \/ dCanRun'[t] = FALSE,
         dNext'[t] = dNext[t] \/ dNext'[t] = Null,
         x = "enter" => dNext'[t] = Null
  PROVE  ChainInv'
<1>1. pc \in [Threads -> {"idle", "enter", "waitWrite", "chained", "released",
                           "handOver", "stuck"}]
  BY DEF TypeInv, TypeOK, CallType
<1>2. Fresh'
  BY <1>1 DEF ChainInv, Fresh
<1>3. OneKind'
  BY DEF ChainInv, OneKind
<1>4. Queued' = Queued /\ t \notin Queued
  BY <1>1 DEF Queued
<1>5. dCanRun[t] # TRUE
  <2>1. CASE Orderly
    <3>1. PICK c \in [Nat -> Threads \cup {Null}], a \in Nat, b \in Nat, k \in Turns :
            InLine(c, a, b, k)
      BY <2>1 DEF Orderly
    <3>2. dCanRun[t] = TRUE => c[a] = t /\ a # b
      BY <3>1 DEF InLine, Turn
    <3>3. a # b => c[a] \in Queued
      BY <3>1 DEF InLine, Line
    <3> QED BY <1>4, <3>2, <3>3
  <2>2. CASE Lost
    BY <2>2 DEF Lost, Turn
  <2> QED BY <2>1, <2>2 DEF ChainInv
<1>6. \A u \in Threads :
        /\ firstToRelease' = u <=> firstToRelease = u
        /\ WriterHolds(u)' <=> WriterHolds(u)
        /\ dCanRun'[u] = TRUE <=> dCanRun[u] = TRUE
        /\ pc'[u] = "released" <=> pc[u] = "released"
        /\ pc'[u] = "handOver" <=> pc[u] = "handOver"
        /\ pc[u] = "handOver" => dNext'[u] = dNext[u]
  BY <1>1, <1>5 DEF WriterHolds, chainVars
<1>7. \A u \in Queued : dNext'[u] = dNext[u]
  BY <1>4 DEF Queued
<1> HIDE DEF ChainInv
<1> QED BY <1>2, <1>3, <1>4, <1>6, <1>7, ChainKept DEF ChainInv, chainVars

\* A step of the writer or of an owner that takes the front of the line neither from
\* firstToRelease nor out of the writer's hands.
LEMMA WriterStepAside ==
  ASSUME TypeInv, ChainInv, failed \subseteq failed',
         UNCHANGED <<chainVars, pc, dNext, dCanRun>>,
         \A t \in Threads : WriterHolds(t)' <=> WriterHolds(t),
         OneKind'
  PROVE  ChainInv'
<1>1. Fresh'
  BY DEF ChainInv, Fresh
<1>2. Queued' = Queued
  BY DEF Queued
<1>3. (Orderly \/ Lost)'
  BY <1>2, ChainKept DEF ChainInv, chainVars
<1> QED BY <1>1, <1>3 DEF ChainInv

\* When the line has a front somebody else than the thread before it cares for, it is in line.
LEMMA FrontInLine ==
  ASSUME NEW c \in [Nat -> Threads \cup {Null}], NEW a \in Nat, NEW b \in Nat, NEW k \in Turns,
         InLine(c, a, b, k), k # "nobody"
  PROVE  a < b /\ c[a] \in Queued /\ nextToAdd # Null
<1>1. a < b
  BY DEF InLine, Line
<1>2. c[a] \in Queued /\ c[b - 1] \in Queued
  BY <1>1 DEF InLine, Line
<1> QED BY <1>1, <1>2, NullIsNoThread DEF InLine, Line, Queued

(***************************************************************************)
(* Steps of the logging threads                                             *)
(***************************************************************************)
\* A thread joins the line at its end, or becomes its front.
LEMMA JoinsLine ==
  ASSUME TypeInv, ChainInv, NEW t \in Threads, AddMsgQueue(t)
  PROVE  ChainInv'
<1>0. /\ pc \in [Threads -> {"idle", "enter", "waitWrite", "chained", "released",
                             "handOver", "stuck"}]
      /\ firstToRelease \in Threads \cup {Null} /\ dNext \in [Threads -> Threads \cup {Null}]
  BY DEF TypeInv, TypeOK, CallType, ChainType
<1>1. /\ pc[t] = "enter" /\ pc' = [pc EXCEPT ![t] = "chained"] /\ nextToAdd' = t
      /\ UNCHANGED <<wpc, wP, wG, dCanRun, failed>>
      /\ IF nextToAdd # Null
           THEN /\ firstToRelease # Null /\ firstToRelease' = firstToRelease
                /\ dNext' = [dNext EXCEPT ![nextToAdd] = t]
           ELSE firstToRelease' = t /\ dNext' = dNext
  BY DEF AddMsgQueue, wVars
<1>2. t \notin Queued /\ Queued' = Queued \cup {t} /\ dNext[t] = Null
  BY <1>0, <1>1 DEF Queued, ChainInv, Fresh
<1>3. OneKind'
  BY <1>1 DEF ChainInv, OneKind
<1>4. ~Lost
  BY <1>0, <1>1 DEF Lost, Turn
<1>5. PICK c \in [Nat -> Threads \cup {Null}], a \in Nat, b \in Nat, k \in Turns :
        InLine(c, a, b, k)
  BY <1>4 DEF ChainInv, Orderly
<1> DEFINE d == [c EXCEPT ![b] = t]
<1>6. d \in [Nat -> Threads \cup {Null}] /\ b + 1 \in Nat /\ a <= b
  BY <1>5 DEF InLine, Line
<1>7. CASE nextToAdd # Null
  <2>1. a < b /\ nextToAdd = c[b - 1] /\ c[b - 1] \in Queued
    BY <1>5, <1>7 DEF InLine, Line
  <2>2. k = "head" /\ firstToRelease = c[a]
    BY <1>0, <1>1, <1>5, <1>7 DEF InLine, Turn
  <2>3. Fresh'
    BY <1>0, <1>1, <1>7, <2>1 DEF ChainInv, Fresh, Queued
  <2>4. \A u \in Threads : pc[u] # "handOver"
    BY <1>5, <2>2 DEF InLine, Turn
  <2>5. Line(d, a, b + 1)'
    <3>1. \A i \in a .. b - 1 : d[i] = c[i] /\ c[i] \in Queued /\ c[i] # t
      BY <1>2, <1>5, <1>6 DEF InLine, Line
    <3>2. d[b] = t
      BY <1>5
    <3>3. \A i \in a .. b : d[i] \in Queued'
      BY <1>2, <3>1, <3>2, <1>6
    <3>4. \A u \in Queued' : \E i \in a .. b : u = d[i]
      BY <1>2, <1>5, <1>6, <3>1, <3>2 DEF InLine, Line
    <3>5. \A i, j \in a .. b : d[i] = d[j] => i = j
      BY <1>5, <1>6, <3>1, <3>2 DEF InLine, Line
    <3>6. \A i \in a .. b : dNext'[d[i]] = IF i = b THEN Null ELSE d[i + 1]
      <4> SUFFICES ASSUME NEW i \in a .. b
                   PROVE  dNext'[d[i]] = IF i = b THEN Null ELSE d[i + 1]
        OBVIOUS
      <4>1. CASE i = b
        BY <1>0, <1>1, <1>2, <1>7, <2>1, <3>2, <4>1
      <4>2. CASE i = b - 1
        <5>1. d[i] = nextToAdd /\ nextToAdd \in Threads
          BY <2>1, <3>1, <4>2 DEF Queued
        <5> QED BY <1>0, <1>1, <1>7, <3>2, <4>2, <5>1
      <4>3. CASE i \in a .. b - 2
        <5>1. d[i] = c[i] /\ c[i] \in Threads /\ c[i] # nextToAdd /\ d[i + 1] = c[i + 1]
          BY <1>5, <2>1, <3>1, <4>3 DEF InLine, Line, Queued
        <5>2. dNext[c[i]] = c[i + 1]
          BY <1>5, <4>3 DEF InLine, Line
        <5> QED BY <1>0, <1>1, <1>7, <4>3, <5>1, <5>2
      <4> QED BY <1>6, <4>1, <4>2, <4>3
    <3> HIDE DEF d
    <3> QED BY <1>1, <1>6, <2>1, <3>2, <3>3, <3>4, <3>5, <3>6 DEF Line
  <2>6. Turn(k, d[a])'
    <3>1. d[a] = c[a]
      BY <1>6, <2>1
    <3> QED BY <1>0, <1>1, <1>5, <1>7, <2>2, <2>4, <3>1 DEF InLine, Turn, WriterHolds
  <2>7. InLine(d, a, b + 1, k)'
    BY <1>6, <2>1, <2>2, <2>5, <2>6 DEF InLine
  <2> HIDE DEF d
  <2> QED BY <1>3, <1>5, <1>6, <2>3, <2>7 DEF ChainInv, Orderly
<1>8. CASE nextToAdd = Null
  <2>1. a = b /\ Queued = {} /\ k = "nobody"
    <3>1. a < b => c[b - 1] \in Queued /\ nextToAdd = c[b - 1]
      BY <1>5, <1>6 DEF InLine, Line
    <3>2. a = b
      BY <1>6, <1>8, <3>1, NullIsNoThread DEF Queued
    <3> QED BY <1>5, <3>2 DEF InLine, Line
  <2>2. Fresh'
    BY <1>0, <1>1, <1>8 DEF ChainInv, Fresh
  <2>3. Line(d, a, b + 1)'
    <3>1. d[b] = t /\ Queued' = {t} /\ dNext'[t] = Null
      BY <1>1, <1>2, <1>5, <1>8, <2>1
    <3> HIDE DEF d
    <3> QED BY <1>1, <1>5, <2>1, <3>1 DEF Line
  <2>4. Turn("head", d[a])'
    <3>1. d[a] = t
      BY <2>1
    <3> HIDE DEF d
    <3> QED BY <1>0, <1>1, <1>5, <1>8, <2>1, <3>1 DEF InLine, Turn, WriterHolds
  <2>5. InLine(d, a, b + 1, "head")'
    BY <2>1, <2>3, <2>4 DEF InLine
  <2> HIDE DEF d
  <2> QED BY <1>3, <1>5, <1>6, <2>2, <2>5 DEF ChainInv, Orderly, Turns
<1> QED BY <1>7, <1>8

\* The queued thread that runs is the front of the line.
LEMMA RunnerIsFront ==
  ASSUME ChainInv, NEW t \in Threads, pc[t] = "released"
  PROVE  \E c \in [Nat -> Threads \cup {Null}], a \in Nat, b \in Nat :
           InLine(c, a, b, "runs") /\ c[a] = t
<1>1. ~Lost
  BY DEF Lost, Turn
<1>2. PICK c \in [Nat -> Threads \cup {Null}], a \in Nat, b \in Nat, k \in Turns :
        InLine(c, a, b, k)
  BY <1>1 DEF ChainInv, Orderly
<1>3. k = "runs" /\ c[a] = t
  BY <1>2 DEF InLine, Turn
<1> QED BY <1>2, <1>3

\* It was told to run, and does.
LEMMA FrontWakes ==
  ASSUME TypeInv, ChainInv, NEW t \in Threads, ChainWake(t)
  PROVE  ChainInv'
<1>0. /\ pc \in [Threads -> {"idle", "enter", "waitWrite", "chained", "released",
                             "handOver", "stuck"}]
      /\ dCanRun \in [Threads -> BOOLEAN]
  BY DEF TypeInv, TypeOK, CallType, FlagType
<1>1. /\ pc[t] = "chained" /\ dCanRun[t] = TRUE
      /\ dCanRun' = [dCanRun EXCEPT ![t] = FALSE] /\ pc' = [pc EXCEPT ![t] = "released"]
      /\ UNCHANGED <<firstToRelease, nextToAdd, dNext, wpc, wP, wG>>
  BY <1>0 DEF ChainWake, chainVars, wVars
<1>2. ~Lost
  BY <1>1 DEF Lost, Turn
<1>3. PICK c \in [Nat -> Threads \cup {Null}], a \in Nat, b \in Nat, k \in Turns :
        InLine(c, a, b, k)
  BY <1>2 DEF ChainInv, Orderly
<1>4. k = "told" /\ c[a] = t
  BY <1>1, <1>3 DEF InLine, Turn
<1>5. Queued' = Queued
  BY <1>0, <1>1 DEF Queued
<1>6. Line(c, a, b)'
  BY <1>1, <1>3, <1>5, LineKept DEF InLine
<1>7. Turn("runs", c[a])'
  BY <1>0, <1>1, <1>3, <1>4 DEF InLine, Turn, WriterHolds
<1>8. InLine(c, a, b, "runs")'
  BY <1>3, <1>4, <1>6, <1>7 DEF InLine
<1>9. Fresh' /\ OneKind'
  BY <1>0, <1>1 DEF ChainInv, Fresh, OneKind
<1> QED BY <1>3, <1>8, <1>9 DEF ChainInv, Orderly, Turns

\* It finds no room and is the chain's head again.
LEMMA FrontWaitsAgain ==
  ASSUME TypeInv, ChainInv, NEW t \in Threads, ChainWaitAgain(t)
  PROVE  ChainInv'
<1>0. pc \in [Threads -> {"idle", "enter", "waitWrite", "chained", "released",
                           "handOver", "stuck"}]
  BY DEF TypeInv, TypeOK, CallType
<1>1. /\ pc[t] = "released" /\ pc' = [pc EXCEPT ![t] = "chained"] /\ firstToRelease' = t
      /\ UNCHANGED <<nextToAdd, dNext, dCanRun, wpc, wP, wG>>
  BY DEF ChainWaitAgain, dVars, wVars
<1>2. PICK c \in [Nat -> Threads \cup {Null}], a \in Nat, b \in Nat :
        InLine(c, a, b, "runs") /\ c[a] = t
  BY <1>1, RunnerIsFront
<1>3. Queued' = Queued
  BY <1>0, <1>1 DEF Queued
<1>4. Line(c, a, b)'
  BY <1>1, <1>2, <1>3, LineKept DEF InLine
<1>5. Turn("head", c[a])'
  BY <1>0, <1>1, <1>2 DEF InLine, Turn, WriterHolds
<1>6. InLine(c, a, b, "head")'
  BY <1>2, <1>4, <1>5 DEF InLine
<1>7. Fresh' /\ OneKind'
  BY <1>0, <1>1 DEF ChainInv, Fresh, OneKind
<1> QED BY <1>2, <1>6, <1>7 DEF ChainInv, Orderly, Turns

\* It inserts and leaves the line, or an assertion throws and the line is lost.
LEMMA FrontInserts ==
  ASSUME TypeInv, ChainInv, NEW t \in Threads, ChainInsert(t)
  PROVE  ChainInv'
<1>0. /\ pc \in [Threads -> {"idle", "enter", "waitWrite", "chained", "released",
                             "handOver", "stuck"}]
      /\ dNext \in [Threads -> Threads \cup {Null}]
  BY DEF TypeInv, TypeOK, CallType, ChainType
<1>1. /\ pc[t] = "released" /\ UNCHANGED <<firstToRelease, dNext, dCanRun, wpc, wP, wG>>
      /\ \/ /\ nextToAdd' = TailAfter(t)
            /\ pc' = [pc EXCEPT ![t] = IF dNext[t] = Null THEN "idle" ELSE "handOver"]
         \/ /\ nextToAdd' = nextToAdd /\ failed' \cap {273, 301} # {}
            /\ pc' = [pc EXCEPT ![t] = IF t \in OwnLog THEN "stuck" ELSE "idle"]
  BY DEF ChainInsert, InsertFails, Throw, wVars
<1>2. PICK c \in [Nat -> Threads \cup {Null}], a \in Nat, b \in Nat :
        InLine(c, a, b, "runs") /\ c[a] = t
  BY <1>1, RunnerIsFront
<1>3. a < b /\ t \in Queued /\ nextToAdd # Null
  BY <1>2, FrontInLine DEF Turns
<1>4. Fresh' /\ OneKind'
  BY <1>0, <1>1 DEF ChainInv, Fresh, OneKind
<1>5. \A u \in Threads :
        /\ firstToRelease' # u /\ ~WriterHolds(u)' /\ dCanRun'[u] # TRUE /\ pc[u] # "handOver"
        /\ u # t => pc[u] # "released"
  <2>1. Turn("runs", t)
    BY <1>2 DEF InLine
  <2>2. \A u \in Threads : firstToRelease # u /\ ~WriterHolds(u)
    BY <2>1 DEF Turn
  <2>3. \A u \in Threads : firstToRelease' # u /\ ~WriterHolds(u)'
    BY <1>1, <2>2 DEF WriterHolds
  <2> QED BY <1>1, <2>1, <2>3 DEF Turn
<1>6. CASE nextToAdd' = TailAfter(t) /\
           pc' = [pc EXCEPT ![t] = IF dNext[t] = Null THEN "idle" ELSE "handOver"]
  <2>1. Queued' = Queued \ {t}
    BY <1>0, <1>6 DEF Queued
  <2>2. /\ dNext[t] = IF a = b - 1 THEN Null ELSE c[a + 1]
        /\ nextToAdd = c[b - 1] /\ (nextToAdd = t <=> a = b - 1)
    BY <1>2, <1>3 DEF InLine, Line
  <2>3. a + 1 < b => c[a + 1] \in Threads /\ dNext[t] # Null
    BY <1>2, <1>3, <2>2, NullIsNoThread DEF InLine, Line, Queued
  <2>4. Line(c, a + 1, b)'
    <3>1. \A i \in a + 1 .. b - 1 : c[i] \in Queued'
      BY <1>2, <1>3, <2>1 DEF InLine, Line
    <3>2. \A u \in Queued' : \E i \in a + 1 .. b - 1 : u = c[i]
      BY <1>2, <1>3, <2>1 DEF InLine, Line
    <3>3. nextToAdd' = IF a + 1 = b THEN Null ELSE c[b - 1]
      BY <1>3, <1>6, <2>2 DEF TailAfter
    <3> QED BY <1>1, <1>2, <1>3, <3>1, <3>2, <3>3 DEF InLine, Line
  <2>5. CASE a + 1 = b
    <3>1. pc' = [pc EXCEPT ![t] = "idle"]
      BY <1>2, <1>6, <2>2, <2>5
    <3>2. Turn("nobody", c[a + 1])'
      BY <1>0, <1>5, <3>1 DEF Turn
    <3>3. InLine(c, a + 1, b, "nobody")'
      BY <2>4, <2>5, <3>2 DEF InLine
    <3> QED BY <1>2, <1>4, <3>3 DEF ChainInv, Orderly, Turns
  <2>6. CASE a + 1 < b
    <3>1. pc' = [pc EXCEPT ![t] = "handOver"] /\ dNext'[t] = c[a + 1]
      BY <1>1, <1>6, <2>2, <2>3, <2>6
    <3>2. Turn("before", c[a + 1])'
      BY <1>0, <1>5, <3>1 DEF Turn
    <3>3. InLine(c, a + 1, b, "before")'
      BY <2>4, <2>6, <3>2 DEF InLine
    <3> QED BY <1>2, <1>4, <3>3 DEF ChainInv, Orderly, Turns
  <2> QED BY <1>3, <2>5, <2>6
<1>7. CASE nextToAdd' = nextToAdd /\ failed' \cap {273, 301} # {} /\
           pc' = [pc EXCEPT ![t] = IF t \in OwnLog THEN "stuck" ELSE "idle"]
  <2>1. \A u \in Threads : pc'[u] # "released" /\ pc'[u] # "handOver"
    <3>1. PICK x \in {"idle", "stuck"} : pc' = [pc EXCEPT ![t] = x]
      BY <1>7
    <3> QED BY <1>0, <1>5, <3>1
  <2>2. Turn("nobody", Null)'
    BY <1>5, <2>1 DEF Turn
  <2>3. ChainBroken'
    BY <1>7 DEF ChainBroken
  <2> QED BY <1>3, <1>4, <1>7, <2>2, <2>3 DEF ChainInv, Lost
<1> QED BY <1>1, <1>6, <1>7

\* It tells the next one, which is the front now.
LEMMA FrontIsTold ==
  ASSUME TypeInv, ChainInv, NEW t \in Threads, HandOver(t)
  PROVE  ChainInv'
<1>0. /\ pc \in [Threads -> {"idle", "enter", "waitWrite", "chained", "released",
                             "handOver", "stuck"}]
      /\ dCanRun \in [Threads -> BOOLEAN]
  BY DEF TypeInv, TypeOK, CallType, FlagType
<1>1. /\ pc[t] = "handOver" /\ pc' = [pc EXCEPT ![t] = "idle"]
      /\ dCanRun' = [dCanRun EXCEPT ![dNext[t]] = TRUE]
      /\ UNCHANGED <<firstToRelease, nextToAdd, dNext, wpc, wP, wG>>
  BY DEF HandOver, chainVars, wVars
<1>2. ~Lost
  BY <1>1 DEF Lost, Turn
<1>3. PICK c \in [Nat -> Threads \cup {Null}], a \in Nat, b \in Nat, k \in Turns :
        InLine(c, a, b, k)
  BY <1>2 DEF ChainInv, Orderly
<1>4. k = "before" /\ dNext[t] = c[a] /\ \A u \in Threads : pc[u] = "handOver" => u = t
  BY <1>1, <1>3 DEF InLine, Turn
<1>5. Queued' = Queued /\ c[a] \in Threads
  BY <1>0, <1>1, <1>3, <1>4, FrontInLine DEF Queued
<1>6. Line(c, a, b)'
  BY <1>1, <1>3, <1>5, LineKept DEF InLine
<1>7. Turn("told", c[a])'
  BY <1>0, <1>1, <1>3, <1>4, <1>5 DEF InLine, Turn, WriterHolds
<1>8. InLine(c, a, b, "told")'
  BY <1>3, <1>4, <1>6, <1>7 DEF InLine
<1>9. Fresh' /\ OneKind'
  BY <1>0, <1>1 DEF ChainInv, Fresh, OneKind
<1> QED BY <1>3, <1>8, <1>9 DEF ChainInv, Orderly, Turns

(***************************************************************************)
(* Steps of the writer                                                      *)
(***************************************************************************)
\* The writer holds a thread only as long as it has one to release.
LEMMA WriterHoldsOne ==
  ASSUME TypeInv
  PROVE  wP = Null => \A t \in Threads : ~WriterHolds(t)
BY NullIsNoThread DEF WriterHolds

\* The writer takes the head of the chain, if there is room.
LEMMA HeadIsTaken ==
  ASSUME TypeInv, ChainInv, WriterSnapshot
  PROVE  ChainInv'
<1>0. firstToRelease \in Threads \cup {Null}
  BY DEF TypeInv, TypeOK, ChainType
<1>1. /\ wpc = "snapshot" /\ wpc' = "write" /\ TakeHead
      /\ UNCHANGED <<nextToAdd, pc, dNext, dCanRun, failed>>
  BY DEF WriterSnapshot, loggerVars, dVars
<1>2. Queued' = Queued /\ \A t \in Threads : ~WriterHolds(t)
  BY <1>1 DEF Queued, WriterHolds
<1>3. Fresh' /\ OneKind'
  BY <1>1 DEF ChainInv, Fresh, OneKind
<1>4. CASE firstToRelease' = firstToRelease /\ wP' = Null
  <2>1. \A t \in Threads : ~WriterHolds(t)'
    BY <1>4, NullIsNoThread DEF WriterHolds
  <2>2. (Orderly \/ Lost)'
    BY <1>1, <1>2, <1>4, <2>1, ChainKept DEF ChainInv
  <2> QED BY <1>3, <2>2 DEF ChainInv
<1>5. CASE firstToRelease \in Threads /\ firstToRelease' = Null /\ wP' = firstToRelease
  <2>1. ~Lost
    BY <1>5 DEF Lost, Turn
  <2>2. PICK c \in [Nat -> Threads \cup {Null}], a \in Nat, b \in Nat, k \in Turns :
          InLine(c, a, b, k)
    BY <2>1 DEF ChainInv, Orderly
  <2>3. k = "head" /\ c[a] = firstToRelease
    BY <1>5, <2>2 DEF InLine, Turn
  <2>4. Line(c, a, b)'
    BY <1>1, <1>2, <2>2, LineKept DEF InLine
  <2>5. Turn("writer", c[a])'
    BY <1>1, <1>5, <2>2, <2>3, NullIsNoThread DEF InLine, Turn, WriterHolds
  <2>6. InLine(c, a, b, "writer")'
    BY <2>2, <2>3, <2>4, <2>5 DEF InLine
  <2> QED BY <1>3, <2>2, <2>6 DEF ChainInv, Orderly, Turns
<1> QED BY <1>0, <1>1, <1>4, <1>5 DEF TakeHead

\* The assertion at line 134 throws while the writer holds a thread: the line is lost.
LEMMA HeldIsLost ==
  ASSUME TypeInv, ChainInv, wpc = "write", wP # Null, wpc' = "unwind",
         134 \in failed', UNCHANGED <<chainVars, pc, dNext, dCanRun>>
  PROVE  ChainInv'
<1>1. wP \in Threads /\ WriterHolds(wP)
  BY DEF TypeInv, TypeOK, WriterType, WriterHolds
<1>2. ~Lost
  BY <1>1 DEF Lost, Turn
<1>3. PICK c \in [Nat -> Threads \cup {Null}], a \in Nat, b \in Nat, k \in Turns :
        InLine(c, a, b, k)
  BY <1>2 DEF ChainInv, Orderly
<1>4. k = "writer"
  BY <1>1, <1>3 DEF InLine, Turn
<1>5. nextToAdd' # Null
  BY <1>3, <1>4, FrontInLine DEF chainVars
<1>6. Turn("nobody", Null)'
  BY <1>3, <1>4 DEF InLine, Turn, WriterHolds, chainVars
<1>7. ChainBroken'
  BY DEF ChainBroken
<1>8. Fresh' /\ OneKind'
  BY DEF ChainInv, Fresh, OneKind
<1> QED BY <1>5, <1>6, <1>7, <1>8 DEF ChainInv, Lost

\* The writer lets the thread it holds run.
LEMMA HeldIsTold ==
  ASSUME TypeInv, ChainInv, ReleaseChain
  PROVE  ChainInv'
<1>0. dCanRun \in [Threads -> BOOLEAN] /\ wP \in Threads /\ WriterHolds(wP)
  BY DEF TypeInv, TypeOK, FlagType, WriterType, WriterHasTarget, ReleaseChain, WriterHolds
<1>1. /\ wpc' \in {"wait", "check"} /\ dCanRun' = [dCanRun EXCEPT ![wP] = TRUE]
      /\ UNCHANGED <<firstToRelease, nextToAdd, dNext, pc>>
  BY DEF ReleaseChain, chainVars
<1>2. ~Lost
  BY <1>0 DEF Lost, Turn
<1>3. PICK c \in [Nat -> Threads \cup {Null}], a \in Nat, b \in Nat, k \in Turns :
        InLine(c, a, b, k)
  BY <1>2 DEF ChainInv, Orderly
<1>4. k = "writer" /\ c[a] = wP
  BY <1>0, <1>3 DEF InLine, Turn
<1>5. Queued' = Queued
  BY <1>1 DEF Queued
<1>6. Line(c, a, b)'
  BY <1>1, <1>3, <1>5, LineKept DEF InLine
<1>7. Turn("told", c[a])'
  <2>1. \A t \in Threads : ~WriterHolds(t)'
    BY <1>1 DEF WriterHolds
  <2> QED BY <1>0, <1>1, <1>3, <1>4, <2>1 DEF InLine, Turn
<1>8. InLine(c, a, b, "told")'
  BY <1>3, <1>4, <1>6, <1>7 DEF InLine
<1>9. Fresh' /\ OneKind'
  BY <1>1 DEF ChainInv, Fresh, OneKind
<1> QED BY <1>3, <1>8, <1>9 DEF ChainInv, Orderly, Turns

(***************************************************************************)
(* The chain always                                                         *)
(***************************************************************************)
\* Nobody is queued at first.
LEMMA InitChain == Init => ChainInv
<1> SUFFICES ASSUME Init PROVE ChainInv
  OBVIOUS
<1>1. /\ pc = [t \in Threads |-> "idle"] /\ dCanRun = [t \in Threads |-> FALSE]
      /\ firstToRelease = Null /\ nextToAdd = Null /\ wpc \in {"wait", "created"}
  BY DEF Init
<1> DEFINE c == [i \in Nat |-> Null]
<1>2. Line(c, 0, 0)
  BY <1>1 DEF Line, Queued
<1>3. Turn("nobody", c[0])
  BY <1>1, NullIsNoThread DEF Turn, WriterHolds
<1>4. InLine(c, 0, 0, "nobody")
  BY <1>2, <1>3 DEF InLine
<1>5. Fresh /\ OneKind
  BY <1>1 DEF Fresh, OneKind
<1>6. c \in [Nat -> Threads \cup {Null}]
  OBVIOUS
<1> HIDE DEF c
<1> QED BY <1>4, <1>5, <1>6 DEF ChainInv, Orderly, Turns

\* Every section of addMsg, runLoop_ and the owners keeps the line and the turn.
LEMMA NextChain == TypeInv /\ ChainInv /\ [Next]_vars => ChainInv'
<1> SUFFICES ASSUME TypeInv, ChainInv, [Next]_vars PROVE ChainInv'
  OBVIOUS
<1> USE DEF ringVars, guarVars, ctlVars, callVars, dVars, wVars, fileVars,
            skipVars, loggerVars
<1>1. ASSUME NEW t \in Threads, Call(t) PROVE ChainInv'
  <2>1. /\ pc[t] = "idle" /\ pc' = [pc EXCEPT ![t] = "enter"]
        /\ dNext' = [dNext EXCEPT ![t] = Null] /\ dCanRun' = [dCanRun EXCEPT ![t] = FALSE]
        /\ UNCHANGED <<chainVars, wpc, wP, wG, failed>>
    BY <1>1 DEF Call
  <2>2. dNext'[t] = Null /\ dCanRun'[t] = FALSE
    BY <2>1 DEF TypeInv, TypeOK, ChainType, FlagType
  <2>3. \A u \in Threads : u # t => dNext'[u] = dNext[u] /\ dCanRun'[u] = dCanRun[u]
    BY <2>1 DEF TypeInv, TypeOK, ChainType, FlagType
  <2> QED BY <2>1, <2>2, <2>3, BystanderStep
<1>2. ASSUME NEW t \in Threads, AddMsgRefused(t) PROVE ChainInv'
  <2>1. PICK x \in {"idle", "stuck"} : pc' = [pc EXCEPT ![t] = x]
    BY <1>2 DEF AddMsgRefused, Throw
  <2>2. /\ pc[t] = "enter" /\ failed \subseteq failed'
        /\ UNCHANGED <<chainVars, wpc, wP, wG, dNext, dCanRun>>
    BY <1>2 DEF AddMsgRefused, Throw
  <2> QED BY <2>1, <2>2, BystanderStep
<1>3. ASSUME NEW t \in Threads, AddMsgSkip(t) PROVE ChainInv'
  <2>1. /\ pc[t] = "enter" /\ pc' = [pc EXCEPT ![t] = "idle"]
        /\ UNCHANGED <<chainVars, wpc, wP, wG, dNext, dCanRun, failed>>
    BY <1>3 DEF AddMsgSkip
  <2> QED BY <2>1, BystanderStep
<1>4. ASSUME NEW t \in Threads, AddMsgQueue(t) PROVE ChainInv'
  BY <1>4, JoinsLine
<1>5. ASSUME NEW t \in Threads, AddMsgCopy(t) PROVE ChainInv'
  <2>1. PICK x \in {"waitWrite", "idle", "stuck"} : pc' = [pc EXCEPT ![t] = x]
    BY <1>5 DEF AddMsgCopy, Throw
  <2>2. /\ pc[t] = "enter" /\ failed \subseteq failed'
        /\ UNCHANGED <<chainVars, wpc, wP, wG, dNext, dCanRun>>
    BY <1>5 DEF AddMsgCopy, Throw
  <2> QED BY <2>1, <2>2, BystanderStep
<1>6. ASSUME NEW t \in Threads, GuaranteedReturn(t) PROVE ChainInv'
  <2>1. /\ pc[t] = "waitWrite" /\ pc' = [pc EXCEPT ![t] = "idle"]
        /\ UNCHANGED <<chainVars, wpc, wP, wG, dNext, dCanRun, failed>>
    BY <1>6 DEF GuaranteedReturn
  <2> QED BY <2>1, BystanderStep
<1>7. ASSUME NEW t \in Threads, ChainWake(t) PROVE ChainInv'
  BY <1>7, FrontWakes
<1>8. ASSUME NEW t \in Threads, ChainWaitAgain(t) PROVE ChainInv'
  BY <1>8, FrontWaitsAgain
<1>9. ASSUME NEW t \in Threads, ChainInsert(t) PROVE ChainInv'
  BY <1>9, FrontInserts
<1>10. ASSUME NEW t \in Threads, HandOver(t) PROVE ChainInv'
  BY <1>10, FrontIsTold
<1>11. CASE WriterStart
  BY <1>11, WriterStepAside DEF WriterStart, WriterHolds, OneKind
<1>12. CASE WriterWake
  BY <1>12, WriterStepAside DEF WriterWake, WriterHolds, OneKind
<1>13. CASE WriterSnapshot
  BY <1>13, HeadIsTaken
<1>14. CASE JustWrite
  <2>1. CASE wG # Null /\ wP # Null
    BY <1>14, <2>1, HeldIsLost DEF JustWrite
  <2>2. CASE wG = Null \/ wP = Null
    <3>1. /\ wpc = "write" /\ wpc' = "advance"
          /\ UNCHANGED <<chainVars, pc, dNext, dCanRun, wP, wG, failed>>
      BY <1>14, <2>2 DEF JustWrite
    <3>2. OneKind' /\ \A t \in Threads : WriterHolds(t)' <=> WriterHolds(t)
      BY <2>2, <3>1 DEF OneKind, WriterHolds
    <3> QED BY <3>1, <3>2, WriterStepAside
  <2> QED BY <2>1, <2>2
<1>15. CASE WriterAdvance
  <2>1. /\ wpc = "advance" /\ wpc' = AfterWrite(wG)
        /\ UNCHANGED <<chainVars, pc, dNext, dCanRun, wP, wG, failed>>
    BY <1>15 DEF WriterAdvance
  <2>2. OneKind' /\ \A t \in Threads : WriterHolds(t)' <=> WriterHolds(t)
    BY <2>1, NullIsNoThread DEF ChainInv, OneKind, WriterHolds, AfterWrite
  <2> QED BY <2>1, <2>2, WriterStepAside
<1>16. CASE ReleaseGuaranteed
  <2>1. /\ wpc = "release" /\ wpc' \in {"next", "unwind"} /\ failed \subseteq failed'
        /\ UNCHANGED <<chainVars, pc, dNext, dCanRun, wP, wG>>
    BY <1>16 DEF ReleaseGuaranteed
  <2>2. wP = Null
    BY <2>1 DEF TypeInv, WriterHasTarget, ChainInv, OneKind
  <2>3. OneKind' /\ \A t \in Threads : WriterHolds(t)' <=> WriterHolds(t)
    BY <2>1, <2>2, NullIsNoThread DEF OneKind, WriterHolds
  <2> QED BY <2>1, <2>3, WriterStepAside
<1>17. CASE NextGuaranteed
  <2>1. /\ wpc = "next" /\ UNCHANGED <<chainVars, pc, dNext, dCanRun, wP, failed>>
    BY <1>17 DEF NextGuaranteed
  <2>2. wP = Null
    BY <2>1 DEF TypeInv, WriterHasTarget, ChainInv, OneKind
  <2>3. OneKind' /\ \A t \in Threads : WriterHolds(t)' <=> WriterHolds(t)
    BY <2>1, <2>2, NullIsNoThread DEF OneKind, WriterHolds
  <2> QED BY <2>1, <2>3, WriterStepAside
<1>18. CASE ReleaseChain
  BY <1>18, HeldIsTold
<1>19. CASE TerminateIfAlone
  BY <1>19, WriterStepAside DEF TerminateIfAlone, WriterHolds, OneKind
<1>20. CASE WriterUnwind
  BY <1>20, WriterStepAside DEF WriterUnwind, WriterHolds, OneKind
<1>21. ASSUME NEW a \in Phases, SetPhase(a) PROVE ChainInv'
  BY <1>21, WriterStepAside DEF SetPhase, WriterHolds, ChainInv, OneKind
<1>22. ASSUME NEW g \in Droppable, DropTransport(g) PROVE ChainInv'
  BY <1>22, WriterStepAside DEF DropTransport, WriterHolds, ChainInv, OneKind
<1>23. ASSUME NEW l \in GuaranteedLevels, SetGuaranteedLevel(l) PROVE ChainInv'
  BY <1>23, WriterStepAside DEF SetGuaranteedLevel, WriterHolds, ChainInv, OneKind
<1>24. ASSUME NEW l \in CriticalLevels, SetCriticalLevel(l) PROVE ChainInv'
  BY <1>24, WriterStepAside DEF SetCriticalLevel, WriterHolds, ChainInv, OneKind
<1>25. CASE UNCHANGED vars
  BY <1>25, WriterStepAside DEF vars, WriterHolds, ChainInv, OneKind
<1> QED BY <1>1, <1>2, <1>3, <1>4, <1>5, <1>6, <1>7, <1>8, <1>9, <1>10, <1>11, <1>12, <1>13,
           <1>14, <1>15, <1>16, <1>17, <1>18, <1>19, <1>20, <1>21, <1>22, <1>23, <1>24, <1>25
       DEF Next, Logger, LoggerResume, Writer, Owner

\* The chain invariant holds in every reachable state.
LEMMA ChainAlways == Spec => [](TypeInv /\ ChainInv)
<1>1. Init => TypeInv /\ ChainInv
  BY InitType, InitChain
<1>2. TypeInv /\ ChainInv /\ [Next]_vars => (TypeInv /\ ChainInv)'
  BY NextType, NextChain
<1> QED BY <1>1, <1>2, PTL DEF Spec

\* Without a tail there is no line.
LEMMA NoTailNoLine ==
  ASSUME TypeInv, ChainInv, nextToAdd = Null
  PROVE  Queued = {} /\ firstToRelease = Null
<1>1. ~Lost
  BY DEF Lost
<1>2. PICK c \in [Nat -> Threads \cup {Null}], a \in Nat, b \in Nat, k \in Turns :
        InLine(c, a, b, k)
  BY <1>1 DEF ChainInv, Orderly
<1>3. k = "nobody" /\ a = b
  BY <1>2, FrontInLine DEF InLine
<1>4. Queued = {}
  BY <1>2, <1>3 DEF InLine, Line
<1>5. firstToRelease = Null
  BY <1>2, <1>3 DEF InLine, Turn, TypeInv, TypeOK, ChainType
<1> QED BY <1>4, <1>5

\* None of the assertions about the chain can fail.
LEMMA ChainImpliesAssertions ==
  ASSUME TypeInv, ChainInv
  PROVE  ChainAssertions
<1>1. nextToAdd = Null => firstToRelease = Null
  BY NoTailNoLine
<1>2. CASE Lost
  <2>1. wpc = "releaseChain" => wP \in Threads /\ WriterHolds(wP)
    BY DEF TypeInv, TypeOK, WriterType, WriterHasTarget, WriterHolds
  <2> QED BY <1>1, <1>2, <2>1 DEF Lost, Turn, ChainAssertions
<1>3. CASE Orderly
  <2>1. PICK c \in [Nat -> Threads \cup {Null}], a \in Nat, b \in Nat, k \in Turns :
          InLine(c, a, b, k)
    BY <1>3 DEF Orderly
  <2>2. wpc = "releaseChain" => ~dCanRun[wP]
    <3>1. wpc = "releaseChain" => wP \in Threads /\ WriterHolds(wP)
      BY DEF TypeInv, TypeOK, WriterType, WriterHasTarget, WriterHolds
    <3>2. \A t \in Threads : dCanRun[t] \in BOOLEAN
      BY DEF TypeInv, TypeOK, FlagType
    <3> QED BY <2>1, <3>1, <3>2 DEF InLine, Turn
  <2>3. ASSUME NEW t \in Threads, pc[t] = "released"
        PROVE  /\ firstToRelease = Null /\ nextToAdd # Null
               /\ (nextToAdd = t) <=> (dNext[t] = Null)
    <3>1. k = "runs" /\ c[a] = t
      BY <2>1, <2>3 DEF InLine, Turn
    <3>2. a < b /\ nextToAdd # Null
      BY <2>1, <3>1, FrontInLine
    <3>3. firstToRelease = Null
      BY <2>1, <3>1 DEF InLine, Turn, TypeInv, TypeOK, ChainType
    <3>4. /\ dNext[t] = IF a = b - 1 THEN Null ELSE c[a + 1]
          /\ nextToAdd = c[b - 1] /\ (nextToAdd = t <=> a = b - 1)
      BY <2>1, <3>1, <3>2 DEF InLine, Line
    <3>5. a # b - 1 => c[a + 1] \in Threads
      BY <2>1, <3>2 DEF InLine, Line, Queued
    <3> QED BY <3>2, <3>3, <3>4, <3>5, NullIsNoThread
  <2>4. ASSUME NEW t \in Threads, pc[t] = "handOver" PROVE ~dCanRun[dNext[t]]
    <3>1. k = "before" /\ dNext[t] = c[a]
      BY <2>1, <2>4 DEF InLine, Turn
    <3>2. c[a] \in Threads
      BY <2>1, <3>1, FrontInLine DEF Queued
    <3>3. dCanRun[c[a]] \in BOOLEAN
      BY <3>2 DEF TypeInv, TypeOK, FlagType
    <3> QED BY <2>1, <3>1, <3>2, <3>3 DEF InLine, Turn
  <2> QED BY <1>1, <2>2, <2>3, <2>4 DEF ChainAssertions
<1> QED BY <1>2, <1>3 DEF ChainInv

\* The thread before one in line is the one linked to it; before the front there is only
\* a thread that has left the line and has still to tell it.
LEMMA BehindInLine ==
  ASSUME TypeInv, NEW c \in [Nat -> Threads \cup {Null}], NEW a \in Nat, NEW b \in Nat,
         NEW k \in Turns, InLine(c, a, b, k), NEW j \in a .. b - 1
  PROVE  /\ j > a => Behind(c[j]) = {c[j - 1]} /\ c[j] # c[a]
         /\ j = a => Behind(c[j]) = {u \in Threads : pc[u] = "handOver"}
<1>1. \A i \in a .. b - 1 : c[i] \in Queued /\ c[i] \in Threads /\ c[i] # Null
  BY NullIsNoThread DEF InLine, Line, Queued
<1>2. \A u \in Threads : pc[u] = "handOver" => dNext[u] = c[a]
  BY DEF InLine, Turn
<1>3. \A u \in Queued : \E i \in a .. b - 1 :
        u = c[i] /\ dNext[u] = IF i = b - 1 THEN Null ELSE c[i + 1]
  <2>1. /\ \A u \in Queued : \E i \in a .. b - 1 : u = c[i]
        /\ \A i \in a .. b - 1 : dNext[c[i]] = IF i = b - 1 THEN Null ELSE c[i + 1]
    BY DEF InLine, Line
  <2> SUFFICES ASSUME NEW u \in Queued
               PROVE  \E i \in a .. b - 1 :
                        u = c[i] /\ dNext[u] = IF i = b - 1 THEN Null ELSE c[i + 1]
    OBVIOUS
  <2>2. PICK i \in a .. b - 1 : u = c[i]
    BY <2>1
  <2>3. dNext[u] = IF i = b - 1 THEN Null ELSE c[i + 1]
    BY <2>1, <2>2
  <2> QED BY <2>2, <2>3
<1>4. ASSUME NEW u \in Queued, dNext[u] = c[j] PROVE j > a /\ u = c[j - 1]
  <2>1. PICK i \in a .. b - 1 : u = c[i] /\ dNext[u] = IF i = b - 1 THEN Null ELSE c[i + 1]
    BY <1>3
  <2>2. i # b - 1 /\ c[i + 1] = c[j]
    BY <1>1, <1>4, <2>1
  <2>3. i + 1 = j
    BY <2>1, <2>2 DEF InLine, Line
  <2> QED BY <2>1, <2>3
<1>5. ASSUME j > a PROVE Behind(c[j]) = {c[j - 1]} /\ c[j] # c[a]
  <2>1. c[j] # c[a]
    BY <1>5 DEF InLine, Line
  <2>2. j - 1 \in a .. b - 2 /\ c[j - 1] \in Queued /\ dNext[c[j - 1]] = c[j]
    BY <1>1, <1>5 DEF InLine, Line
  <2>3. c[j - 1] \in Behind(c[j])
    BY <2>2 DEF Behind, Queued
  <2>4. ASSUME NEW u \in Behind(c[j]) PROVE u = c[j - 1]
    <3>1. u \in Threads /\ dNext[u] = c[j] /\ (u \in Queued \/ pc[u] = "handOver")
      BY <2>4 DEF Behind, Queued
    <3> QED BY <1>2, <1>4, <2>1, <3>1
  <2> QED BY <2>1, <2>3, <2>4
<1>6. ASSUME j = a PROVE Behind(c[j]) = {u \in Threads : pc[u] = "handOver"}
  <2>1. ASSUME NEW u \in Behind(c[j]) PROVE u \in Threads /\ pc[u] = "handOver"
    <3>1. u \in Threads /\ dNext[u] = c[j] /\ (u \in Queued \/ pc[u] = "handOver")
      BY <2>1 DEF Behind, Queued
    <3> QED BY <1>4, <1>6, <3>1
  <2>2. ASSUME NEW u \in Threads, pc[u] = "handOver" PROVE u \in Behind(c[j])
    BY <1>2, <1>6, <2>2 DEF Behind
  <2> QED BY <2>1, <2>2
<1> QED BY <1>5, <1>6

\* Each queued thread has one waker, and only the front is behind nobody.
LEMMA ChainImpliesOneWaker ==
  ASSUME TypeInv, ChainInv
  PROVE  OneWaker
<1> SUFFICES ASSUME ~ChainBroken
             PROVE  /\ \A t \in Queued : Wakers(t) = 1
                    /\ \A t, u \in Queued : Behind(t) = {} /\ Behind(u) = {} => t = u
  BY DEF OneWaker
<1>1. PICK c \in [Nat -> Threads \cup {Null}], a \in Nat, b \in Nat, k \in Turns :
        InLine(c, a, b, k)
  BY DEF ChainInv, Lost, Orderly
<1>2. \A t \in Queued : \E j \in a .. b - 1 : t = c[j]
  BY <1>1 DEF InLine, Line
<1>3. ASSUME NEW t \in Queued PROVE Wakers(t) = 1
  <2> DEFINE Parties == {x \in {"head", "writer", "told", "runs"} :
               \/ x = "head" /\ firstToRelease = t
               \/ x = "writer" /\ WriterHolds(t)
               \/ x = "told" /\ dCanRun[t]
               \/ x = "runs" /\ pc[t] = "released"}
  <2>1. Wakers(t) = Cardinality(Behind(t)) + Cardinality(Parties)
    BY DEF Wakers
  <2>2. t \in Threads /\ dCanRun[t] \in BOOLEAN
    BY DEF Queued, TypeInv, TypeOK, FlagType
  <2>3. PICK j \in a .. b - 1 : t = c[j]
    BY <1>2
  <2>4. ASSUME Cardinality(Behind(t)) = 1, Cardinality(Parties) = 0 PROVE Wakers(t) = 1
    <3> HIDE DEF Parties
    <3> QED BY <2>1, <2>4
  <2>5. CASE j > a
    <3>1. Behind(t) = {c[j - 1]} /\ t # c[a]
      BY <1>1, <2>3, <2>5, BehindInLine
    <3>2. firstToRelease # t /\ ~WriterHolds(t) /\ ~dCanRun[t] /\ pc[t] # "released"
      BY <1>1, <2>2, <3>1 DEF InLine, Turn
    <3>3. Parties = {}
      BY <3>2
    <3>4. Cardinality(Behind(t)) = 1
      BY <3>1, FS_Singleton
    <3>5. Cardinality(Parties) = 0
      BY <3>3, FS_EmptySet
    <3> QED BY <2>4, <3>4, <3>5
  <2>6. CASE j = a /\ k = "before"
    <3>1. PICK u \in Threads : pc[u] = "handOver"
      BY <1>1, <2>6 DEF InLine, Turn
    <3>2. \A v \in Threads : pc[v] = "handOver" => v = u
      BY <1>1, <3>1 DEF InLine, Turn
    <3>3. Behind(t) = {v \in Threads : pc[v] = "handOver"}
      BY <1>1, <2>3, <2>6, BehindInLine
    <3>4. Behind(t) = {u}
      BY <3>1, <3>2, <3>3
    <3>5. firstToRelease # t /\ ~WriterHolds(t) /\ ~dCanRun[t] /\ pc[t] # "released"
      BY <1>1, <2>2, <2>6 DEF InLine, Turn
    <3>6. Parties = {}
      BY <3>5
    <3>7. Cardinality(Behind(t)) = 1
      BY <3>4, FS_Singleton
    <3>8. Cardinality(Parties) = 0
      BY <3>6, FS_EmptySet
    <3> QED BY <2>4, <3>7, <3>8
  <2>7. CASE j = a /\ k # "before"
    <3>1. \A v \in Threads : pc[v] # "handOver"
      BY <1>1, <2>7 DEF InLine, Turn
    <3>2. Behind(t) = {}
      BY <1>1, <2>3, <2>7, <3>1, BehindInLine
    <3>3. k \in {"head", "writer", "told", "runs"}
      BY <1>1, <2>3, <2>7 DEF InLine, Turns
    <3>4. /\ firstToRelease = t <=> k = "head"
          /\ WriterHolds(t) <=> k = "writer"
          /\ dCanRun[t] <=> k = "told"
          /\ pc[t] = "released" <=> k = "runs"
      BY <1>1, <2>2, <2>3, <2>7 DEF InLine, Turn
    <3>5. Parties = {k}
      BY <3>3, <3>4
    <3>6. Cardinality(Behind(t)) = 0
      BY <3>2, FS_EmptySet
    <3>7. Cardinality(Parties) = 1
      BY <3>5, FS_Singleton
    <3> HIDE DEF Parties
    <3> QED BY <2>1, <3>6, <3>7
  <2> QED BY <2>3, <2>5, <2>6, <2>7
<1>4. ASSUME NEW t \in Queued, NEW u \in Queued, Behind(t) = {}, Behind(u) = {} PROVE t = u
  <2>1. PICK i \in a .. b - 1 : t = c[i]
    BY <1>2
  <2>2. PICK j \in a .. b - 1 : u = c[j]
    BY <1>2
  <2>3. ~(i > a)
    <3>1. i > a => Behind(c[i]) = {c[i - 1]}
      BY <1>1, BehindInLine
    <3> QED BY <1>4, <2>1, <3>1
  <2>4. ~(j > a)
    <3>1. j > a => Behind(c[j]) = {c[j - 1]}
      BY <1>1, BehindInLine
    <3> QED BY <1>4, <2>2, <3>1
  <2>5. i = j
    BY <2>3, <2>4
  <2> QED BY <2>1, <2>2, <2>5
<1> QED BY <1>3, <1>4

\* A call that inserts at once found nobody queued.
LEMMA InsertsInTurn ==
  ASSUME TypeInv, ChainInv, [Next]_vars, NEW t \in Threads,
         pc[t] = "enter", end' # end, pc'[t] # "enter"
  PROVE  Queued = {}
<1>1. \E u \in Threads : AddMsgCopy(u) \/ ChainInsert(u)
  <2> USE DEF ringVars
  <2>1. ASSUME NEW u \in Threads, Logger(u) PROVE AddMsgCopy(u) \/ ChainInsert(u)
    <3>1. ~Call(u) /\ ~AddMsgRefused(u) /\ ~AddMsgSkip(u) /\ ~AddMsgQueue(u)
      BY DEF Call, AddMsgRefused, AddMsgSkip, AddMsgQueue
    <3>2. ~GuaranteedReturn(u) /\ ~ChainWake(u) /\ ~ChainWaitAgain(u) /\ ~HandOver(u)
      BY DEF GuaranteedReturn, ChainWake, ChainWaitAgain, HandOver
    <3> QED BY <2>1, <3>1, <3>2 DEF Logger, LoggerResume
  <2>2. ~Writer
    <3>1. ~WriterStart /\ ~WriterWake /\ ~WriterSnapshot /\ ~JustWrite /\ ~WriterAdvance
      BY DEF WriterStart, WriterWake, WriterSnapshot, JustWrite, WriterAdvance
    <3>2. ~ReleaseGuaranteed /\ ~NextGuaranteed /\ ~ReleaseChain
      BY DEF ReleaseGuaranteed, NextGuaranteed, ReleaseChain
    <3>3. ~TerminateIfAlone /\ ~WriterUnwind
      BY DEF TerminateIfAlone, WriterUnwind
    <3> QED BY <3>1, <3>2, <3>3 DEF Writer
  <2>3. ~Owner
    <3>1. \A a \in Phases : ~SetPhase(a)
      BY DEF SetPhase
    <3>2. \A g \in Droppable : ~DropTransport(g)
      BY DEF DropTransport
    <3>3. \A l \in GuaranteedLevels : ~SetGuaranteedLevel(l)
      BY DEF SetGuaranteedLevel
    <3>4. \A l \in CriticalLevels : ~SetCriticalLevel(l)
      BY DEF SetCriticalLevel
    <3> QED BY <3>1, <3>2, <3>3, <3>4 DEF Owner
  <2>4. ~UNCHANGED vars
    BY DEF vars
  <2> QED BY <2>1, <2>2, <2>3, <2>4 DEF Next
<1>2. PICK u \in Threads : AddMsgCopy(u) \/ ChainInsert(u)
  BY <1>1
<1>3. CASE AddMsgCopy(u)
  BY <1>3, NoTailNoLine DEF AddMsgCopy
<1>4. CASE ChainInsert(u)
  <2>1. pc[u] = "released" /\ \E x : pc' = [pc EXCEPT ![u] = x]
    BY <1>4 DEF ChainInsert, Throw
  <2>2. pc \in [Threads -> {"idle", "enter", "waitWrite", "chained", "released",
                             "handOver", "stuck"}]
    BY DEF TypeInv, TypeOK, CallType
  <2> QED BY <2>1, <2>2
<1> QED BY <1>2, <1>3, <1>4

\* However loggers and the writer interleave, the assertions of addMsg and runLoop_ about
\* the chain of queued threads hold: the chain is never found broken by those who use it.
THEOREM ChainAssertionsHold == Spec => []ChainAssertions
<1>1. TypeInv /\ ChainInv => ChainAssertions
  BY ChainImpliesAssertions
<1> QED BY <1>1, ChainAlways, PTL

\* Until an assertion throws in the middle of a release, every queued thread has exactly
\* one party that will let it run: no wake-up is lost and none is given twice.
THEOREM OneWakerAlways == Spec => []OneWaker
<1>1. TypeInv /\ ChainInv => OneWaker
  BY ChainImpliesOneWaker
<1> QED BY <1>1, ChainAlways, PTL

\* No call inserts its message at once while a thread that came before it waits for room.
THEOREM NobodyOvertakes == Spec => NoOvertaking
<1>1. TypeInv /\ ChainInv /\ [Next]_vars =>
        [\A t \in Threads : pc[t] = "enter" /\ end' # end /\ pc'[t] # "enter"
           => ChainBroken \/ Queued = {}]_vars
  BY InsertsInTurn
<1> QED BY <1>1, ChainAlways, PTL DEF Spec, NoOvertaking
=============================================================================
