--------------------------- MODULE LogBufferProofs ---------------------------
(***************************************************************************)
(* Theorems about LogBuffer for every number of threads and transports and  *)
(* every size of buffer and messages the assumptions of LogBuffer allow.    *)
(***************************************************************************)
EXTENDS LogBuffer, FiniteSetTheorems, TLAPS

(***************************************************************************)
(* Arithmetic of the ring                                                   *)
(***************************************************************************)
LEMMA BuffSizePositive == BuffSize \in Nat \ {0}
BY SizeAssumption

\* Reducing a position modulo the buffer size gives a cell.
LEMMA MaskIsCell == ASSUME NEW x \in Int PROVE Mask(x) \in Cells
BY BuffSizePositive DEF Mask, Cells

\* The position is a whole number of buffers away from its cell.
LEMMA MaskQuotient ==
  ASSUME NEW x \in Int
  PROVE  \E q \in Int : x = BuffSize * q + Mask(x)
<1>1. x \div BuffSize \in Int /\ x = BuffSize * (x \div BuffSize) + (x % BuffSize)
  BY BuffSizePositive
<1> QED BY <1>1 DEF Mask

\* Two positions that fit into the buffer together and share a cell are the same.
LEMMA MaskUnique ==
  ASSUME NEW x \in Int, NEW q \in Int, NEW r \in Cells, x = BuffSize * q + r
  PROVE  Mask(x) = r
BY BuffSizePositive DEF Mask, Cells

\* Between -BuffSize and BuffSize the only multiple of BuffSize is 0.
LEMMA MultipleBelow ==
  ASSUME NEW q \in Int, q < 0
  PROVE  BuffSize * q \in Int /\ BuffSize * q <= - BuffSize
BY BuffSizePositive

\* Copying n units in behind `end` keeps what was live and adds the new units, if
\* they fit into the available size.
LEMMA CopyKeepsLiveData ==
  ASSUME start \in Nat, end \in Nat, start <= end, NEW n \in Nat,
         end - start + n <= BuffSize,
         \A p \in start .. end - 1 : buff[Mask(p)] = p
  PROVE  \A p \in start .. end + n - 1 : CopiedIn(n)[Mask(p)] = p
<1> SUFFICES ASSUME NEW p \in start .. end + n - 1 PROVE CopiedIn(n)[Mask(p)] = p
  OBVIOUS
<1> DEFINE i == Mask(p)
           k == Mask(i - end)
<1>1. i \in Cells /\ i \in Int /\ k \in Cells /\ k \in Int /\ p \in Int /\ i - end \in Int
  BY MaskIsCell DEF Cells
<1>2. CopiedIn(n)[i] = IF k < n THEN end + k ELSE buff[i]
  BY <1>1 DEF CopiedIn
<1>3. PICK q \in Int : p = BuffSize * q + i
  BY <1>1, MaskQuotient
<1>4. PICK s \in Int : i - end = BuffSize * s + k
  BY <1>1, MaskQuotient
<1>5. CASE p < end
  <2>1. p = BuffSize * (q + s) + end + k
    BY <1>1, <1>3, <1>4, BuffSizePositive
  <2>2. q + s < 0
    <3> SUFFICES ASSUME q + s >= 0 PROVE FALSE
      OBVIOUS
    <3>1. BuffSize * (q + s) >= 0 /\ BuffSize * (q + s) \in Int
      BY BuffSizePositive
    <3> HIDE DEF k, i
    <3> QED BY <1>1, <2>1, <3>1, <1>5 DEF Cells
  <2>3. BuffSize * (q + s) <= - BuffSize /\ BuffSize * (q + s) \in Int
    BY <2>2, MultipleBelow
  <2>4. ~(k < n)
    <3> HIDE DEF k, i
    <3> QED BY <1>1, <2>1, <2>3, BuffSizePositive DEF Cells
  <2> QED BY <1>2, <1>5, <2>4
<1>6. CASE p >= end
  <2>1. p - end \in Cells
    BY <1>6, BuffSizePositive DEF Cells
  <2>2. i - end = BuffSize * (-q) + (p - end)
    BY <1>1, <1>3, BuffSizePositive
  <2>3. k = p - end
    BY <1>1, <2>1, <2>2, MaskUnique
  <2> QED BY <1>2, <2>3, <1>6
<1> QED BY <1>1, <1>5, <1>6

(***************************************************************************)
(* Types                                                                    *)
(***************************************************************************)
\* Where the writer dereferences gww or p, it has one.
WriterHasTarget ==
  /\ wpc \in {"release", "next"} => wG # Null
  /\ wpc = "releaseChain" => wP # Null
TypeInv ==
  /\ TypeOK
  /\ WriterHasTarget

\* Changing a function at one place keeps its type.
LEMMA UpdateType ==
  ASSUME NEW S, NEW T, NEW f \in [S -> T], NEW x, NEW v \in T
  PROVE  [f EXCEPT ![x] = v] \in [S -> T]
OBVIOUS

\* The constructors of LogBufferBaseData, LogTransport and LogWriter set well-typed values.
LEMMA InitType == Init => TypeInv
<1> SUFFICES ASSUME Init PROVE TypeInv
  OBVIOUS
<1>1. Cardinality(Transports) \in Nat
  BY ControlAssumption, FS_CardinalityType
<1>2. refCounter \in 0 .. RefModulus - 1
  BY <1>1, ControlAssumption DEF Init
<1>3. RingType /\ SkipType
  BY DEF Init, RingType, SkipType
<1>4. ChainType /\ GuaranteedType
  BY DEF Init, ChainType, GuaranteedType
<1>5. CallType
  <2> DEFINE none == [lvl |-> 4, sz |-> 1, crit |-> FALSE]
  <2>1. none \in Message
    BY SizeAssumption DEF Level, Message
  <2>2. msg = [t \in Threads |-> none]
    BY DEF Init
  <2>3. msg \in [Threads -> Message]
    <3> HIDE DEF none
    <3> QED BY <2>1, <2>2
  <2>4. /\ pc = [t \in Threads |-> "idle"]
        /\ calls = [t \in Threads |-> 0] /\ msgEnd = [t \in Threads |-> 0]
    BY DEF Init
  <2> QED BY <2>3, <2>4 DEF CallType
<1>6. WriterType /\ WriterHasTarget
  BY DEF Init, WriterType, WriterHasTarget
<1>7. ControlType
  <2>1. /\ action = "proceed" /\ levelCouldBeSkipped = 3 /\ levelGuaranteedWrite = 0
        /\ alive = Transports /\ failed = {}
    BY DEF Init
  <2> QED BY <1>2, <2>1 DEF ControlType, Level
<1>8. FlagType
  BY DEF Init, FlagType
<1> QED BY <1>3, <1>4, <1>5, <1>6, <1>7, <1>8 DEF TypeInv, TypeOK

\* justWrite never sends a negative number of units.
LEMMA WriteLengthType ==
  ASSUME NEW s \in Nat, NEW e \in Nat
  PROVE  WriteLength(s, e) \in Nat
<1>1. Mask(s) \in Cells /\ Mask(e) \in Cells
  BY MaskIsCell
<1> QED BY <1>1, BuffSizePositive DEF WriteLength, Cells

\* What toStr returns for a counter is a number of units.
LEMMA ReportType ==
  ASSUME NEW count \in Nat, NEW r \in Reports(count)
  PROVE  r \in Nat
BY SizeAssumption DEF Reports

\* insertMessage keeps the types of what it changes.
LEMMA InsertType ==
  ASSUME TypeInv, NEW t \in Threads, NEW r \in Nat, NEW crit, InsertMessage(t, r, crit)
  PROVE  /\ start' \in Nat /\ end' \in Nat /\ mustBe' \in Nat
         /\ buff' \in [Cells -> Nat \cup {Null}]
         /\ GuaranteedType' /\ gwwCanRun' = gwwCanRun
<1> DEFINE n == Inserted(t, r)
<1>1. RingType /\ CallType /\ GuaranteedType
  BY DEF TypeInv, TypeOK
<1>2. msg[t].sz \in Nat
  BY <1>1, SizeAssumption DEF CallType, Message
<1>3. n \in Nat
  BY <1>2 DEF Inserted
<1>4. start' = start /\ end' = end + n /\ buff' = CopiedIn(n) /\ mustBe' \in {mustBe, end + n}
  BY DEF InsertMessage, InsertRing
<1>5. CopiedIn(n) \in [Cells -> Nat \cup {Null}]
  <2> SUFFICES ASSUME NEW i \in Cells
               PROVE  (IF Mask(i - end) < n THEN end + Mask(i - end) ELSE buff[i])
                      \in Nat \cup {Null}
    BY DEF CopiedIn
  <2>1. end \in Nat /\ buff[i] \in Nat \cup {Null}
    BY <1>1 DEF RingType
  <2>2. Mask(i - end) \in Cells
    BY <2>1, MaskIsCell DEF Cells
  <2>3. Mask(i - end) \in Nat
    BY <2>2 DEF Cells
  <2> HIDE DEF n
  <2> QED BY <2>1, <2>3
<1>6. GuaranteedType' /\ gwwCanRun' = gwwCanRun
  <2>1. TransportOf[t] \in Transports
    BY ThreadsAssumption
  <2>2. CASE AppendGuaranteed(TransportOf[t])
    BY <1>1, <2>1, <2>2 DEF AppendGuaranteed, GuaranteedType
  <2>3. CASE UNCHANGED guarVars
    BY <1>1, <2>3 DEF guarVars, GuaranteedType
  <2> QED BY <2>2, <2>3 DEF InsertMessage
<1> HIDE DEF n
<1> QED BY <1>1, <1>3, <1>4, <1>5, <1>6 DEF RingType

\* The line of another assertion that threw is noted.
LEMMA FailedGrows ==
  ASSUME failed \in SUBSET Lines, NEW line \in Lines
  PROVE  failed \cup {line} \in SUBSET Lines
OBVIOUS

\* The lines of the assertions.
LEMMA LineNumbers == {134, 148, 273, 301, 334} \subseteq Lines
BY DEF Lines

\* Every section of addMsg, runLoop_ and the owners keeps the types.
LEMMA NextType == TypeInv /\ [Next]_vars => TypeInv'
<1> SUFFICES ASSUME TypeInv, [Next]_vars PROVE TypeInv'
  OBVIOUS
<1>0. /\ RingType /\ SkipType /\ ChainType /\ GuaranteedType /\ CallType
      /\ WriterType /\ ControlType /\ FlagType /\ WriterHasTarget
  BY DEF TypeInv, TypeOK
<1> USE <1>0 DEF ringVars, chainVars, guarVars, ctlVars, callVars, dVars, wVars, fileVars,
                  skipVars, loggerVars
<1>1. ASSUME NEW t \in Threads, Call(t) PROVE TypeInv'
  <2>1. RingType' /\ GuaranteedType' /\ WriterType' /\ ControlType'
    BY <1>1 DEF Call, RingType, GuaranteedType, WriterType, ControlType
  <2>2. SkipType'
    BY <1>1 DEF Call, SkipType
  <2>3. ChainType'
    BY <1>1 DEF Call, ChainType
  <2>4. CallType'
    <3>1. PICK l \in LevelsOf[t], n \in MsgSizes :
             msg' = [msg EXCEPT ![t] = [lvl |-> l, sz |-> n, crit |-> l <= levelGuaranteedWrite]]
      BY <1>1 DEF Call
    <3>2. [lvl |-> l, sz |-> n, crit |-> l <= levelGuaranteedWrite] \in Message
      BY ThreadsAssumption, SizeAssumption DEF Message
    <3>3. msg' \in [Threads -> Message]
      BY <3>1, <3>2, UpdateType DEF CallType
    <3>4. /\ pc' = [pc EXCEPT ![t] = "enter"] /\ calls' = [calls EXCEPT ![t] = @ + 1]
          /\ msgEnd' = msgEnd
      BY <1>1 DEF Call
    <3> QED BY <3>3, <3>4 DEF CallType
  <2>5. FlagType'
    BY <1>1 DEF Call, FlagType
  <2>6. WriterHasTarget'
    BY <1>1 DEF Call, WriterHasTarget
  <2> QED BY <2>1, <2>2, <2>3, <2>4, <2>5, <2>6 DEF TypeInv, TypeOK
<1>2. ASSUME NEW t \in Threads, AddMsgRefused(t) PROVE TypeInv'
  <2>1. RingType' /\ SkipType' /\ ChainType' /\ GuaranteedType' /\ WriterType'
    BY <1>2 DEF AddMsgRefused, RingType, SkipType, ChainType, GuaranteedType, WriterType
  <2>2. CallType'
    BY <1>2 DEF AddMsgRefused, CallType, Throw
  <2>3. ControlType'
    BY <1>2 DEF AddMsgRefused, ControlType, Throw, Lines
  <2>4. FlagType'
    BY <1>2 DEF AddMsgRefused, FlagType, Throw
  <2>5. WriterHasTarget'
    BY <1>2 DEF AddMsgRefused, WriterHasTarget
  <2> QED BY <2>1, <2>2, <2>3, <2>4, <2>5 DEF TypeInv, TypeOK
<1>3. ASSUME NEW t \in Threads, AddMsgSkip(t) PROVE TypeInv'
  <2>1. RingType' /\ ChainType' /\ GuaranteedType' /\ WriterType' /\ ControlType'
    BY <1>3 DEF AddMsgSkip, RingType, ChainType, GuaranteedType, WriterType, ControlType,
                FlagType
  <2>2. FlagType'
    BY <1>3 DEF AddMsgSkip, FlagType
  <2>3. SkipType'
    BY <1>3 DEF AddMsgSkip, SkipType
  <2>4. CallType'
    BY <1>3 DEF AddMsgSkip, CallType
  <2>5. WriterHasTarget'
    BY <1>3 DEF AddMsgSkip, WriterHasTarget
  <2> QED BY <2>1, <2>2, <2>3, <2>4, <2>5 DEF TypeInv, TypeOK
<1>4. ASSUME NEW t \in Threads, AddMsgQueue(t) PROVE TypeInv'
  <2>1. RingType' /\ SkipType' /\ GuaranteedType' /\ WriterType' /\ ControlType'
    BY <1>4 DEF AddMsgQueue, RingType, SkipType, GuaranteedType, WriterType, ControlType,
                FlagType
  <2>2. FlagType'
    BY <1>4 DEF AddMsgQueue, FlagType
  <2>3. ChainType'
    BY <1>4 DEF AddMsgQueue, ChainType
  <2>4. CallType'
    BY <1>4 DEF AddMsgQueue, CallType
  <2>5. WriterHasTarget'
    BY <1>4 DEF AddMsgQueue, WriterHasTarget
  <2> QED BY <2>1, <2>2, <2>3, <2>4, <2>5 DEF TypeInv, TypeOK
<1>5. ASSUME NEW t \in Threads, AddMsgCopy(t) PROVE TypeInv'
  <2>1. PICK r \in Reports(skipped) :
          /\ InsertMessage(t, r, msg[t].crit)
          /\ skipped' = Cleared(r, skipped)
          /\ reported' = reported + ReportedNow(r, skipped)
          /\ msgEnd' = [msgEnd EXCEPT ![t] = end']
          /\ IF InsertFails(t, r, msg[t].crit) = 0
               THEN /\ pc' = [pc EXCEPT ![t] = IF msg[t].crit THEN "waitWrite" ELSE "idle"]
                    /\ UNCHANGED <<mxHeld, failed>>
               ELSE Throw(t, InsertFails(t, r, msg[t].crit))
    BY <1>5 DEF AddMsgCopy
  <2>2. r \in Nat
    BY ReportType DEF SkipType
  <2>3. /\ start' \in Nat /\ end' \in Nat /\ mustBe' \in Nat
        /\ buff' \in [Cells -> Nat \cup {Null}]
        /\ GuaranteedType' /\ gwwCanRun' = gwwCanRun
    BY <2>1, <2>2, InsertType
  <2>4. UNCHANGED <<chainVars, ctlVars, callVars, dVars, wVars, fileVars, dropped, ub>>
    BY <1>5 DEF AddMsgCopy
  <2>5. RingType'
    BY <2>3, <2>4 DEF RingType
  <2>6. SkipType'
    BY <2>1, <2>4 DEF SkipType, Cleared, ReportedNow
  <2>7. ChainType' /\ WriterType' /\ WriterHasTarget'
    BY <2>4 DEF ChainType, WriterType, WriterHasTarget
  <2>8. CallType'
    <3>1. \E x \in {"idle", "waitWrite", "stuck"} : pc' = [pc EXCEPT ![t] = x]
      BY <2>1 DEF Throw
    <3> QED BY <2>1, <2>3, <2>4, <3>1 DEF CallType
  <2>9. ControlType'
    <3>1. failed' \in SUBSET Lines
      BY <2>1 DEF Throw, InsertFails, Lines, ControlType
    <3> QED BY <2>4, <3>1 DEF ControlType
  <2>10. FlagType'
    <3>1. mxHeld' \in BOOLEAN
      BY <2>1 DEF Throw, FlagType
    <3> QED BY <2>3, <2>4, <3>1 DEF FlagType
  <2> QED BY <2>3, <2>5, <2>6, <2>7, <2>8, <2>9, <2>10 DEF TypeInv, TypeOK
<1>6. ASSUME NEW t \in Threads, GuaranteedReturn(t) PROVE TypeInv'
  <2>1. RingType' /\ SkipType' /\ ChainType' /\ GuaranteedType' /\ WriterType' /\ ControlType'
    BY <1>6 DEF GuaranteedReturn, RingType, SkipType, ChainType, GuaranteedType, WriterType,
                ControlType
  <2>2. CallType'
    BY <1>6 DEF GuaranteedReturn, CallType
  <2>3. FlagType'
    BY <1>6 DEF GuaranteedReturn, FlagType
  <2>4. WriterHasTarget'
    BY <1>6 DEF GuaranteedReturn, WriterHasTarget
  <2> QED BY <2>1, <2>2, <2>3, <2>4 DEF TypeInv, TypeOK
<1>7. ASSUME NEW t \in Threads, ChainWake(t) PROVE TypeInv'
  <2>1. RingType' /\ SkipType' /\ ChainType' /\ GuaranteedType' /\ WriterType' /\ ControlType'
    BY <1>7 DEF ChainWake, RingType, SkipType, ChainType, GuaranteedType, WriterType,
                ControlType
  <2>2. CallType'
    BY <1>7 DEF ChainWake, CallType
  <2>3. FlagType'
    BY <1>7 DEF ChainWake, FlagType
  <2>4. WriterHasTarget'
    BY <1>7 DEF ChainWake, WriterHasTarget
  <2> QED BY <2>1, <2>2, <2>3, <2>4 DEF TypeInv, TypeOK
<1>8. ASSUME NEW t \in Threads, ChainWaitAgain(t) PROVE TypeInv'
  <2>1. RingType' /\ SkipType' /\ GuaranteedType' /\ WriterType' /\ ControlType'
    BY <1>8 DEF ChainWaitAgain, RingType, SkipType, GuaranteedType, WriterType, ControlType,
                FlagType
  <2>2. FlagType'
    BY <1>8 DEF ChainWaitAgain, FlagType
  <2>3. ChainType'
    BY <1>8 DEF ChainWaitAgain, ChainType
  <2>4. CallType'
    BY <1>8 DEF ChainWaitAgain, CallType
  <2>5. WriterHasTarget'
    BY <1>8 DEF ChainWaitAgain, WriterHasTarget
  <2> QED BY <2>1, <2>2, <2>3, <2>4, <2>5 DEF TypeInv, TypeOK
<1>9. ASSUME NEW t \in Threads, ChainInsert(t) PROVE TypeInv'
  <2> DEFINE crit == msg[t].lvl <= levelGuaranteedWrite
  <2>1. PICK r \in Reports(dSkipped[t]) :
          /\ InsertMessage(t, r, crit)
          /\ dSkipped' = [dSkipped EXCEPT ![t] = Cleared(r, @)]
          /\ reported' = reported + ReportedNow(r, dSkipped[t])
          /\ msgEnd' = [msgEnd EXCEPT ![t] = end']
          /\ IF InsertFails(t, r, crit) = 0
               THEN /\ nextToAdd' = TailAfter(t)
                    /\ pc' = [pc EXCEPT ![t] = IF dNext[t] = Null THEN "idle" ELSE "handOver"]
                    /\ UNCHANGED <<mxHeld, failed>>
               ELSE Throw(t, InsertFails(t, r, crit)) /\ UNCHANGED nextToAdd
    BY <1>9 DEF ChainInsert
  <2> HIDE DEF crit
  <2>2. dSkipped[t] \in Nat /\ r \in Nat
    BY ReportType DEF SkipType
  <2>3. /\ start' \in Nat /\ end' \in Nat /\ mustBe' \in Nat
        /\ buff' \in [Cells -> Nat \cup {Null}]
        /\ GuaranteedType' /\ gwwCanRun' = gwwCanRun
    BY <2>1, <2>2, InsertType
  <2>4. UNCHANGED <<firstToRelease, ctlVars, callVars, dNext, dCanRun, wVars, fileVars,
                    skipped, dropped, ub>>
    BY <1>9 DEF ChainInsert
  <2>5. RingType'
    BY <2>3, <2>4 DEF RingType
  <2>6. SkipType'
    BY <2>1, <2>2, <2>4 DEF SkipType, Cleared, ReportedNow
  <2>7. ChainType' /\ WriterType' /\ WriterHasTarget'
    BY <2>1, <2>4 DEF ChainType, TailAfter, WriterType, WriterHasTarget
  <2>8. CallType'
    <3>1. \E x \in {"idle", "handOver", "stuck"} : pc' = [pc EXCEPT ![t] = x]
      BY <2>1 DEF Throw
    <3> QED BY <2>1, <2>3, <2>4, <3>1 DEF CallType
  <2>9. ControlType'
    <3>1. failed' \in SUBSET Lines
      BY <2>1 DEF Throw, InsertFails, Lines, ControlType
    <3> QED BY <2>4, <3>1 DEF ControlType
  <2>10. FlagType'
    <3>1. mxHeld' \in BOOLEAN
      BY <2>1 DEF Throw, FlagType
    <3> QED BY <2>3, <2>4, <3>1 DEF FlagType
  <2> QED BY <2>3, <2>5, <2>6, <2>7, <2>8, <2>9, <2>10 DEF TypeInv, TypeOK
<1>10. ASSUME NEW t \in Threads, HandOver(t) PROVE TypeInv'
  <2>1. RingType' /\ SkipType' /\ ChainType' /\ GuaranteedType' /\ WriterType' /\ ControlType'
    BY <1>10 DEF HandOver, RingType, SkipType, ChainType, GuaranteedType, WriterType,
                 ControlType
  <2>2. CallType'
    BY <1>10 DEF HandOver, CallType
  <2>3. FlagType'
    BY <1>10 DEF HandOver, FlagType
  <2>4. WriterHasTarget'
    BY <1>10 DEF HandOver, WriterHasTarget
  <2> QED BY <2>1, <2>2, <2>3, <2>4 DEF TypeInv, TypeOK
<1>11. CASE WriterStart
  <2>1. RingType' /\ SkipType' /\ ChainType' /\ GuaranteedType' /\ CallType'
    BY <1>11 DEF WriterStart, RingType, SkipType, ChainType, GuaranteedType, CallType, FlagType
  <2>2. FlagType'
    BY <1>11 DEF WriterStart, FlagType
  <2>3. WriterType'
    BY <1>11 DEF WriterStart, WriterType
  <2>4. ControlType'
    BY <1>11, ControlAssumption DEF WriterStart, ControlType
  <2>5. WriterHasTarget'
    BY <1>11 DEF WriterStart, WriterHasTarget
  <2> QED BY <2>1, <2>2, <2>3, <2>4, <2>5 DEF TypeInv, TypeOK
<1>12. CASE WriterWake
  <2>1. RingType' /\ SkipType' /\ ChainType' /\ GuaranteedType' /\ CallType' /\ ControlType'
    BY <1>12 DEF WriterWake, RingType, SkipType, ChainType, GuaranteedType, CallType,
                 ControlType, FlagType
  <2>2. FlagType'
    BY <1>12 DEF WriterWake, FlagType
  <2>3. WriterType'
    BY <1>12 DEF WriterWake, WriterType
  <2>4. WriterHasTarget'
    BY <1>12 DEF WriterWake, WriterHasTarget
  <2> QED BY <2>1, <2>2, <2>3, <2>4 DEF TypeInv, TypeOK
<1>13. CASE WriterSnapshot
  <2>1. RingType' /\ SkipType' /\ CallType' /\ ControlType'
    BY <1>13 DEF WriterSnapshot, RingType, SkipType, CallType, ControlType, FlagType
  <2>2. FlagType'
    BY <1>13 DEF WriterSnapshot, FlagType
  <2>3. ChainType'
    BY <1>13 DEF WriterSnapshot, TakeHead, ChainType
  <2>4. GuaranteedType'
    BY <1>13 DEF WriterSnapshot, GuaranteedType
  <2>5. WriterType'
    BY <1>13 DEF WriterSnapshot, TakeHead, WriterType, RingType, ChainType, GuaranteedType
  <2>6. WriterHasTarget'
    BY <1>13 DEF WriterSnapshot, WriterHasTarget
  <2> QED BY <2>1, <2>2, <2>3, <2>4, <2>5, <2>6 DEF TypeInv, TypeOK
<1>14. CASE JustWrite
  <2>1. SkipType' /\ ChainType' /\ GuaranteedType' /\ CallType'
    BY <1>14 DEF JustWrite, SkipType, ChainType, GuaranteedType, CallType
  <2>2. RingType'
    <3>1. WriteLength(wStart, wEnd) \in Nat
      BY WriteLengthType DEF WriterType
    <3> QED BY <1>14, <3>1 DEF JustWrite, RingType
  <2>3. WriterType'
    BY <1>14 DEF JustWrite, WriterType
  <2>4. ControlType'
    <3>1. failed' = failed \/ failed' = failed \cup {134}
      BY <1>14 DEF JustWrite
    <3>2. UNCHANGED ctlVars
      BY <1>14 DEF JustWrite
    <3> QED BY <3>1, <3>2, FailedGrows, LineNumbers DEF ControlType
  <2>5. FlagType'
    BY <1>14 DEF JustWrite, FlagType
  <2>6. WriterHasTarget'
    BY <1>14 DEF JustWrite, WriterHasTarget
  <2> QED BY <2>1, <2>2, <2>3, <2>4, <2>5, <2>6 DEF TypeInv, TypeOK
<1>15. CASE WriterAdvance
  <2>1. SkipType' /\ ChainType' /\ GuaranteedType' /\ CallType' /\ ControlType'
    BY <1>15 DEF WriterAdvance, SkipType, ChainType, GuaranteedType, CallType, ControlType,
                 FlagType
  <2>2. FlagType'
    BY <1>15 DEF WriterAdvance, FlagType
  <2>3. RingType'
    BY <1>15 DEF WriterAdvance, RingType, WriterType
  <2>4. WriterType'
    BY <1>15 DEF WriterAdvance, WriterType, AfterWrite
  <2>5. WriterHasTarget'
    BY <1>15 DEF WriterAdvance, WriterHasTarget, AfterWrite
  <2> QED BY <2>1, <2>2, <2>3, <2>4, <2>5 DEF TypeInv, TypeOK
<1>16. CASE ReleaseGuaranteed
  <2>1. RingType' /\ SkipType' /\ ChainType' /\ GuaranteedType' /\ CallType'
    BY <1>16 DEF ReleaseGuaranteed, RingType, SkipType, ChainType, GuaranteedType, CallType
  <2>2. WriterType'
    BY <1>16 DEF ReleaseGuaranteed, WriterType
  <2>3. ControlType'
    <3>1. failed' = failed \/ failed' = failed \cup {148}
      BY <1>16 DEF ReleaseGuaranteed
    <3>2. UNCHANGED ctlVars
      BY <1>16 DEF ReleaseGuaranteed
    <3> QED BY <3>1, <3>2, FailedGrows, LineNumbers DEF ControlType
  <2>4. FlagType'
    BY <1>16 DEF ReleaseGuaranteed, FlagType
  <2>5. WriterHasTarget'
    BY <1>16 DEF ReleaseGuaranteed, WriterHasTarget
  <2> QED BY <2>1, <2>2, <2>3, <2>4, <2>5 DEF TypeInv, TypeOK
<1>17. CASE NextGuaranteed
  <2>1. RingType' /\ SkipType' /\ ChainType' /\ GuaranteedType' /\ CallType' /\ ControlType'
    BY <1>17 DEF NextGuaranteed, RingType, SkipType, ChainType, GuaranteedType, CallType,
                 ControlType
  <2>2. WriterType'
    BY <1>17 DEF NextGuaranteed, WriterType, AfterWrite, GuaranteedType, WriterHasTarget
  <2>3. FlagType'
    BY <1>17 DEF NextGuaranteed, FlagType
  <2>4. WriterHasTarget'
    BY <1>17 DEF NextGuaranteed, WriterHasTarget, AfterWrite
  <2> QED BY <2>1, <2>2, <2>3, <2>4 DEF TypeInv, TypeOK
<1>18. CASE ReleaseChain
  <2>1. RingType' /\ SkipType' /\ ChainType' /\ GuaranteedType' /\ CallType' /\ ControlType'
    BY <1>18 DEF ReleaseChain, RingType, SkipType, ChainType, GuaranteedType, CallType,
                 ControlType
  <2>2. WriterType'
    BY <1>18 DEF ReleaseChain, WriterType
  <2>3. FlagType'
    BY <1>18 DEF ReleaseChain, FlagType
  <2>4. WriterHasTarget'
    BY <1>18 DEF ReleaseChain, WriterHasTarget
  <2> QED BY <2>1, <2>2, <2>3, <2>4 DEF TypeInv, TypeOK
<1>19. CASE TerminateIfAlone
  <2>1. RingType' /\ SkipType' /\ ChainType' /\ GuaranteedType' /\ CallType'
    BY <1>19 DEF TerminateIfAlone, RingType, SkipType, ChainType, GuaranteedType, CallType
  <2>2. WriterType'
    BY <1>19 DEF TerminateIfAlone, WriterType
  <2>3. ControlType'
    BY <1>19, ControlAssumption DEF TerminateIfAlone, ControlType
  <2>4. FlagType'
    BY <1>19 DEF TerminateIfAlone, FlagType
  <2>5. WriterHasTarget'
    BY <1>19 DEF TerminateIfAlone, WriterHasTarget
  <2> QED BY <2>1, <2>2, <2>3, <2>4, <2>5 DEF TypeInv, TypeOK
<1>20. CASE WriterUnwind
  <2>1. RingType' /\ SkipType' /\ ChainType' /\ GuaranteedType' /\ CallType'
    BY <1>20 DEF WriterUnwind, RingType, SkipType, ChainType, GuaranteedType, CallType
  <2>2. WriterType'
    BY <1>20 DEF WriterUnwind, WriterType
  <2>3. ControlType'
    BY <1>20, ControlAssumption DEF WriterUnwind, ControlType, RemoveRef, RefsAfterRemoval
  <2>4. FlagType'
    BY <1>20 DEF WriterUnwind, FlagType, RemoveRef
  <2>5. WriterHasTarget'
    BY <1>20 DEF WriterUnwind, WriterHasTarget
  <2> QED BY <2>1, <2>2, <2>3, <2>4, <2>5 DEF TypeInv, TypeOK
<1>21. ASSUME NEW a \in Phases, SetPhase(a) PROVE TypeInv'
  <2>1. RingType' /\ SkipType' /\ ChainType' /\ GuaranteedType' /\ CallType' /\ WriterType'
    BY <1>21 DEF SetPhase, RingType, SkipType, ChainType, GuaranteedType, CallType,
                 WriterType, FlagType
  <2>2. FlagType'
    BY <1>21 DEF SetPhase, FlagType
  <2>3. ControlType'
    BY <1>21, ControlAssumption DEF SetPhase, ControlType
  <2>4. WriterHasTarget'
    BY <1>21 DEF SetPhase, WriterHasTarget
  <2> QED BY <2>1, <2>2, <2>3, <2>4 DEF TypeInv, TypeOK
<1>22. ASSUME NEW g \in Droppable, DropTransport(g) PROVE TypeInv'
  <2>1. RingType' /\ SkipType' /\ ChainType' /\ GuaranteedType' /\ CallType' /\ WriterType'
    BY <1>22 DEF DropTransport, RingType, SkipType, ChainType, GuaranteedType, CallType,
                 WriterType
  <2>2. ControlType'
    BY <1>22, ControlAssumption DEF DropTransport, ControlType, RemoveRef, RefsAfterRemoval
  <2>3. FlagType'
    BY <1>22 DEF DropTransport, FlagType, RemoveRef
  <2>4. WriterHasTarget'
    BY <1>22 DEF DropTransport, WriterHasTarget
  <2> QED BY <2>1, <2>2, <2>3, <2>4 DEF TypeInv, TypeOK
<1>23. ASSUME NEW l \in GuaranteedLevels, SetGuaranteedLevel(l) PROVE TypeInv'
  <2>1. RingType' /\ SkipType' /\ ChainType' /\ GuaranteedType' /\ CallType' /\ WriterType'
    BY <1>23 DEF SetGuaranteedLevel, RingType, SkipType, ChainType, GuaranteedType, CallType,
                 WriterType, FlagType
  <2>2. FlagType'
    BY <1>23 DEF SetGuaranteedLevel, FlagType
  <2>3. ControlType'
    BY <1>23, ControlAssumption DEF SetGuaranteedLevel, ControlType, Level
  <2>4. WriterHasTarget'
    BY <1>23 DEF SetGuaranteedLevel, WriterHasTarget
  <2> QED BY <2>1, <2>2, <2>3, <2>4 DEF TypeInv, TypeOK
<1>24. ASSUME NEW l \in CriticalLevels, SetCriticalLevel(l) PROVE TypeInv'
  <2>1. RingType' /\ SkipType' /\ ChainType' /\ GuaranteedType' /\ CallType' /\ WriterType'
    BY <1>24 DEF SetCriticalLevel, RingType, SkipType, ChainType, GuaranteedType, CallType,
                 WriterType, FlagType
  <2>2. FlagType'
    BY <1>24 DEF SetCriticalLevel, FlagType
  <2>3. ControlType'
    BY <1>24, ControlAssumption DEF SetCriticalLevel, ControlType, Level
  <2>4. WriterHasTarget'
    BY <1>24 DEF SetCriticalLevel, WriterHasTarget
  <2> QED BY <2>1, <2>2, <2>3, <2>4 DEF TypeInv, TypeOK
<1>25. CASE UNCHANGED vars
  BY <1>25 DEF vars, TypeInv, TypeOK, RingType, SkipType, ChainType, GuaranteedType,
               CallType, WriterType, ControlType, FlagType, WriterHasTarget
<1> QED BY <1>1, <1>2, <1>3, <1>4, <1>5, <1>6, <1>7, <1>8, <1>9, <1>10, <1>11, <1>12, <1>13,
         <1>14, <1>15, <1>16, <1>17, <1>18, <1>19, <1>20, <1>21, <1>22, <1>23, <1>24, <1>25
       DEF Next, Logger, LoggerResume, Writer, Owner

\* Every reachable state is well typed, however the threads are scheduled.
THEOREM TypeCorrect == Spec => []TypeOK
<1>1. TypeInv => TypeOK
  BY DEF TypeInv
<1> QED BY <1>1, InitType, NextType, PTL DEF Spec

(***************************************************************************)
(* The ring and the guaranteed writes                                       *)
(***************************************************************************)
\* The inductive invariant: besides the properties themselves, no write is owed
\* behind the end of the stream and no cell is ahead of it.
RingInv ==
  /\ LiveDataIntact /\ SnapshotStable /\ FreedSpaceIsWritten /\ GuaranteedAssertions
  /\ mustBe <= end
  /\ \A i \in Cells : buff[i] # Null => buff[i] < end

\* justWrite sends exactly the range when it is not empty and fits into the buffer.
LEMMA WriteLengthExact ==
  ASSUME NEW s \in Nat, NEW e \in Nat, s < e, e - s <= BuffSize
  PROVE  WriteLength(s, e) = e - s
<1> DEFINE d == e - s
           m == Mask(s)
<1>1. m \in Cells /\ d \in 1 .. BuffSize /\ e = s + d
  BY MaskIsCell, BuffSizePositive
<1>2. PICK q \in Int : s = BuffSize * q + m
  BY MaskQuotient
<1>3. BuffSize * q \in Int /\ BuffSize * (q + 1) = BuffSize * q + BuffSize
  BY BuffSizePositive
<1>4. CASE m + d < BuffSize
  <2>1. e = BuffSize * q + (m + d) /\ m + d \in Cells
    <3> HIDE DEF m, d
    <3> QED BY <1>1, <1>2, <1>3, <1>4, BuffSizePositive DEF Cells
  <2>2. Mask(e) = m + d
    BY <2>1, MaskUnique
  <2> QED BY <1>1, <2>2 DEF WriteLength, Cells
<1>5. CASE m + d >= BuffSize
  <2>1. e = BuffSize * (q + 1) + (m + d - BuffSize) /\ m + d - BuffSize \in Cells
    <3> HIDE DEF m, d
    <3> QED BY <1>1, <1>2, <1>3, <1>5, BuffSizePositive DEF Cells
  <2>2. Mask(e) = m + d - BuffSize
    BY <2>1, MaskUnique
  <2> QED BY <1>1, <2>2, BuffSizePositive DEF WriteLength, Cells
<1> HIDE DEF m
<1> QED BY <1>1, <1>4, <1>5, BuffSizePositive DEF Cells

\* The empty buffer satisfies the ring invariant.
LEMMA InitRing == Init => RingInv
BY BuffSizePositive, ThreadsAssumption
   DEF Init, RingInv, LiveDataIntact, SnapshotStable, FreedSpaceIsWritten,
       GuaranteedAssertions, Writing

\* Steps that touch neither the ring, nor the list of guaranteed writes, nor the
\* writer's range, and do not move the writer into or out of its write.
LEMMA RingFrame ==
  ASSUME RingInv,
         UNCHANGED <<start, end, mustBe, buff, written, firstToReleaseGuaranteed,
                     nextToAddGuaranteed, wStart, wEnd, wMust>>,
         \/ UNCHANGED <<wpc, wG>>
         \/ ~Writing /\ ~Writing'
  PROVE  RingInv'
BY DEF RingInv, LiveDataIntact, SnapshotStable, FreedSpaceIsWritten,
       GuaranteedAssertions, Writing

\* insertMessage, whichever of its assertions throws.
LEMMA InsertRingInv ==
  ASSUME TypeInv, RingInv, NEW t \in Threads, NEW r \in Nat, NEW crit,
         InsertMessage(t, r, crit), UNCHANGED <<wVars, written>>
  PROVE  RingInv'
<1> DEFINE n == Inserted(t, r)
<1>1. /\ start \in Nat /\ end \in Nat /\ mustBe \in Nat /\ wEnd \in Nat
      /\ msg[t].sz \in Nat /\ msg[t].sz > 0
      /\ start <= end /\ end - start <= BuffSize
  BY SizeAssumption
  DEF TypeInv, TypeOK, RingType, WriterType, CallType, Message, RingInv, LiveDataIntact
<1>2. n \in Nat /\ end - start + n <= BuffSize
  BY <1>1, BuffSizePositive DEF Inserted, AvailableSize
<1>3. /\ start' = start /\ end' = end + n /\ buff' = CopiedIn(n)
      /\ mustBe' = IF n = r + msg[t].sz /\ Registers(crit) THEN end + n ELSE mustBe
  BY DEF InsertMessage, InsertRing
<1>4. LiveDataIntact'
  <2>1. \A p \in start .. end + n - 1 : CopiedIn(n)[Mask(p)] = p
    BY <1>1, <1>2, CopyKeepsLiveData DEF RingInv, LiveDataIntact
  <2> HIDE DEF n
  <2> QED BY <1>1, <1>2, <1>3, <2>1, BuffSizePositive DEF LiveDataIntact, Mask
<1>5. mustBe <= mustBe' /\ mustBe' <= end'
  <2> HIDE DEF n
  <2> QED BY <1>1, <1>2, <1>3 DEF RingInv
<1>6. SnapshotStable' /\ FreedSpaceIsWritten'
  <2> HIDE DEF n
  <2> QED BY <1>1, <1>2, <1>3 DEF RingInv, SnapshotStable, FreedSpaceIsWritten, Writing, wVars
<1>7. GuaranteedAssertions'
  <2>1. CASE UNCHANGED <<firstToReleaseGuaranteed, nextToAddGuaranteed>>
    BY <1>1, <1>3, <1>5, <2>1 DEF RingInv, GuaranteedAssertions, Writing, wVars
  <2>2. CASE Registers(crit) /\ InsertFails(t, r, crit) = 0 /\ AppendGuaranteed(TransportOf[t])
    <3>1. n = r + msg[t].sz
      BY <1>1, <2>2, BuffSizePositive DEF InsertFails, Inserted, AvailableSize
    <3>2. mustBe' = end + n /\ n > 0
      BY <1>1, <1>3, <2>2, <3>1
    <3>3. mustBe' > (IF Writing THEN wEnd ELSE start)
      <4> HIDE DEF n
      <4> QED BY <1>1, <1>2, <3>2 DEF RingInv, SnapshotStable
    <3>4. nextToAddGuaranteed' # Null /\ firstToReleaseGuaranteed' # Null
      BY <2>2, ThreadsAssumption DEF AppendGuaranteed, RingInv, GuaranteedAssertions
    <3> QED BY <1>3, <3>3, <3>4 DEF RingInv, GuaranteedAssertions, Writing, wVars
  <2> QED BY <2>1, <2>2 DEF InsertMessage, guarVars
<1>8. \A i \in Cells : buff'[i] # Null => buff'[i] < end'
  <2> SUFFICES ASSUME NEW i \in Cells, CopiedIn(n)[i] # Null PROVE CopiedIn(n)[i] < end + n
    BY <1>3
  <2>1. Mask(i - end) \in Nat
    BY <1>1, MaskIsCell DEF Cells
  <2>2. CopiedIn(n)[i] = IF Mask(i - end) < n THEN end + Mask(i - end) ELSE buff[i]
    BY DEF CopiedIn
  <2>3. buff[i] # Null => buff[i] \in Nat /\ buff[i] < end
    BY DEF RingInv, TypeInv, TypeOK, RingType
  <2> HIDE DEF n
  <2> QED BY <1>1, <1>2, <2>1, <2>2, <2>3
<1> QED BY <1>4, <1>5, <1>6, <1>7, <1>8 DEF RingInv

\* Every section of addMsg, runLoop_ and the owners keeps the ring invariant.
LEMMA NextRing == TypeInv /\ RingInv /\ [Next]_vars => RingInv'
<1> SUFFICES ASSUME TypeInv, RingInv, [Next]_vars PROVE RingInv'
  OBVIOUS
<1>0. RingType /\ WriterType /\ GuaranteedType /\ SkipType
  BY DEF TypeInv, TypeOK
<1> USE DEF ringVars, chainVars, guarVars, ctlVars, callVars, dVars, wVars, fileVars,
            skipVars, loggerVars
<1>1. ASSUME NEW t \in Threads, Call(t) PROVE RingInv'
  BY <1>1, RingFrame DEF Call
<1>2. ASSUME NEW t \in Threads, AddMsgRefused(t) PROVE RingInv'
  BY <1>2, RingFrame DEF AddMsgRefused
<1>3. ASSUME NEW t \in Threads, AddMsgSkip(t) PROVE RingInv'
  BY <1>3, RingFrame DEF AddMsgSkip
<1>4. ASSUME NEW t \in Threads, AddMsgQueue(t) PROVE RingInv'
  BY <1>4, RingFrame DEF AddMsgQueue
<1>5. ASSUME NEW t \in Threads, GuaranteedReturn(t) PROVE RingInv'
  BY <1>5, RingFrame DEF GuaranteedReturn
<1>6. ASSUME NEW t \in Threads, ChainWake(t) PROVE RingInv'
  BY <1>6, RingFrame DEF ChainWake
<1>7. ASSUME NEW t \in Threads, ChainWaitAgain(t) PROVE RingInv'
  BY <1>7, RingFrame DEF ChainWaitAgain
<1>8. ASSUME NEW t \in Threads, HandOver(t) PROVE RingInv'
  BY <1>8, RingFrame DEF HandOver
<1>9. ASSUME NEW t \in Threads, AddMsgCopy(t) PROVE RingInv'
  <2>1. PICK r \in Reports(skipped) : InsertMessage(t, r, msg[t].crit)
    BY <1>9 DEF AddMsgCopy
  <2>2. r \in Nat
    BY <1>0, ReportType DEF SkipType
  <2>3. UNCHANGED <<wVars, written>>
    BY <1>9 DEF AddMsgCopy
  <2> QED BY <2>1, <2>2, <2>3, InsertRingInv
<1>10. ASSUME NEW t \in Threads, ChainInsert(t) PROVE RingInv'
  <2>1. PICK r \in Reports(dSkipped[t]) :
          InsertMessage(t, r, msg[t].lvl <= levelGuaranteedWrite)
    BY <1>10 DEF ChainInsert
  <2>2. r \in Nat
    BY <1>0, ReportType DEF SkipType
  <2>3. UNCHANGED <<wVars, written>>
    BY <1>10 DEF ChainInsert
  <2> QED BY <2>1, <2>2, <2>3, InsertRingInv
<1>11. CASE WriterStart
  BY <1>11, RingFrame DEF WriterStart, Writing
<1>12. CASE WriterWake
  BY <1>12, RingFrame DEF WriterWake, Writing
<1>13. CASE ReleaseGuaranteed
  BY <1>13, RingFrame DEF ReleaseGuaranteed, Writing
<1>14. CASE NextGuaranteed
  BY <1>14, RingFrame DEF NextGuaranteed, Writing, AfterWrite
<1>15. CASE ReleaseChain
  BY <1>15, RingFrame DEF ReleaseChain, Writing
<1>16. CASE TerminateIfAlone
  BY <1>16, RingFrame DEF TerminateIfAlone, Writing
<1>17. CASE WriterUnwind
  BY <1>17, RingFrame DEF WriterUnwind, Writing
<1>18. CASE WriterSnapshot
  <2>1. /\ wStart' = start /\ wEnd' = end /\ wMust' = mustBe /\ wpc' = "write"
        /\ wG' = firstToReleaseGuaranteed /\ firstToReleaseGuaranteed' = Null
        /\ nextToAddGuaranteed' = Null /\ wpc = "snapshot"
        /\ UNCHANGED <<start, end, mustBe, buff, written>>
    BY <1>18 DEF WriterSnapshot
  <2> QED BY <1>0, <2>1 DEF RingInv, RingType, LiveDataIntact, SnapshotStable,
              FreedSpaceIsWritten, GuaranteedAssertions, Writing
<1>19. CASE JustWrite
  <2>1. /\ wpc = "write"
        /\ UNCHANGED <<start, end, mustBe, buff, wStart, wEnd, wMust, wG,
                       firstToReleaseGuaranteed, nextToAddGuaranteed>>
    BY <1>19 DEF JustWrite
  <2>2. CASE wpc' = "unwind" /\ written' = written
    BY <1>0, <2>1, <2>2 DEF RingInv, RingType, LiveDataIntact, SnapshotStable,
              FreedSpaceIsWritten, GuaranteedAssertions, Writing, WriterType
  <2>3. CASE /\ wpc' = "advance"
             /\ written' = IF NextInLine(wStart, wEnd)
                             THEN written + WriteLength(wStart, wEnd) ELSE written
    <3>1. /\ wStart = start /\ written = start /\ wEnd \in start .. end
          /\ start \in Nat /\ wEnd \in Nat /\ end \in Nat /\ end - start <= BuffSize
      BY <1>0, <2>1 DEF RingInv, SnapshotStable, FreedSpaceIsWritten, LiveDataIntact,
                        Writing, RingType, WriterType
    <3>2. ASSUME wStart = wEnd PROVE written' = wEnd
      <4>1. WriteLength(wStart, wEnd) = BuffSize
        BY <3>1, <3>2, MaskIsCell, BuffSizePositive DEF WriteLength, Cells
      <4>2. ~NextInLine(wStart, wEnd)
        BY <3>1, <3>2, <4>1, BuffSizePositive DEF NextInLine
      <4> QED BY <2>3, <3>1, <3>2, <4>2
    <3>3. ASSUME wStart < wEnd PROVE written' = wEnd
      <4>1. WriteLength(wStart, wEnd) = wEnd - wStart
        BY <3>1, <3>3, WriteLengthExact, BuffSizePositive
      <4>2. ASSUME NEW k \in 0 .. wEnd - wStart - 1
            PROVE  buff[Mask(wStart + k)] = written + k
        <5>1. start + k \in start .. end - 1
          BY <3>1
        <5> QED BY <3>1, <5>1 DEF RingInv, LiveDataIntact
      <4>3. NextInLine(wStart, wEnd)
        BY <4>1, <4>2 DEF NextInLine
      <4> QED BY <2>3, <3>1, <4>1, <4>3
    <3>4. written' = wEnd
      BY <3>1, <3>2, <3>3
    <3> QED BY <1>0, <2>1, <2>3, <3>1, <3>4
            DEF RingInv, LiveDataIntact, SnapshotStable, FreedSpaceIsWritten,
                GuaranteedAssertions, Writing
  <2> QED BY <1>19, <2>2, <2>3 DEF JustWrite
<1>20. CASE WriterAdvance
  <2>1. /\ wpc = "advance" /\ start' = wEnd /\ ~Writing' /\ wpc' \notin {"write", "advance"}
        /\ UNCHANGED <<end, mustBe, buff, written, firstToReleaseGuaranteed, nextToAddGuaranteed>>
    BY <1>20 DEF WriterAdvance, AfterWrite, Writing
  <2>2. /\ start \in Nat /\ end \in Nat /\ wEnd \in start .. end /\ written = wEnd
        /\ wEnd \in Nat /\ mustBe \in Nat /\ end - start <= BuffSize
    BY <1>0, <2>1 DEF RingInv, SnapshotStable, FreedSpaceIsWritten, LiveDataIntact, Writing,
                      RingType, WriterType
  <2>3. LiveDataIntact'
    BY <2>1, <2>2, BuffSizePositive DEF RingInv, LiveDataIntact, Mask
  <2>4. SnapshotStable' /\ FreedSpaceIsWritten'
    BY <2>1, <2>2 DEF SnapshotStable, FreedSpaceIsWritten
  <2>5. GuaranteedAssertions'
    BY <2>1, <2>2 DEF RingInv, GuaranteedAssertions, Writing
  <2> QED BY <2>1, <2>3, <2>4, <2>5 DEF RingInv
<1>21. ASSUME NEW a \in Phases, SetPhase(a) PROVE RingInv'
  BY <1>21, RingFrame DEF SetPhase
<1>22. ASSUME NEW g \in Droppable, DropTransport(g) PROVE RingInv'
  BY <1>22, RingFrame DEF DropTransport
<1>23. ASSUME NEW l \in GuaranteedLevels, SetGuaranteedLevel(l) PROVE RingInv'
  BY <1>23, RingFrame DEF SetGuaranteedLevel
<1>24. ASSUME NEW l \in CriticalLevels, SetCriticalLevel(l) PROVE RingInv'
  BY <1>24, RingFrame DEF SetCriticalLevel
<1>25. CASE UNCHANGED vars
  BY <1>25, RingFrame DEF vars
<1> QED BY <1>1, <1>2, <1>3, <1>4, <1>5, <1>6, <1>7, <1>8, <1>9, <1>10, <1>11, <1>12, <1>13,
         <1>14, <1>15, <1>16, <1>17, <1>18, <1>19, <1>20, <1>21, <1>22, <1>23, <1>24, <1>25
       DEF Next, Logger, LoggerResume, Writer, Owner

\* The ring invariant holds in every reachable state.
LEMMA RingAlways == Spec => [](TypeInv /\ RingInv)
<1>1. Init => TypeInv /\ RingInv
  BY InitType, InitRing
<1>2. TypeInv /\ RingInv /\ [Next]_vars => (TypeInv /\ RingInv)'
  BY NextType, NextRing
<1> QED BY <1>1, <1>2, PTL DEF Spec

\* No message is ever copied over data not yet written, for any buffer size, any
\* number of loggers and any interleaving with the unlocked write.
THEOREM LiveDataSafe == Spec => []LiveDataIntact
<1>1. RingInv => LiveDataIntact
  BY DEF RingInv
<1> QED BY <1>1, RingAlways, PTL

\* The range the writer writes without the mutex stays the front of the live range.
THEOREM SnapshotSafe == Spec => []SnapshotStable
<1>1. RingInv => SnapshotStable
  BY DEF RingInv
<1> QED BY <1>1, RingAlways, PTL

\* Nothing is dropped from the stream: room in the buffer is given back only after
\* the file holds what was there, although justWrite may also emit stale cells.
THEOREM WrittenBeforeFreed == Spec => []FreedSpaceIsWritten
<1>1. RingInv => FreedSpaceIsWritten
  BY DEF RingInv
<1> QED BY <1>1, RingAlways, PTL

\* The assertions about the list of guaranteed writes never fail.
THEOREM GuaranteedAssertionsHold == Spec => []GuaranteedAssertions
<1>1. RingInv => GuaranteedAssertions
  BY DEF RingInv
<1> QED BY <1>1, RingAlways, PTL

(***************************************************************************)
(* How a log ends: who holds references to LogBufferBaseData, and what is   *)
(* in the file when the last one is given back.                             *)
(***************************************************************************)
\* A call in progress keeps its transport: a Log is not destroyed under a thread.
CallsHaveTransport == \A t \in Threads : pc[t] # "idle" => TransportOf[t] \in alive

\* Before the buffer is freed every living transport and the running writer hold one
\* reference each.  It is freed either by the writer, alone and done, which then gives its
\* reference back a second time, or with the last reference after the writer is gone.
OneReferenceEach == refCounter = Cardinality(alive) + (IF wpc = "gone" THEN 0 ELSE 1)
NobodyLeft == alive = {} /\ (wpc = "gone" \/ (wpc = "unwind" /\ refCounter = 0))
RefsCounted ==
  /\ ~buffFreed => OneReferenceEach
  /\ buffFreed => NobodyLeft

\* The writer stops because it was alone and had written everything, or because of a
\* failed assertion.
StopsForReason == wpc \in {"unwind", "gone"} /\ failed = {} => buffFreed

ShutdownInv ==
  /\ wpc # "created"
  /\ CallsHaveTransport /\ RefsCounted /\ StopsForReason /\ NothingLostOnTermination

\* There are fewer transports than the counter can count.
LEMMA AliveCount ==
  ASSUME TypeInv
  PROVE  /\ IsFiniteSet(alive) /\ Cardinality(alive) \in Nat
         /\ Cardinality(alive) + 1 < RefModulus /\ RefModulus \in Nat \ {0}
<1>1. alive \subseteq Transports /\ IsFiniteSet(Transports)
  BY ControlAssumption DEF TypeInv, TypeOK, ControlType
<1>2. IsFiniteSet(alive) /\ Cardinality(alive) <= Cardinality(Transports)
  BY <1>1, FS_Subset
<1>3. Cardinality(alive) \in Nat /\ Cardinality(Transports) \in Nat
  BY <1>1, <1>2, FS_CardinalityType
<1> QED BY <1>2, <1>3, ControlAssumption

\* Only a set without elements has the cardinality 0.
LEMMA NoneAlive == ASSUME TypeInv, Cardinality(alive) = 0 PROVE alive = {}
BY AliveCount, FS_EmptySet

\* A number of references the counter can hold is what it holds.
LEMMA SmallRefs ==
  ASSUME NEW n \in Nat, RefModulus \in Nat, n < RefModulus
  PROVE  n % RefModulus = n
OBVIOUS

\* A log with a writer that runs, and with a reference for each.
LEMMA InitShutdown ==
  ASSUME WriterStarted, Init
  PROVE  ShutdownInv
<1>1. /\ wpc = "wait" /\ buffFreed = FALSE /\ alive = Transports
      /\ refCounter = Cardinality(Transports) + 1 /\ pc = [t \in Threads |-> "idle"]
  BY DEF Init
<1> QED BY <1>1 DEF ShutdownInv, CallsHaveTransport, RefsCounted, OneReferenceEach, NobodyLeft,
                    StopsForReason, NothingLostOnTermination

\* Steps of a call that is in progress: they may insert, since nothing is freed yet.
LEMMA CallFrame ==
  ASSUME TypeInv, ShutdownInv, NEW t \in Threads, TransportOf[t] \in alive,
         UNCHANGED <<refCounter, alive, buffFreed, wpc>>, failed \subseteq failed',
         \A u \in Threads : u # t => pc'[u] = pc[u]
  PROVE  ShutdownInv'
<1>1. ~buffFreed
  BY DEF ShutdownInv, RefsCounted, OneReferenceEach, NobodyLeft
<1>2. CallsHaveTransport'
  BY DEF ShutdownInv, CallsHaveTransport
<1>3. RefsCounted'
  BY DEF ShutdownInv, RefsCounted, OneReferenceEach, NobodyLeft
<1>4. StopsForReason' /\ NothingLostOnTermination'
  BY <1>1 DEF ShutdownInv, StopsForReason, NothingLostOnTermination
<1> QED BY <1>2, <1>3, <1>4 DEF ShutdownInv

\* Steps of the writer and of owners that leave references and stream alone.
LEMMA ShutdownFrame ==
  ASSUME ShutdownInv,
         UNCHANGED <<refCounter, alive, buffFreed, pc, failed, end>>,
         \/ wpc' = wpc /\ written' = written
         \/ {wpc, wpc'} \cap {"created", "unwind", "gone"} = {}
  PROVE  ShutdownInv'
<1>1. CASE wpc' = wpc /\ written' = written
  BY <1>1 DEF ShutdownInv, CallsHaveTransport, RefsCounted, OneReferenceEach, NobodyLeft,
              StopsForReason, NothingLostOnTermination
<1>2. CASE {wpc, wpc'} \cap {"created", "unwind", "gone"} = {}
  <2>1. wpc \notin {"unwind", "gone"} /\ wpc' \notin {"created", "unwind", "gone"}
    BY <1>2
  <2>2. ~buffFreed
    BY <2>1 DEF ShutdownInv, RefsCounted, OneReferenceEach, NobodyLeft
  <2> QED BY <2>1, <2>2 DEF ShutdownInv, CallsHaveTransport, RefsCounted, OneReferenceEach,
                            NobodyLeft, StopsForReason, NothingLostOnTermination
<1> QED BY <1>1, <1>2

\* A reference is given back by the holder of one.
LEMMA RefGivenBack ==
  ASSUME TypeInv, RefsCounted, ~buffFreed, RemoveRef,
         \/ wpc # "gone" /\ wpc' = "gone" /\ alive' = alive
         \/ wpc' = wpc /\ \E g \in alive : alive' = alive \ {g}
  PROVE  RefsCounted' /\ (buffFreed' => alive' = {} /\ wpc' = "gone")
<1>1. /\ IsFiniteSet(alive) /\ Cardinality(alive) \in Nat
      /\ Cardinality(alive) + 1 < RefModulus /\ RefModulus \in Nat
  BY AliveCount
<1>2. alive' \subseteq alive /\ IsFiniteSet(alive') /\ Cardinality(alive') \in Nat
  BY <1>1, FS_Subset, FS_CardinalityType
<1> DEFINE refs == Cardinality(alive') + (IF wpc' = "gone" THEN 0 ELSE 1)
<1>3. refCounter - 1 = refs
  <2>1. refCounter = Cardinality(alive) + (IF wpc = "gone" THEN 0 ELSE 1)
    BY DEF RefsCounted, OneReferenceEach, NobodyLeft
  <2>2. CASE wpc # "gone" /\ wpc' = "gone" /\ alive' = alive
    BY <1>1, <2>1, <2>2
  <2>3. CASE wpc' = wpc /\ \E g \in alive : alive' = alive \ {g}
    <3>1. Cardinality(alive') = Cardinality(alive) - 1
      BY <1>1, <2>3, FS_RemoveElement
    <3> QED BY <1>1, <2>1, <2>3, <3>1
  <2> QED BY <2>2, <2>3
<1>4. Cardinality(alive') <= Cardinality(alive)
  BY <1>1, <1>2, FS_Subset
<1>5. refs \in Nat /\ refs < RefModulus
  BY <1>1, <1>2, <1>4
<1>6. refCounter' = refs /\ buffFreed' = (refs = 0)
  BY <1>1, <1>3, <1>5, SmallRefs DEF RemoveRef, RefsAfterRemoval
<1>7. refs = 0 => alive' = {} /\ wpc' = "gone"
  BY <1>2, FS_EmptySet
<1> QED BY <1>5, <1>6, <1>7 DEF RefsCounted, OneReferenceEach, NobodyLeft

\* Every section of addMsg, runLoop_ and the owners keeps the shutdown invariant.
LEMMA NextShutdown ==
  TypeInv /\ RingInv /\ ShutdownInv /\ [Next]_vars => ShutdownInv'
<1> SUFFICES ASSUME TypeInv, RingInv, ShutdownInv, [Next]_vars PROVE ShutdownInv'
  OBVIOUS
<1>0. /\ pc \in [Threads -> {"idle", "enter", "waitWrite", "chained", "released",
                             "handOver", "stuck"}]
      /\ \A t \in Threads : pc[t] # "idle" => TransportOf[t] \in alive
  BY DEF TypeInv, TypeOK, CallType, ShutdownInv, CallsHaveTransport
<1> USE DEF ringVars, chainVars, guarVars, ctlVars, callVars, dVars, wVars, fileVars,
            skipVars, loggerVars
<1>1. ASSUME NEW t \in Threads, Call(t) PROVE ShutdownInv'
  BY <1>1, <1>0, CallFrame DEF Call
<1>2. ASSUME NEW t \in Threads, AddMsgRefused(t) PROVE ShutdownInv'
  BY <1>2, <1>0, CallFrame DEF AddMsgRefused, Throw
<1>3. ASSUME NEW t \in Threads, AddMsgSkip(t) PROVE ShutdownInv'
  BY <1>3, <1>0, CallFrame DEF AddMsgSkip
<1>4. ASSUME NEW t \in Threads, AddMsgQueue(t) PROVE ShutdownInv'
  BY <1>4, <1>0, CallFrame DEF AddMsgQueue
<1>5. ASSUME NEW t \in Threads, AddMsgCopy(t) PROVE ShutdownInv'
  <2>1. /\ pc[t] = "enter" /\ UNCHANGED <<refCounter, alive, buffFreed, wpc>>
        /\ failed \subseteq failed' /\ \E x : pc' = [pc EXCEPT ![t] = x]
    BY <1>5 DEF AddMsgCopy, Throw
  <2> QED BY <2>1, <1>0, CallFrame
<1>6. ASSUME NEW t \in Threads, GuaranteedReturn(t) PROVE ShutdownInv'
  BY <1>6, <1>0, CallFrame DEF GuaranteedReturn
<1>7. ASSUME NEW t \in Threads, ChainWake(t) PROVE ShutdownInv'
  BY <1>7, <1>0, CallFrame DEF ChainWake
<1>8. ASSUME NEW t \in Threads, ChainWaitAgain(t) PROVE ShutdownInv'
  BY <1>8, <1>0, CallFrame DEF ChainWaitAgain
<1>9. ASSUME NEW t \in Threads, ChainInsert(t) PROVE ShutdownInv'
  <2>1. /\ pc[t] = "released" /\ UNCHANGED <<refCounter, alive, buffFreed, wpc>>
        /\ failed \subseteq failed' /\ \E x : pc' = [pc EXCEPT ![t] = x]
    BY <1>9 DEF ChainInsert, Throw
  <2> QED BY <2>1, <1>0, CallFrame
<1>10. ASSUME NEW t \in Threads, HandOver(t) PROVE ShutdownInv'
  BY <1>10, <1>0, CallFrame DEF HandOver
<1>11. CASE WriterStart
  BY <1>11 DEF WriterStart, ShutdownInv
<1>12. CASE WriterWake
  BY <1>12, ShutdownFrame DEF WriterWake
<1>13. CASE WriterSnapshot
  BY <1>13, ShutdownFrame DEF WriterSnapshot
<1>14. CASE JustWrite
  <2>1. /\ wpc = "write" /\ UNCHANGED <<refCounter, alive, buffFreed, pc, end>>
        /\ \/ wpc' = "advance" /\ failed' = failed
           \/ wpc' = "unwind" /\ failed' # {}
    BY <1>14 DEF JustWrite
  <2>2. CASE wpc' = "advance" /\ failed' = failed
    BY <2>1, <2>2, ShutdownFrame
  <2>3. CASE wpc' = "unwind" /\ failed' # {}
    BY <2>1, <2>3 DEF ShutdownInv, CallsHaveTransport, RefsCounted, OneReferenceEach, NobodyLeft,
                      StopsForReason, NothingLostOnTermination
  <2> QED BY <2>1, <2>2, <2>3
<1>15. CASE WriterAdvance
  BY <1>15, ShutdownFrame DEF WriterAdvance, AfterWrite
<1>16. CASE ReleaseGuaranteed
  <2>1. /\ wpc = "release" /\ UNCHANGED <<refCounter, alive, buffFreed, pc, end>>
        /\ \/ wpc' = "next" /\ failed' = failed
           \/ wpc' = "unwind" /\ failed' # {}
    BY <1>16 DEF ReleaseGuaranteed
  <2>2. CASE wpc' = "next" /\ failed' = failed
    BY <2>1, <2>2, ShutdownFrame
  <2>3. CASE wpc' = "unwind" /\ failed' # {}
    BY <2>1, <2>3 DEF ShutdownInv, CallsHaveTransport, RefsCounted, OneReferenceEach, NobodyLeft,
                      StopsForReason, NothingLostOnTermination
  <2> QED BY <2>1, <2>2, <2>3
<1>17. CASE NextGuaranteed
  BY <1>17, ShutdownFrame DEF NextGuaranteed, AfterWrite
<1>18. CASE ReleaseChain
  BY <1>18, ShutdownFrame DEF ReleaseChain
<1>19. CASE TerminateIfAlone
  <2>1. CASE MayTerminate
    <3>1. /\ wpc = "check" /\ refCounter = 1 /\ start = end
          /\ refCounter' = 0 /\ buffFreed' = TRUE /\ wpc' = "unwind"
          /\ UNCHANGED <<alive, pc, failed, written, end>>
      BY <1>19, <2>1 DEF TerminateIfAlone, MayTerminate
    <3>2. refCounter = Cardinality(alive) + 1 /\ Cardinality(alive) \in Nat
      BY <3>1, AliveCount DEF ShutdownInv, RefsCounted, OneReferenceEach, NobodyLeft
    <3>3. alive = {}
      BY <3>1, <3>2, NoneAlive
    <3>4. written = end
      BY <3>1 DEF RingInv, FreedSpaceIsWritten
    <3> QED BY <3>1, <3>3, <3>4 DEF ShutdownInv, CallsHaveTransport, RefsCounted,
                                    OneReferenceEach, NobodyLeft,
                                    StopsForReason, NothingLostOnTermination
  <2>2. CASE ~MayTerminate
    BY <1>19, <2>2, ShutdownFrame DEF TerminateIfAlone
  <2> QED BY <2>1, <2>2
<1>20. CASE WriterUnwind
  <2>1. /\ wpc = "unwind" /\ wpc' = "gone" /\ RemoveRef
        /\ UNCHANGED <<alive, pc, failed, written, end>>
    BY <1>20 DEF WriterUnwind
  <2>2. CASE buffFreed
    <3>1. buffFreed' = TRUE
      BY <2>1, <2>2 DEF RemoveRef
    <3>2. NobodyLeft'
      BY <2>1, <2>2 DEF ShutdownInv, RefsCounted, NobodyLeft
    <3>3. RefsCounted' /\ StopsForReason'
      BY <3>1, <3>2 DEF RefsCounted, StopsForReason
    <3>4. CallsHaveTransport' /\ NothingLostOnTermination'
      BY <2>1, <2>2 DEF ShutdownInv, CallsHaveTransport, NothingLostOnTermination
    <3> QED BY <2>1, <3>3, <3>4 DEF ShutdownInv
  <2>3. CASE ~buffFreed
    <3>1. failed # {}
      BY <2>1, <2>3 DEF ShutdownInv, StopsForReason
    <3>2. RefsCounted'
      BY <2>1, <2>3, RefGivenBack DEF ShutdownInv
    <3> QED BY <2>1, <3>1, <3>2 DEF ShutdownInv, CallsHaveTransport, StopsForReason,
                                    NothingLostOnTermination
  <2> QED BY <2>2, <2>3
<1>21. ASSUME NEW a \in Phases, SetPhase(a) PROVE ShutdownInv'
  BY <1>21, ShutdownFrame DEF SetPhase
<1>22. ASSUME NEW g \in Droppable, DropTransport(g) PROVE ShutdownInv'
  <2>1. /\ g \in alive /\ alive' = alive \ {g} /\ RemoveRef
        /\ \A t \in Threads : TransportOf[t] = g => pc[t] = "idle"
        /\ UNCHANGED <<pc, wpc, failed, written, end>>
    BY <1>22 DEF DropTransport
  <2>2. ~buffFreed
    BY <2>1 DEF ShutdownInv, RefsCounted, OneReferenceEach, NobodyLeft
  <2>3. RefsCounted' /\ (buffFreed' => wpc' = "gone")
    BY <2>1, <2>2, RefGivenBack DEF ShutdownInv
  <2>4. CallsHaveTransport'
    BY <2>1 DEF ShutdownInv, CallsHaveTransport
  <2>5. StopsForReason'
    BY <2>1, <2>2 DEF ShutdownInv, StopsForReason
  <2>6. NothingLostOnTermination'
    BY <2>1, <2>2, <2>3 DEF ShutdownInv, StopsForReason, NothingLostOnTermination
  <2> QED BY <2>1, <2>3, <2>4, <2>5, <2>6 DEF ShutdownInv
<1>23. ASSUME NEW l \in GuaranteedLevels, SetGuaranteedLevel(l) PROVE ShutdownInv'
  BY <1>23, ShutdownFrame DEF SetGuaranteedLevel
<1>24. ASSUME NEW l \in CriticalLevels, SetCriticalLevel(l) PROVE ShutdownInv'
  BY <1>24, ShutdownFrame DEF SetCriticalLevel
<1>25. CASE UNCHANGED vars
  BY <1>25, ShutdownFrame DEF vars
<1> QED BY <1>1, <1>2, <1>3, <1>4, <1>5, <1>6, <1>7, <1>8, <1>9, <1>10, <1>11, <1>12, <1>13,
           <1>14, <1>15, <1>16, <1>17, <1>18, <1>19, <1>20, <1>21, <1>22, <1>23, <1>24, <1>25
       DEF Next, Logger, LoggerResume, Writer, Owner

\* The shutdown invariant holds in every reachable state.
LEMMA ShutdownAlways ==
  ASSUME WriterStarted
  PROVE  Spec => [](TypeInv /\ RingInv /\ ShutdownInv)
<1>1. Init => ShutdownInv
  BY InitShutdown
<1>2. Init => TypeInv /\ RingInv
  BY InitType, InitRing
<1>3. TypeInv /\ RingInv /\ ShutdownInv /\ [Next]_vars => (TypeInv /\ RingInv /\ ShutdownInv)'
  BY NextType, NextRing, NextShutdown
<1> QED BY <1>1, <1>2, <1>3, PTL DEF Spec

\* When the writer runs before anyone logs: however transports are destroyed, phases set
\* and assertions thrown, the buffer and the file are released only when no transport and
\* no running writer can reach them, although the writer gives its reference back twice.
THEOREM NotFreedInUse ==
  ASSUME WriterStarted
  PROVE  Spec => []FreedWhenUnused
<1>1. ShutdownInv => FreedWhenUnused
  BY DEF ShutdownInv, RefsCounted, OneReferenceEach, NobodyLeft, FreedWhenUnused
<1> QED BY <1>1, ShutdownAlways, PTL

\* Unless an assertion threw, everything ever inserted is in the file when the buffer is
\* released: no call can insert between the writer's last look and its end.
THEOREM AllWrittenAtTheEnd ==
  ASSUME WriterStarted
  PROVE  Spec => []NothingLostOnTermination
<1>1. ShutdownInv => NothingLostOnTermination
  BY DEF ShutdownInv
<1> QED BY <1>1, ShutdownAlways, PTL
=============================================================================
