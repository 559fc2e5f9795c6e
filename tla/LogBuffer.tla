------------------------------ MODULE LogBuffer ------------------------------
(***************************************************************************)
(* The ring buffer behind a log transport (LogBufferBaseData), the threads  *)
(* that add messages to it (LogTransport::addMsg) and the detached thread   *)
(* that empties it into the target file (LogWriter).                        *)
(*                                                                          *)
(* One action is one section run under LogBufferBaseData::mx, or under the  *)
(* mutex of one waiting object, or one unlocked access that another thread  *)
(* may run into.  A unit of message data is named by its position in the    *)
(* stream of everything ever inserted (the values of `end`), so a message   *)
(* is a range of positions and a cell of the buffer holds the position last *)
(* copied there.                                                            *)
(***************************************************************************)
EXTENDS Integers, FiniteSets, Functions

CONSTANTS
  Threads,            \* threads that log
  Transports,         \* LogTransport objects that share this buffer
  TransportOf,        \* the transport a thread logs through
  Null,               \* nullptr, and the content of a cell never written
  BuffSize,           \* buffSize
  MaxMessageSize,     \* maxMessageSize
  SkippedCntMsgSz,    \* skippedCntMsgSz, the reserve for a report of skips
  ReportSizes,        \* what toStr may return for a non-empty report
  MsgSizes,           \* sizes of formatted messages
  LevelsOf,           \* the severities a thread uses
  MaxCalls,           \* bound: calls of addMsg of each thread
  OwnLog,             \* threads whose thread_local currentLog is this log
  GuaranteedLevels,   \* arguments of setGuaranteedLevel
  CriticalLevels,     \* arguments of setCriticalLevel
  Phases,             \* values a Log may set `action` to
  Droppable,          \* transports whose Log may be cleared or destroyed
  WriterStarted,      \* the writer thread has run addRef before anyone logs
  RefModulus          \* 2^64 in the code: size_t refCounter wraps

Cells == 0 .. BuffSize - 1
Level == 0 .. 4       \* fatal, err, warning, info, debug

ASSUME ThreadsAssumption ==
  /\ TransportOf \in [Threads -> Transports]
  /\ LevelsOf \in [Threads -> SUBSET Level]
  /\ Null \notin Threads \cup Transports \cup Int
  /\ MaxCalls \in [Threads -> Nat] /\ OwnLog \subseteq Threads
ASSUME SizeAssumption ==
  /\ BuffSize \in Nat /\ MaxMessageSize \in Nat \ {0, 1}
  /\ SkippedCntMsgSz \in 1 .. MaxMessageSize
  /\ ReportSizes \subseteq 1 .. SkippedCntMsgSz
  /\ MsgSizes \subseteq 1 .. MaxMessageSize - 1
  /\ MaxMessageSize + SkippedCntMsgSz <= BuffSize
ASSUME ControlAssumption ==
  /\ GuaranteedLevels \subseteq Level /\ CriticalLevels \subseteq Level
  /\ Phases \subseteq {"proceedToTermination", "terminationAllowed"}
  /\ Droppable \subseteq Transports /\ IsFiniteSet(Transports)
  /\ WriterStarted \in BOOLEAN
  /\ RefModulus \in Nat /\ RefModulus > Cardinality(Transports) + 1

VARIABLES
  start, end,              \* the stream range now in the buffer
  mustBe,                  \* mustBeWrittenImmediately
  buff,                    \* cell -> position last copied there
  skipped,                 \* skippedCtrs.fullCnt_ of the buffer
  action, refCounter,
  levelCouldBeSkipped, levelGuaranteedWrite,
  firstToRelease, nextToAdd,                     \* chain of threads waiting for room
  firstToReleaseGuaranteed, nextToAddGuaranteed, \* transports waiting for a write
  gwwNext, gwwCanRun,      \* LogTransport::gww
  alive,                   \* transports not yet destroyed
  buffFreed,               \* deinit has released buff and target
  mxHeld,                  \* a thread went to sleep on mx while holding it
  pc, msg, calls,          \* addMsg: where a thread is, its message, its calls
  dNext, dCanRun, dSkipped,\* addMsg's local ChainedWaitingData d
  msgEnd,                  \* `end` after the thread's message was inserted
  wpc, wStart, wEnd, wMust, wP, wG,  \* runLoop_ and its locals
  written,                 \* units of the stream the file holds, in order
  garbled,                 \* the file also got cells outside the range to write
  failed,                  \* lines of the NODECPP_ASSERTs that threw
  dropped, reported,       \* messages refused as skippable; told in a report
  ub                       \* an object was used after its lifetime

ringVars  == <<start, end, mustBe, buff>>
chainVars == <<firstToRelease, nextToAdd>>
guarVars  == <<firstToReleaseGuaranteed, nextToAddGuaranteed, gwwNext, gwwCanRun>>
ctlVars   == <<action, refCounter, levelCouldBeSkipped, levelGuaranteedWrite, alive, buffFreed>>
callVars  == <<msg, calls>>
dVars     == <<dNext, dCanRun, dSkipped>>
wVars     == <<wpc, wStart, wEnd, wMust, wP, wG>>
fileVars  == <<written, garbled>>
skipVars  == <<skipped, dropped, reported>>
loggerVars == <<pc, callVars, dVars, msgEnd>>
vars == <<ringVars, chainVars, guarVars, ctlVars, mxHeld, loggerVars, wVars,
          fileVars, skipVars, failed, ub>>

(***************************************************************************)
(* Helpers.  A definition marked "Variant" is the next one with a slip in   *)
(* it; the specification does not use it, it shows what the properties       *)
(* below are able to notice.                                                 *)
(***************************************************************************)
Mask(p) == p % BuffSize

AvailableSize == BuffSize - (end - start)

\* Variant: the second memcpy, to the beginning of the buffer, is forgotten.
CopiedInNoWrap(n) ==
  [i \in Cells |-> IF i \in Mask(end) .. Mask(end) + n - 1 THEN end + i - Mask(end) ELSE buff[i]]

\* The buffer after the n units from `end` on are copied in, wrapping around.
CopiedIn(n) ==
  [i \in Cells |-> LET k == Mask(i - end) IN IF k < n THEN end + k ELSE buff[i]]

\* The length justWrite sends to the file: up to the end offset, wrapping when
\* the end offset is not above the start offset.
WriteLength(s, e) ==
  IF Mask(e) > Mask(s) THEN Mask(e) - Mask(s) ELSE BuffSize - Mask(s) + Mask(e)

\* What justWrite emits is exactly its range, and that is the next part of the stream.
NextInLine(s, e) ==
  /\ WriteLength(s, e) = e - s
  /\ \A k \in 0 .. e - s - 1 : buff[Mask(s + k)] = written + k

\* The room addMsg asks for: the message and, if something was skipped, a report.
FullSzRequired(t) ==
  IF skipped = 0 THEN msg[t].sz ELSE msg[t].sz + SkippedCntMsgSz
CanCopy(t) == end + FullSzRequired(t) <= start + BuffSize

Skippable(t) == msg[t].lvl >= levelCouldBeSkipped

\* Sizes toStr may return for a counter (insertMessage calls it only when it counted).
Reports(count) == IF count = 0 THEN {0} ELSE ReportSizes

\* A failed assertion logs through default_log before it throws: if currentLog is
\* the log whose mx the thread holds, the thread never returns from that call.
Throw(t, line) ==
  /\ failed' = failed \cup {line}
  /\ pc' = [pc EXCEPT ![t] = IF t \in OwnLog THEN "stuck" ELSE "idle"]
  /\ mxHeld' = (mxHeld \/ t \in OwnLog)

MxFree == ~mxHeld /\ ~ub

(***************************************************************************)
(* insertMessage(msg, sz, ctrs, isCritical), called under mx: a report of   *)
(* skipped messages (r units), the message, and the request for a           *)
(* guaranteed write.                                                        *)
(***************************************************************************)
Registers(crit) == crit \/ action = "proceedToTermination"

Inserted(t, r) ==
  IF r > AvailableSize THEN 0
  ELSE IF r + msg[t].sz > AvailableSize THEN r ELSE r + msg[t].sz

\* Line of the assertion that throws, 0 when none does.
InsertFails(t, r, crit) ==
  CASE r + msg[t].sz > AvailableSize -> 273
    [] r + msg[t].sz <= AvailableSize /\ Registers(crit) /\ gwwCanRun[TransportOf[t]] -> 301
    [] OTHER -> 0

\* Variant: the request is noted before the message is counted into end.
InsertRingRequestsEarly(t, r, crit) ==
  LET n == Inserted(t, r) IN
  /\ end' = end + n /\ buff' = CopiedIn(n)
  /\ mustBe' = IF n = r + msg[t].sz /\ Registers(crit) THEN end ELSE mustBe
  /\ UNCHANGED start

\* Variant: the oldest messages give way when the buffer fills up.
InsertRingDropsOldest(t, r, crit) ==
  LET n == Inserted(t, r) IN
  /\ end' = end + n /\ buff' = CopiedIn(n)
  /\ mustBe' = IF n = r + msg[t].sz /\ Registers(crit) THEN end + n ELSE mustBe
  /\ start' = IF n = AvailableSize THEN start + n ELSE start

\* The ring: both memcpys and the new end, mustBe when a write is requested.
InsertRing(t, r, crit) ==
  LET n == Inserted(t, r) IN
  /\ end' = end + n
  /\ buff' = CopiedIn(n)
  /\ mustBe' = IF n = r + msg[t].sz /\ Registers(crit) THEN end + n ELSE mustBe
  /\ UNCHANGED start

\* Variant: the list's new last element is not linked to the one before it.
AppendGuaranteedUnlinked(g) ==
  /\ nextToAddGuaranteed' = g
  /\ firstToReleaseGuaranteed' =
       IF nextToAddGuaranteed = Null THEN g ELSE firstToReleaseGuaranteed
  /\ gwwNext' = [gwwNext EXCEPT ![g] = Null]
  /\ UNCHANGED gwwCanRun

\* Appending the transport's gww to the list of guaranteed writes.
AppendGuaranteed(g) ==
  /\ nextToAddGuaranteed' = g
  /\ IF nextToAddGuaranteed = Null
       THEN /\ firstToReleaseGuaranteed' = g
            /\ gwwNext' = [gwwNext EXCEPT ![g] = Null]
       ELSE /\ gwwNext' = [[gwwNext EXCEPT ![g] = Null] EXCEPT ![nextToAddGuaranteed] = g]
            /\ UNCHANGED firstToReleaseGuaranteed
  /\ UNCHANGED gwwCanRun

InsertMessage(t, r, crit) ==
  /\ InsertRing(t, r, crit)
  /\ IF Registers(crit) /\ InsertFails(t, r, crit) = 0
       THEN AppendGuaranteed(TransportOf[t])
       ELSE UNCHANGED guarVars

\* Variant: the counters are reported but not cleared.
ClearedNever(r, count) == count
\* ctrs.clear() once the report is in.
Cleared(r, count) == IF r > 0 /\ r <= AvailableSize THEN 0 ELSE count
ReportedNow(r, count) == IF r > 0 /\ r <= AvailableSize THEN count ELSE 0

(***************************************************************************)
(* Logger threads: LogTransport::addMsg                                     *)
(***************************************************************************)
\* The call: isCritical and a fresh d, before the lock is taken.
Call(t) ==
  /\ ~ub /\ pc[t] = "idle" /\ calls[t] < MaxCalls[t] /\ TransportOf[t] \in alive
  /\ \E l \in LevelsOf[t], n \in MsgSizes :
       msg' = [msg EXCEPT ![t] = [lvl |-> l, sz |-> n, crit |-> l <= levelGuaranteedWrite]]
  /\ calls' = [calls EXCEPT ![t] = @ + 1]
  /\ pc' = [pc EXCEPT ![t] = "enter"]
  /\ dNext' = [dNext EXCEPT ![t] = Null]
  /\ dCanRun' = [dCanRun EXCEPT ![t] = FALSE]
  /\ dSkipped' = [dSkipped EXCEPT ![t] = 0]
  /\ UNCHANGED <<ringVars, chainVars, guarVars, ctlVars, mxHeld, msgEnd, wVars,
                 fileVars, skipVars, failed, ub>>

\* Threads are queued but their head has been released and has not inserted yet:
\* the assertion that the chain has a head throws.
AddMsgRefused(t) ==
  /\ MxFree /\ pc[t] = "enter"
  /\ nextToAdd # Null /\ firstToRelease = Null
  /\ Throw(t, 334)
  /\ UNCHANGED <<ringVars, chainVars, guarVars, ctlVars, callVars, dVars, msgEnd,
                 wVars, fileVars, skipVars, ub>>

\* A skippable message behind waiting threads is counted by the last of them,
\* one that does not fit by the buffer.
AddMsgSkip(t) ==
  /\ MxFree /\ pc[t] = "enter" /\ Skippable(t)
  /\ IF nextToAdd # Null
       THEN /\ firstToRelease # Null
            /\ dSkipped' = [dSkipped EXCEPT ![nextToAdd] = @ + 1]
            /\ UNCHANGED skipped
       ELSE /\ ~CanCopy(t)
            /\ skipped' = skipped + 1
            /\ UNCHANGED dSkipped
  /\ dropped' = dropped + 1
  /\ pc' = [pc EXCEPT ![t] = "idle"]
  /\ UNCHANGED <<ringVars, chainVars, guarVars, ctlVars, mxHeld, callVars, dNext,
                 dCanRun, msgEnd, wVars, fileVars, reported, failed, ub>>

\* A message that may not be skipped waits: at the end of the chain, or as its head.
AddMsgQueue(t) ==
  /\ MxFree /\ pc[t] = "enter" /\ ~Skippable(t)
  /\ IF nextToAdd # Null
       THEN /\ firstToRelease # Null
            /\ dNext' = [dNext EXCEPT ![nextToAdd] = t]
            /\ UNCHANGED firstToRelease
       ELSE /\ ~CanCopy(t)
            /\ firstToRelease' = t
            /\ UNCHANGED dNext
  /\ nextToAdd' = t
  /\ pc' = [pc EXCEPT ![t] = "chained"]
  /\ UNCHANGED <<ringVars, guarVars, ctlVars, mxHeld, callVars, dCanRun, dSkipped,
                 msgEnd, wVars, fileVars, skipVars, failed, ub>>

\* Nobody waits and there is room: insert, and wait for the write if it is critical.
AddMsgCopy(t) ==
  /\ MxFree /\ pc[t] = "enter" /\ nextToAdd = Null /\ CanCopy(t)
  /\ \E r \in Reports(skipped) :
       /\ InsertMessage(t, r, msg[t].crit)
       /\ skipped' = Cleared(r, skipped)
       /\ reported' = reported + ReportedNow(r, skipped)
       /\ msgEnd' = [msgEnd EXCEPT ![t] = end']
       /\ IF InsertFails(t, r, msg[t].crit) = 0
            THEN /\ pc' = [pc EXCEPT ![t] = IF msg[t].crit THEN "waitWrite" ELSE "idle"]
                 /\ UNCHANGED <<mxHeld, failed>>
            ELSE Throw(t, InsertFails(t, r, msg[t].crit))
  /\ UNCHANGED <<chainVars, ctlVars, callVars, dVars, wVars, fileVars, dropped, ub>>

\* The critical call returns once gww.canRun was set; it consumes the flag.
GuaranteedReturn(t) ==
  /\ ~ub /\ pc[t] = "waitWrite" /\ gwwCanRun[TransportOf[t]]
  /\ gwwCanRun' = [gwwCanRun EXCEPT ![TransportOf[t]] = FALSE]
  /\ pc' = [pc EXCEPT ![t] = "idle"]
  /\ UNCHANGED <<ringVars, chainVars, firstToReleaseGuaranteed, nextToAddGuaranteed,
                 gwwNext, ctlVars, mxHeld, callVars, dVars, msgEnd, wVars, fileVars,
                 skipVars, failed, ub>>

\* A queued thread leaves d.w.wait.
ChainWake(t) ==
  /\ ~ub /\ pc[t] = "chained" /\ dCanRun[t]
  /\ dCanRun' = [dCanRun EXCEPT ![t] = FALSE]
  /\ pc' = [pc EXCEPT ![t] = "released"]
  /\ UNCHANGED <<ringVars, chainVars, guarVars, ctlVars, mxHeld, callVars, dNext,
                 dSkipped, msgEnd, wVars, fileVars, skipVars, failed, ub>>

\* Released, but there is still no room: head of the chain again.
ChainWaitAgain(t) ==
  /\ MxFree /\ pc[t] = "released" /\ ~CanCopy(t)
  /\ firstToRelease' = t
  /\ pc' = [pc EXCEPT ![t] = "chained"]
  /\ UNCHANGED <<ringVars, nextToAdd, guarVars, ctlVars, mxHeld, callVars, dVars,
                 msgEnd, wVars, fileVars, skipVars, failed, ub>>

\* Variant: the tail is reset although others joined behind the thread.
TailAfterReset(t) == Null
\* The tail of the chain when t leaves it.
TailAfter(t) == IF nextToAdd = t THEN Null ELSE nextToAdd

\* Released with room: insert with the report d collected, leave the chain.  The
\* severity is compared again, and no wait for a guaranteed write follows.
ChainInsert(t) ==
  /\ MxFree /\ pc[t] = "released" /\ CanCopy(t)
  /\ \E r \in Reports(dSkipped[t]) :
       LET crit == msg[t].lvl <= levelGuaranteedWrite IN
       /\ InsertMessage(t, r, crit)
       /\ dSkipped' = [dSkipped EXCEPT ![t] = Cleared(r, @)]
       /\ reported' = reported + ReportedNow(r, dSkipped[t])
       /\ msgEnd' = [msgEnd EXCEPT ![t] = end']
       /\ IF InsertFails(t, r, crit) = 0
            THEN /\ nextToAdd' = TailAfter(t)
                 /\ pc' = [pc EXCEPT ![t] = IF dNext[t] = Null THEN "idle" ELSE "handOver"]
                 /\ UNCHANGED <<mxHeld, failed>>
            ELSE Throw(t, InsertFails(t, r, crit)) /\ UNCHANGED nextToAdd
  /\ UNCHANGED <<firstToRelease, ctlVars, callVars, dNext, dCanRun, wVars, fileVars,
                 skipped, dropped, ub>>

\* Variant: it returns without telling the next one.
HandOverForgotten(t) ==
  /\ ~ub /\ pc[t] = "handOver"
  /\ pc' = [pc EXCEPT ![t] = "idle"]
  /\ UNCHANGED <<ringVars, chainVars, guarVars, ctlVars, mxHeld, callVars, dVars,
                 msgEnd, wVars, fileVars, skipVars, failed, ub>>

\* The thread lets the next one in the chain run and returns.
HandOver(t) ==
  /\ ~ub /\ pc[t] = "handOver"
  /\ dCanRun' = [dCanRun EXCEPT ![dNext[t]] = TRUE]
  /\ pc' = [pc EXCEPT ![t] = "idle"]
  /\ UNCHANGED <<ringVars, chainVars, guarVars, ctlVars, mxHeld, callVars, dNext,
                 dSkipped, msgEnd, wVars, fileVars, skipVars, failed, ub>>

(***************************************************************************)
(* The writer thread: LogWriter::runLoop and runLoop_                       *)
(***************************************************************************)
\* Variant: a thread that waits for room does not keep the writer awake.
NothingToDoButQueue == end = start /\ firstToReleaseGuaranteed = Null
\* Variant: only what must be written immediately wakes the writer.
NothingToDoUrgent ==
  firstToRelease = Null /\ firstToReleaseGuaranteed = Null /\ mustBe <= start
\* The predicate of the writer's wait.
NothingToDo ==
  /\ end = start /\ firstToRelease = Null /\ firstToReleaseGuaranteed = Null
  /\ action = "proceed" => mustBe <= start

AfterWrite(g) == IF g # Null THEN "release" ELSE IF wP # Null THEN "releaseChain" ELSE "check"

WriterStart ==
  /\ MxFree /\ wpc = "created"
  /\ refCounter' = (refCounter + 1) % RefModulus
  /\ wpc' = "wait"
  /\ UNCHANGED <<ringVars, chainVars, guarVars, action, levelCouldBeSkipped,
                 levelGuaranteedWrite, alive, buffFreed, mxHeld, loggerVars, wStart, wEnd,
                 wMust, wP, wG, fileVars, skipVars, failed, ub>>

\* The wait has a timeout of 200 ms: the predicate is looked at again and again.
WriterWake ==
  /\ MxFree /\ wpc = "wait" /\ ~NothingToDo
  /\ wpc' = "snapshot"
  /\ UNCHANGED <<ringVars, chainVars, guarVars, ctlVars, mxHeld, loggerVars, wStart, wEnd,
                 wMust, wP, wG, fileVars, skipVars, failed, ub>>

\* Variant: the head the writer takes stays in place.
TakeHeadKept ==
  /\ wP' = IF AvailableSize >= MaxMessageSize THEN firstToRelease ELSE Null
  /\ UNCHANGED firstToRelease
\* The head of the chain leaves it if any message fits into what is free.
TakeHead ==
  IF AvailableSize >= MaxMessageSize
    THEN wP' = firstToRelease /\ firstToRelease' = Null
    ELSE wP' = Null /\ UNCHANGED firstToRelease

\* The range to write, the list of guaranteed writes, and the head of the chain.
WriterSnapshot ==
  /\ MxFree /\ wpc = "snapshot"
  /\ wMust' = mustBe /\ wStart' = start /\ wEnd' = end
  /\ wG' = firstToReleaseGuaranteed
  /\ firstToReleaseGuaranteed' = Null /\ nextToAddGuaranteed' = Null
  /\ TakeHead
  /\ wpc' = "write"
  /\ UNCHANGED <<ringVars, nextToAdd, gwwNext, gwwCanRun, ctlVars, mxHeld, loggerVars,
                 fileVars, skipVars, failed, ub>>

\* justWrite, unlocked; with guaranteed writes pending the writer first asserts that
\* it releases no queued thread.
JustWrite ==
  /\ ~ub /\ wpc = "write"
  /\ IF wG # Null /\ wP # Null
       THEN /\ failed' = failed \cup {134}
            /\ wpc' = "unwind"
            /\ UNCHANGED <<fileVars, ub>>
       ELSE /\ wpc' = "advance"
            /\ ub' = buffFreed
            /\ IF NextInLine(wStart, wEnd)
                 THEN written' = written + WriteLength(wStart, wEnd) /\ UNCHANGED garbled
                 ELSE garbled' = TRUE /\ UNCHANGED written
            /\ UNCHANGED failed
  /\ UNCHANGED <<ringVars, chainVars, guarVars, ctlVars, mxHeld, loggerVars, wStart, wEnd,
                 wMust, wP, wG, skipVars>>

\* Variant: start jumps over what was added while the writer wrote.
WriterAdvanceToEnd ==
  /\ MxFree /\ wpc = "advance"
  /\ start' = end /\ wStart' = wEnd
  /\ wpc' = AfterWrite(wG)
  /\ UNCHANGED <<end, mustBe, buff, chainVars, guarVars, ctlVars, mxHeld, loggerVars, wEnd,
                 wMust, wP, wG, fileVars, skipVars, failed, ub>>
\* Variant: the guaranteed writes to release are collected after the write.
WriterAdvanceCollects ==
  /\ MxFree /\ wpc = "advance"
  /\ start' = wEnd /\ wStart' = wEnd
  /\ wG' = firstToReleaseGuaranteed
  /\ firstToReleaseGuaranteed' = Null /\ nextToAddGuaranteed' = Null
  /\ wpc' = AfterWrite(firstToReleaseGuaranteed)
  /\ UNCHANGED <<end, mustBe, buff, chainVars, gwwNext, gwwCanRun, ctlVars, mxHeld,
                 loggerVars, wEnd, wMust, wP, fileVars, skipVars, failed, ub>>
\* What was written leaves the buffer.
WriterAdvance ==
  /\ MxFree /\ wpc = "advance"
  /\ start' = wEnd /\ wStart' = wEnd
  /\ wpc' = AfterWrite(wG)
  /\ UNCHANGED <<end, mustBe, buff, chainVars, guarVars, ctlVars, mxHeld, loggerVars, wEnd,
                 wMust, wP, wG, fileVars, skipVars, failed, ub>>

\* gww->canRun = true under gww->mx.
ReleaseGuaranteed ==
  /\ ~ub /\ wpc = "release"
  /\ ub' = (wG \notin alive)
  /\ IF gwwCanRun[wG]
       THEN /\ failed' = failed \cup {148}
            /\ wpc' = "unwind"
            /\ UNCHANGED gwwCanRun
       ELSE /\ gwwCanRun' = [gwwCanRun EXCEPT ![wG] = TRUE]
            /\ wpc' = "next"
            /\ UNCHANGED failed
  /\ UNCHANGED <<ringVars, chainVars, firstToReleaseGuaranteed, nextToAddGuaranteed,
                 gwwNext, ctlVars, mxHeld, loggerVars, wStart, wEnd, wMust, wP, wG,
                 fileVars, skipVars>>

\* gww->next is read after the mutex was released.
NextGuaranteed ==
  /\ ~ub /\ wpc = "next"
  /\ ub' = (wG \notin alive)
  /\ wG' = gwwNext[wG]
  /\ wpc' = AfterWrite(gwwNext[wG])
  /\ UNCHANGED <<ringVars, chainVars, guarVars, ctlVars, mxHeld, loggerVars, wStart, wEnd,
                 wMust, wP, fileVars, skipVars, failed>>

\* p->canRun = true; start == end holds here, so the loop begins again without
\* looking at termination.
ReleaseChain ==
  /\ ~ub /\ wpc = "releaseChain"
  /\ dCanRun' = [dCanRun EXCEPT ![wP] = TRUE]
  /\ wpc' = IF wStart = wEnd THEN "wait" ELSE "check"
  /\ UNCHANGED <<ringVars, chainVars, guarVars, ctlVars, mxHeld, pc, callVars, dNext,
                 dSkipped, msgEnd, wStart, wEnd, wMust, wP, wG, fileVars, skipVars, failed, ub>>

\* Variants: with transports still there; with data still in the buffer.
MayTerminateInUse == action = "terminationAllowed" /\ start = end
MayTerminateUnwritten == action = "terminationAllowed" /\ refCounter = 1
\* _writerOnly_TerminateIfAlone: only the writer's own reference is left, all is written.
MayTerminate == action = "terminationAllowed" /\ refCounter = 1 /\ start = end

TerminateIfAlone ==
  /\ MxFree /\ wpc = "check"
  /\ IF MayTerminate
       THEN refCounter' = 0 /\ buffFreed' = TRUE /\ wpc' = "unwind"
       ELSE wpc' = "wait" /\ UNCHANGED <<refCounter, buffFreed>>
  /\ UNCHANGED <<ringVars, chainVars, guarVars, action, levelCouldBeSkipped,
                 levelGuaranteedWrite, alive, mxHeld, loggerVars, wStart, wEnd, wMust, wP,
                 wG, fileVars, skipVars, failed, ub>>

\* Variant: the counter is not a size_t.
RefsAfterRemovalSigned == refCounter - 1
\* A reference is given back; the last one frees the buffer.
RefsAfterRemoval == (refCounter - 1) % RefModulus
RemoveRef ==
  /\ refCounter' = RefsAfterRemoval
  /\ buffFreed' = (buffFreed \/ RefsAfterRemoval = 0)

\* runLoop_ returned or threw.
WriterUnwind ==
  /\ MxFree /\ wpc = "unwind"
  /\ RemoveRef
  /\ wpc' = "gone"
  /\ UNCHANGED <<ringVars, chainVars, guarVars, action, levelCouldBeSkipped,
                 levelGuaranteedWrite, alive, mxHeld, loggerVars, wStart, wEnd, wMust, wP,
                 wG, fileVars, skipVars, failed, ub>>

(***************************************************************************)
(* The owners of the transports (class Log)                                 *)
(***************************************************************************)
\* setEnterTerminatingPhase (also from ~Log) and setTerminationAllowed.
SetPhase(a) ==
  /\ MxFree /\ alive # {} /\ a \in Phases /\ action # a
  /\ action' = a
  /\ UNCHANGED <<ringVars, chainVars, guarVars, refCounter, levelCouldBeSkipped,
                 levelGuaranteedWrite, alive, buffFreed, mxHeld, loggerVars, wVars,
                 fileVars, skipVars, failed, ub>>

\* ~LogTransport, from Log::clear or ~Log, when no thread is inside that Log.
DropTransport(g) ==
  /\ MxFree /\ g \in alive \cap Droppable
  /\ \A t \in Threads : TransportOf[t] = g => pc[t] = "idle"
  /\ alive' = alive \ {g}
  /\ RemoveRef
  /\ UNCHANGED <<ringVars, chainVars, guarVars, action, levelCouldBeSkipped,
                 levelGuaranteedWrite, mxHeld, loggerVars, wVars, fileVars, skipVars,
                 failed, ub>>

\* The thresholds are written without taking mx.
SetGuaranteedLevel(l) ==
  /\ ~ub /\ alive # {} /\ levelCouldBeSkipped # l + 1
  /\ levelCouldBeSkipped' = l + 1
  /\ UNCHANGED <<ringVars, chainVars, guarVars, action, refCounter, levelGuaranteedWrite,
                 alive, buffFreed, mxHeld, loggerVars, wVars, fileVars, skipVars, failed, ub>>
SetCriticalLevel(l) ==
  /\ ~ub /\ alive # {} /\ levelGuaranteedWrite # l
  /\ levelGuaranteedWrite' = l
  /\ UNCHANGED <<ringVars, chainVars, guarVars, action, refCounter, levelCouldBeSkipped,
                 alive, buffFreed, mxHeld, loggerVars, wVars, fileVars, skipVars, failed, ub>>

(***************************************************************************)
(* The specification                                                        *)
(***************************************************************************)
\* After Log::add: the writer thread is created, or already counted and waiting.
Init ==
  /\ start = 0 /\ end = 0 /\ mustBe = 0
  /\ buff = [i \in Cells |-> Null]
  /\ skipped = 0 /\ dropped = 0 /\ reported = 0
  /\ action = "proceed"
  /\ refCounter = Cardinality(Transports) + (IF WriterStarted THEN 1 ELSE 0)
  /\ levelCouldBeSkipped = 3 /\ levelGuaranteedWrite = 0
  /\ firstToRelease = Null /\ nextToAdd = Null
  /\ firstToReleaseGuaranteed = Null /\ nextToAddGuaranteed = Null
  /\ gwwNext = [g \in Transports |-> Null] /\ gwwCanRun = [g \in Transports |-> FALSE]
  /\ alive = Transports /\ buffFreed = FALSE /\ mxHeld = FALSE
  /\ pc = [t \in Threads |-> "idle"]
  /\ msg = [t \in Threads |-> [lvl |-> 4, sz |-> 1, crit |-> FALSE]]
  /\ calls = [t \in Threads |-> 0] /\ msgEnd = [t \in Threads |-> 0]
  /\ dNext = [t \in Threads |-> Null] /\ dCanRun = [t \in Threads |-> FALSE]
  /\ dSkipped = [t \in Threads |-> 0]
  /\ wpc = IF WriterStarted THEN "wait" ELSE "created"
  /\ wStart = 0 /\ wEnd = 0 /\ wMust = 0 /\ wP = Null /\ wG = Null
  /\ written = 0 /\ garbled = FALSE /\ failed = {} /\ ub = FALSE

LoggerResume(t) ==
  \/ AddMsgRefused(t) \/ AddMsgSkip(t) \/ AddMsgQueue(t) \/ AddMsgCopy(t)
  \/ GuaranteedReturn(t) \/ ChainWake(t) \/ ChainWaitAgain(t) \/ ChainInsert(t)
  \/ HandOver(t)
Logger(t) == Call(t) \/ LoggerResume(t)

Writer ==
  \/ WriterStart \/ WriterWake \/ WriterSnapshot \/ JustWrite \/ WriterAdvance
  \/ ReleaseGuaranteed \/ NextGuaranteed \/ ReleaseChain \/ TerminateIfAlone
  \/ WriterUnwind

Owner ==
  \/ \E a \in Phases : SetPhase(a)
  \/ \E g \in Droppable : DropTransport(g)
  \/ \E l \in GuaranteedLevels : SetGuaranteedLevel(l)
  \/ \E l \in CriticalLevels : SetCriticalLevel(l)

Next == (\E t \in Threads : Logger(t)) \/ Writer \/ Owner

Spec == Init /\ [][Next]_vars

\* A thread in addMsg goes on when it can, and the writer's timed wait lets it look
\* at its predicate again; nobody has to log or to shut down.
Fairness == WF_vars(Writer) /\ \A t \in Threads : WF_vars(LoggerResume(t))
FairSpec == Spec /\ Fairness

(***************************************************************************)
(* Properties                                                               *)
(***************************************************************************)
Lines == {134, 148, 273, 301, 334}

\* A formatted message and what addMsg remembers of it.
Message == [lvl : Level, sz : 1 .. MaxMessageSize - 1, crit : BOOLEAN]

RingType ==
  /\ start \in Nat /\ end \in Nat /\ mustBe \in Nat
  /\ buff \in [Cells -> Nat \cup {Null}]
  /\ written \in Nat
SkipType ==
  /\ skipped \in Nat /\ dropped \in Nat /\ reported \in Nat
  /\ dSkipped \in [Threads -> Nat]
ChainType ==
  /\ firstToRelease \in Threads \cup {Null} /\ nextToAdd \in Threads \cup {Null}
  /\ dNext \in [Threads -> Threads \cup {Null}]
GuaranteedType ==
  /\ firstToReleaseGuaranteed \in Transports \cup {Null}
  /\ nextToAddGuaranteed \in Transports \cup {Null}
  /\ gwwNext \in [Transports -> Transports \cup {Null}]
CallType ==
  /\ pc \in [Threads -> {"idle", "enter", "waitWrite", "chained", "released",
                          "handOver", "stuck"}]
  /\ msg \in [Threads -> Message]
  /\ calls \in [Threads -> Nat] /\ msgEnd \in [Threads -> Nat]
WriterType ==
  /\ wpc \in {"created", "wait", "snapshot", "write", "advance", "release", "next",
              "releaseChain", "check", "unwind", "gone"}
  /\ wStart \in Nat /\ wEnd \in Nat /\ wMust \in Nat
  /\ wP \in Threads \cup {Null} /\ wG \in Transports \cup {Null}
ControlType ==
  /\ action \in {"proceed", "proceedToTermination", "terminationAllowed"}
  /\ refCounter \in 0 .. RefModulus - 1
  /\ levelCouldBeSkipped \in 0 .. 5 /\ levelGuaranteedWrite \in Level
  /\ alive \in SUBSET Transports /\ failed \in SUBSET Lines
FlagType ==
  /\ garbled \in BOOLEAN /\ buffFreed \in BOOLEAN /\ mxHeld \in BOOLEAN /\ ub \in BOOLEAN
  /\ gwwCanRun \in [Transports -> BOOLEAN] /\ dCanRun \in [Threads -> BOOLEAN]

\* Every variable has the type its declaration in log.h or log.cpp gives it.
TypeOK ==
  /\ RingType /\ SkipType /\ ChainType /\ GuaranteedType
  /\ CallType /\ WriterType /\ ControlType /\ FlagType

\* The cells of the range [start, end) hold exactly that part of the stream, and the
\* range fits into the buffer: no message is copied over data not yet written, which
\* is what the writer relies on when it reads the buffer without mx.
LiveDataIntact ==
  /\ start <= end /\ end - start <= BuffSize
  /\ \A p \in start .. end - 1 : buff[Mask(p)] = p

\* While the writer writes unlocked, its range is still the front of the live range:
\* nobody else moves start, loggers only append behind it.
Writing == wpc \in {"write", "advance"}
SnapshotStable ==
  Writing => wStart = start /\ wEnd \in start .. end /\ wMust <= wEnd

\* Room is given back only after what was there reached the file: the file holds the
\* stream up to start, and up to the end of the writer's range once that is written.
FreedSpaceIsWritten == written = IF wpc = "advance" THEN wEnd ELSE start

\* The assertions of insertMessage and runLoop_ about the list of guaranteed writes
\* (log.cpp 117, 135, 136, 305, 311) cannot fail: a write that is owed is always
\* still to be done, whatever loggers and writer did since it was requested.
GuaranteedAssertions ==
  /\ firstToReleaseGuaranteed # Null => mustBe > (IF Writing THEN wEnd ELSE start)
  /\ wpc = "write" /\ wG # Null => wMust > wStart /\ wMust <= wEnd
  /\ (nextToAddGuaranteed = Null) <=> (firstToReleaseGuaranteed = Null)

\* The assertions of addMsg and runLoop_ about the chain of queued threads (log.cpp
\* 170, 363, 398, 400, 410, 415, 423) cannot fail: a thread that runs again finds the
\* chain without a head, itself in front, and its successor not yet told to run.
ChainAssertions ==
  /\ wpc = "releaseChain" => ~dCanRun[wP]
  /\ nextToAdd = Null => firstToRelease = Null
  /\ \A t \in Threads :
       /\ pc[t] = "released" => /\ firstToRelease = Null /\ nextToAdd # Null
                                /\ (nextToAdd = t) <=> (dNext[t] = Null)
       /\ pc[t] = "handOver" => ~dCanRun[dNext[t]]

\* A queued thread has exactly one party that will let it run: the buffer's head
\* pointer, the writer on its way to it, its canRun flag, or the thread before it;
\* and only one thread at a time is not behind another.  A wake-up is neither lost
\* nor given twice, and the chain moves in the order of arrival.
Queued == {t \in Threads : pc[t] \in {"chained", "released"}}
Behind(t) == {u \in Threads : dNext[u] = t /\ pc[u] \in {"chained", "released", "handOver"}}
WriterHolds(t) == wP = t /\ wpc \in {"write", "advance", "release", "next", "releaseChain"}
Wakers(t) ==
  Cardinality(Behind(t)) + Cardinality({x \in {"head", "writer", "told", "runs"} :
    \/ x = "head" /\ firstToRelease = t
    \/ x = "writer" /\ WriterHolds(t)
    \/ x = "told" /\ dCanRun[t]
    \/ x = "runs" /\ pc[t] = "released"})
ChainBroken == failed \cap {134, 273, 301} # {}
OneWaker ==
  ~ChainBroken =>
    /\ \A t \in Queued : Wakers(t) = 1
    /\ \A t, u \in Queued : Behind(t) = {} /\ Behind(u) = {} => t = u

\* Every message refused as skippable is counted exactly once: in a report in the
\* stream, in the buffer's counter, or in the counter of a queued thread.
SkipsAccounted ==
  273 \notin failed =>
    dropped = skipped + reported + FoldFunction(LAMBDA x, y : x + y, 0, dSkipped)

\* While a thread waits for room, no later message is inserted before its own.
NoOvertaking ==
  [][\A t \in Threads : pc[t] = "enter" /\ end' # end /\ pc'[t] # "enter"
        => ChainBroken \/ Queued = {}]_vars

\* A call that waits for its guaranteed write returns only when the file holds the
\* message.
GuaranteedMeansWritten ==
  [][\A t \in Threads : pc[t] = "waitWrite" /\ pc'[t] = "idle" => msgEnd[t] <= written]_vars

\* The buffer and the file are released only when no transport and no running
\* writer can reach them.
FreedWhenUnused == buffFreed => alive = {} /\ wpc \in {"unwind", "gone"}

\* An orderly termination leaves nothing behind in the buffer.
NothingLostOnTermination == buffFreed /\ failed = {} => written = end

\* A thread that waits for room gets it and returns, unless an assertion threw in the
\* middle of releasing the chain.
QueuedReturns == \A t \in Threads : pc[t] = "chained" ~> (pc[t] = "idle" \/ ChainBroken)

\* What is in the buffer reaches the file without anyone logging again.
InsertedIsWritten == written < end ~> written = end

\* A call that waits for its guaranteed write returns, unless the writer died of an
\* assertion.
GuaranteedReturns ==
  \A t \in Threads : pc[t] = "waitWrite" ~> (pc[t] = "idle" \/ wpc = "gone")

\* The writer asserts that it never has a thread to release besides guaranteed
\* writes (log.cpp:134).
OneKindOfRelease == 134 \notin failed

\* The file holds the stream and nothing else.
FileIsStream == ~garbled
=============================================================================
