----------------------------- MODULE MCLogBuffer -----------------------------
(* Small instances of LogBuffer for TLC. *)
EXTENDS LogBuffer, TLC
CONSTANTS t1, t2, t3, g1, g2

\* The levels, by what the default thresholds make of them.
fatal == 0     \* written before the call returns
warning == 2   \* waits for room
info == 3      \* skipped when there is no room

\* One Log used by every thread, and one Log per thread over the same buffer.
MCShared == [t \in Threads |-> g1]
MCOwn == (t1 :> g1) @@ (t2 :> g2)

MCQueueLevels == (t1 :> {warning}) @@ (t2 :> {warning}) @@ (t3 :> {warning, info})
MCQueueCalls == [t \in Threads |-> 2]

\* One fatal, one warning that may become critical, and info to fill the buffer.
MCGuaranteedTransports == (t1 :> g1) @@ (t2 :> g2) @@ (t3 :> g1)
MCGuaranteedLevels == (t1 :> {fatal}) @@ (t2 :> {warning}) @@ (t3 :> {info})
MCGuaranteedCalls == (t1 :> 1) @@ (t2 :> 1) @@ (t3 :> 4)

\* Shutting down: a thread that logs twice and one that logs once.
MCShutdownLevels == (t1 :> {fatal, warning}) @@ (t2 :> {warning})
MCShutdownCalls == (t1 :> 2) @@ (t2 :> 1)

\* The instances on which the code breaks one of its own statements.
MCFillLevels == (t1 :> {warning}) @@ (t2 :> {fatal})
MCFillCalls == (t1 :> 5) @@ (t2 :> 1)
MCFatalLevels == [t \in Threads |-> {fatal}]
MCFatalCalls == (t1 :> 2) @@ (t2 :> 1)
==============================================================================
