---------------------------- MODULE MCErrorValues ----------------------------
(* Small instances of ErrorValues for TLC. *)
EXTENDS ErrorValues, TLC
CONSTANTS t1, t2, p, e1, e2, s1, s2

\* A thread with two errors and one with two StackInfo objects.
MCHolderOf == (e1 :> t1) @@ (e2 :> t1) @@ (s1 :> t2) @@ (s2 :> t2)
MCOneHolder == (e1 :> t1)

MCTraces == {<<p>>, <<p, p>>}
MCOneTrace == {<<p>>}
==============================================================================
