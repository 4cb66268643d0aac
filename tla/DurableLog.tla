----------------------------- MODULE DurableLog -----------------------------
(***************************************************************************)
(* What autosave promises, without lanes, retries or shutdown.  The session *)
(* is one log of operations: `view` is what the program has accepted and    *)
(* shows, `stored` what a crash cannot take away, `acked` how much of it    *)
(* the program has reported as saved.                                       *)
(***************************************************************************)
EXTENDS Naturals, Sequences

CONSTANTS Ops, Captures

VARIABLES view, stored, acked

vars == <<view, stored, acked>>

Init == view = <<>> /\ stored = <<>> /\ acked = 0

\* The first n operations are stored as they show.
Agree(n) == /\ n <= Len(stored) /\ n <= Len(view)
            /\ SubSeq(stored, 1, n) = SubSeq(view, 1, n)

\* An operation shows before it is stored.
Accept ==
    /\ \E op \in Ops : view' = Append(view, op)
    /\ UNCHANGED <<stored, acked>>

\* The oldest operation that is not stored yet is stored.
Persist ==
    /\ Len(stored) < Len(view)
    /\ stored' = Append(stored, view[Len(stored) + 1])
    /\ UNCHANGED <<view, acked>>

\* A screenshot capture is stored before it shows, after everything stored so
\* far; an operation accepted meanwhile may already show in its place.
Capture ==
    /\ Agree(Len(stored))
    /\ \E op \in Captures : stored' = Append(stored, op)
    /\ UNCHANGED <<view, acked>>

\* A capture that nothing overtook shows, and with it everything is saved.
Show ==
    /\ \E op \in Captures : stored = Append(view, op)
    /\ view' = stored /\ acked' = Len(stored)
    /\ UNCHANGED stored

\* Some more is reported as saved: it is stored, and it is what shows.
Acknowledge ==
    /\ acked' \in acked + 1 .. Len(stored) /\ Agree(acked')
    /\ UNCHANGED <<view, stored>>

\* The program dies: what was not stored is gone, what was stored is back.
Crash ==
    /\ view' = stored /\ acked' = Len(stored)
    /\ UNCHANGED stored

Next == Accept \/ Persist \/ Capture \/ Show \/ Acknowledge \/ Crash

Spec == Init /\ [][Next]_vars
=============================================================================
