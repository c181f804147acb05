----------------------------- MODULE MCZsnapRun -----------------------------
(***************************************************************************)
(* Small instances of ZsnapRun: boundaries every two ticks, a retention of *)
(* one, and inventories in which one snapshot is due for pruning and a new *)
(* one is due.                                                             *)
(***************************************************************************)
EXTENDS ZsnapRun, TLC

CONSTANTS r1, r2, p1, p2, d1, d2, a, b

MCRuns == {r1, r2}
MCClasses == {a, b}
MCOneClass == {a}

\* Two classes in one pool, or one in each of two pools.
MCDatasetOf == (a :> d1) @@ (b :> d2)
MCOneDatasetOf == a :> d1
MCSamePool == (d1 :> p1) @@ (d2 :> p1)
MCTwoPools == (d1 :> p1) @@ (d2 :> p2)
MCOnePool == d1 :> p1

MCKeep == [c \in Classes |-> 1]
MCWindow == [c \in Classes |-> 2]
MCBoundaries == [c \in Classes |-> {0, 2, 4, 6, 8}]

Old(c, t) == [cls |-> c, name |-> 0, at |-> t, managed |-> TRUE]

\* Up to date until t = 2, then overdue: the clock starts at 3.
MCOneStart == {{Old(a, 0), Old(a, 1)}, {Old(a, 0), Old(a, 1), Old(a, 2)}}
MCTwoStart == {{Old(a, 0), Old(a, 2), Old(b, 0)}}

Symmetry == Permutations({r1, r2})
=============================================================================
