--------------------------- MODULE MCPoolExecutor ---------------------------
(* Plans of one pool that reach every path of the executor. *)
EXTENDS HookedPool

CONSTANTS d1, d2, d3

Plain(d, n, recursive) ==
  [ds |-> d, n |-> n, recursive |-> recursive, pre |-> FALSE, post |-> FALSE,
   noInconsistent |-> FALSE, forcePost |-> FALSE]

Destroying(d, n, pre, post) == [ds |-> d, n |-> n, pre |-> pre, post |-> post]

\* Up to three unhooked datasets with up to two names each, plain or recursive:
\* with a batch size of two, full chunks, remainders and rounds of every shape.
Optional(d) == {<<>>} \cup {<<Plain(d, n, r)>> : n \in 1..2, r \in BOOLEAN}

MCBatchedWorks ==
  {[snapshots |-> s1 \o s2 \o s3, prunes |-> <<Destroying(d1, k, FALSE, FALSE),
                                              Destroying(d2, 1, FALSE, FALSE)>>] :
     s1 \in Optional(d1), s2 \in Optional(d2), s3 \in Optional(d3), k \in 1..3}

\* Every combination of the hook options, next to a hooked dataset that may
\* fail on its own and to an unhooked one.
MCHookedWorks ==
  {[snapshots |-> <<[ds |-> d1, n |-> n, recursive |-> FALSE, pre |-> pre, post |-> post,
                     noInconsistent |-> no, forcePost |-> force],
                    Plain(d2, 1, FALSE),
                    [Plain(d3, 1, TRUE) EXCEPT !.post = TRUE]>>,
    prunes |-> <<Destroying(d1, 2, pre, post), Destroying(d2, 1, FALSE, FALSE)>>] :
      n \in 1..2, pre \in BOOLEAN, post \in BOOLEAN, no \in BOOLEAN, force \in BOOLEAN}

MCWorks == MCBatchedWorks \cup MCHookedWorks
=============================================================================
