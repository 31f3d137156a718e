---------------------------- MODULE MCRangeCache ----------------------------
(* Models of the page cache for TLC. *)
EXTENDS RangeCache

CONSTANTS
    r1, r2,
    k1, k2, k3,
    QueueBound   \* bound on the two queues together

OneKey == {k1}
TwoKeys == {k1, k2}
ThreeKeys == {k1, k2, k3}
OneReader == {r1}
TwoReaders == {r1, r2}

UnitSizes == [k \in Keys |-> 1]
UnequalSizes == [k \in Keys |-> IF k = k2 THEN 2 ELSE 1]
MixedSizes == [k \in Keys |-> IF k = k3 THEN 2 ELSE 1]

\* Reads of one page, and reads that cross a page boundary.
SinglePages == {<<k>> : k \in Keys}
PagesAndPair == {<<k1, k2>>, <<k2>>, <<k3>>}

QueuesBounded == Len(probationary) + Len(protected) <= QueueBound

ReaderSymmetry == Permutations(Readers)
=============================================================================
