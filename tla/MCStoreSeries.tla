--------------------------- MODULE MCStoreSeries ---------------------------
(* Three blocks and the requests that tell the code's decisions apart.     *)
(* Label 1 is a series label, 2 is one that only some series carry, 3 is   *)
(* the external one.  The window of the requests starts or ends on chunk   *)
(* boundaries, inside chunks, and in the gap between two chunks.  Value 2   *)
(* of label 2 has a character that JSON escapes; no request asks for it    *)
(* with =, which never finds it (see NeverFound).                          *)
EXTENDS StoreSeries

XorChunk(from, to) == [min |-> from, max |-> to, slots |-> {"raw"}]
Downsampled(from, to, slots) == [min |-> from, max |-> to, slots |-> slots]

\* Two raw blocks of one Prometheus, one after the other, and a downsampled
\* one of another, with a chunk that has no counter.
ThreeBlocks == <<
    [external |-> <<0, 0, 1>>, resolution |-> 0, min |-> 0, max |-> 4, series |-> <<
        [labels |-> <<1, 0, 0>>, chunks |-> <<XorChunk(0, 0), XorChunk(1, 1), XorChunk(3, 3)>>],
        [labels |-> <<2, 1, 0>>, chunks |-> <<XorChunk(1, 2)>>] >>],
    [external |-> <<0, 0, 1>>, resolution |-> 0, min |-> 4, max |-> 8, series |-> <<
        [labels |-> <<1, 0, 0>>, chunks |-> <<XorChunk(4, 6)>>] >>],
    [external |-> <<0, 0, 2>>, resolution |-> 5, min |-> 0, max |-> 8, series |-> <<
        [labels |-> <<1, 2, 0>>, chunks |-> <<Downsampled(0, 3, {"count", "counter"}),
                                              Downsampled(4, 7, {"count"})>>] >>]
    >>

Plain ==
    [api |-> "Series", unsupported |-> FALSE, label |-> 1, matchers |-> {}, min |-> 0, max |-> 7,
     aggregates |-> {}, maxResolution |-> 0, limit |-> 0, skipChunks |-> FALSE,
     disabled |-> FALSE, strategy |-> "warn", batch |-> 0]

Matcher(n, t, vs) == [name |-> n, type |-> t, values |-> vs]
MatcherSets ==
    {{}, {Matcher(1, "Eq", {1})}, {Matcher(2, "Eq", {0})}, {Matcher(2, "Nre", {1})},
     {Matcher(1, "Re", {1, 2}), Matcher(3, "Neq", {2})}}
Windows == {<<0, 7>>, <<2, 2>>, <<1, 3>>, <<0, 0>>, <<6, 9>>}
In(r, w) == [r EXCEPT !.min = w[1], !.max = w[2]]

Matching == {In([Plain EXCEPT !.matchers = ms], w) : ms \in MatcherSets, w \in Windows}
Limited ==
    {[Plain EXCEPT !.limit = n, !.batch = k, !.skipChunks = s] : n \in {1, 2, 3}, k \in {0, 2}, s \in BOOLEAN}
Skipping == {In([Plain EXCEPT !.skipChunks = TRUE], w) : w \in Windows}
Aggregating ==
    {[Plain EXCEPT !.aggregates = a, !.maxResolution = n] :
        a \in {{"count"}, {"counter"}, {"raw", "counter"}}, n \in {0, 5}}
Strict == {[Plain EXCEPT !.disabled = d, !.strategy = s] : d \in BOOLEAN, s \in {"warn", "abort"}}
Listing ==
    {In([Plain EXCEPT !.api = a, !.label = n, !.matchers = ms, !.limit = k], w) :
        a \in {"LabelNames", "LabelValues"}, n \in {1, 2}, ms \in MatcherSets, k \in {0, 1}, w \in Windows}
Wrong ==
    {[Plain EXCEPT !.api = a, !.unsupported = u, !.label = n, !.limit = k, !.matchers = ms, !.aggregates = g] :
        a \in Apis, u \in BOOLEAN, n \in {0, 1}, k \in {-1, 0}, g \in {{}, {"unknown"}},
        ms \in {{}, {Matcher(0, "Eq", {1})}, {Matcher(1, "unknown", {})}}}

AllRequests == Matching \cup Limited \cup Skipping \cup Aggregating \cup Strict \cup Listing \cup Wrong
PlainRequest == {Plain}
=============================================================================
