--------------------------- MODULE FilteredTable ---------------------------
(***************************************************************************)
(* What the metric tables promise: a query is answered with exactly the    *)
(* samples of its metric that satisfy its conditions, or it is refused,    *)
(* and then not because of a chunk that one of the conditions rules out.   *)
(*                                                                         *)
(* `chunks' is what the tables are made of: each chunk has a metric,       *)
(* labels, a resolution, bounds, and samples, each a pair of timestamp and *)
(* value.  `active': its block is one that the reader indexes; chunks of   *)
(* other blocks are shown while they are there, but give no columns.       *)
(* `known': its repository is configured; `readable': its record is there  *)
(* and can be decoded.                                                     *)
(***************************************************************************)
EXTENDS SqlFilter

CONSTANT Queries

VARIABLES
    chunks,
    query,  \* the query that is waiting or answered: metric, where, columns
    answer  \* its state, and its rows

NoQuery == [metric |-> "", where |-> {}, columns |-> {}]
Unanswered == [status |-> "none", rows |-> {}]
Refusal == [status |-> "refused", rows |-> {}]
Answer(rows) == [status |-> "answered", rows |-> rows]

Table(metric) == {c \in chunks : c.metric = metric}

\* Every label of an active series of the metric is a column.
Active(metric) == {c \in Table(metric) : c.active}
Labels(metric) == UNION {DOMAIN c.labels : c \in Active(metric)}
TableRow(c, sample) ==
    [chunk |-> c.at, timestamp |-> sample[1], value |-> sample[2], resolution |-> c.resolution,
     labels |-> [n \in Labels(c.metric) |-> LabelColumn(c.labels, n)]]

Exactly(q) ==
    {r \in UNION {{TableRow(c, s) : s \in c.samples} : c \in Table(q.metric)} : Satisfies(r, q.where)}

\* A comparison of the time, the resolution or a label with a literal.
Simple(e) ==
    /\ e.column # "value" /\ e.literal = "scalar"
    /\ e.operator \in {"=", "!="}
          \cup (IF e.column \in Numeric THEN {"<", "<=", ">", ">="} ELSE IF e.flipped THEN {} ELSE {"~", "!~"})

\* No condition by itself rules the chunk out.
Relevant(c, q) ==
    \A e \in q.where :
        Simple(e) => \E t \in c.mint..c.maxt : Holds(e, Column(TableRow(c, <<t, 0>>), e.column))

-----------------------------------------------------------------------------
TableInit == query = NoQuery /\ answer = Unanswered

Ask ==
    /\ query = NoQuery
    /\ query' \in Queries
    /\ UNCHANGED <<chunks, answer>>

Reply ==
    /\ query # NoQuery /\ answer = Unanswered
    /\ \A c \in Table(query.metric) : c.known /\ (Relevant(c, query) => c.readable)
    /\ answer' = Answer(Exactly(query))
    /\ UNCHANGED <<chunks, query>>

HasColumns(q) == \A e \in q.where : e.column \in Numeric \cup Labels(q.metric)

\* A row that names a repository which is not configured, a chunk that cannot
\* be read, a metric or a label of no active block, or a query for no column
\* (COUNT(*)).
Refuse ==
    /\ query # NoQuery /\ answer = Unanswered
    /\ \/ \E c \in Table(query.metric) : ~c.known \/ (Relevant(c, query) /\ ~c.readable)
       \/ Active(query.metric) = {}
       \/ ~HasColumns(query) \/ query.columns = {}
    /\ answer' = Refusal
    /\ UNCHANGED <<chunks, query>>

Close ==
    /\ answer # Unanswered
    /\ query' = NoQuery /\ answer' = Unanswered
    /\ UNCHANGED chunks

TableSpec == TableInit /\ [][Ask \/ Reply \/ Refuse \/ Close]_<<chunks, query, answer>>
=============================================================================
