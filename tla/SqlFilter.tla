----------------------------- MODULE SqlFilter -----------------------------
(***************************************************************************)
(* What a condition of a WHERE clause means, as DataFusion evaluates it on *)
(* a row of a metric table.                                                *)
(*                                                                         *)
(* A condition compares a column with a literal: `flipped' if the literal  *)
(* is on the left, `literal' "foreign" if it is of a type that metric      *)
(* scans do not read, `narrowed' if the column is under a TRY_CAST to a    *)
(* narrower integer type, which makes NULL of a number that does not fit.  *)
(* For timestamp, value and downsample_resolution its value is a number;   *)
(* for a label it is the set of label values for which the operator,       *)
(* without its negation, holds: one for =, those a pattern matches for ~,  *)
(* those below the literal for <.                                          *)
(***************************************************************************)
EXTENDS Integers

CONSTANT NarrowMax  \* the greatest number of the narrower type, as 127 of TINYINT

ASSUME NarrowAssumption == NarrowMax \in Nat

Numeric == {"timestamp", "value", "downsample_resolution"}

IsCondition(e) ==
    /\ e.flipped \in BOOLEAN /\ e.narrowed \in BOOLEAN
    /\ e.column \in Numeric => e.value \in Int
    /\ e.narrowed => e.column \in Numeric

\* "distinct" and "same": IS [NOT] DISTINCT FROM; no column is ever NULL.
Compare(left, operator, right) ==
    CASE operator \in {"=", "same"} -> left = right
      [] operator \in {"!=", "distinct"} -> left # right
      [] operator = "<"  -> left < right
      [] operator = "<=" -> left <= right
      [] operator = ">"  -> left > right
      [] operator = ">=" -> left >= right

\* The condition of the column itself.
Compares(e, x) ==
    IF e.column \in Numeric
    THEN IF e.flipped THEN Compare(e.value, e.operator, x) ELSE Compare(x, e.operator, e.value)
    ELSE (x \in e.value) = (e.operator \notin {"!=", "!~", "distinct"})

\* NULL is distinct from every literal, and compares with none.
Fits(x) == x \in (-NarrowMax - 1)..NarrowMax
Holds(e, x) == IF e.narrowed /\ ~Fits(x) THEN e.operator = "distinct" ELSE Compares(e, x)

\* A label that a series does not have is an empty column.
LabelColumn(labels, name) == IF name \in DOMAIN labels THEN labels[name] ELSE ""

Column(row, name) ==
    CASE name = "timestamp" -> row.timestamp
      [] name = "value" -> row.value
      [] name = "downsample_resolution" -> row.resolution
      [] OTHER -> LabelColumn(row.labels, name)

Satisfies(row, where) == \A e \in where : Holds(e, Column(row, e.column))
=============================================================================
