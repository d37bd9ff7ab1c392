------------------------------- MODULE Series -------------------------------
(***************************************************************************)
(* The pandas operations that indicators and features are composed of, by  *)
(* what they do to the rows a value depends on.  A series is a sequence; a *)
(* row of it is the set of input rows its value was computed from, NaN if  *)
(* that set is empty, and a constant if it is Constant.  Two computations  *)
(* of the same formula that depend on the same rows give the same value.   *)
(***************************************************************************)
EXTENDS Integers, Sequences, FiniteSetsExt, SequencesExt, Selections

NaN == {}
Constant == {0}

(* x + y and every other arithmetic of two series; max(axis=1) of several. *)
Both(x, y) == [t \in DOMAIN x |-> IF NaN \in {x[t], y[t]} THEN NaN ELSE x[t] \cup y[t]]
RowMax(x, y) == [t \in DOMAIN x |-> x[t] \cup y[t]]

Shift(x, k) == [t \in DOMAIN x |-> IF t - k \in DOMAIN x THEN x[t - k] ELSE NaN]
Diff(x, k) == Both(x, Shift(x, k))

Of(x, rows) == UNION {x[i] : i \in rows}
Defined(x, rows) == {i \in rows \cap DOMAIN x : x[i] # NaN}

(* rolling(w, min_periods), ewm(min_periods, adjust=False), cumsum.        *)
Rolling(x, w, minp) ==
  [t \in DOMAIN x |-> LET rows == Defined(x, t - w + 1..t)
                      IN  IF Cardinality(rows) >= minp THEN Of(x, rows) ELSE NaN]
Ewm(x, minp) ==
  [t \in DOMAIN x |-> LET rows == Defined(x, 1..t)
                      IN  IF Cardinality(rows) >= minp THEN Of(x, rows) ELSE NaN]
CumSum(x) == [t \in DOMAIN x |-> IF x[t] = NaN THEN NaN ELSE Of(x, 1..t)]

Fill(x) == [t \in DOMAIN x |-> IF x[t] = NaN THEN Constant ELSE x[t]]

(* dropna: the values that are left, in their order.                       *)
DropNa(x) == Select(x, Defined(x, DOMAIN x))

(* A model fitted to the whole series and applied to each of its rows.     *)
WholeSample(x) == [t \in DOMAIN x |-> Of(x, DOMAIN x)]
=============================================================================
