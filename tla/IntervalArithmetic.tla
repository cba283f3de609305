--------------------------- MODULE IntervalArithmetic ----------------------------
(***************************************************************************)
(* Interval and Bound of src/src/analysis/dataflow/intervals.rs: non-empty *)
(* closed ranges of integers whose finite endpoints are machine integers.  *)
(* An i128 is an integer of Machine, whatever its width; NegInf and PosInf *)
(* are the integers next to it, so that the order of Bound is that of the  *)
(* integers.                                                               *)
(***************************************************************************)
EXTENDS Integers

CONSTANT MaxInt

ASSUME MaxIntAssumption == MaxInt \in Nat \ {0}

MinInt == -MaxInt - 1
Machine == MinInt..MaxInt
NegInf == MinInt - 1
PosInf == MaxInt + 1
Bounds == NegInf..PosInf

Span(lo, hi) == [lo |-> lo, hi |-> hi]
Ranges == [lo: Bounds, hi: Bounds]

\* Interval::new has nothing to construct otherwise.
IsInterval(i) == i.lo # PosInf /\ i.hi # NegInf /\ i.lo <= i.hi

Intervals == {i \in Ranges : IsInterval(i)}
Top == Span(NegInf, PosInf)
OrTop(i) == IF IsInterval(i) THEN i ELSE Top

Singleton(value) == Span(value, value)
IsSingleton(i) == i.lo = i.hi /\ i.lo \in Machine

\* The integers an interval stands for, also those no machine integer is.
Includes(i, value) ==
    /\ i.lo = NegInf \/ i.lo <= value
    /\ i.hi = PosInf \/ value <= i.hi

IsSubsetOf(i, j) == j.lo <= i.lo /\ i.hi <= j.hi

-------------------------------------------------------------------------------
(* The lattice *)

Lower(a, b) == IF a <= b THEN a ELSE b
Higher(a, b) == IF a <= b THEN b ELSE a

Hull(i, j) == Span(Lower(i.lo, j.lo), Higher(i.hi, j.hi))

\* meet, where it is an interval
Common(i, j) == Span(Higher(i.lo, j.lo), Lower(i.hi, j.hi))

Widened(i, j) ==
    Span(IF j.lo < i.lo THEN NegInf ELSE i.lo, IF j.hi > i.hi THEN PosInf ELSE i.hi)

Narrowed(i, j) ==
    LET candidate == Span(IF i.lo = NegInf THEN j.lo ELSE i.lo,
                           IF i.hi = PosInf THEN j.hi ELSE i.hi)
    IN IF IsInterval(candidate) THEN candidate ELSE i

-------------------------------------------------------------------------------
(* Arithmetic. checked_add and checked_neg fail outside Machine. *)

AddFinite(bound, amount) ==
    IF bound \in {NegInf, PosInf} THEN bound
    ELSE IF bound + amount \in Machine THEN bound + amount
    ELSE IF amount < 0 THEN NegInf ELSE PosInf

NegateBound(bound) ==
    IF bound \in {NegInf, MinInt} THEN PosInf ELSE IF bound = PosInf THEN NegInf ELSE -bound

SaturatingNeg(amount) == IF amount = MinInt THEN MaxInt ELSE -amount

Shift(i, amount) == OrTop(Span(AddFinite(i.lo, amount), AddFinite(i.hi, amount)))
Negate(i) == OrTop(Span(NegateBound(i.hi), NegateBound(i.lo)))

\* Only sums and differences with a known operand are followed.
AddIntervals(i, j) ==
    IF IsSingleton(j) THEN Shift(i, j.lo)
    ELSE IF IsSingleton(i) THEN Shift(j, i.lo) ELSE Top
SubtractIntervals(i, j) == IF IsSingleton(j) THEN Shift(i, SaturatingNeg(j.lo)) ELSE Top

-------------------------------------------------------------------------------
(* comparison_regions: the values for which a comparison has a truth       *)

Comparisons == {"<", "<=", ">", ">=", "==", "!="}

Holds(operator, left, right) ==
    CASE operator = "<" -> left < right [] operator = "<=" -> left <= right
      [] operator = ">" -> left > right [] operator = ">=" -> left >= right
      [] operator = "==" -> left = right [] operator = "!=" -> left # right

\* The operator that says the same with its operands exchanged.
ReverseComparison(operator) ==
    CASE operator = "<" -> ">" [] operator = "<=" -> ">="
      [] operator = ">" -> "<" [] operator = ">=" -> "<="
      [] OTHER -> operator

\* The operator that holds where this one does not.
Otherwise(operator) ==
    CASE operator = "<" -> ">=" [] operator = "<=" -> ">"
      [] operator = ">" -> "<=" [] operator = ">=" -> "<"
      [] operator = "==" -> "!=" [] operator = "!=" -> "=="

Below(constant) == Span(NegInf, constant - 1)
Above(constant) == Span(constant + 1, PosInf)

Satisfying(operator, constant) ==
    CASE operator = "<" -> {Below(constant)}
      [] operator = "<=" -> {Span(NegInf, constant)}
      [] operator = ">" -> {Above(constant)}
      [] operator = ">=" -> {Span(constant, PosInf)}
      [] operator = "==" -> {Singleton(constant)}
      [] operator = "!=" -> {Below(constant), Above(constant)}

Regions(operator, constant, truth) ==
    {i \in Satisfying(IF truth THEN operator ELSE Otherwise(operator), constant) : IsInterval(i)}
===============================================================================
