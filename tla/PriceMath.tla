----------------------------- MODULE PriceMath -----------------------------
(***************************************************************************)
(* The aggregation arithmetic of contracts/price-oracle/src/storage.rs as   *)
(* functions of a family of prices: f maps each contributor to its price.  *)
(* The contract's vectors carry no more information than that, since every *)
(* operator below is insensitive to the order of the contributors.         *)
(***************************************************************************)
EXTENDS Naturals, FiniteSets

\* The contributors whose price is below v, and at most v.
Below(f, v)  == {i \in DOMAIN f : f[i] < v}
AtMost(f, v) == {i \in DOMAIN f : f[i] <= v}

\* storage.rs select_kth: the element with rank k (counted from zero) of the
\* sorted vector, found there by quickselect, here by its defining property.
IsKthFloor(f, k, v) ==   \* slip: only the lower half of the rank is checked
    /\ \E i \in DOMAIN f : f[i] = v
    /\ Cardinality(Below(f, v)) <= k

IsKth(f, k, v) ==
    /\ \E i \in DOMAIN f : f[i] = v
    /\ Cardinality(Below(f, v)) <= k
    /\ k < Cardinality(AtMost(f, v))

select_kth(f, k) ==
    CHOOSE v \in {f[i] : i \in DOMAIN f} : IsKth(f, k, v)

\* storage.rs compute_median: the middle element, or for an even count the
\* lower middle plus half the gap to the upper middle, rounded down.
compute_medianOver(f) ==   \* slip: half the gap is added to the upper middle
    LET n     == Cardinality(DOMAIN f)
        lower == select_kth(f, (n \div 2) - 1)
        upper == select_kth(f, n \div 2)
    IN  IF n % 2 = 0 THEN upper + ((upper - lower) \div 2) ELSE upper

compute_median(f) ==
    LET n     == Cardinality(DOMAIN f)
        lower == select_kth(f, (n \div 2) - 1)
        upper == select_kth(f, n \div 2)
    IN  IF n % 2 = 0 THEN lower + ((upper - lower) \div 2) ELSE upper

\* The latest timestamp of a family of natural numbers, 0 when it is empty:
\* the running maximum of the aggregation loop.
latest_timestamp(f) ==
    CHOOSE t \in {0} \cup {f[i] : i \in DOMAIN f} : \A i \in DOMAIN f : f[i] <= t

=============================================================================
