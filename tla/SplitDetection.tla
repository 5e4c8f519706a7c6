--------------------------- MODULE SplitDetection ---------------------------
(***************************************************************************)
(* The implied price of a security in a quarter, and whether it split      *)
(* between two quarters: the two queries and the rule that decide what     *)
(* PublishedTables leaves open.  Numbers are compared by cross-            *)
(* multiplication, as the SQL does in exact numeric; a ratio is a pair     *)
(* <<numerator, denominator>> of positive integers.                        *)
(***************************************************************************)
EXTENDS Integers, FiniteSets

Leq(x, y) == x[1] * y[2] <= y[1] * x[2]
Lt(x, y) == x[1] * y[2] < y[1] * x[2]
Times(x, y) == <<x[1] * y[1], x[2] * y[2]>>
Over(x, y) == <<x[1] * y[2], x[2] * y[1]>>
One == <<1, 1>>

\* percentile_disc(0.5): the least element that half of them do not exceed.
MedianOf(S, ratio(_)) ==
    ratio(CHOOSE x \in S :
        /\ 2 * Cardinality({y \in S : Leq(ratio(y), ratio(x))}) >= Cardinality(S)
        /\ 2 * Cardinality({y \in S : Lt(ratio(y), ratio(x))}) < Cardinality(S))

\* implied_price.price: the median of value / shares over the holders that
\* report both; a security with none has no price.
ImpliedPrice(holdings) ==
    LET priced == {h \in holdings : h.shares > 0 /\ h.value > 0}
    IN  IF priced = {} THEN <<0, 1>>
        ELSE MedianOf(priced, LAMBDA h : <<h.value, h.shares>>)

-----------------------------------------------------------------------------

Forward == {<<3, 2>>} \cup {<<n, 1>> : n \in {2, 3, 4, 5, 10, 20, 25, 50}}
SplitFractions == Forward \cup {<<r[2], r[1]>> : r \in Forward}

AgreementTolerance == <<5, 4>>
MinAgreeing == 2
ExactShares == 1

\* How far x is from y as a factor of one or more.
Factor(x, y) == IF Leq(y, x) THEN Over(x, y) ELSE Over(y, x)

Agrees(ratio, fraction) == Leq(Factor(ratio, fraction), AgreementTolerance)

\* The median ratio is snapped to the nearest fraction within tolerance.
Snaps(median, fraction) ==
    /\ Agrees(median, fraction)
    /\ \A other \in SplitFractions : Leq(Factor(median, fraction), Factor(median, other))

\* The filers holding it with shares on both sides of the quarter.
HoldersAcross(before, now) ==
    {[filer |-> x[2].filer, before |-> x[1].shares, now |-> x[2].shares] :
        x \in {y \in before \X now :
            y[1].filer = y[2].filer /\ y[1].shares > 0 /\ y[2].shares > 0}}

SharesRatio(holder) == <<holder.now, holder.before>>

\* Within one share of the shares before times the fraction.
IsExact(holder, fraction) ==
    LET gap == holder.now * fraction[2] - holder.before * fraction[1]
    IN  gap <= fraction[2] * ExactShares /\ -gap <= fraction[2] * ExactShares

\* The product, one plus the stock's return, is inside 0.4 to 1.6 and nearer
\* one than the fraction is.
PriceCorroborates(fraction, product) ==
    /\ Leq(<<2, 5>>, product) /\ Leq(product, <<8, 5>>)
    /\ IF Lt(One, fraction) THEN Lt(Times(product, product), fraction)
       ELSE Lt(fraction, Times(product, product))

\* judge(): agreement, then the price, then what the size of the ratio asks.
IsSplit(holders, fraction, priceBefore, priceNow) ==
    LET agreeing == Cardinality({h \in holders : Agrees(SharesRatio(h), fraction)})
        exact == \E h \in holders : IsExact(h, fraction)
        majority == agreeing >= 3 /\ agreeing * 2 > Cardinality(holders)
        size == Factor(fraction, One)
    IN  /\ agreeing >= MinAgreeing
        /\ agreeing * 3 >= Cardinality(holders)
        /\ priceBefore[1] > 0 /\ priceNow[1] > 0
        /\ PriceCorroborates(fraction, Times(fraction, Over(priceNow, priceBefore)))
        /\ \/ Leq(<<4, 1>>, size)
           \/ exact
           \/ Leq(<<3, 1>>, size) /\ majority

\* split_candidates and judge: the ratio detected, <<1, 1>> when none is.
DetectedSplit(before, now, priceBefore, priceNow) ==
    LET detected ==
            {fraction \in SplitFractions :
                \E holders \in {HoldersAcross(before, now)} :
                    /\ Cardinality(holders) >= MinAgreeing
                    /\ \E median \in {MedianOf(holders, SharesRatio)} : Snaps(median, fraction)
                    /\ IsSplit(holders, fraction, priceBefore, priceNow)}
    IN  IF detected = {} THEN One ELSE CHOOSE fraction \in detected : TRUE
=============================================================================
