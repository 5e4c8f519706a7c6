----------------------------- MODULE MCPublished -----------------------------
(***************************************************************************)
(* What is published, what reads it from EDGAR and Congress, and how it is *)
(* listed, checked in one run of TLC: "scenario" says which a behaviour is *)
(* of.  The first three are instances of Recompute, each with its          *)
(* accessions, what each may parse to, the order EDGAR accepted them in,   *)
(* and its filers and what the seed may do to them; the prices and the     *)
(* split detection are SplitDetection's.  The others are instances of a    *)
(* module each.                                                            *)
(***************************************************************************)
EXTENDS Recompute, SplitDetection, InsiderLines, InsiderClusters, Form4Crawl, PtrListings, PtrLines,
        Pages, TLC

CONSTANTS f1, f2, f3, c1, c2, c3, s1, s2,
    Scenarios       \* those the run checks

VARIABLE scenario

Doc(c, p, k, suspicious, holdings) ==
    [cik |-> c, period |-> p, kind |-> k, suspect |-> suspicious, held |-> holdings]
Pos(n, v) == [shares |-> n, value |-> v]
TheCikOrder == c1 :> 1 @@ c2 :> 2 @@ c3 :> 3
TheNoPrice == <<0, 1>>

\* The arguments are bound, so that TLC evaluates each of them once.
ThePrice(holdings) == CHOOSE x \in {ImpliedPrice(h) : h \in {holdings}} : TRUE
TheSplit(before, now, priceBefore, priceNow) ==
    CHOOSE x \in {DetectedSplit(b, n, m, p) : b \in {before}, n \in {now},
                                             m \in {priceBefore}, p \in {priceNow}} : TRUE

\* One manager, three quarters, two securities: an original that may be
\* re-parsed onto the next quarter, a suspect second quarter and its
\* restatement, positions released from confidential treatment, and a third
\* quarter that sells one security.
AmendClaims == {c1 :> f1 @@ c2 :> NoFiler @@ c3 :> NoFiler}
AmendOrder == "a1" :> 1 @@ "a2" :> 2 @@ "a3" :> 4 @@ "a4" :> 5 @@ "a5" :> 3
AmendParses ==
    "a1" :> {Doc(c1, 1, "original", FALSE, s1 :> Pos(10, 100)),
           Doc(c1, 2, "original", FALSE, s1 :> Pos(10, 100))}
 @@ "a2" :> {Doc(c1, 2, "original", TRUE, s1 :> Pos(10, 100) @@ s2 :> Pos(5, 50)),
           Doc(c1, 2, "unclassified", FALSE, s1 :> Pos(12, 120))}
 @@ "a3" :> {Doc(c1, 2, "restatement", FALSE, s2 :> Pos(7, 70))}
 @@ "a4" :> {Doc(c1, 3, "original", FALSE, s1 :> Pos(9, 90))}
 @@ "a5" :> {Doc(c1, 2, "new_holdings", FALSE, s2 :> Pos(3, 30))}

\* Two holders of one security across a 4-for-1 split in the second quarter,
\* which a third filer skips; the second holder's filing may be re-parsed so
\* that the holders no longer agree.
SplitClaims == {c1 :> f1 @@ c2 :> f2 @@ c3 :> f3}
SplitOrder == "b1" :> 11 @@ "b2" :> 12 @@ "b3" :> 13 @@ "b4" :> 14 @@ "b5" :> 15 @@ "b6" :> 16
SplitParses ==
    "b1" :> {Doc(c1, 1, "original", FALSE, s1 :> Pos(10, 400))}
 @@ "b2" :> {Doc(c1, 2, "original", FALSE, s1 :> Pos(40, 400))}
 @@ "b3" :> {Doc(c2, 1, "original", FALSE, s1 :> Pos(20, 800))}
 @@ "b4" :> {Doc(c2, 2, "original", FALSE, s1 :> Pos(80, 800)),
           Doc(c2, 2, "original", FALSE, s1 :> Pos(20, 800))}
 @@ "b5" :> {Doc(c3, 1, "original", FALSE, s1 :> Pos(5, 200))}
 @@ "b6" :> {Doc(c3, 3, "original", FALSE, s1 :> Pos(20, 220)),
           Doc(c3, 3, "notice", FALSE, NoHoldings)}

\* Two entities of one manager reporting the same quarter, under either
\* overlap policy, and a CIK nobody claims until the seed lists it.
OverlapClaims == {c1 :> f1 @@ c2 :> f1 @@ c3 :> f2, c1 :> f1 @@ c2 :> NoFiler @@ c3 :> NoFiler}
OverlapOrder == "d1" :> 21 @@ "d2" :> 22 @@ "d3" :> 23
OverlapParses ==
    "d1" :> {Doc(c1, 1, "original", FALSE, s1 :> Pos(10, 100)),
           Doc(c3, 1, "original", FALSE, s1 :> Pos(10, 100))}
 @@ "d2" :> {Doc(c2, 1, "original", FALSE, s1 :> Pos(10, 100) @@ s2 :> Pos(1, 10))}
 @@ "d3" :> {Doc(c1, 1, "restatement", TRUE, s1 :> Pos(30, 300))}

TheOrder == AmendOrder @@ SplitOrder @@ OverlapOrder
TheParses == AmendParses @@ SplitParses @@ OverlapParses
TheAccessions == DOMAIN TheOrder
TheClaims == AmendClaims \cup SplitClaims \cup OverlapClaims

\* An original with an amendment, and another of the same day by one owner more
\* with its own, which a second amendment amends; and a last amendment of the
\* first's owner.
FormsFiledOn == <<1, 1, 2, 3, 4>>
FormsOriginalOn == <<0, 0, 1, 2, 1>>
FormsOwnersOf == <<{"x"}, {"x", "y"}, {"x", "y"}, {"x", "y"}, {"x"}>>

\* A run by hand of the last days, which no run need have reached.
LastTwoDays == {<<3, 4>>}

\* Two buyers on the first four days, or four purchases of three: windows that
\* touch, link up and stay apart; and a widest point of the grid that needs a
\* third buyer.
TheGrid ==
    <<[window |-> 2, insiders |-> 2], [window |-> 1, insiders |-> 2], [window |-> 3, insiders |-> 3]>>
TheHistories ==
    SUBSET ({"x", "y"} \X (1 .. 4))
        \cup {h \in SUBSET ({"x", "y", "z"} \X (1 .. 5)) : Cardinality(h) = 4}
Loading(adds, drops) == [adds |-> adds, drops |-> drops]
TheFiled ==
    {Loading({<<"x", 1>>}, {}), Loading({<<"y", 3>>}, {}), Loading({<<"z", 4>>}, {}),
     Loading({<<"x", 5>>}, {<<"x", 1>>})}

\* House reports indexed a year before they are filed, one whose date is
\* mistyped ahead, and a Senate list read a report a page.
ThePlaces == "s1" :> 1 @@ "s2" :> 2 @@ "s3" :> 3
TheDates == "s1" :> 1 @@ "s2" :> 1 @@ "s3" :> 3 @@ "h2" :> 2 @@ "h3" :> 3 @@ "h4" :> 4
TheIndexYears == "h2" :> 0 @@ "h3" :> 1 @@ "h4" :> 1
LastSenateDate == 3

\* A listing's rows tied on either key, one way, the other, and a sort that rises
\* with its ties falling, as the screener's.
TheSortValues == {<<1, 1>>, <<1, 2>>, <<2, 1>>}
TheKeysets == {<<TRUE, TRUE, TRUE>>, <<FALSE, FALSE, FALSE>>, <<FALSE, TRUE, TRUE>>}

ASSUME PublishedAssumption ==
    /\ {f1, f2, f3} \subseteq Filers /\ {c1, c2, c3} \subseteq Ciks
    /\ DOMAIN AmendOrder \cup DOMAIN SplitOrder \cup DOMAIN OverlapOrder \subseteq Accessions

-----------------------------------------------------------------------------
(* The 13F tables.                                                         *)

ItsClaims ==
    IF scenario = "split" THEN SplitClaims
    ELSE IF scenario = "overlap" THEN OverlapClaims ELSE AmendClaims

Loads(accessions) == \E a \in accessions : Load(a)
Rebuilds(filers, periods) ==
    \/ RecomputeAll \/ DetectSplits
    \/ \E f \in filers : RecomputeFiler(f) \/ Reprioritise(f)
    \/ \E p \in periods : RecomputePeriod(p)

AmendNext ==
    \/ Loads(DOMAIN AmendOrder) \/ Rebuilds({f1}, Periods) \/ SetOverlap(f1)
    \/ RecomputePairs /\ announced' \subseteq {f1} \X Periods
SplitNext == Loads(DOMAIN SplitOrder) \/ Rebuilds({f1, f2, f3}, Periods) \/ RecomputePairs
OverlapNext ==
    \/ Loads(DOMAIN OverlapOrder) \/ Rebuilds({f1, f2}, {1}) \/ SetOverlap(f1)
    \/ ClaimCik(f1, c2) \/ ClaimCik(f2, c2) \/ ClaimCik(f2, c3)

-----------------------------------------------------------------------------

form4Vars == <<insiderVars, clusterVars, crawlVars>>
congressVars == <<ptrVars, listingVars>>

\* Of the transactions on PTRs.
MostInProgress == 2
PtrInProgress ==
    Cardinality({p \in Passes : pass[p].step # "idle"})
        + Cardinality({r \in Reports : reading.report = r})
        + Cardinality({r \in Reports : review.report = r})

PublishedInit ==
    /\ scenario \in Scenarios
    /\ Init /\ roster.owner \in ItsClaims
    /\ InsiderInit /\ CrawlInit /\ PtrInit /\ ListingsInit /\ ClusterInit /\ PagesInit
    /\ scenario = "pages" \/ ({r \in Lines : row[r] # Absent} = {} /\ keyset = <<TRUE, TRUE, TRUE>>)
    /\ IF scenario = "clusters" THEN unloaded = {} \/ bought = {} ELSE bought = {} /\ unloaded = {}

PublishedNext ==
    /\ UNCHANGED scenario
    /\ \/ /\ \/ scenario = "amend" /\ AmendNext
             \/ scenario = "split" /\ SplitNext
             \/ scenario = "overlap" /\ OverlapNext
          /\ UNCHANGED <<form4Vars, congressVars, pagesVars>>
       \/ /\ scenario = "insider" /\ InsiderNext
          /\ UNCHANGED <<vars, clusterVars, crawlVars, congressVars, pagesVars>>
       \/ /\ scenario = "clusters" /\ ClusterNext
          /\ UNCHANGED <<vars, insiderVars, crawlVars, congressVars, pagesVars>>
       \/ /\ scenario = "crawl" /\ CrawlNext
          /\ UNCHANGED <<vars, insiderVars, clusterVars, congressVars, pagesVars>>
       \/ /\ scenario = "lines" /\ PtrNext /\ PtrInProgress' <= MostInProgress
          /\ UNCHANGED <<vars, form4Vars, listingVars, pagesVars>>
       \/ /\ \/ /\ scenario = "house" /\ ListingsNext
                /\ UNCHANGED search /\ onList' \subseteq HousePtrs
             \/ /\ scenario = "senate" /\ ListingsNext
                /\ UNCHANGED houseRun /\ onList' \cap HousePtrs = {} /\ date' <= LastSenateDate
          /\ UNCHANGED <<vars, form4Vars, ptrVars, pagesVars>>
       \/ /\ scenario = "pages" /\ PagesNext
          /\ UNCHANGED <<vars, form4Vars, congressVars>>

PublishedSpec ==
    PublishedInit /\ [][PublishedNext]_<<scenario, vars, form4Vars, congressVars, pagesVars>>

PublishedTypeOK ==
    /\ TypeOK
    /\ InsiderTypeOK /\ ClusterTypeOK /\ CrawlTypeOK
    /\ PtrTypeOK /\ ListingsTypeOK /\ PagesTypeOK
=============================================================================
