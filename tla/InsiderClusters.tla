--------------------------- MODULE InsiderClusters ---------------------------
(***************************************************************************)
(* The cluster buys of one issuer: several of its insiders buying within a *)
(* window.  Form 4 runs load filings and then rebuild every episode for    *)
(* every window and threshold in one transaction; so does a person.  Each  *)
(* of its statements reads what is committed when it starts, while other   *)
(* runs load.                                                              *)
(***************************************************************************)
EXTENDS Integers, Sequences, FiniteSets, FiniteSetsExt

CONSTANTS
    Insiders,
    TradeDays,      \* the days there may be a purchase on
    Histories,      \* the purchases there may be at first
    Filed,          \* Form 4s to load: each the purchases it adds and removes
    Grid,           \* WINDOWS by MIN_INSIDERS, in the order they are written
    Ingests,        \* ingest-form4 runs
    Detects         \* detect-clusters by hand

ASSUME ClusterAssumption ==
    /\ TradeDays \subseteq Int /\ IsFiniteSet(TradeDays) /\ IsFiniteSet(Insiders)
    /\ Histories \subseteq SUBSET (Insiders \X TradeDays)
    /\ Filed \subseteq [adds : SUBSET (Insiders \X TradeDays), drops : SUBSET (Insiders \X TradeDays)]
    /\ Grid \in Seq([window : Nat, insiders : Nat \ {0, 1}])

VARIABLES
    bought,     \* the lines that count, an insider's of a day as one
    unloaded,   \* filings queued
    cluster,    \* insider_cluster: each point of the grid's episodes
    detect,     \* each run
    orphaned    \* history: a run that had loaded died before its rebuild committed

clusterVars == <<bought, unloaded, cluster, detect, orphaned>>

Detectors == Ingests \cup Detects
Episode == [from : TradeDays, to : TradeDays, insiders : SUBSET Insiders]
NoRebuild == [step |-> "idle", loaded |-> FALSE, deletes |-> <<>>, writes |-> <<>>, covers |-> FALSE]

ClusterTypeOK ==
    /\ bought \subseteq Insiders \X TradeDays /\ unloaded \subseteq Filed
    /\ cluster \in [DOMAIN Grid -> SUBSET Episode]
    /\ \A r \in Detectors :
        /\ detect[r].step \in {"idle", "loading", "rebuilding"}
        /\ detect[r].loaded \in BOOLEAN /\ detect[r].covers \in BOOLEAN
    /\ orphaned \in BOOLEAN

-----------------------------------------------------------------------------
(* _EPISODES: one point of the grid.                                       *)

\* Each day with a purchase anchors the window of that day and those before it,
\* which starts at its first purchase.
DaysOf(buys) == {b[2] : b \in buys}
Windows(g, buys) ==
    {[from |-> Min({d \in DaysOf(buys) : e - Grid[g].window <= d}), to |-> e] :
        e \in DaysOf(buys)}
BuyersIn(w, buys) == {b[1] : b \in {c \in buys : w.from <= c[2] /\ c[2] <= w.to}}
Qualifying(g, buys) ==
    {w \in Windows(g, buys) : Cardinality(BuyersIn(w, buys)) >= Grid[g].insiders}

\* Gaps and islands: in the order of their ends, a window that starts after the
\* one before it ended starts an episode.
StartsAfter(w, previous) == w.from > previous.to
Starts(w, windows) ==
    LET before == {v \in windows : v.to < w.to}
    IN  before = {} \/ StartsAfter(w, CHOOSE v \in before : \A u \in before : u.to <= v.to)
IslandOf(w, windows) == Max({v.to : v \in {u \in windows : u.to <= w.to /\ Starts(u, windows)}})

\* Every purchase in an episode's span is in it.
Episodes(g, buys) ==
    LET windows == Qualifying(g, buys)
        islands == {{w \in windows : IslandOf(w, windows) = first} :
                        first \in {IslandOf(w, windows) : w \in windows}}
        span(island) == [from |-> Min({w.from : w \in island}), to |-> Max({w.to : w \in island})]
    IN  {[from |-> s.from, to |-> s.to, insiders |-> BuyersIn(s, buys)] :
            s \in {span(island) : island \in islands}}

ClusterInit ==
    /\ bought \in Histories /\ unloaded \in {{}, Filed}
    /\ cluster = [g \in DOMAIN Grid |-> {}]
    /\ detect = [r \in Detectors |-> NoRebuild]
    /\ orphaned = (bought # {})     \* the first run by hand covers what was there

-----------------------------------------------------------------------------
(* The runs.                                                               *)

\* Ingests overlap once one has lost its lock's connection.
StartIngestForm4(r) ==
    /\ r \in Ingests /\ detect[r].step = "idle" /\ unloaded # {}
    /\ detect' = [detect EXCEPT ![r].step = "loading"]
    /\ UNCHANGED <<bought, unloaded, cluster, orphaned>>

\* load_form4, an amendment's included.
LoadLines(r, f) ==
    /\ detect[r].step = "loading" /\ f \in unloaded
    /\ unloaded' = unloaded \ {f}
    /\ bought' = (bought \ f.drops) \cup f.adds
    /\ detect' = [detect EXCEPT ![r].loaded = TRUE]
    /\ UNCHANGED <<cluster, orphaned>>

\* pg_advisory_xact_lock, held until the commit; and the DELETE, which sees
\* what is committed.  A run by hand rebuilds at once, and a Form 4 run once it
\* is through, blocked or stopped, if it has loaded any.
MayRebuild(r) == detect[r].step = "loading" /\ detect[r].loaded
ClusterLocked_Never == FALSE
ClusterLocked == \E r \in Detectors : detect[r].step = "rebuilding"
BeginRebuild(r) ==
    /\ ~ClusterLocked
    /\ MayRebuild(r) \/ (r \in Detects /\ detect[r].step = "idle")
    /\ detect' = [detect EXCEPT ![r] = [@ EXCEPT !.step = "rebuilding", !.deletes = cluster,
                                                 !.writes = <<>>, !.covers = TRUE]]
    /\ UNCHANGED <<bought, unloaded, cluster, orphaned>>

EndWithoutLoads(r) ==
    /\ detect[r].step = "loading" /\ ~MayRebuild(r)
    /\ detect' = [detect EXCEPT ![r] = NoRebuild]
    /\ UNCHANGED <<bought, unloaded, cluster, orphaned>>

\* One INSERT ... SELECT.
InsertEpisodes(r) ==
    LET q == detect[r] IN
    /\ q.step = "rebuilding" /\ Len(q.writes) < Len(Grid)
    /\ detect' = [detect EXCEPT ![r].writes = Append(@, Episodes(Len(q.writes) + 1, bought))]
    /\ UNCHANGED <<bought, unloaded, cluster, orphaned>>

CommitClusters(r) ==
    LET q == detect[r] IN
    /\ q.step = "rebuilding" /\ Len(q.writes) = Len(Grid)
    /\ cluster' = [g \in DOMAIN Grid |-> (cluster[g] \ q.deletes[g]) \cup q.writes[g]]
    /\ detect' = [detect EXCEPT ![r] = NoRebuild]
    /\ orphaned' = (orphaned /\ ~q.covers)
    /\ UNCHANGED <<bought, unloaded>>

\* A run raises, or its process dies: what it loaded stays, and the run after
\* it finds nothing to load.
FailIngestForm4(r) ==
    /\ detect[r].step # "idle"
    /\ orphaned' = (orphaned \/ detect[r].loaded)
    /\ detect' = [s \in Detectors |->
                    IF s = r THEN NoRebuild
                    ELSE IF detect[r].loaded THEN [detect[s] EXCEPT !.covers = FALSE] ELSE detect[s]]
    /\ UNCHANGED <<bought, unloaded, cluster>>

ClusterNext ==
    \/ \E r \in Detectors :
        \/ StartIngestForm4(r) \/ BeginRebuild(r) \/ EndWithoutLoads(r)
        \/ InsertEpisodes(r) \/ CommitClusters(r) \/ FailIngestForm4(r)
        \/ \E f \in Filed : LoadLines(r, f)

ClusterSpec == ClusterInit /\ [][ClusterNext]_clusterVars

-----------------------------------------------------------------------------
(* Properties.                                                             *)

\* The reference: purchase days are together if some stretch of days as long as
\* the window, with enough insiders buying in it, has both, or if others link
\* them; an episode is the days that are.
BusyStretches(g, buys) ==
    LET stretch(first) == [from |-> first, to |-> first + Grid[g].window]
    IN  {w \in {stretch(a - b) : a \in DaysOf(buys), b \in 0 .. Grid[g].window} :
            Cardinality(BuyersIn(w, buys)) >= Grid[g].insiders}
Beside(d, g, buys) ==
    UNION {DaysOf(buys) \cap (w.from .. w.to) :
            w \in {v \in BusyStretches(g, buys) : d \in v.from .. v.to}}
Together(d, g, buys) ==
    {e \in DaysOf(buys) : \A days \in SUBSET DaysOf(buys) :
        d \in days /\ (\A x \in days : Beside(x, g, buys) \subseteq days) => e \in days}
Bursts(g, buys) ==
    LET linked == {Together(d, g, buys) : d \in {x \in DaysOf(buys) : Beside(x, g, buys) # {}}}
        spans == {[from |-> Min(c), to |-> Max(c)] : c \in linked}
    IN  {[from |-> s.from, to |-> s.to, insiders |-> BuyersIn(s, buys)] : s \in spans}

Inside(e, f) == f.from <= e.from /\ e.to <= f.to /\ e.insiders \subseteq f.insiders
Wider(g, h) == Grid[g].window >= Grid[h].window /\ Grid[g].insiders <= Grid[h].insiders

\* Once no run is left with loads to rebuild for, and none died with them,
\* every point of the grid has the bursts of buying there are, each once, none
\* overlapping, however runs overlapped; and a narrower point's are each inside
\* one of a wider's.
ClustersFollow ==
    (~orphaned /\ \A r \in Detectors : detect[r].step = "idle") =>
        \A g \in DOMAIN Grid :
            /\ cluster[g] = Bursts(g, bought)
            /\ \A h \in DOMAIN Grid : Wider(g, h) =>
                    \A e \in cluster[h] : \E f \in cluster[g] : Inside(e, f)
=============================================================================
