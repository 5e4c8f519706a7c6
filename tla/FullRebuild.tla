----------------------------- MODULE FullRebuild -----------------------------
(***************************************************************************)
(* The promise the incremental rebuild makes, stated without scopes: every *)
(* time a commit changes the published portfolio, every implied price,     *)
(* every split and every position change is what "recompute --all" would   *)
(* build from it.  A reader never sees one of the tables ahead of another. *)
(* What each cell should hold is a parameter.                              *)
(***************************************************************************)
CONSTANTS
    Filers, Securities, Periods,
    PriceFor(_, _, _),      \* a security's price in a quarter, by the snapshot
    SplitFor(_, _, _, _),   \* its split there, by the snapshot and the prices
    ChangesFor(_, _, _, _)  \* a filer's changes, by the snapshot and the splits

VARIABLES snapshot, price, split, change

tables == <<snapshot, price, split, change>>

\* implied_prices, security_split and position_changes with no keys and no scope.
InStep ==
    /\ price = [s \in Securities |-> [p \in Periods |-> PriceFor(snapshot, s, p)]]
    /\ split = [s \in Securities |-> [p \in Periods |-> SplitFor(snapshot, price, s, p)]]
    /\ change = [f \in Filers |-> [p \in Periods |-> ChangesFor(snapshot, split, f, p)]]

Init == InStep

\* Whatever a commit makes of the snapshot, the other tables follow it whole.
Rebuild == tables' # tables /\ InStep'

Spec == Init /\ [][Rebuild]_tables
=============================================================================
