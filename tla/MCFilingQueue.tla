---------------------------- MODULE MCFilingQueue ----------------------------
(***************************************************************************)
(* Instances of FilingQueue for TLC: the filings of one filer.             *)
(***************************************************************************)
EXTENDS FilingQueue, TLC

CONSTANTS a1, a2, a3
=============================================================================
