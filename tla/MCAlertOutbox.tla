---------------------------- MODULE MCAlertOutbox ----------------------------
(***************************************************************************)
(* Instances of AlertOutbox for TLC.  A day is one to four ticks.          *)
(***************************************************************************)
EXTENDS AlertOutbox, TLC

CONSTANTS i1, i2, d1, d2, r1, r2

NoQuiet == {<<0, 0>>}
NoSettings == {}
OffOrBell == [on : {TRUE}, email : BOOLEAN, bell : {TRUE}]
                \cup [on : {FALSE}, email : {TRUE}, bell : {TRUE}]
Quiets == {<<0, 1>>, <<2, 1>>}

\* Two runs of the sender do the same.
Swap == Permutations(Senders)
=============================================================================
