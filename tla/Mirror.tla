------------------------------- MODULE Mirror -------------------------------
(***************************************************************************)
(* What copies kept from unordered, repeated notifications promise: each   *)
(* shows a state its owner has published, and moves only to one published  *)
(* no earlier.  The copier may itself end the thing at its owner's, and    *)
(* then show the end before the notification of it.                        *)
(***************************************************************************)
EXTENDS Integers

CONSTANTS
    Things,
    Ended,      \* the state nothing follows
    Nothing     \* what a copy shows before the first, and once it is erased

VARIABLES
    published,  \* [of, at, shown]: the owner's states, each with its time
    shown,      \* the copies
    version     \* the time of the notification each was last taken from, 0 for none

copies == <<published, shown, version>>

Init ==
    /\ published = {}
    /\ shown = [t \in Things |-> Nothing] /\ version = [t \in Things |-> 0]

Stay(t) == shown'[t] = shown[t] /\ version'[t] = version[t]

Follow(t) ==
    \E p \in published :
        /\ p.of = t /\ p.at >= version[t]
        /\ version'[t] = p.at /\ shown'[t] = p.shown

\* The end, which the copier has just brought about, or seen, at the owner's.
Foresee(t) ==
    /\ \E p \in published' : p.of = t /\ p.shown = Ended
    /\ shown'[t] = Ended /\ version'[t] = version[t]

Forget(t) == shown'[t] = Nothing /\ version'[t] = 0

Next ==
    /\ published \subseteq published'
    /\ \A t \in Things : Stay(t) \/ Follow(t) \/ Foresee(t) \/ Forget(t)

Spec == Init /\ [][Next]_copies
=============================================================================
