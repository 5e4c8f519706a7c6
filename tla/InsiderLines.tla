----------------------------- MODULE InsiderLines -----------------------------
(***************************************************************************)
(* One issuer's Form 4s and 4/As being loaded, in any order, any of them   *)
(* again: which filing each amendment is linked to, and whose lines are    *)
(* kept.  A load sees what was committed when it took the issuer's lock,   *)
(* and commits what it makes of it.                                        *)
(***************************************************************************)
EXTENDS Integers, FiniteSets, FiniteSetsExt

CONSTANTS
    Forms,          \* in the order they were filed: 1 .. n
    FiledOn,        \* form -> its filing day
    OriginalOn,     \* form -> date_of_original_submission, for a 4/A; 0 for none
    Amendments,     \* the forms that are 4/As
    OwnersOf        \* form -> its reporting owners, in order of their CIK

ASSUME FormsAssumption ==
    /\ IsFiniteSet(Forms) /\ Forms = 1 .. Cardinality(Forms)
    /\ Amendments \subseteq Forms
    /\ FiledOn \in [Forms -> Nat \ {0}] /\ OriginalOn \in [Forms -> Nat]
    /\ \A f, g \in Forms : f < g => FiledOn[f] <= FiledOn[g]

VARIABLES
    form4,      \* filing: those loaded
    amends,     \* filing.amends_id
    lines,      \* the forms whose insider_transaction rows are there
    form4Load   \* loads in progress, each with the forms it sees

insiderVars == <<form4, amends, lines, form4Load>>

NoForm == 0
NotLoading == [going |-> FALSE, seen |-> {}]

InsiderTypeOK ==
    /\ form4 \subseteq Forms /\ lines \subseteq form4
    /\ amends \in [Forms -> Forms \cup {NoForm}]
    /\ form4Load \in [Forms -> [going : BOOLEAN, seen : SUBSET Forms]]

InsiderInit ==
    /\ form4 = {} /\ lines = {}
    /\ amends = [f \in Forms |-> NoForm]
    /\ form4Load = [f \in Forms |-> NotLoading]

\* pg_advisory_xact_lock on the issuer's CIK.
IssuerLocked_Never == FALSE
IssuerLocked == \E f \in Forms : form4Load[f].going

BeginForm4(f) ==
    /\ ~form4Load[f].going /\ ~IssuerLocked
    /\ form4Load' = [form4Load EXCEPT ![f] = [going |-> TRUE, seen |-> form4]]
    /\ UNCHANGED <<form4, amends, lines>>

-----------------------------------------------------------------------------
(* _link_amendment.                                                        *)

\* What an amendment may amend: filed on the day it names, before it, by an
\* owner of it.
MayAmend(a, seen) ==
    {f \in seen \ {a} : /\ FiledOn[f] = OriginalOn[a] /\ f < a
                        /\ OwnersOf[f] \cap OwnersOf[a] # {}}

\* The one there is, or of several the one with the same owners; NoForm for
\* none, or for several of those.
BestOf(a, candidates) ==
    LET best == IF Cardinality(candidates) <= 1 THEN candidates
                ELSE {f \in candidates : OwnersOf[f] = OwnersOf[a]}
    IN  IF Cardinality(best) = 1 THEN CHOOSE f \in best : TRUE ELSE NoForm

Link(a, seen) == IF amends[a] # NoForm THEN amends[a] ELSE BestOf(a, MayAmend(a, seen))

\* Those to link when f is loaded: itself, and amendments loaded before it that
\* name its day as their original's, _unlinked_amendments_of.
ToLink_Itself(f, seen) == {f} \cap Amendments
ToLink(f, seen) ==
    {a \in Amendments \cap seen : a = f \/ (f < a /\ OriginalOn[a] = FiledOn[f])}

Linked(f, seen) ==
    [a \in Forms |-> IF a \in ToLink(f, seen) THEN Link(a, seen) ELSE amends[a]]

-----------------------------------------------------------------------------
(* _supersede.                                                             *)

\* The forms reached from f by amends_id, either way, with f itself.
Near(members, link) ==
    members \cup {g \in Forms : link[g] \in members} \cup ({link[g] : g \in members} \ {NoForm})
Chain(f, link) ==
    LET reached[n \in 0 .. Cardinality(Forms)] ==
            IF n = 0 THEN {f} ELSE Near(reached[n - 1], link)
    IN  reached[Cardinality(Forms)]

\* The latest filed keeps its lines.
Superseded_Direct(f, link) == {link[f]} \ {NoForm}
Superseded(f, link) == Chain(f, link) \ {Max(Chain(f, link))}

\* load_form4's writes, of a form loaded before too: its lines are there again,
\* until they are superseded again.
CommitForm4(f) ==
    /\ form4Load[f].going
    /\ LET seen == form4Load[f].seen \cup {f}
           link == Linked(f, seen)
       IN  /\ form4' = form4 \cup {f}
           /\ amends' = link
           /\ lines' = (lines \cup {f}) \ Superseded(f, link)
    /\ form4Load' = [form4Load EXCEPT ![f] = NotLoading]

\* Whatever it raises, or its process dying, rolls it back.
FailForm4(f) ==
    /\ form4Load[f].going
    /\ form4Load' = [form4Load EXCEPT ![f] = NotLoading]
    /\ UNCHANGED <<form4, amends, lines>>

InsiderNext == \E f \in Forms : BeginForm4(f) \/ CommitForm4(f) \/ FailForm4(f)

InsiderSpec == InsiderInit /\ [][InsiderNext]_insiderVars

-----------------------------------------------------------------------------
(* Properties.                                                             *)

\* Of a filing and its amendments, whichever order they were loaded in, or
\* loaded again, only the latest filed has its lines: no trade is counted twice
\* and none is lost.
LatestHasTheLines ==
    \A f \in form4 : f \in lines <=> f = Max(Chain(f, amends))

\* An amendment whose original can only be one loaded filing is linked to it,
\* whichever of the two was loaded first.
OriginalIsFound ==
    \A a \in form4 \cap Amendments, f \in form4 :
        MayAmend(a, form4) = {f} => amends[a] = f

\* However they were loaded, each amendment is on its original and each line is
\* in one filing of its chain.
AmendmentsInPlace == LatestHasTheLines /\ OriginalIsFound

\* "Order does not matter": the links are those that what is loaded determines.
OrderDoesNotMatter ==
    \A a \in form4 \cap Amendments : amends[a] = BestOf(a, MayAmend(a, form4))
=============================================================================
