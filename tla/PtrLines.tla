------------------------------ MODULE PtrLines ------------------------------
(***************************************************************************)
(* The lines of the reports in which members of Congress disclose trades:  *)
(* read from a filing, and read again by a newer reader, reviewed by a     *)
(* person, and resolved to what they traded, by a pass of a job or by a    *)
(* person's override of every line that names its asset so.  A filing has  *)
(* one line here.  The jobs' transactions and the people's overlap: of     *)
(* each, a step is what one statement reads, or what its commit writes.    *)
(***************************************************************************)
EXTENDS Integers

CONSTANTS
    Reports,        \* congress_filing
    Assets,         \* as a line names one, which is its asset_key
    Known,     \* those of the assets that a lookup finds a security for
    Meanings,       \* what an override may say an asset is
    Runs,           \* jobs that resolve lines
    Admins,         \* people who make and remove overrides
    LastReading     \* bounds how often a filing is read

ASSUME PtrAssumption ==
    /\ Known \subseteq Assets /\ LastReading \in Nat /\ "none" \notin Reports
    /\ {"none", "new", "all"} \cap Assets = {}
    /\ {"none", "found", "not found"} \cap Meanings = {}

VARIABLES
    line,           \* each filing's congress_transaction
    override,       \* congress_asset_override, by asset_key
    reading,        \* the run that reads filings: which, and where it is with it
    review,         \* an acceptance in progress
    pass,           \* the transactions of either
    mixed,          \* history: lines whose answer may be of before what overlapped it
    lost            \* history: filings whose line was replaced though reviewed before
                    \* the check for that

ptrVars == <<line, override, reading, review, pass, mixed, lost>>

Passes == Runs \cup Admins
None == "none"
LineStatuses == {"unread", "parsed", "needs_review", "placeholder", "rejected"}
Resolutions == {"none", "found", "not found"} \cup Meanings
Unread == [id |-> 0, status |-> "unread", asset |-> None, key |-> None, answer |-> "none",
           reviewed |-> FALSE]
\* Raced: a review has committed since it checked.
NotReading == [report |-> None, checked |-> FALSE, raced |-> FALSE]
NotReviewing == [report |-> None, asset |-> None, overrides |-> <<>>, overlapped |-> FALSE]
NoPass == [step |-> "idle", scope |-> None, to |-> None, overrides |-> <<>>, chosen |-> <<>>,
           overlapped |-> FALSE]
Overrides == [Assets -> {None} \cup Meanings]
Chosen == [id : 0 .. LastReading, asset : {None} \cup Assets]

PtrTypeOK ==
    /\ line \in [Reports -> [id : 0 .. LastReading, status : LineStatuses, asset : {None} \cup Assets,
                             key : {None} \cup Assets, answer : Resolutions, reviewed : BOOLEAN]]
    /\ override \in Overrides
    /\ reading \in [report : {None} \cup Reports, checked : BOOLEAN, raced : BOOLEAN]
    /\ review \in [report : {None} \cup Reports, asset : {None} \cup Assets,
                   overrides : {<<>>} \cup Overrides, overlapped : BOOLEAN]
    /\ pass \in [Passes -> [step : {"idle", "begun", "read"}, scope : {None, "new", "all"} \cup Assets,
                            to : {None} \cup Meanings, overrides : {<<>>} \cup Overrides,
                            chosen : {<<>>} \cup [Reports -> Chosen], overlapped : BOOLEAN]]
    /\ mixed \subseteq Reports /\ lost \subseteq Reports

PtrInit ==
    /\ line = [r \in Reports |-> Unread]
    /\ override = [a \in Assets |-> None]
    /\ reading = NotReading
    /\ review = NotReviewing
    /\ pass = [p \in Passes |-> NoPass]
    /\ mixed = {} /\ lost = {}

\* Resolver.resolve: an override before anything else.
Resolution(asset, overrides) ==
    IF overrides[asset] # None THEN overrides[asset]
    ELSE IF asset \in Known THEN "found" ELSE "not found"

\* Trades, or maybe trades.
IsLine(l) == l.status \in {"parsed", "needs_review"}

\* FOR UPDATE, by a review of it.
LineFree(r) == review.report # r

-----------------------------------------------------------------------------
(* Reading: choose a filing, fetch its document, and replace its line in a *)
(* transaction that checks again for a review.                             *)

\* With --reparse, whatever read it before.
ChooseReport(r) ==
    /\ reading.report = None /\ ~line[r].reviewed /\ line[r].id < LastReading
    /\ reading' = [NotReading EXCEPT !.report = r]
    /\ UNCHANGED <<line, override, review, pass, mixed, lost>>

StopReading == reading' = NotReading

KeepsReviewed_Chosen(r) == FALSE
KeepsReviewed(r) == line[r].reviewed

\* The filing locked, which only readings lock.
CheckReport ==
    /\ reading.report # None /\ ~reading.checked
    /\ IF KeepsReviewed(reading.report) THEN StopReading
       ELSE reading' = [reading EXCEPT !.checked = TRUE]
    /\ UNCHANGED <<line, override, review, pass, mixed, lost>>

\* The DELETE waits for a line that is being reviewed, and then deletes it.
ReplaceLine(status, asset) ==
    LET r == reading.report IN
    /\ r # None /\ reading.checked /\ LineFree(r)
    /\ line' = [line EXCEPT ![r] = [Unread EXCEPT !.id = line[r].id + 1, !.status = status,
                                                  !.asset = asset]]
    /\ mixed' = mixed \ {r}
    /\ lost' = IF line[r].reviewed /\ ~reading.raced THEN lost \cup {r} ELSE lost
    /\ StopReading
    /\ UNCHANGED <<override, review, pass>>

\* Missing, failed, or the transaction rolled back.
GiveUpReading ==
    /\ reading.report # None
    /\ StopReading
    /\ UNCHANGED <<line, override, review, pass, mixed, lost>>

-----------------------------------------------------------------------------
(* Reviewing.                                                              *)

\* What is committed while another is in progress.
Overlap(others) == [p \in Passes |-> IF p \in others /\ pass[p].step # "idle"
                                     THEN [pass[p] EXCEPT !.overlapped = TRUE] ELSE pass[p]]

Reviewed(r) ==
    reading' = IF reading.report = r /\ reading.checked
               THEN [reading EXCEPT !.raced = TRUE] ELSE reading

Reject(r) ==
    /\ LineFree(r) /\ line[r].status = "needs_review"
    /\ line' = [line EXCEPT ![r].status = "rejected", ![r].reviewed = TRUE]
    /\ Reviewed(r)
    /\ UNCHANGED <<override, review, pass, mixed, lost>>

\* Accepted as naming "asset", read or corrected, and resolved by the overrides
\* that are committed.
BeginAccept(r, asset) ==
    /\ review.report = None /\ line[r].status = "needs_review"
    /\ review' = [report |-> r, asset |-> asset, overrides |-> override, overlapped |-> FALSE]
    /\ UNCHANGED <<line, override, reading, pass, mixed, lost>>

Accepted_AsRead(l) ==
    [l EXCEPT !.status = "parsed", !.reviewed = TRUE, !.asset = review.asset]
Accepted(l) ==
    [l EXCEPT !.status = "parsed", !.reviewed = TRUE, !.asset = review.asset,
              !.key = review.asset, !.answer = Resolution(review.asset, review.overrides)]

CommitAccept ==
    LET r == review.report IN
    /\ r # None
    /\ line' = [line EXCEPT ![r] = Accepted(@)]
    /\ mixed' = IF review.overlapped THEN mixed \cup {r} ELSE mixed \ {r}
    /\ pass' = Overlap(Passes)
    /\ review' = NotReviewing
    /\ Reviewed(r)
    /\ UNCHANGED <<override, lost>>

RollBackAccept ==
    /\ review.report # None
    /\ review' = NotReviewing
    /\ UNCHANGED <<line, override, reading, pass, mixed, lost>>

-----------------------------------------------------------------------------
(* Resolving: load the overrides, choose the lines, write their answers.   *)

\* The end of each job that reads filings, and resolve-congress-assets.
BeginPass(p, scope) ==
    /\ pass[p].step = "idle"
    /\ pass' = [pass EXCEPT ![p] = [NoPass EXCEPT !.step = "begun", !.scope = scope,
                                                  !.overrides = override]]
    /\ UNCHANGED <<line, override, reading, review, mixed, lost>>

\* set_override and remove_override, whose row's lock keeps another of the key out.
BeginOverride(p, asset, to) ==
    /\ pass[p].step = "idle" /\ \A q \in Passes : pass[q].scope # asset
    /\ IF to = None THEN override[asset] # None ELSE \E r \in Reports : line[r].key = asset
    /\ pass' = [pass EXCEPT ![p] = [NoPass EXCEPT !.step = "begun", !.scope = asset, !.to = to,
                                                  !.overrides = [override EXCEPT ![asset] = to]]]
    /\ UNCHANGED <<line, override, reading, review, mixed, lost>>

Selected_Unresolved(scope, l) ==
    IsLine(l) /\ (scope = "all" \/ l.answer \in {"none", "not found"})
Selected(scope, l) ==
    /\ IsLine(l)
    /\ CASE scope = "all" -> TRUE
         [] scope = "new" -> l.answer \in {"none", "not found"}
         [] OTHER -> l.key = scope

ReadLines(p) ==
    /\ pass[p].step = "begun"
    /\ pass' = [pass EXCEPT ![p].step = "read",
                            ![p].chosen = [r \in Reports |->
                                IF Selected(pass[p].scope, line[r])
                                THEN [id |-> line[r].id, asset |-> line[r].asset]
                                ELSE [id |-> 0, asset |-> None]]]
    /\ UNCHANGED <<line, override, reading, review, mixed, lost>>

\* By primary key: a line replaced meanwhile is not written.
LinesWritten(p) == {r \in Reports : pass[p].chosen[r].id = line[r].id /\ line[r].id # 0}

Changes(p) == pass[p].scope \in Assets

CommitPass(p) ==
    LET asset == pass[p].scope
        Others == {q \in Passes \ {p} : Changes(p) \/ Changes(q)}
        Mixing == IF pass[p].overlapped
                  THEN LinesWritten(p) \cup {r \in Reports : Changes(p) /\ line[r].asset = asset}
                  ELSE {}
    IN
    /\ pass[p].step = "read" /\ \A r \in LinesWritten(p) : LineFree(r)
    /\ line' = [r \in Reports |->
                  IF r \in LinesWritten(p)
                  THEN [line[r] EXCEPT !.key = pass[p].chosen[r].asset,
                                       !.answer = Resolution(pass[p].chosen[r].asset, pass[p].overrides)]
                  ELSE line[r]]
    /\ override' = IF Changes(p) THEN [override EXCEPT ![asset] = pass[p].to] ELSE override
    /\ review' = IF Changes(p) /\ review.report # None
                 THEN [review EXCEPT !.overlapped = TRUE] ELSE review
    /\ pass' = [Overlap(Others) EXCEPT ![p] = NoPass]
    /\ mixed' = (mixed \ LinesWritten(p)) \cup Mixing
    /\ UNCHANGED <<reading, lost>>

RollBackPass(p) ==
    /\ pass[p].step # "idle"
    /\ pass' = [pass EXCEPT ![p] = NoPass]
    /\ UNCHANGED <<line, override, reading, review, mixed, lost>>

PtrNext ==
    \/ \E r \in Reports : ChooseReport(r) \/ Reject(r)
    \/ CheckReport \/ GiveUpReading
    \/ \E status \in {"parsed", "needs_review"}, asset \in Assets : ReplaceLine(status, asset)
    \/ ReplaceLine("placeholder", None)
    \/ \E r \in Reports, asset \in Assets : BeginAccept(r, asset)
    \/ CommitAccept \/ RollBackAccept
    \/ \E p \in Runs, scope \in {"new", "all"} : BeginPass(p, scope)
    \/ \E p \in Admins, asset \in Assets, to \in {None} \cup Meanings : BeginOverride(p, asset, to)
    \/ \E p \in Passes : ReadLines(p) \/ CommitPass(p) \/ RollBackPass(p)

PtrSpec == PtrInit /\ [][PtrNext]_ptrVars

-----------------------------------------------------------------------------
(* Properties.                                                             *)

\* An override is the answer of every line that names its asset, those read or
\* corrected since included, and an override taken away of none: but for a line
\* resolved by a transaction that overlapped the change or the correction.
OverridesApply ==
    \A r \in Reports \ mixed :
        IsLine(line[r]) /\ line[r].answer # "none" =>
            line[r].answer = Resolution(line[r].asset, override)

\* A reviewed line is never read again, but for a review that commits between
\* a reading's check and its write.
ReviewsKept == lost = {}

\* What a person said of a line stands against every job that runs beside it.
PersonsWordStands == OverridesApply /\ ReviewsKept
=============================================================================
