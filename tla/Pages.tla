-------------------------------- MODULE Pages --------------------------------
(***************************************************************************)
(* A client walking a listing page by page, by where the last page ended,  *)
(* while rows are inserted, deleted and change their sort keys.  Each page *)
(* is one statement.                                                       *)
(***************************************************************************)
EXTENDS Integers, Sequences, FiniteSets

CONSTANTS
    Lines,          \* ids of rows: the last sort key, which makes the order total
    SortValues,     \* what a row's other sort keys may be, each a sequence
    Keysets,        \* the listing's orders: whether each key descends, the id's last
    Limits,
    MostChanged     \* bounds the rows that change

ASSUME PagesAssumption ==
    /\ Lines \subseteq Nat /\ IsFiniteSet(Lines)
    /\ SortValues \subseteq Seq(Int) \ {<<>>} /\ Keysets \subseteq Seq(BOOLEAN)
    /\ \A v \in SortValues, k \in Keysets : Len(k) = Len(v) + 1
    /\ Limits \subseteq Nat \ {0}

VARIABLES
    keyset,     \* the order the client asked for
    row,        \* each row's sort keys, Absent if there is none
    cursor,     \* next_cursor: the last row's keys, FirstPage or LastPage
    walked,     \* the rows returned, in order
    changed     \* history: what has become of each row since the first page

pagesVars == <<keyset, row, cursor, walked, changed>>

Absent == <<>>
FirstPage == <<"first">>
LastPage == <<"last">>

PagesTypeOK ==
    /\ keyset \in Keysets
    /\ row \in [Lines -> SortValues \cup {Absent}]
    /\ cursor \in {FirstPage, LastPage} \cup {Append(v, l) : v \in SortValues, l \in Lines}
    /\ walked \in Seq(Lines) /\ changed \in [Lines -> {"kept", "inserted", "changed"}]

There == {l \in Lines : row[l] # Absent}
KeysOf(l) == Append(row[l], l)

-----------------------------------------------------------------------------
(* The keyset.                                                             *)

\* ORDER BY.
Sorts(p, q) ==
    \E i \in DOMAIN keyset :
        /\ \A j \in 1 .. i - 1 : p[j] = q[j]
        /\ IF keyset[i] THEN p[i] > q[i] ELSE p[i] < q[i]

\* One row comparison when every key runs the same way.
OneWay == \A i \in DOMAIN keyset : keyset[i] = keyset[1]
RowLess(p, q) ==
    LET differ == {i \in DOMAIN p : p[i] # q[i]}
    IN  differ # {} /\ LET i == CHOOSE i \in differ : \A j \in differ : i <= j IN p[i] < q[i]

\* Otherwise a clause a key: the keys before it tied, and it beyond.
Beyond_Tieless(keys, p) ==
    \E i \in DOMAIN keyset : IF keyset[i] THEN keys[i] < p[i] ELSE keys[i] > p[i]
Beyond(keys, p) ==
    \E i \in DOMAIN keyset :
        /\ \A j \in 1 .. i - 1 : keys[j] = p[j]
        /\ IF keyset[i] THEN keys[i] < p[i] ELSE keys[i] > p[i]

After(keys, p) ==
    IF ~OneWay THEN Beyond(keys, p)
    ELSE IF keyset[1] THEN RowLess(keys, p) ELSE RowLess(p, keys)

PagesInit ==
    /\ keyset \in Keysets /\ row \in [Lines -> SortValues \cup {Absent}]
    /\ cursor = FirstPage /\ walked = <<>>
    /\ changed = [l \in Lines |-> "kept"]

-----------------------------------------------------------------------------

\* A row more than the page is fetched, to know whether there is another; the
\* cursor is where the page ends.  A client may ask for a page of another size
\* from one cursor, and for the same page again.
Place(l, lines) == Cardinality({m \in lines : m = l \/ Sorts(KeysOf(m), KeysOf(l))})
RowsFetched(limit) ==
    LET wanted == {l \in There : cursor = FirstPage \/ After(KeysOf(l), cursor)}
        rows == Cardinality(wanted)
    IN  [i \in 1 .. (IF rows <= limit THEN rows ELSE limit + 1) |->
            CHOOSE l \in wanted : Place(l, wanted) = i]
EndsAt(page) == KeysOf(page[Len(page)])
NextPage(limit) ==
    /\ cursor # LastPage
    /\ LET fetched == RowsFetched(limit)
           page == SubSeq(fetched, 1, IF Len(fetched) <= limit THEN Len(fetched) ELSE limit)
       IN  /\ walked' = walked \o page
           /\ cursor' = IF Len(fetched) > limit THEN EndsAt(page) ELSE LastPage
    /\ UNCHANGED <<keyset, row, changed>>

\* A rebuild, a load or an edit between two pages inserts, deletes or changes a row.
TouchRow(l, value) ==
    /\ cursor \notin {FirstPage, LastPage} /\ value # row[l]
    /\ changed' = [changed EXCEPT ![l] = IF row[l] = Absent /\ @ = "kept" THEN "inserted" ELSE "changed"]
    /\ Cardinality({m \in Lines : changed'[m] # "kept"}) <= MostChanged
    /\ row' = [row EXCEPT ![l] = value]
    /\ UNCHANGED <<keyset, cursor, walked>>

PagesNext ==
    \/ \E limit \in Limits : NextPage(limit)
    \/ \E l \in Lines, value \in SortValues \cup {Absent} : TouchRow(l, value)

PagesSpec == PagesInit /\ [][PagesNext]_pagesVars

-----------------------------------------------------------------------------
(* Properties.                                                             *)

\* Whatever is inserted, deleted or changed between its pages, a walk returns a
\* row that stays as it was once and no more, and one inserted once at the most,
\* all in the order asked for; and it does not end without a row that stayed.
WalkSeesOnce ==
    LET still == {l \in There : changed[l] # "changed"}
    IN  /\ \A i, j \in DOMAIN walked :
            i < j /\ {walked[i], walked[j]} \subseteq still =>
                Sorts(KeysOf(walked[i]), KeysOf(walked[j]))
        /\ cursor = LastPage =>
            \A l \in still : changed[l] = "kept" => \E i \in DOMAIN walked : walked[i] = l
=============================================================================
