------------------------------- MODULE MCLimits -------------------------------
(* Two groups, of which the second is beyond MAX_GROUP_NUMBER; an entry    *)
(* that two rows give different limits, one of a state, rows of neither    *)
(* vector, rows that cannot be read, and a result set that ends early.     *)
EXTENDS Limits

MCGroups  == {1, 2}
MCIndices == {4, 14, 46}

Row(g, e, r, y) == [group |-> g, ers |-> e, red |-> r, yellow |-> y, ok |-> TRUE]
Bad(row)        == [row EXCEPT !.ok = FALSE]

Whole(rows)    == [rows |-> rows, count |-> Len(rows)]
Short(rows, n) == [rows |-> rows, count |-> n]

Group(g) == [group |-> g, ok |-> TRUE]

MCGroupResults ==
  {Whole(<<Group(1), Group(2)>>), Whole(<<Group(1), Bad(Group(2))>>),
   Short(<<Group(1)>>, 2)}

High == Row(1, 4, 2, 1)
Low  == Row(1, 4, 1, 3)
Down == Row(1, 14, 1, 2)
Time == Row(1, 1004, 3, 6)
Far  == Row(2, 1004, 0, 0)
Gap  == Row(1, 480, 0, 0)

MCLimitResults ==
  {Whole(<<>>), Short(<<High>>, 2), Whole(<<High, Low>>), Whole(<<Low, Bad(High)>>),
   Whole(<<Down, Bad(Low), Time>>), Whole(<<Far, Gap, Low>>),
   Whole(<<High, Low, High, Down>>), Whole(<<Bad(Low), Low, High, Low, High>>)}

Ask(v, g, i, id, value) ==
  [vector |-> v, group |-> g, index |-> i, db_ers_id |-> id, value |-> value]

MCLookups ==
  {Ask("ers", 1, 4, 4, x) : x \in {0, 1, 2}}
    \cup {Ask("ers", 1, 14, 14, x) : x \in {1, 2}}
    \cup {Ask("state", g, 4, 46, 3) : g \in MCGroups}
=============================================================================
