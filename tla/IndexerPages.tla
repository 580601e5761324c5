---------------------------- MODULE IndexerPages ----------------------------
(***************************************************************************)
(* Reading a paged list from the indexer: get_vtxos_many, next_vtxo_page   *)
(* and merge_vtxo_records (src/arkade.rs); the leaves of a commitment are  *)
(* read by the same cursor.  An honest indexer cuts its current list into  *)
(* pages, and the list changes between two requests; any other may answer  *)
(* anything.                                                               *)
(***************************************************************************)
EXTENDS Integers, Sequences, FiniteSets

CONSTANTS
  Item,        \* outputs
  PageSize,    \* 500 in the code
  MaxPages,    \* MAX_INDEX_PAGES
  MaxRecords,  \* MAX_INDEX_RECORDS
  Honest,      \* whether the indexer is
  Shrinks,     \* whether outputs leave the list while it is read
  MaxCursor    \* bound: page numbers of a dishonest indexer

IndexerPagesAssumption ==
  /\ {PageSize, MaxPages, MaxRecords, MaxCursor} \subseteq Nat \ {0}
  /\ Honest \in BOOLEAN /\ Shrinks \in BOOLEAN

VARIABLES
  list,     \* the indexer's list
  stable,   \* history: outputs listed ever since the first request
  index,    \* page to request
  visited,  \* pages requested
  records,  \* what was read
  outcome   \* "reading", "done" or "error"

vars == <<list, stable, index, visited, records, outcome>>

Elements(s) == {s[i]: i \in 1..Len(s)}
Lists == UNION {{s \in [1..n -> Item]: Cardinality(Elements(s)) = n}: n \in 0..Cardinality(Item)}

Init ==
  /\ list \in Lists
  /\ stable = Elements(list)
  /\ index = 1 /\ visited = {1}
  /\ records = <<>>
  /\ outcome = "reading"

-----------------------------------------------------------------------------
PageCount == (Len(list) + PageSize - 1) \div PageSize

HonestPage ==
  LET from == (index - 1) * PageSize + 1
      to == IF index * PageSize < Len(list) THEN index * PageSize ELSE Len(list)
  IN [current |-> index, next |-> IF index < PageCount THEN index + 1 ELSE index,
      total |-> PageCount, items |-> SubSeq(list, from, to)]

AnyPage ==
  [current: 0..MaxCursor, next: -1..MaxCursor, total: -1..MaxCursor,
   items: {<<>>} \cup {<<x>>: x \in Item} \cup {<<x, y>>: x \in Item, y \in Item}]

IsLast(page) ==
  page.next <= 0 \/ (page.next = page.current /\ (page.total <= 0 \/ page.current >= page.total))

BadCursor(page) ==
  \/ page.current # index
  \/ /\ ~IsLast(page)
     /\ \/ page.next <= page.current
        \/ page.total > 0 /\ page.next > page.total
        \/ page.next \in visited
        \/ Cardinality(visited \cup {page.next}) > MaxPages

\* Mutant: outputs that moved to the next page are taken twice.
MergedTwice(page) == records \o page.items

\* merge_vtxo_records keeps the first of an output.
Merged(page) ==
  LET New(i) == page.items[i] \notin Elements(records) \cup {page.items[j]: j \in 1..(i - 1)}
      kept == SelectSeq([i \in 1..Len(page.items) |-> i], New)
  IN records \o [i \in 1..Len(kept) |-> page.items[kept[i]]]

Read(page) ==
  /\ outcome = "reading"
  /\ IF BadCursor(page) \/ Len(Merged(page)) > MaxRecords
     THEN /\ outcome' = "error"
          /\ UNCHANGED <<index, visited, records>>
     ELSE /\ records' = Merged(page)
          /\ IF IsLast(page)
             THEN outcome' = "done" /\ UNCHANGED <<index, visited>>
             ELSE /\ index' = page.next /\ visited' = visited \cup {page.next}
                  /\ UNCHANGED outcome
  /\ UNCHANGED <<list, stable>>

\* The request fails.
ReadFails ==
  /\ outcome = "reading"
  /\ outcome' = "error"
  /\ UNCHANGED <<list, stable, index, visited, records>>

-----------------------------------------------------------------------------
\* An output is listed, at either end.
Add(x) ==
  /\ outcome = "reading" /\ x \notin Elements(list)
  /\ list' \in {<<x>> \o list, Append(list, x)}
  /\ UNCHANGED <<stable, index, visited, records, outcome>>

\* An output of a spendable list is spent.
Remove(i) ==
  /\ outcome = "reading" /\ Shrinks
  /\ list' = SubSeq(list, 1, i - 1) \o SubSeq(list, i + 1, Len(list))
  /\ stable' = stable \ {list[i]}
  /\ UNCHANGED <<index, visited, records, outcome>>

Request == \E page \in IF Honest THEN {HonestPage} ELSE AnyPage: Read(page)

Next ==
  \/ Request \/ ReadFails
  \/ Honest /\ ((\E x \in Item: Add(x)) \/ (\E i \in 1..Len(list): Remove(i)))

Spec == Init /\ [][Next]_vars

-----------------------------------------------------------------------------
TypeOK ==
  /\ list \in Lists /\ stable \subseteq Item
  /\ index \in Nat /\ visited \subseteq Nat /\ Cardinality(visited) <= MaxPages
  /\ records \in Seq(Item) /\ Len(records) <= MaxRecords
  /\ outcome \in {"reading", "done", "error"}

\* No output is taken twice, however the pages overlap: amounts are summed.
NoOutputTwice == Cardinality(Elements(records)) = Len(records)

\* "Query every VTXO page": an output listed all the while is read.  It holds while
\* the list only grows, and fails where an earlier output leaves it.
NothingIsMissed == outcome = "done" => stable \subseteq Elements(records)
=============================================================================
