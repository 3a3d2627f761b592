------------------------ MODULE MemoryRunRepository ------------------------
(***************************************************************************)
(* The in-memory run repository (quicforge-infra repo.rs): a vector of     *)
(* summaries in the order they were saved, under a mutex, so that every    *)
(* operation is one step.  A summary is a record with an id and a          *)
(* started field; what else it holds does not matter here.                 *)
(***************************************************************************)
EXTENDS Integers, Sequences, FiniteSets

VARIABLE rows   \* the vector of summaries

Init == rows = <<>>

Has(id) == \E i \in DOMAIN rows : rows[i].id = id

\* iter().find: the first row with the id.
Find(id) == CHOOSE i \in DOMAIN rows :
              rows[i].id = id /\ \A j \in 1..(i - 1) : rows[j].id # id

\* save pushes, without looking for the id.
Save(summary) == rows' = Append(rows, summary)

Update_AlwaysPush(summary) == rows' = Append(rows, summary)

\* update replaces the row with the id in place, or pushes.
Update(summary) ==
  rows' = IF Has(summary.id) THEN [rows EXCEPT ![Find(summary.id)] = summary]
          ELSE Append(rows, summary)

\* get: the set of the one row found, or of none.
Get(id) == IF Has(id) THEN {rows[Find(id)]} ELSE {}

\* The stable sort by descending start: where row i goes.
Rank_BySaving(i) == Len(rows) + 1 - i
Rank(i) ==
  1 + Cardinality({j \in DOMAIN rows : \/ rows[j].started > rows[i].started
                                       \/ rows[j].started = rows[i].started /\ j < i})

Sorted == [k \in DOMAIN rows |-> rows[CHOOSE i \in DOMAIN rows : Rank(i) = k]]

\* list_recent: sort a copy, then truncate it.
ListRecent(limit) == SubSeq(Sorted, 1, IF limit < Len(rows) THEN limit ELSE Len(rows))
=============================================================================
