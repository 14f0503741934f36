---------------------------- MODULE ReviewedChange ----------------------------
(***************************************************************************)
(* What a reader of the write path may count on: a change is decided once; *)
(* the table and the decision move together; a change nobody built upon is *)
(* taken back exactly.                                                     *)
(***************************************************************************)
CONSTANTS Ids, Tables, NoId, FirstTable

VARIABLES
  table,     \* the writable table, one of Tables
  decision,  \* of each id
  latest,    \* whose change was the last one, unless it was taken back
  found      \* the table the last change found

vars == <<table, decision, latest, found>>

Init ==
  /\ table = FirstTable
  /\ decision = [id \in Ids |-> "none"]
  /\ latest = NoId
  /\ found = FirstTable

Moves(id, from, to) ==
  /\ decision[id] = from
  /\ decision' = [decision EXCEPT ![id] = to]

Propose(id) == Moves(id, "none", "pending") /\ UNCHANGED <<table, latest, found>>

Reject(id) == Moves(id, "pending", "rejected") /\ UNCHANGED <<table, latest, found>>

Commit(id) ==
  /\ Moves(id, "pending", "committed")
  /\ table' \in Tables
  /\ latest' = id
  /\ found' = table

(* The change was one of the model and left the table alone.                *)
CommitModel(id) == Moves(id, "pending", "committed") /\ UNCHANGED <<table, latest, found>>

Rollback(id) ==
  /\ Moves(id, "committed", "rolled_back")
  /\ table' \in Tables
  /\ latest = id => table' = found
  /\ latest' = NoId
  /\ found' = table

Next ==
  \E id \in Ids :
    Propose(id) \/ Reject(id) \/ Commit(id) \/ CommitModel(id) \/ Rollback(id)

Spec == Init /\ [][Next]_vars
=============================================================================
