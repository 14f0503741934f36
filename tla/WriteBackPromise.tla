--------------------------- MODULE WriteBackPromise ---------------------------
(***************************************************************************)
(* WriteBack implements ReviewedChange where one call runs at a time, none *)
(* dies, and no update renames a primary key.  The decision on a proposal  *)
(* is the one in the memory of the handler that has yet to save it, and    *)
(* what is stored otherwise.                                               *)
(***************************************************************************)
EXTENDS WriteBack

DecisionOn(id) ==
  LET unsaved == {h \in Handlers : pc[h] = "save" /\ doc[h].id = id} IN
  IF unsaved # {} THEN doc[CHOOSE h \in unsaved : TRUE].status
  ELSE IF stored[id] = NoProposal THEN "none" ELSE stored[id].status

Promise == INSTANCE ReviewedChange WITH
  Tables     <- Image,
  FirstTable <- InitialRows,
  table      <- rows,
  decision   <- [id \in Ids |-> DecisionOn(id)],
  latest     <- lastId,
  found      <- lastPre

(* Every step of the write path is a step of ReviewedChange or changes      *)
(* nothing there: the effect of Approve and Rollback (engine.go:62-94,      *)
(* 165-217) and the status a reader sees move together, once, and taking    *)
(* back the latest change gives back the table it found.                    *)
KeepsPromise == Promise!Spec
=============================================================================
