------------------------------- MODULE MCFlow --------------------------------
(* Small instances of Flow: a price is changed and a feed landed, somebody  *)
(* approves, the price is changed again and two statements follow.          *)
EXTENDS Flow, TLC

CONSTANTS feed, price, note, v1, v2, v3, nil

MCSteps ==
  << [kind |-> "mutate", do |-> <<<<price, v2>>>>, undo |-> <<>>],
     [kind |-> "ingest", do |-> <<<<feed, Null>>, <<feed, v1>>>>, undo |-> <<<<feed, Null>>>>],
     [kind |-> "human", do |-> <<>>, undo |-> <<>>],
     [kind |-> "mutate", do |-> <<<<price, v3>>>>, undo |-> <<>>],
     [kind |-> "sql", do |-> <<<<note, v2>>, <<note, v3>>>>, undo |-> <<<<note, Null>>>>] >>

MCWorld == (feed :> Null @@ price :> v1 @@ note :> Null)

MCNullPrice == (feed :> Null @@ price :> Null @@ note :> Null)

=============================================================================
