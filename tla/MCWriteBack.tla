------------------------------ MODULE MCWriteBack ------------------------------
(***************************************************************************)
(* Instances of WriteBack for TLC.  Two rows whose column is "a" or "b".   *)
(***************************************************************************)
EXTENDS WriteBackPromise, TLC

CONSTANTS k1, k2, a, b, ann, bob

MCRows == [k \in Keys |-> IF k = k1 THEN a ELSE Absent]

Insert(k, v)    == [op |-> "insert", keys |-> {}, vals |-> {}, setKey |-> k, setVal |-> v]
Update(vs, v)   == [op |-> "update", keys |-> Keys, vals |-> vs, setKey |-> Keep, setVal |-> v]
Delete(ks)      == [op |-> "delete", keys |-> ks, vals |-> Vals, setKey |-> Keep, setVal |-> Keep]
AddEntry        == [op |-> "model", keys |-> {}, vals |-> {}, setKey |-> Keep, setVal |-> Keep]
Rename(k, to)   == [op |-> "update", keys |-> {k}, vals |-> Vals, setKey |-> to, setVal |-> Keep]

(* An insert, an update by value whose matches depend on what others did,   *)
(* and a delete of the row the two of them touch.                           *)
MCChanges == {Insert(k2, a), Update({a}, b), Delete({k2})}

(* The first two of them and a model change.                                *)
MCTwoChanges == {Insert(k2, a), Update({a}, b), AddEntry}

Symmetry == Permutations(Handlers) \cup Permutations(Ids)

(* The same with both rows, an update of each value into the other and a    *)
(* model change.                                                            *)
MCSwaps == {Insert(k2, a), Update({a}, b), Update({b}, a), Delete({k1}), AddEntry}

(* models/writeback.yaml lets an update of `stores` set store_id, its       *)
(* primary key.                                                             *)
MCRenames == {Rename(k1, k2), Update({a}, b)}
=============================================================================
