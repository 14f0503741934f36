----------------------------- MODULE MCDatabases -----------------------------
(* Small instances of Databases: the operator configures one database, and  *)
(* callers register another, or replace either, with a model or without.    *)
EXTENDS Databases, TLC

CONSTANTS shop, lab, ledgers, shopYaml, labYaml

MCById   == <<lab, shop>>
MCConfigs == {<<>>, << <<shop, [model |-> ledgers, raw |-> FALSE]>> >>}
MCDefs   == {[model |-> NoModel, raw |-> FALSE], [model |-> ledgers, raw |-> FALSE]}
MCFiles  == {[id \in {lab, shop} |-> NoDef],
             [id \in {lab, shop} |-> [model |-> NoModel, raw |-> FALSE]]}
MCGen    == (shop :> shopYaml @@ lab :> labYaml)

Interchangeable == Permutations(Clients)

=============================================================================
