---------------------------- MODULE MCServedQuery ----------------------------
(* Three orders, two regions, a protected customer; two roles behind the    *)
(* cache, one of them scoped to a region it cannot name there, and a user   *)
(* of a tenant on the governed API.                                         *)
EXTENDS ServedQuery, TLC

CONSTANTS north, south, dana, eli, admin, manager, mia,
          acme, orderCount, netRevenue

Order(r, c, n) == [region |-> r, customer |-> c, no |-> n]

MCOrders == {Order(north, dana, 1), Order(north, dana, 2), Order(south, eli, 3)}
MCOrders0 == {Order(north, dana, 1), Order(south, eli, 3)}

Caller(u, r, reg, ten) == [user |-> u, role |-> r, region |-> reg, tenant |-> ten]

MCPrincipals == {Caller(Api, manager, None, None), Caller(Api, admin, None, None),
                 Caller(mia, manager, north, acme)}

MCQueries == {[metrics |-> {orderCount}, by |-> {"customer"}, cost |-> 2],
              [metrics |-> {netRevenue}, by |-> {}, cost |-> 1]}

MCRolesOf == (orderCount :> {} @@ netRevenue :> {admin})

Interchangeable == Permutations(Procs)
==============================================================================
