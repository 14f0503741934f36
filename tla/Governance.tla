------------------------------ MODULE Governance ------------------------------
(***************************************************************************)
(* A governed query (package governance, Query): what stands between a     *)
(* caller and the warehouse.  The metrics are authorised for the role, the *)
(* tenant's budget is read, the row policy scopes the query to the         *)
(* caller's region, the statement runs, small cohorts are dropped, masked  *)
(* dimensions are blanked, the trail gets its line and the tenant is       *)
(* charged.                                                                *)
(*                                                                         *)
(* Each access of the database is a step; what happens in memory between   *)
(* two of them belongs to the step before.  Several queries are in         *)
(* progress at a time, the orders they count come and go, and any          *)
(* statement may fail: a failed read of the ledger admits the query, a     *)
(* failed charge or line of the trail is dropped.                          *)
(***************************************************************************)
EXTENDS Naturals, FiniteSets

CONSTANTS
  Procs,        \* calls in progress at a time
  Orders,       \* records [region, customer, no]: the facts that may exist
  Orders0,      \* those that exist at the start
  Principals,   \* callers: records [user, role, region, tenant]
  Queries,      \* records [metrics, by, cost]
  RolesOf,      \* RolesOf[m]: the roles metric m is gated to; {} is no gate
  Scoped,       \* roles that a row filter on the region applies to
  KAnonDims,    \* dimensions whose small cohorts are dropped
  KAnonExempt,  \* roles they are shown to
  K,            \* the smallest cohort shown, or 0
  Masked,       \* dimensions blanked in results
  Unmask,       \* roles that see them
  Budget,       \* TenantBudgetBytes
  MaxCost,      \* the largest estimate
  MaxWrites,    \* bound: changes of the facts
  MaxCalls,     \* bound: calls
  MaxFailures,  \* bound: statements that fail
  MaxResets,    \* bound: resets of the spend ledger
  All,          \* what an ungrouped column shows
  Blank,        \* what a masked column shows
  None          \* an attribute the caller does not have

Dims == {"region", "customer"}
Regions == {o.region : o \in Orders}
Customers == {o.customer : o \in Orders}
Tenants == ({w.tenant : w \in Principals} \cup {w.user : w \in Principals}) \ {None}
Roles == {w.role : w \in Principals}

Row == [about    : SUBSET Orders,   \* the orders it counts
        region   : Regions \cup {All, Blank},
        customer : Customers \cup {All, Blank}]

NoQuery == [metrics |-> {}, by |-> {}, cost |-> 0]

ASSUME ProcsAssumption == IsFiniteSet(Procs)
ASSUME OrdersAssumption == IsFiniteSet(Orders) /\ Orders0 \subseteq Orders
ASSUME QueriesAssumption ==
  \A q \in Queries : q.by \subseteq Dims /\ q.cost \in 0 .. MaxCost
ASSUME BoundsAssumption ==
  Budget \in Nat \ {0} /\ {MaxCost, MaxWrites, MaxCalls, MaxFailures, MaxResets, K} \subseteq Nat
ASSUME PrincipalsAssumption ==
  \A w \in Principals :
    w = [user |-> w.user, role |-> w.role, region |-> w.region, tenant |-> w.tenant]
ASSUME NoneAssumption ==
  None \notin Regions \cup {w.user : w \in Principals} /\ {All, Blank} \cap (Regions \cup Customers) = {}

VARIABLES
  orders,     \* the facts in the warehouse
  spent,      \* the ledger: bytes per tenant
  trail,      \* _audit: who asked what, and how it ended
  pc, call,   \* where each call is, and what it holds in memory
  calls, writes, failures, resets,  \* what has happened against the bounds
  missed,     \* history: a statement on the ledger has failed
  unlogged    \* history: an insert into the trail has failed

govVars == <<orders, spent, trail, pc, call, calls, writes, failures, resets,
             missed, unlogged>>

(* Where a call is: before each access, and after the last.                 *)
Steps == {"idle", "budget", "execute", "audit", "charge", "answered", "refuse", "failed"}

Line == [who : Principals, query : Queries, outcome : {"rows", "refused", "error"}]

Call == [who     : Principals,
         query   : Queries,
         metered : BOOLEAN,          \* whether the policy has a budget
         outcome : {"rows", "refused", "error"},
         rows    : SUBSET Row]

NoCall == [who |-> None]

TypeOK ==
  /\ orders \subseteq Orders
  /\ spent \in [Tenants -> Nat]
  /\ trail \subseteq Line
  /\ pc \in [Procs -> Steps]
  /\ call \in [Procs -> Call \cup {NoCall}]
  /\ \A p \in Procs : pc[p] = "idle" <=> call[p] = NoCall
  /\ {calls, writes, failures, resets} \subseteq Nat
  /\ missed \in BOOLEAN /\ unlogged \in BOOLEAN

Init ==
  /\ orders = Orders0
  /\ spent = [t \in Tenants |-> 0]
  /\ trail = {}
  /\ pc = [p \in Procs |-> "idle"]
  /\ call = [p \in Procs |-> NoCall]
  /\ calls = 0 /\ writes = 0 /\ failures = 0 /\ resets = 0
  /\ missed = FALSE /\ unlogged = FALSE

-----------------------------------------------------------------------------
(* The rules.                                                              *)

Authorized(who, q) ==
  \A m \in q.metrics : RolesOf[m] = {} \/ who.role \in RolesOf[m]

(* A scoped role without the attribute is refused.                          *)
Scopable(who) == who.role \in Scoped => who.region # None

InScope(who, os) ==
  IF who.role \in Scoped THEN {o \in os : o.region = who.region} ELSE os

(* A policy with a K but no count metric suppresses nothing: it is K = 0    *)
(* here.  Where there is one, the answer carries its column.                *)
KAnonActive(who, q) ==
  K > 0 /\ who.role \notin KAnonExempt /\ q.by \cap KAnonDims # {}

TenantKey(who) == IF who.tenant # None THEN who.tenant ELSE who.user

(* What the compiled statement returns: one row per group, or the total.    *)
Grouped(os, by) ==
  LET shows(o) == [region   |-> IF "region" \in by THEN o.region ELSE All,
                   customer |-> IF "customer" \in by THEN o.customer ELSE All]
      groups == IF by = {} THEN {[region |-> All, customer |-> All]}
                           ELSE {shows(o) : o \in os}
  IN  {[about    |-> {o \in os : shows(o) = g},
        region   |-> g.region,
        customer |-> g.customer] : g \in groups}

Suppress(rows) == {r \in rows : Cardinality(r.about) >= K}

MaskColumns(rows) ==
  {[r EXCEPT !.region   = IF "region" \in Masked /\ @ # All THEN Blank ELSE @,
             !.customer = IF "customer" \in Masked /\ @ # All THEN Blank ELSE @] :
   r \in rows}

Governed(who, q, os) ==
  LET found == Grouped(InScope(who, os), q.by)
      kept  == IF KAnonActive(who, q) THEN Suppress(found) ELSE found
  IN  IF who.role \in Unmask THEN kept ELSE MaskColumns(kept)

-----------------------------------------------------------------------------
(* The steps of a call.                                                    *)

Fail == failures < MaxFailures /\ failures' = failures + 1

(* Up to the first access: RBAC, then the budget if there is one, then RLS. *)
Begin(p, who, q, metered) ==
  /\ pc[p] = "idle" /\ calls < MaxCalls
  /\ pc' = [pc EXCEPT ![p] = IF ~Authorized(who, q) THEN "refuse"
                             ELSE IF metered THEN "budget"
                             ELSE IF ~Scopable(who) THEN "refuse"
                             ELSE "execute"]
  /\ call' = [call EXCEPT ![p] = [who     |-> who,
                                  query   |-> q,
                                  metered |-> metered,
                                  outcome |-> "refused",
                                  rows    |-> {}]]
  /\ calls' = calls + 1
  /\ UNCHANGED <<orders, spent, trail, writes, failures, resets, missed, unlogged>>

(* Mutant: a tenant is refused only beyond its budget.                      *)
CheckBeyond(p) ==
  LET who == call[p].who IN
  /\ pc[p] = "budget"
  /\ pc' = [pc EXCEPT ![p] = IF spent[TenantKey(who)] > Budget \/ ~Scopable(who)
                             THEN "refuse" ELSE "execute"]
  /\ UNCHANGED <<orders, spent, trail, call, calls, writes, failures, resets, missed, unlogged>>

(* ledger.Spent; an error of it admits the query.                           *)
CheckBudget(p) ==
  LET who == call[p].who IN
  /\ pc[p] = "budget"
  /\ \/ /\ pc' = [pc EXCEPT ![p] = IF spent[TenantKey(who)] >= Budget \/ ~Scopable(who)
                                   THEN "refuse" ELSE "execute"]
        /\ UNCHANGED <<failures, missed>>
     \/ /\ Fail
        /\ missed' = TRUE
        /\ pc' = [pc EXCEPT ![p] = IF Scopable(who) THEN "execute" ELSE "refuse"]
  /\ UNCHANGED <<orders, spent, trail, call, calls, writes, resets, unlogged>>

(* QueryAs, then suppression and masking of what it returned.               *)
Execute(p) ==
  /\ pc[p] = "execute"
  /\ \/ /\ call' = [call EXCEPT ![p].outcome = "rows",
                                ![p].rows = Governed(call[p].who, call[p].query, orders)]
        /\ pc' = [pc EXCEPT ![p] = "audit"]
        /\ UNCHANGED failures
     \/ /\ Fail
        /\ call' = [call EXCEPT ![p].outcome = "error"]
        /\ pc' = [pc EXCEPT ![p] = "refuse"]
  /\ UNCHANGED <<orders, spent, trail, calls, writes, resets, missed, unlogged>>

Log(p) ==
  LET line == [who |-> call[p].who, query |-> call[p].query, outcome |-> call[p].outcome] IN
  \/ trail' = trail \cup {line} /\ UNCHANGED <<failures, unlogged>>
  \/ Fail /\ unlogged' = TRUE /\ UNCHANGED trail

(* The trail's line of a call that ends without an answer.                  *)
AuditFailure(p) ==
  /\ pc[p] = "refuse"
  /\ Log(p)
  /\ pc' = [pc EXCEPT ![p] = "failed"]
  /\ UNCHANGED <<orders, spent, call, calls, writes, resets, missed>>

(* Mutant: only the answers nothing was dropped from are logged.            *)
AuditUnlessSuppressed(p) ==
  /\ pc[p] = "audit"
  /\ IF KAnonActive(call[p].who, call[p].query)
     THEN UNCHANGED <<trail, failures, unlogged>> ELSE Log(p)
  /\ pc' = [pc EXCEPT ![p] = IF call[p].metered THEN "charge" ELSE "answered"]
  /\ UNCHANGED <<orders, spent, call, calls, writes, resets, missed>>

Audit(p) ==
  /\ pc[p] = "audit"
  /\ Log(p)
  /\ pc' = [pc EXCEPT ![p] = IF call[p].metered THEN "charge" ELSE "answered"]
  /\ UNCHANGED <<orders, spent, call, calls, writes, resets, missed>>

(* ledger.Add, an upsert that adds to what is there; its error is dropped.  *)
Charge(p) ==
  /\ pc[p] = "charge"
  /\ \/ /\ spent' = [spent EXCEPT ![TenantKey(call[p].who)] = @ + call[p].query.cost]
        /\ UNCHANGED <<failures, missed>>
     \/ Fail /\ missed' = TRUE /\ UNCHANGED spent
  /\ pc' = [pc EXCEPT ![p] = "answered"]
  /\ UNCHANGED <<orders, trail, call, calls, writes, resets, unlogged>>

(* The caller has the answer, or the error.                                 *)
Return(p) ==
  /\ pc[p] \in {"answered", "failed"}
  /\ pc' = [pc EXCEPT ![p] = "idle"]
  /\ call' = [call EXCEPT ![p] = NoCall]
  /\ UNCHANGED <<orders, spent, trail, calls, writes, failures, resets, missed, unlogged>>

(* `di spend reset`: the ledger's row of a tenant is deleted.               *)
Reset(t) ==
  /\ resets < MaxResets /\ spent[t] > 0
  /\ resets' = resets + 1
  /\ spent' = [spent EXCEPT ![t] = 0]
  /\ UNCHANGED <<orders, trail, pc, call, calls, writes, failures, missed, unlogged>>

(* Orders are placed and deleted by the systems the warehouse is fed from.  *)
Write(o) ==
  /\ writes < MaxWrites
  /\ writes' = writes + 1
  /\ orders' = IF o \in orders THEN orders \ {o} ELSE orders \cup {o}
  /\ UNCHANGED <<spent, trail, pc, call, calls, failures, resets, missed, unlogged>>

Step(p) ==
  \/ CheckBudget(p)
  \/ Execute(p)
  \/ AuditFailure(p)
  \/ Audit(p)
  \/ Charge(p)

World ==
  \/ \E t \in Tenants : Reset(t)
  \/ \E o \in Orders : Write(o)

Next ==
  \/ \E p \in Procs, who \in Principals, q \in Queries, metered \in BOOLEAN :
        Begin(p, who, q, metered)
  \/ \E p \in Procs : Step(p) \/ Return(p)
  \/ World

Spec == Init /\ [][Next]_govVars

-----------------------------------------------------------------------------
(* The calls of a tenant that passed the check and are not charged yet.     *)
Admitted(t) ==
  {p \in Procs : /\ pc[p] \in {"execute", "audit", "charge"}
                 /\ call[p].metered
                 /\ TenantKey(call[p].who) = t}

(* The budget is read before a query and charged after it, so queries in    *)
(* progress overshoot it together, but by no more than what all of them     *)
(* cost at most: the bound holds for what is charged and what is still owed *)
(* (governance.go:125-132, 177-179), as long as no ledger statement fails.  *)
OvershootBounded ==
  ~missed => \A t \in Tenants :
    spent[t] + MaxCost * Cardinality(Admitted(t))
      <= Budget - 1 + MaxCost * Cardinality(Procs)

=============================================================================
