--------------------------- MODULE ServedQueryProofs ---------------------------
(***************************************************************************)
(* Proofs about ServedQuery, for any callers, queries, policies, facts,    *)
(* budgets and number of calls in progress.                                *)
(***************************************************************************)
EXTENDS ServedQuery, FiniteSetTheorems, TLAPS

(* An answer about some orders that a governed query returned.              *)
LEMMA GroupedRows ==
  ASSUME NEW os \in SUBSET Orders, NEW by
  PROVE  \A r \in Grouped(os, by) :
           /\ r \in Row
           /\ r.about \subseteq os
           /\ r.region \in Regions \cup {All} /\ r.customer \in Customers \cup {All}
<1> DEFINE shows(o) == [region   |-> IF "region" \in by THEN o.region ELSE All,
                        customer |-> IF "customer" \in by THEN o.customer ELSE All]
           groups == IF by = {} THEN {[region |-> All, customer |-> All]}
                     ELSE {shows(o) : o \in os}
<1>1. \A g \in groups : g.region \in Regions \cup {All} /\ g.customer \in Customers \cup {All}
  BY DEF Regions, Customers
<1>2. \A r \in Grouped(os, by) : \E g \in groups :
        r = [about |-> {o \in os : shows(o) = g}, region |-> g.region, customer |-> g.customer]
  BY DEF Grouped
<1> QED
  BY <1>1, <1>2 DEF Row

(* What Governed returns is what a caller it authorises is entitled to.      *)
LEMMA GovernedEntitled ==
  ASSUME NEW os \in SUBSET Orders, NEW who \in Principals, NEW q \in Queries
  PROVE  /\ Governed(who, q, os) \in SUBSET Row
         /\ Authorized(who, q) => Entitled(who, q, Governed(who, q, os))
<1> DEFINE in    == InScope(who, os)
           found == Grouped(in, q.by)
           kept  == IF KAnonActive(who, q) THEN Suppress(found) ELSE found
<1>1. in \in SUBSET Orders /\ (who.role \in Scoped => \A o \in in : o.region = who.region)
  BY DEF InScope
<1>2. \A r \in found : /\ r \in Row /\ r.about \subseteq in
                       /\ r.region \in Regions \cup {All} /\ r.customer \in Customers \cup {All}
  BY <1>1, GroupedRows
<1>3. kept \subseteq found /\ (KAnonActive(who, q) => \A r \in kept : Cardinality(r.about) >= K)
  BY DEF Suppress
<1>4. \A r \in kept : /\ who.role \in Scoped => \A o \in r.about : o.region = who.region
                      /\ KAnonActive(who, q) => Cardinality(r.about) >= K
  BY <1>1, <1>2, <1>3
<1>5. Authorized(who, q) => \A m \in q.metrics : RolesOf[m] # {} => who.role \in RolesOf[m]
  BY DEF Authorized
<1>6. \A r \in MaskColumns(kept) : \E s \in kept :
        /\ r \in Row /\ r.about = s.about
        /\ "region" \in Masked => r.region \in {All, Blank}
        /\ "customer" \in Masked => r.customer \in {All, Blank}
  <2> SUFFICES ASSUME NEW s \in kept
               PROVE  LET r == [s EXCEPT !.region   = IF "region" \in Masked /\ @ # All THEN Blank ELSE @,
                                         !.customer = IF "customer" \in Masked /\ @ # All THEN Blank ELSE @]
                      IN  /\ r \in [about : SUBSET Orders, region : Regions \cup {All, Blank},
                                    customer : Customers \cup {All, Blank}]
                          /\ r.about = s.about
                          /\ "region" \in Masked => r.region \in {All, Blank}
                          /\ "customer" \in Masked => r.customer \in {All, Blank}
    BY DEF MaskColumns, Row
  <2> s \in Row
    BY <1>2, <1>3
  <2> QED
    BY DEF Row
<1>7. {All, Blank} \cap (Regions \cup Customers) = {}
  BY NoneAssumption
<1>8. Governed(who, q, os) = IF who.role \in Unmask THEN kept ELSE MaskColumns(kept)
  BY DEF Governed
<1>9. CASE who.role \in Unmask
  <2>1. Governed(who, q, os) = kept
    BY <1>8, <1>9
  <2>2. kept \in SUBSET Row
    BY <1>2, <1>3
  <2> QED
    BY <1>4, <1>5, <1>9, <2>1, <2>2 DEF Entitled, KAnonActive
<1>10. CASE who.role \notin Unmask
  <2>1. Governed(who, q, os) = MaskColumns(kept)
    BY <1>8, <1>10
  <2>2. \A r \in MaskColumns(kept) :
          /\ r \in Row
          /\ who.role \in Scoped => \A o \in r.about : o.region = who.region
          /\ KAnonActive(who, q) => Cardinality(r.about) >= K
          /\ "region" \in Masked => r.region \notin Regions
          /\ "customer" \in Masked => r.customer \notin Customers
    BY <1>4, <1>6, <1>7
  <2> QED
    BY <1>5, <2>1, <2>2 DEF Entitled, KAnonActive
<1> QED
  BY <1>9, <1>10

-----------------------------------------------------------------------------
(* Types.                                                                   *)

LEMMA TenantOfCaller ==
  ASSUME NEW who \in Principals
  PROVE  TenantKey(who) \in Tenants
  BY NoneAssumption DEF TenantKey, Tenants

(* A call in progress holds its caller, query and rows.                     *)
LEMMA CallInProgress ==
  ASSUME TypeOK, NEW p \in Procs, pc[p] # "idle"
  PROVE  /\ call[p] \in Call
         /\ call[p].who \in Principals /\ call[p].query \in Queries
         /\ call[p].metered \in BOOLEAN /\ call[p].rows \in SUBSET Row
         /\ call[p].outcome \in {"rows", "refused", "error"}
         /\ TenantKey(call[p].who) \in Tenants
         /\ call[p].query.cost \in 0 .. MaxCost
  BY TenantOfCaller, QueriesAssumption DEF TypeOK, Call

LEMMA BeginType ==
  ASSUME TypeOK, NEW p \in Procs, NEW who \in Principals, NEW q \in Queries,
         NEW metered \in BOOLEAN, Begin(p, who, q, metered)
  PROVE  TypeOK'
<1> DEFINE c == [who |-> who, query |-> q, metered |-> metered, outcome |-> "refused",
                 rows |-> {}]
<1>1. c \in Call /\ c # NoCall
  <2>1. c \in Call
    BY DEF Call
  <2> QED
    BY <2>1, NoneAssumption DEF Call, NoCall
<1>2. call' = [call EXCEPT ![p] = c] /\ pc'[p] # "idle" /\ pc' \in [Procs -> Steps]
      /\ \A x \in Procs : x # p => pc'[x] = pc[x] 
  BY DEF Begin, TypeOK, Steps
<1>3. call' \in [Procs -> Call \cup {NoCall}] /\ \A x \in Procs : pc'[x] = "idle" <=> call'[x] = NoCall
  BY <1>1, <1>2 DEF TypeOK
<1> QED
  BY <1>2, <1>3 DEF Begin, TypeOK

LEMMA StepType ==
  ASSUME TypeOK, NEW p \in Procs, Step(p) \/ Return(p)
  PROVE  TypeOK'
<1> USE DEF TypeOK, Steps
<1>0. pc[p] # "idle"
  BY DEF Step, Return, CheckBudget, Execute, AuditFailure, Audit, Charge
<1>f. failures' \in Nat
  <2>1. failures \in Nat
    OBVIOUS
  <2>2. failures' = failures \/ failures' = failures + 1
    BY DEF Step, Return, CheckBudget, Execute, AuditFailure, Audit, Charge, Log, Fail
  <2> QED
    BY <2>1, <2>2
<1>1. CASE CheckBudget(p)
  <2>1. pc' \in [Procs -> Steps] /\ \A x \in Procs : pc'[x] = "idle" <=> call'[x] = NoCall
    BY <1>1, <1>0 DEF CheckBudget
  <2>2. missed' \in BOOLEAN
    BY <1>1 DEF CheckBudget
  <2> QED
    BY <1>1, <1>f, <2>1, <2>2 DEF CheckBudget
<1>2. CASE Execute(p)
  <2>1. call[p] \in Call /\ orders \in SUBSET Orders
    BY <1>0
  <2> DEFINE ran(rows, outcome) == [call[p] EXCEPT !.outcome = outcome, !.rows = rows]
  <2>2. Governed(call[p].who, call[p].query, orders) \in SUBSET Row
    BY <1>0, <2>1, CallInProgress, GovernedEntitled
  <2>3. /\ ran(Governed(call[p].who, call[p].query, orders), "rows") \in Call
        /\ [call[p] EXCEPT !.outcome = "error"] \in Call
    BY <2>1, <2>2 DEF Call
  <2>4. \A c \in Call : c # NoCall
    BY NoneAssumption DEF Call, NoCall
  <2>5. PICK c \in Call : call' = [call EXCEPT ![p] = c] /\ pc'[p] # "idle"
    <3>1. CASE call' = [call EXCEPT ![p].outcome = "rows",
                                 ![p].rows = Governed(call[p].who, call[p].query, orders)]
      BY <1>2, <2>3, <3>1 DEF Execute
    <3>2. CASE call' = [call EXCEPT ![p].outcome = "error"]
      BY <1>2, <2>3, <3>2 DEF Execute
    <3> QED
      BY <1>2, <3>1, <3>2 DEF Execute
  <2>6. call' \in [Procs -> Call \cup {NoCall}] /\ \A x \in Procs : pc'[x] = "idle" <=> call'[x] = NoCall
    BY <1>2, <2>4, <2>5 DEF Execute
  <2> QED
    BY <1>2, <1>f, <2>6 DEF Execute
<1>3. CASE AuditFailure(p) \/ Audit(p)
  <2>1. [who |-> call[p].who, query |-> call[p].query, outcome |-> call[p].outcome] \in Line
    BY <1>0, CallInProgress DEF Line
  <2>2. trail' \in SUBSET Line /\ unlogged' \in BOOLEAN
    <3>1. Log(p)
      BY <1>3 DEF AuditFailure, Audit
    <3> QED
      BY <2>1, <3>1 DEF Log
  <2>3. pc' \in [Procs -> Steps] /\ \A x \in Procs : pc'[x] = "idle" <=> call'[x] = NoCall
    BY <1>0, <1>3 DEF AuditFailure, Audit
  <2> QED
    BY <1>3, <1>f, <2>2, <2>3 DEF AuditFailure, Audit
<1>4. CASE Charge(p)
  <2>1. spent' \in [Tenants -> Nat]
    BY <1>0, <1>4, CallInProgress, BoundsAssumption DEF Charge
  <2>2. pc' \in [Procs -> Steps] /\ \A x \in Procs : pc'[x] = "idle" <=> call'[x] = NoCall
    BY <1>0, <1>4 DEF Charge
  <2>3. missed' \in BOOLEAN
    BY <1>4 DEF Charge
  <2> QED
    BY <1>4, <1>f, <2>1, <2>2, <2>3 DEF Charge
<1>5. CASE Return(p)
  BY <1>5 DEF Return
<1> QED
  BY <1>1, <1>2, <1>3, <1>4, <1>5 DEF Step

LEMMA WorldType ==
  ASSUME TypeOK, World
  PROVE  TypeOK'
<1>1. ASSUME NEW t \in Tenants, Reset(t)
      PROVE  TypeOK'
  BY <1>1, BoundsAssumption DEF Reset, TypeOK
<1>2. ASSUME NEW o \in Orders, Write(o)
      PROVE  TypeOK'
  BY <1>2, BoundsAssumption DEF Write, TypeOK
<1> QED
  BY <1>1, <1>2 DEF World

LEMMA ServedInitType == ServedInit => CacheTypeOK
<1> SUFFICES ASSUME ServedInit
             PROVE  CacheTypeOK
  OBVIOUS
<1>1. TypeOK
  <2>1. pc \in [Procs -> Steps] /\ call \in [Procs -> Call \cup {NoCall}]
        /\ \A p \in Procs : pc[p] = "idle" /\ call[p] = NoCall
    BY DEF ServedInit, Init, Steps
  <2>2. orders \subseteq Orders /\ spent \in [Tenants -> Nat] /\ trail \subseteq Line
    BY OrdersAssumption DEF ServedInit, Init
  <2>3. calls = 0 /\ writes = 0 /\ failures = 0 /\ resets = 0
    BY DEF ServedInit, Init
  <2>4. {calls, writes, failures, resets} \subseteq Nat
    BY <2>3
  <2>5. missed \in BOOLEAN /\ unlogged \in BOOLEAN
    BY Zenon DEF ServedInit, Init
  <2> QED
    BY <2>1, <2>2, <2>4, <2>5 DEF TypeOK
<1> QED
  BY <1>1, TimeAssumption, OrdersAssumption
  DEF ServedInit, Init, CacheTypeOK, Entry, Fetch

LEMMA KeyType ==
  ASSUME NEW who \in Cached, NEW q \in Queries
  PROVE  Key(who, q) \in Keys
  BY DEF Keys

(* Begin, seen from the handler: the frame of p is new, the others' kept.   *)
LEMMA BeginFrames ==
  ASSUME CacheTypeOK, NEW p \in Procs, NEW who \in Principals, NEW q \in Queries,
         NEW metered \in BOOLEAN, Begin(p, who, q, metered),
         NEW e \in Entry \cup {NoEntry},
         fetch' = [fetch EXCEPT ![p] = [began |-> now, found |-> e]]
  PROVE  /\ TypeOK'
         /\ fetch' \in [Procs -> Fetch \cup {NoFetch}]
         /\ \A x \in Procs : fetch'[x] = NoFetch <=> pc'[x] = "idle"
<1> DEFINE f == [began |-> now, found |-> e]
<1>1. TypeOK'
  BY BeginType DEF CacheTypeOK
<1>2. f \in Fetch /\ f # NoFetch
  <2>1. now \in 0 .. MaxTime
    BY DEF CacheTypeOK
  <2>2. f \in Fetch
    BY <2>1 DEF Fetch
  <2>3. DOMAIN f # DOMAIN NoFetch
    BY DEF NoFetch
  <2> QED
    BY <2>2, <2>3
<1>3. pc'[p] # "idle" /\ \A x \in Procs : x # p => pc'[x] = pc[x]
  BY DEF Begin, CacheTypeOK, TypeOK
<1> QED
  BY <1>1, <1>2, <1>3 DEF CacheTypeOK

LEMMA ReturnFrames ==
  ASSUME CacheTypeOK, NEW p \in Procs, Return(p),
         fetch' = [fetch EXCEPT ![p] = NoFetch]
  PROVE  /\ TypeOK'
         /\ fetch' \in [Procs -> Fetch \cup {NoFetch}]
         /\ \A x \in Procs : fetch'[x] = NoFetch <=> pc'[x] = "idle"
<1>1. TypeOK'
  BY StepType DEF CacheTypeOK
<1> QED
  BY <1>1 DEF CacheTypeOK, TypeOK, Return

LEMMA StepFrames ==
  ASSUME CacheTypeOK, NEW p \in Procs, Step(p)
  PROVE  /\ pc[p] \in {"budget", "execute", "refuse", "audit", "charge"}
         /\ pc'[p] # "idle" /\ \A x \in Procs : x # p => pc'[x] = pc[x]
  BY DEF Step, CheckBudget, Execute, AuditFailure, Audit, Charge, CacheTypeOK, TypeOK

(* What is handed out is an answer to a call in progress.                   *)
LEMMA ServedType ==
  ASSUME CacheTypeOK, NEW p \in Procs, pc[p] # "idle", NEW rows \in SUBSET Row,
         NEW label \in {"hit", "fresh", "stale"}
  PROVE  Served(call[p].who, call[p].query, rows, label, fetch[p].began) \in Answer
<1>1. fetch[p] \in Fetch
  BY DEF CacheTypeOK
<1> QED
  BY <1>1, CallInProgress DEF CacheTypeOK, Served, Answer, Fetch

LEMMA NextType ==
  ASSUME CacheTypeOK, ServedNext
  PROVE  CacheTypeOK'
<1>1. ASSUME NEW p \in Procs, NEW q \in Queries, NEW who \in Cached, Hit(p, who, q)
      PROVE  CacheTypeOK'
  <2>1. entries[Key(who, q)] \in Entry
    BY <1>1, KeyType DEF Hit, Fresh, CacheTypeOK
  <2>2. out' \in Answer
    BY <1>1, <2>1 DEF Hit, Served, Answer, Entry, Cached, CacheTypeOK
  <2>3. TypeOK'
    BY <1>1 DEF Hit, CacheTypeOK, TypeOK
  <2> QED
    BY <1>1, <2>2, <2>3 DEF Hit, CacheTypeOK
<1>2. ASSUME NEW p \in Procs, NEW q \in Queries, NEW who \in Cached, Miss(p, who, q)
      PROVE  CacheTypeOK'
  <2>1. entries[Key(who, q)] \in Entry \cup {NoEntry} /\ who \in Principals
    BY KeyType DEF CacheTypeOK, Cached
  <2>2. /\ TypeOK' /\ fetch' \in [Procs -> Fetch \cup {NoFetch}]
        /\ \A x \in Procs : fetch'[x] = NoFetch <=> pc'[x] = "idle"
    BY <1>2, <2>1, BeginFrames DEF Miss
  <2> QED
    BY <1>2, <2>2 DEF Miss, CacheTypeOK
<1>3. ASSUME NEW p \in Procs, NEW q \in Queries, NEW who \in Direct, Ask(p, who, q)
      PROVE  CacheTypeOK'
  <2>2. /\ TypeOK' /\ fetch' \in [Procs -> Fetch \cup {NoFetch}]
        /\ \A x \in Procs : fetch'[x] = NoFetch <=> pc'[x] = "idle"
    BY <1>3, BeginFrames DEF Ask, Direct
  <2> QED
    BY <1>3, <2>2 DEF Ask, CacheTypeOK
<1>4. ASSUME NEW p \in Procs, Proceed(p)
      PROVE  CacheTypeOK'
  <2>1. TypeOK'
    BY <1>4, StepType DEF Proceed, CacheTypeOK
  <2>2. pc[p] # "idle" /\ pc'[p] # "idle" /\ \A x \in Procs : x # p => pc'[x] = pc[x]
    BY <1>4, StepFrames DEF Proceed
  <2> QED
    BY <1>4, <2>1, <2>2 DEF Proceed, CacheTypeOK
<1>5. ASSUME NEW p \in Procs, Store(p)
      PROVE  CacheTypeOK'
  <2>1. pc[p] = "answered" /\ fetch[p] \in Fetch /\ call[p].rows \in SUBSET Row
    BY <1>5, CallInProgress DEF Store, CacheTypeOK
  <2>2. entries' \in [Keys -> Entry \cup {NoEntry}]
    BY <1>5, <2>1 DEF Store, CacheTypeOK, Entry, Fetch
  <2>3. out' \in Answer
    BY <1>5, <2>1, ServedType DEF Store
  <2>4. /\ TypeOK' /\ fetch' \in [Procs -> Fetch \cup {NoFetch}]
        /\ \A x \in Procs : fetch'[x] = NoFetch <=> pc'[x] = "idle"
    BY <1>5, ReturnFrames DEF Store
  <2> QED
    BY <1>5, <2>2, <2>3, <2>4 DEF Store, CacheTypeOK
<1>6. ASSUME NEW p \in Procs, Degrade(p)
      PROVE  CacheTypeOK'
  <2>1. pc[p] = "failed" /\ fetch[p] \in Fetch
    BY <1>6 DEF Degrade, CacheTypeOK
  <2>2. fetch[p].found # NoEntry => fetch[p].found.rows \in SUBSET Row
    BY <2>1 DEF Fetch, Entry
  <2>3. out' \in Answer \cup {Nothing}
    BY <1>6, <2>1, <2>2, ServedType DEF Degrade
  <2>4. /\ TypeOK' /\ fetch' \in [Procs -> Fetch \cup {NoFetch}]
        /\ \A x \in Procs : fetch'[x] = NoFetch <=> pc'[x] = "idle"
    BY <1>6, ReturnFrames DEF Degrade
  <2> QED
    BY <1>6, <2>3, <2>4 DEF Degrade, CacheTypeOK
<1>7. ASSUME NEW p \in Procs, HandOver(p)
      PROVE  CacheTypeOK'
  <2>1. pc[p] # "idle" /\ call[p].rows \in SUBSET Row
    BY <1>7, CallInProgress DEF HandOver, CacheTypeOK
  <2>3. out' \in Answer \cup {Nothing}
    BY <1>7, <2>1, ServedType DEF HandOver
  <2>4. /\ TypeOK' /\ fetch' \in [Procs -> Fetch \cup {NoFetch}]
        /\ \A x \in Procs : fetch'[x] = NoFetch <=> pc'[x] = "idle"
    BY <1>7, ReturnFrames DEF HandOver
  <2> QED
    BY <1>7, <2>3, <2>4 DEF HandOver, CacheTypeOK
<1>8. CASE Tick
  BY <1>8, TimeAssumption DEF Tick, CacheTypeOK, TypeOK, govVars
<1>9. CASE Outside
  <2>1. TypeOK' /\ pc' = pc
    BY <1>9, WorldType DEF Outside, World, Reset, Write, CacheTypeOK
  <2>2. past' \in [0 .. MaxTime -> SUBSET SUBSET Orders]
    BY <1>9, <2>1 DEF Outside, CacheTypeOK, TypeOK
  <2> QED
    BY <1>9, <2>1, <2>2 DEF Outside, CacheTypeOK
<1> QED
  BY <1>1, <1>2, <1>3, <1>4, <1>5, <1>6, <1>7, <1>8, <1>9 DEF ServedNext

(* Calls, entries and answers have their types, whatever the policy.        *)
THEOREM TypeCorrect == ServedSpec => []CacheTypeOK
<1>1. CacheTypeOK /\ UNCHANGED vars => CacheTypeOK'
  BY DEF CacheTypeOK, TypeOK, vars, govVars, cacheVars
<1> QED
  BY <1>1, ServedInitType, NextType, PTL DEF ServedSpec

-----------------------------------------------------------------------------
(* The budget.                                                              *)

LEMMA TimesMonotone ==
  ASSUME NEW m \in Nat, NEW a \in Nat, NEW b \in Nat, a <= b
  PROVE  m * a <= m * b
<1>1. b = a + (b - a) /\ b - a \in Nat
  OBVIOUS
<1>2. m * b = m * a + m * (b - a) /\ m * (b - a) \in Nat
  BY <1>1
<1> QED
  BY <1>2

(* A call that is charged owes nothing more.                                *)
LEMMA TimesLess ==
  ASSUME NEW m \in Nat, NEW a \in Nat
  PROVE  m * (a + 1) = m * a + m
  OBVIOUS

(* What a tenant may come to, when fewer calls are admitted or less spent.  *)
LEMMA LessKeepsRoom ==
  ASSUME NEW A \in SUBSET Procs, NEW B \in SUBSET Procs, A \subseteq B,
         NEW r \in Nat, NEW s \in Nat, s <= r, NEW limit \in Nat,
         r + MaxCost * Cardinality(B) <= limit
  PROVE  s + MaxCost * Cardinality(A) <= limit
<1>1. IsFiniteSet(B) /\ Cardinality(B) \in Nat
  BY ProcsAssumption, FS_Subset, FS_CardinalityType
<1>2. Cardinality(A) \in Nat /\ Cardinality(A) <= Cardinality(B)
  BY <1>1, FS_Subset, FS_CardinalityType
<1>3. MaxCost \in Nat
  BY BoundsAssumption
<1>4. MaxCost * Cardinality(A) <= MaxCost * Cardinality(B)
  BY <1>1, <1>2, <1>3, TimesMonotone
<1>5. MaxCost * Cardinality(A) \in Nat /\ MaxCost * Cardinality(B) \in Nat
  BY <1>1, <1>2, <1>3
<1> QED
  BY <1>4, <1>5

(* Only a metered call is checked or charged.                               *)
Metered == \A p \in Procs : pc[p] \in {"budget", "charge"} => call[p].metered

BudgetInv == Metered /\ OvershootBounded

Limit == Budget - 1 + MaxCost * Cardinality(Procs)

LEMMA LimitIsNat == Limit \in Nat
<1>1. Cardinality(Procs) \in Nat
  BY ProcsAssumption, FS_CardinalityType
<1>2. MaxCost * Cardinality(Procs) \in Nat
  BY <1>1, BoundsAssumption
<1> QED
  BY <1>2, BoundsAssumption DEF Limit

(* Every call admitted, and less than the budget spent.                     *)
LEMMA BelowBudgetHasRoom ==
  ASSUME NEW A \in SUBSET Procs, NEW s \in Nat, s < Budget
  PROVE  s + MaxCost * Cardinality(A) <= Limit
<1>1. Budget - 1 \in Nat /\ s <= Budget - 1
  BY BoundsAssumption
<1>2. Budget - 1 + MaxCost * Cardinality(Procs) <= Limit
  BY LimitIsNat DEF Limit
<1> QED
  BY <1>1, <1>2, LimitIsNat, LessKeepsRoom

(* A step that admits nobody and charges nothing.                           *)
LEMMA QuietKeepsBudget ==
  ASSUME CacheTypeOK, CacheTypeOK', OvershootBounded, missed' = missed,
         \A t \in Tenants : spent'[t] <= spent[t] /\ Admitted(t)' \subseteq Admitted(t)
  PROVE  OvershootBounded'
<1> SUFFICES ASSUME ~missed, NEW t \in Tenants
             PROVE  spent'[t] + MaxCost * Cardinality(Admitted(t)') <= Limit
  BY DEF OvershootBounded, Limit
<1>1. spent[t] \in Nat /\ spent'[t] \in Nat
  BY DEF CacheTypeOK, TypeOK
<1>2. spent[t] + MaxCost * Cardinality(Admitted(t)) <= Limit
  BY DEF OvershootBounded, Limit
<1>3. Admitted(t) \in SUBSET Procs /\ Admitted(t)' \in SUBSET Procs
  BY DEF Admitted
<1> QED
  BY <1>1, <1>2, <1>3, LimitIsNat, LessKeepsRoom

LEMMA BeginKeepsBudget ==
  ASSUME CacheTypeOK, CacheTypeOK', BudgetInv, NEW p \in Procs, NEW who \in Principals,
         NEW q \in Queries, NEW metered \in BOOLEAN, Begin(p, who, q, metered)
  PROVE  BudgetInv'
<1>1. /\ pc'[p] \in {"refuse", "budget", "execute"}
      /\ pc'[p] = "budget" => metered
      /\ pc'[p] = "execute" => ~metered
      /\ call'[p].metered = metered
      /\ \A x \in Procs : x # p => pc'[x] = pc[x] /\ call'[x] = call[x]
      /\ spent' = spent /\ missed' = missed
  BY DEF Begin, CacheTypeOK, TypeOK
<1>2. Metered'
  BY <1>1 DEF BudgetInv, Metered
<1>3. \A t \in Tenants : Admitted(t)' \subseteq Admitted(t)
  BY <1>1 DEF Admitted
<1>4. \A t \in Tenants : spent[t] \in Nat
  BY DEF CacheTypeOK, TypeOK
<1>5. \A t \in Tenants : spent'[t] <= spent[t]
  BY <1>1, <1>4
<1> QED
  BY <1>1, <1>2, <1>3, <1>5, QuietKeepsBudget DEF BudgetInv

LEMMA CheckKeepsBudget ==
  ASSUME CacheTypeOK, CacheTypeOK', BudgetInv, NEW p \in Procs, CheckBudget(p)
  PROVE  BudgetInv'
<1>1. /\ pc[p] = "budget" /\ call' = call /\ spent' = spent
      /\ pc'[p] \in {"execute", "refuse"}
      /\ \A x \in Procs : x # p => pc'[x] = pc[x]
  BY DEF CheckBudget, CacheTypeOK, TypeOK
<1>2. Metered'
  BY <1>1 DEF BudgetInv, Metered
<1>3. \A t \in Tenants : spent[t] \in Nat /\ spent'[t] <= spent[t]
  BY <1>1 DEF CacheTypeOK, TypeOK
<1>4. CASE missed'
  BY <1>2, <1>4 DEF BudgetInv, OvershootBounded
<1>5. CASE pc'[p] = "refuse" /\ missed' = missed
  <2>1. \A t \in Tenants : Admitted(t)' \subseteq Admitted(t)
    BY <1>1, <1>5 DEF Admitted
  <2> QED
    BY <1>2, <1>3, <1>5, <2>1, QuietKeepsBudget DEF BudgetInv
<1>6. CASE pc'[p] = "execute" /\ missed' = missed /\ ~missed
  <2> DEFINE mine == TenantKey(call[p].who)
  <2>1. mine \in Tenants /\ spent[mine] < Budget
    <3>1. mine \in Tenants
      BY <1>1, CallInProgress DEF CacheTypeOK
    <3>2. ~(spent[mine] >= Budget)
      <4>1. p \in DOMAIN pc
        BY DEF CacheTypeOK, TypeOK
      <4>2. pc' = [pc EXCEPT ![p] = IF spent[mine] >= Budget \/ ~Scopable(call[p].who)
                                    THEN "refuse" ELSE "execute"]
        BY <1>6 DEF CheckBudget
      <4> QED
        BY <1>6, <4>1, <4>2
    <3> QED
      BY <1>3, <3>1, <3>2, BoundsAssumption
  <2>2. ASSUME NEW t \in Tenants
        PROVE  spent'[t] + MaxCost * Cardinality(Admitted(t)') <= Limit
    <3>1. Admitted(t)' \in SUBSET Procs
      BY DEF Admitted
    <3>2. CASE t = mine
      BY <1>1, <1>3, <2>1, <3>1, <3>2, BelowBudgetHasRoom
    <3>3. CASE t # mine
      <4>1. Admitted(t)' = Admitted(t)
        BY <1>1, <1>6, <3>3 DEF Admitted
      <4> QED
        BY <1>1, <1>6, <4>1 DEF BudgetInv, OvershootBounded, Limit
    <3> QED
      BY <3>2, <3>3
  <2> QED
    BY <1>2, <2>2 DEF BudgetInv, OvershootBounded, Limit
<1>7. missed' \/ missed' = missed
  BY DEF CheckBudget
<1> QED
  BY <1>1, <1>4, <1>5, <1>6, <1>7

LEMMA ChargeKeepsBudget ==
  ASSUME CacheTypeOK, CacheTypeOK', BudgetInv, NEW p \in Procs, Charge(p)
  PROVE  BudgetInv'
<1> DEFINE mine == TenantKey(call[p].who)
           cost == call[p].query.cost
<1>1. /\ pc[p] = "charge" /\ call' = call /\ pc'[p] = "answered" /\ call[p].metered
      /\ \A x \in Procs : x # p => pc'[x] = pc[x]
  BY DEF Charge, CacheTypeOK, TypeOK, BudgetInv, Metered
<1>2. mine \in Tenants /\ cost \in 0 .. MaxCost
  BY <1>1, CallInProgress DEF CacheTypeOK
<1>3. Metered'
  BY <1>1 DEF BudgetInv, Metered
<1>4. CASE missed'
  BY <1>3, <1>4 DEF BudgetInv, OvershootBounded
<1>5. CASE ~missed'
  <2>1. spent' = [spent EXCEPT ![mine] = @ + cost] /\ missed' = missed
    BY <1>5 DEF Charge
  <2>2. ASSUME NEW t \in Tenants
        PROVE  spent'[t] + MaxCost * Cardinality(Admitted(t)') <= Limit
    <3>1. Admitted(t) \in SUBSET Procs /\ Admitted(t)' \in SUBSET Procs
      BY DEF Admitted
    <3>2. spent[t] + MaxCost * Cardinality(Admitted(t)) <= Limit /\ spent[t] \in Nat
      BY <1>5, <2>1 DEF BudgetInv, OvershootBounded, Limit, CacheTypeOK, TypeOK
    <3>3. CASE t # mine
      <4>1. Admitted(t)' = Admitted(t) /\ spent'[t] = spent[t]
        BY <1>1, <2>1, <3>3 DEF Admitted, CacheTypeOK, TypeOK
      <4> QED
        BY <3>2, <4>1
    <3>4. CASE t = mine
      <4>1. p \in Admitted(t) /\ Admitted(t)' = Admitted(t) \ {p}
        BY <1>1, <3>4 DEF Admitted
      <4>2. spent'[t] = spent[t] + cost
        BY <1>2, <2>1, <3>4 DEF CacheTypeOK, TypeOK
      <4>3. IsFiniteSet(Admitted(t))
        BY <3>1, ProcsAssumption, FS_Subset
      <4>4. Cardinality(Admitted(t)') = Cardinality(Admitted(t)) - 1
        BY <4>1, <4>3, FS_RemoveElement
      <4>5. Cardinality(Admitted(t)') \in Nat
        BY <4>1, <4>3, FS_RemoveElement, FS_CardinalityType
      <4>6. Cardinality(Admitted(t)) \in Nat
        BY <4>3, FS_CardinalityType
      <4>7. MaxCost * Cardinality(Admitted(t)) = MaxCost * Cardinality(Admitted(t)') + MaxCost
        <5>1. Cardinality(Admitted(t)) = Cardinality(Admitted(t)') + 1
          BY <4>4, <4>5, <4>6
        <5> QED
          BY <5>1, <4>5, BoundsAssumption, TimesLess
      <4>8. MaxCost * Cardinality(Admitted(t)') \in Nat
        BY <4>5, BoundsAssumption
      <4> QED
        BY <1>2, <3>2, <4>2, <4>7, <4>8, LimitIsNat, BoundsAssumption
    <3> QED
      BY <3>3, <3>4
  <2> QED
    BY <1>3, <2>2 DEF BudgetInv, OvershootBounded, Limit
<1> QED
  BY <1>4, <1>5

(* The other steps of a call admit nobody and charge nothing.               *)
LEMMA RestKeepsBudget ==
  ASSUME CacheTypeOK, CacheTypeOK', BudgetInv, NEW p \in Procs,
         Execute(p) \/ AuditFailure(p) \/ Audit(p) \/ Return(p)
  PROVE  BudgetInv'
<1>1. /\ spent' = spent /\ missed' = missed
      /\ \A x \in Procs : x # p => pc'[x] = pc[x] /\ call'[x] = call[x]
  BY DEF Execute, AuditFailure, Audit, Return, CacheTypeOK, TypeOK
<1>2. /\ pc'[p] # "budget"
      /\ pc'[p] = "charge" => call'[p].metered
      /\ pc'[p] \in {"execute", "audit", "charge"} =>
           /\ pc[p] \in {"execute", "audit", "charge"}
           /\ call'[p].metered = call[p].metered /\ call'[p].who = call[p].who
  <2>1. CASE Execute(p)
    <3>1. call[p] \in Call
      BY <2>1, CallInProgress DEF Execute, CacheTypeOK
    <3> QED
      BY <2>1, <3>1 DEF Execute, CacheTypeOK, TypeOK, Call
  <2>2. CASE AuditFailure(p) \/ Audit(p) \/ Return(p)
    BY <2>2 DEF AuditFailure, Audit, Return, CacheTypeOK, TypeOK
  <2> QED
    BY <2>1, <2>2
<1>3. Metered'
  BY <1>1, <1>2 DEF BudgetInv, Metered
<1>4. \A t \in Tenants : Admitted(t)' \subseteq Admitted(t)
  BY <1>1, <1>2 DEF Admitted
<1>5. \A t \in Tenants : spent[t] \in Nat
  BY DEF CacheTypeOK, TypeOK
<1>6. \A t \in Tenants : spent'[t] <= spent[t]
  BY <1>1, <1>5
<1> QED
  BY <1>1, <1>3, <1>4, <1>6, QuietKeepsBudget DEF BudgetInv

LEMMA IdleKeepsBudget ==
  ASSUME CacheTypeOK, CacheTypeOK', BudgetInv, pc' = pc, call' = call, missed' = missed,
         \A t \in Tenants : spent'[t] <= spent[t]
  PROVE  BudgetInv'
<1>1. \A t \in Tenants : Admitted(t)' = Admitted(t)
  BY DEF Admitted
<1> QED
  BY <1>1, QuietKeepsBudget DEF BudgetInv, Metered

LEMMA NextKeepsBudget ==
  ASSUME CacheTypeOK, BudgetInv, ServedNext
  PROVE  BudgetInv'
<1>0. CacheTypeOK'
  BY NextType
<1>s. \A t \in Tenants : spent[t] \in Nat
  BY DEF CacheTypeOK, TypeOK
<1>1. ASSUME NEW p \in Procs, NEW q \in Queries, NEW who \in Cached, Hit(p, who, q)
      PROVE  BudgetInv'
  BY <1>0, <1>1, <1>s, IdleKeepsBudget DEF Hit
<1>2. ASSUME NEW p \in Procs, NEW q \in Queries, NEW who \in Cached, Miss(p, who, q)
      PROVE  BudgetInv'
  BY <1>0, <1>2, BeginKeepsBudget DEF Miss, Cached
<1>3. ASSUME NEW p \in Procs, NEW q \in Queries, NEW who \in Direct, Ask(p, who, q)
      PROVE  BudgetInv'
  BY <1>0, <1>3, BeginKeepsBudget DEF Ask, Direct
<1>4. ASSUME NEW p \in Procs, Proceed(p)
      PROVE  BudgetInv'
  BY <1>0, <1>4, CheckKeepsBudget, ChargeKeepsBudget, RestKeepsBudget DEF Proceed, Step
<1>5. ASSUME NEW p \in Procs, Store(p) \/ Degrade(p) \/ HandOver(p)
      PROVE  BudgetInv'
  BY <1>0, <1>5, RestKeepsBudget DEF Store, Degrade, HandOver
<1>6. CASE Tick
  BY <1>0, <1>6, <1>s, IdleKeepsBudget DEF Tick, govVars
<1>7. CASE Outside
  <2>1. pc' = pc /\ call' = call /\ missed' = missed
    BY <1>7 DEF Outside, World, Reset, Write
  <2>2. \A t \in Tenants : spent'[t] <= spent[t]
    <3>1. ASSUME NEW r \in Tenants, Reset(r)
          PROVE  \A t \in Tenants : spent'[t] <= spent[t]
      BY <1>s, <3>1 DEF Reset, CacheTypeOK, TypeOK
    <3>2. ASSUME NEW o \in Orders, Write(o)
          PROVE  \A t \in Tenants : spent'[t] <= spent[t]
      BY <1>s, <3>2 DEF Write
    <3> QED
      BY <1>7, <3>1, <3>2 DEF Outside, World
  <2> QED
    BY <1>0, <2>1, <2>2, IdleKeepsBudget
<1> QED
  BY <1>1, <1>2, <1>3, <1>4, <1>5, <1>6, <1>7 DEF ServedNext

LEMMA InitBudget == ServedInit => BudgetInv
<1> SUFFICES ASSUME ServedInit
             PROVE  BudgetInv
  OBVIOUS
<1>1. \A p \in Procs : pc[p] = "idle"
  BY DEF ServedInit, Init
<1>2. \A t \in Tenants : spent[t] = 0 /\ Admitted(t) \in SUBSET Procs
  BY DEF ServedInit, Init, Admitted
<1>3. \A t \in Tenants : spent[t] + MaxCost * Cardinality(Admitted(t)) <= Limit
  BY <1>2, BelowBudgetHasRoom, BoundsAssumption
<1> QED
  BY <1>1, <1>3 DEF BudgetInv, Metered, OvershootBounded, Limit

(* However many queries are in progress, a tenant overshoots its budget by  *)
(* less than each of them at its dearest, as long as its ledger answers.    *)
THEOREM BudgetHolds == ServedSpec => []OvershootBounded
<1>1. CacheTypeOK /\ BudgetInv /\ UNCHANGED vars => BudgetInv'
  BY DEF BudgetInv, Metered, OvershootBounded, Admitted, vars, govVars, cacheVars
<1>2. BudgetInv => OvershootBounded
  BY DEF BudgetInv
<1> QED
  BY <1>1, <1>2, InitBudget, NextKeepsBudget, TypeCorrect, PTL DEF ServedSpec

-----------------------------------------------------------------------------
(* The answers.                                                             *)

LineOf(who, q) == [who |-> who, query |-> q, outcome |-> "rows"]
OnTrail(who, q) == ~unlogged => LineOf(who, q) \in trail

(* An answer its caller may have, that held since then and is on the trail. *)
Backed(since, who, q, rows) ==
  /\ Entitled(who, q, rows)
  /\ HeldSince(since, who, q, rows)
  /\ OnTrail(who, q)

(* What a call in progress, at a step, may rely on.                         *)
CallInv(at, c, f) ==
  /\ f.began <= now
  /\ ~c.metered => c.who \in Cached
  /\ at \in {"budget", "execute", "audit", "charge", "answered"} => Authorized(c.who, c.query)
  /\ at \in {"audit", "charge", "answered"} =>
       /\ c.outcome = "rows"
       /\ Entitled(c.who, c.query, c.rows)
       /\ HeldSince(f.began, c.who, c.query, c.rows)
  /\ at \in {"charge", "answered"} => OnTrail(c.who, c.query)
  /\ f.found # NoEntry => Backed(f.found.at, c.who, c.query, f.found.rows)

Calls == \A p \in Procs, c \in Call, f \in Fetch :
           call[p] = c /\ fetch[p] = f => CallInv(pc[p], c, f)

Entries == \A w \in Cached, q \in Queries, e \in Entry :
             entries[Key(w, q)] = e => Backed(e.at, w, q, e.rows)

Since(a) == IF a.label = "stale" THEN 0 ELSE a.asked - TTL

Handed == \A a \in Answer : out = a => Backed(Since(a), a.who, a.query, a.rows)

Present == orders \in past[now]

AnswerInv == Calls /\ Entries /\ Handed /\ Present

(* Time, the record of the facts and the trail only grow.                   *)
Grows ==
  /\ now <= now' /\ \A t \in 0 .. now : past[t] \subseteq past'[t]
  /\ trail \subseteq trail' /\ (unlogged => unlogged')

LEMMA BackedStays ==
  ASSUME CacheTypeOK, CacheTypeOK', Grows,
         NEW since, NEW who, NEW q, NEW rows
  PROVE  /\ HeldSince(since, who, q, rows) => HeldSince(since, who, q, rows)'
         /\ OnTrail(who, q) => OnTrail(who, q)'
         /\ Backed(since, who, q, rows) => Backed(since, who, q, rows)'
<1>1. now \in Nat /\ now' \in Nat
  BY TimeAssumption DEF CacheTypeOK
<1>2. HeldSince(since, who, q, rows) => HeldSince(since, who, q, rows)'
  BY <1>1 DEF Grows, HeldSince
<1>3. OnTrail(who, q) => OnTrail(who, q)'
  BY DEF Grows, OnTrail
<1> QED
  BY <1>2, <1>3 DEF Backed, Entitled

(* What held since then held since any time before.                         *)
LEMMA BackedBefore ==
  ASSUME CacheTypeOK, NEW since \in Int, NEW before \in Int, before <= since,
         NEW who, NEW q, NEW rows, Backed(since, who, q, rows)
  PROVE  Backed(before, who, q, rows)
<1>1. now \in Nat
  BY TimeAssumption DEF CacheTypeOK
<1> QED
  BY <1>1 DEF Backed, HeldSince

LEMMA CallInvStays ==
  ASSUME CacheTypeOK, CacheTypeOK', Grows,
         NEW at, NEW c \in Call, NEW f \in Fetch, CallInv(at, c, f)
  PROVE  CallInv(at, c, f)'
<1>1. now \in Nat /\ now' \in Nat /\ now <= now' /\ f.began \in Nat
  BY TimeAssumption DEF CacheTypeOK, Grows, Fetch
<1>2. f.began <= now'
  BY <1>1 DEF CallInv
<1>3. at \in {"audit", "charge", "answered"} => HeldSince(f.began, c.who, c.query, c.rows)'
  BY BackedStays DEF CallInv
<1>4. at \in {"charge", "answered"} => OnTrail(c.who, c.query)'
  BY BackedStays DEF CallInv
<1>5. f.found # NoEntry => Backed(f.found.at, c.who, c.query, f.found.rows)'
  BY BackedStays DEF CallInv
<1> QED
  BY <1>2, <1>3, <1>4, <1>5 DEF CallInv, Entitled, Authorized

(* A step of one call leaves what the others rely on.                       *)
LEMMA OneCallMoves ==
  ASSUME CacheTypeOK, CacheTypeOK', Grows, Calls, NEW p \in Procs,
         \A x \in Procs : x # p => pc'[x] = pc[x] /\ call'[x] = call[x] /\ fetch'[x] = fetch[x],
         \A c \in Call, f \in Fetch : call'[p] = c /\ fetch'[p] = f => CallInv(pc[p], c, f)'
  PROVE  Calls'
<1> SUFFICES ASSUME NEW x \in Procs, NEW c \in Call, NEW f \in Fetch,
                    call'[x] = c, fetch'[x] = f
             PROVE  CallInv(pc[x], c, f)'
  BY DEF Calls
<1>1. CASE x = p
  BY <1>1
<1>2. CASE x # p
  <2>1. PICK at : at = pc[x]
    OBVIOUS
  <2>2. CallInv(at, c, f)'
    BY <1>2, <2>1, CallInvStays DEF Calls
  <2> QED
    BY <1>2, <2>1, <2>2 DEF CallInv
<1> QED
  BY <1>1, <1>2

LEMMA EntriesStay ==
  ASSUME CacheTypeOK, CacheTypeOK', Grows, Entries, entries' = entries
  PROVE  Entries'
  BY BackedStays DEF Entries

LEMMA NothingHanded ==
  ASSUME out' = Nothing
  PROVE  Handed'
<1>1. \A a \in Answer : a # Nothing
  <2>1. \A a \in Answer : DOMAIN a # DOMAIN Nothing
    BY DEF Answer, Nothing
  <2> QED
    BY <2>1
<1> QED
  BY <1>1 DEF Handed

LEMMA NextGrows ==
  ASSUME CacheTypeOK, ServedNext
  PROVE  Grows
<1> now \in Nat
  BY TimeAssumption DEF CacheTypeOK
<1>1. ASSUME NEW p \in Procs, Proceed(p)
      PROVE  Grows
  BY <1>1 DEF Proceed, Step, CheckBudget, Execute, AuditFailure, Audit, Charge, Log, Grows
<1>2. CASE Tick
  BY <1>2 DEF Tick, govVars, Grows, CacheTypeOK
<1>3. CASE Outside
  BY <1>3 DEF Outside, World, Reset, Write, Grows, CacheTypeOK
<1>4. ASSUME NEW p \in Procs, NEW q \in Queries, NEW who \in Principals,
             Hit(p, who, q) \/ Miss(p, who, q) \/ Ask(p, who, q)
      PROVE  Grows
  BY <1>4 DEF Hit, Miss, Ask, Begin, Grows
<1>5. ASSUME NEW p \in Procs, Store(p) \/ Degrade(p) \/ HandOver(p)
      PROVE  Grows
  BY <1>5 DEF Store, Degrade, HandOver, Return, Grows
<1> QED
  BY <1>1, <1>2, <1>3, <1>4, <1>5 DEF ServedNext, Cached, Direct

(* A call that begins is authorised or refused, and knows what it found.    *)
LEMMA BeginKeepsCalls ==
  ASSUME CacheTypeOK, CacheTypeOK', Grows, Calls, NEW p \in Procs, NEW who \in Principals,
         NEW q \in Queries, NEW metered \in BOOLEAN, Begin(p, who, q, metered),
         ~metered => who \in Cached,
         NEW e \in Entry \cup {NoEntry}, e # NoEntry => Backed(e.at, who, q, e.rows),
         fetch' = [fetch EXCEPT ![p] = [began |-> now, found |-> e]]
  PROVE  Calls'
<1>1. \A x \in Procs : x # p => pc'[x] = pc[x] /\ call'[x] = call[x] /\ fetch'[x] = fetch[x]
  BY DEF Begin, CacheTypeOK, TypeOK
<1>2. ASSUME NEW c \in Call, NEW f \in Fetch, call'[p] = c, fetch'[p] = f
      PROVE  CallInv(pc[p], c, f)'
  <2>1. c.who = who /\ c.query = q /\ c.metered = metered
    BY <1>2 DEF Begin, CacheTypeOK, TypeOK
  <2>2. f.began = now /\ f.found = e
    BY <1>2 DEF CacheTypeOK
  <2>3. pc'[p] \in {"refuse", "budget", "execute"} /\ (pc'[p] # "refuse" => Authorized(who, q))
    BY DEF Begin, CacheTypeOK, TypeOK
  <2>4. e # NoEntry => Backed(e.at, who, q, e.rows)'
    BY BackedStays
  <2>5. f.began <= now'
    BY <2>2 DEF Grows
  <2> QED
    BY <2>1, <2>2, <2>3, <2>4, <2>5 DEF CallInv, Authorized
<1> QED
  BY <1>1, <1>2, OneCallMoves

LEMMA ExecuteKeepsCalls ==
  ASSUME CacheTypeOK, CacheTypeOK', Grows, Calls, Present, NEW p \in Procs, Execute(p),
         fetch' = fetch
  PROVE  Calls'
<1>1. \A x \in Procs : x # p => pc'[x] = pc[x] /\ call'[x] = call[x] /\ fetch'[x] = fetch[x]
  BY DEF Execute, CacheTypeOK, TypeOK
<1>2. ASSUME NEW c \in Call, NEW f \in Fetch, call'[p] = c, fetch'[p] = f
      PROVE  CallInv(pc[p], c, f)'
  <2>1. PICK b \in Call : b = call[p]
    BY CallInProgress DEF Execute, CacheTypeOK
  <2>2. CallInv("execute", b, f)
    BY <1>2, <2>1 DEF Calls, Execute
  <2>3. CallInv("execute", b, f)'
    BY <2>2, CallInvStays
  <2>4. CASE call' = [call EXCEPT ![p].outcome = "rows",
                                  ![p].rows = Governed(call[p].who, call[p].query, orders)]
              /\ pc' = [pc EXCEPT ![p] = "audit"]
    <3> DEFINE rows == Governed(b.who, b.query, orders)
    <3>1. c = [b EXCEPT !.outcome = "rows", !.rows = rows]
      BY <1>2, <2>1, <2>4 DEF CacheTypeOK, TypeOK
    <3>2. /\ c.who = b.who /\ c.query = b.query /\ c.metered = b.metered
          /\ c.outcome = "rows" /\ c.rows = rows
      BY <3>1 DEF Call
    <3>3. orders \in SUBSET Orders /\ b.who \in Principals /\ b.query \in Queries
      BY DEF CacheTypeOK, TypeOK, Call
    <3>4. Entitled(c.who, c.query, c.rows)
      BY <2>2, <3>2, <3>3, GovernedEntitled DEF CallInv
    <3>5. HeldSince(f.began, c.who, c.query, c.rows)
      <4>1. now \in 0 .. now /\ f.began <= now
        BY <2>2, TimeAssumption DEF CallInv, CacheTypeOK
      <4> QED
        BY <3>2, <4>1 DEF HeldSince, Present
    <3>6. HeldSince(f.began, c.who, c.query, c.rows)' /\ pc'[p] = "audit"
      BY <2>4, <3>5, BackedStays DEF CacheTypeOK, TypeOK
    <3> QED
      BY <2>3, <3>2, <3>4, <3>6 DEF CallInv, Entitled, Authorized
  <2>5. CASE call' = [call EXCEPT ![p].outcome = "error"] /\ pc' = [pc EXCEPT ![p] = "refuse"]
    <3>1. c = [b EXCEPT !.outcome = "error"]
      BY <1>2, <2>1, <2>5 DEF CacheTypeOK, TypeOK
    <3>2. c.who = b.who /\ c.query = b.query /\ c.metered = b.metered
      BY <3>1 DEF Call
    <3>3. pc'[p] = "refuse"
      BY <2>5 DEF CacheTypeOK, TypeOK
    <3> QED
      BY <2>3, <3>2, <3>3 DEF CallInv, Entitled, Authorized
  <2> QED
    BY <2>4, <2>5 DEF Execute
<1> QED
  BY <1>1, <1>2, OneCallMoves

(* The steps that leave the frame of the call as it is.                     *)
LEMMA OtherStepsKeepCalls ==
  ASSUME CacheTypeOK, CacheTypeOK', Grows, Calls, NEW p \in Procs, fetch' = fetch,
         CheckBudget(p) \/ AuditFailure(p) \/ Audit(p) \/ Charge(p)
  PROVE  Calls'
<1>1. /\ call' = call /\ pc[p] # "idle"
      /\ \A x \in Procs : x # p => pc'[x] = pc[x]
  BY DEF CheckBudget, AuditFailure, Audit, Charge, CacheTypeOK, TypeOK
<1>2. ASSUME NEW c \in Call, NEW f \in Fetch, call'[p] = c, fetch'[p] = f
      PROVE  CallInv(pc[p], c, f)'
  <2>1. PICK at : at = pc[p]
    OBVIOUS
  <2>2. CallInv(at, c, f)
    BY <1>1, <1>2, <2>1 DEF Calls
  <2>3. CallInv(at, c, f)'
    BY <2>2, CallInvStays
  <2>4. CASE CheckBudget(p)
    <3>1. at = "budget" /\ pc'[p] \in {"refuse", "execute"}
      BY <2>1, <2>4 DEF CheckBudget, CacheTypeOK, TypeOK
    <3> QED
      BY <2>3, <3>1 DEF CallInv
  <2>5. CASE AuditFailure(p)
    <3>1. pc'[p] = "failed"
      BY <2>5 DEF AuditFailure, CacheTypeOK, TypeOK
    <3> QED
      BY <2>3, <3>1 DEF CallInv
  <2>6. CASE Audit(p)
    <3>1. at = "audit" /\ pc'[p] \in {"charge", "answered"}
      BY <2>1, <2>6 DEF Audit, CacheTypeOK, TypeOK
    <3>2. c.outcome = "rows"
      BY <2>2, <3>1 DEF CallInv
    <3>3. OnTrail(c.who, c.query)'
      BY <1>1, <1>2, <2>6, <3>2 DEF Audit, Log, OnTrail, LineOf
    <3> QED
      BY <2>3, <3>1, <3>3 DEF CallInv
  <2>7. CASE Charge(p)
    <3>1. at = "charge" /\ pc'[p] = "answered"
      BY <2>1, <2>7 DEF Charge, CacheTypeOK, TypeOK
    <3> QED
      BY <2>3, <3>1 DEF CallInv
  <2> QED
    BY <2>4, <2>5, <2>6, <2>7
<1> QED
  BY <1>1, <1>2, OneCallMoves

LEMMA ReturnKeepsCalls ==
  ASSUME CacheTypeOK, CacheTypeOK', Grows, Calls, NEW p \in Procs, Return(p),
         fetch' = [fetch EXCEPT ![p] = NoFetch]
  PROVE  Calls'
<1>1. \A x \in Procs : x # p => pc'[x] = pc[x] /\ call'[x] = call[x] /\ fetch'[x] = fetch[x]
  BY DEF Return, CacheTypeOK, TypeOK
<1>2. fetch'[p] = NoFetch /\ NoFetch \notin Fetch
  <2>1. fetch'[p] = NoFetch
    BY DEF CacheTypeOK
  <2>2. \A f \in Fetch : DOMAIN f # DOMAIN NoFetch
    BY DEF Fetch, NoFetch
  <2> QED
    BY <2>1, <2>2
<1> QED
  BY <1>1, <1>2, OneCallMoves

LEMMA WaitKeepsCalls ==
  ASSUME CacheTypeOK, CacheTypeOK', Grows, Calls, pc' = pc, call' = call, fetch' = fetch
  PROVE  Calls'
<1> SUFFICES ASSUME NEW x \in Procs, NEW c \in Call, NEW f \in Fetch,
                    call'[x] = c, fetch'[x] = f
             PROVE  CallInv(pc[x], c, f)'
  BY DEF Calls
<1>1. PICK at : at = pc[x]
  OBVIOUS
<1>2. CallInv(at, c, f)'
  BY <1>1, CallInvStays DEF Calls
<1> QED
  BY <1>1, <1>2 DEF CallInv

(* On POST /query the key of an entry tells its caller and query.           *)
LEMMA KeyTells ==
  ASSUME NEW v \in Cached, NEW w \in Cached, NEW p \in Queries, NEW q \in Queries,
         Key(v, p) = Key(w, q)
  PROVE  v = w /\ p = q
<1>1. v.role = w.role /\ p = q
  BY DEF Key
<1>2. v \in Principals /\ w \in Principals /\ v.user = Api /\ w.user = Api
  BY DEF Cached
<1>3. v.region = w.region /\ v.tenant = w.tenant
  BY <1>2, ApiAssumption
<1>4. /\ v = [user |-> v.user, role |-> v.role, region |-> v.region, tenant |-> v.tenant]
      /\ w = [user |-> w.user, role |-> w.role, region |-> w.region, tenant |-> w.tenant]
  BY <1>2, PrincipalsAssumption
<1> QED
  BY <1>1, <1>2, <1>3, <1>4

(* An answer that is handed out is backed when what it was made from is.    *)
LEMMA ServedHanded ==
  ASSUME NEW who, NEW q, NEW rows, NEW label, NEW asked,
         out' = Served(who, q, rows, label, asked),
         Backed(IF label = "stale" THEN 0 ELSE asked - TTL, who, q, rows)'
  PROVE  Handed'
<1> SUFFICES ASSUME NEW a \in Answer, out' = a
             PROVE  Backed(Since(a), a.who, a.query, a.rows)'
  BY DEF Handed
<1>1. a.who = who /\ a.query = q /\ a.rows = rows /\ a.label = label /\ a.asked = asked
  BY DEF Served
<1> QED
  BY <1>1 DEF Since

LEMMA HitKeeps ==
  ASSUME CacheTypeOK, CacheTypeOK', Grows, AnswerInv,
         NEW p \in Procs, NEW q \in Queries, NEW who \in Cached, Hit(p, who, q)
  PROVE  AnswerInv'
<1>1. PICK e \in Entry : entries[Key(who, q)] = e
  BY KeyType DEF Hit, Fresh, CacheTypeOK
<1>2. Backed(e.at, who, q, e.rows)
  BY <1>1 DEF AnswerInv, Entries
<1>3. now \in Nat /\ e.at \in Nat /\ TTL \in Nat /\ now - e.at <= TTL
  BY <1>1, TimeAssumption DEF Hit, Fresh, CacheTypeOK, Entry
<1>4. now - TTL \in Int /\ now - TTL <= e.at /\ e.at \in Int
  BY <1>3
<1>5. Backed(now - TTL, who, q, e.rows)
  BY <1>2, <1>4, BackedBefore
<1>6. PICK n : n = now
  OBVIOUS
<1>7. Backed(n - TTL, who, q, e.rows)'
  BY <1>5, <1>6, BackedStays
<1>8. out' = Served(who, q, e.rows, "hit", n)
  BY <1>1, <1>6 DEF Hit
<1>9. Handed'
  BY <1>7, <1>8, ServedHanded
<1>10. Calls'
  BY WaitKeepsCalls DEF Hit, AnswerInv
<1> QED
  BY <1>9, <1>10, EntriesStay DEF Hit, AnswerInv, Present

LEMMA StoreKeeps ==
  ASSUME CacheTypeOK, CacheTypeOK', Grows, AnswerInv, NEW p \in Procs, Store(p)
  PROVE  AnswerInv'
<1>1. PICK c \in Call, f \in Fetch : call[p] = c /\ fetch[p] = f
  BY CallInProgress DEF Store, CacheTypeOK
<1>2. pc[p] = "answered" /\ ~c.metered
  BY <1>1 DEF Store
<1>3. CallInv("answered", c, f)
  BY <1>1, <1>2 DEF AnswerInv, Calls
<1>4. Backed(f.began, c.who, c.query, c.rows) /\ c.who \in Cached
  BY <1>2, <1>3 DEF CallInv, Backed
<1>5. f.began \in Int /\ f.began - TTL \in Int /\ f.began - TTL <= f.began
  BY TimeAssumption DEF Fetch
<1>6. Backed(f.began - TTL, c.who, c.query, c.rows)
  BY <1>4, <1>5, BackedBefore
<1>7. Handed'
  <2>1. out' = Served(c.who, c.query, c.rows, "fresh", f.began)
    BY <1>1 DEF Store
  <2>2. Backed(f.began - TTL, c.who, c.query, c.rows)'
    BY <1>6, BackedStays
  <2> QED
    BY <2>1, <2>2, ServedHanded
<1>8. Entries'
  <2> SUFFICES ASSUME NEW w \in Cached, NEW q \in Queries, NEW e \in Entry,
                      entries'[Key(w, q)] = e
               PROVE  Backed(e.at, w, q, e.rows)'
    BY DEF Entries, Key
  <2>1. c.query \in Queries
    BY DEF Call
  <2>2. CASE Key(w, q) = Key(c.who, c.query)
    <3>1. w = c.who /\ q = c.query
      BY <1>4, <2>1, <2>2, KeyTells
    <3>2. e.rows = c.rows /\ e.at = f.began
      BY <1>1, <2>2, KeyType DEF Store, CacheTypeOK
    <3> QED
      BY <1>4, <3>1, <3>2, BackedStays
  <2>3. CASE Key(w, q) # Key(c.who, c.query)
    <3>1. entries[Key(w, q)] = e
      BY <1>1, <2>3, KeyType DEF Store, CacheTypeOK
    <3> QED
      BY <3>1, BackedStays DEF AnswerInv, Entries
  <2> QED
    BY <2>2, <2>3
<1>9. Calls' /\ Present'
  BY ReturnKeepsCalls DEF Store, AnswerInv, Present, Return
<1> QED
  BY <1>7, <1>8, <1>9 DEF AnswerInv

LEMMA DegradeKeeps ==
  ASSUME CacheTypeOK, CacheTypeOK', Grows, AnswerInv, NEW p \in Procs, Degrade(p)
  PROVE  AnswerInv'
<1>1. PICK c \in Call, f \in Fetch : call[p] = c /\ fetch[p] = f
  BY CallInProgress DEF Degrade, CacheTypeOK
<1>2. Handed'
  <2>1. CASE f.found = NoEntry
    BY <1>1, <2>1, NothingHanded DEF Degrade
  <2>2. CASE f.found # NoEntry
    <3>1. PICK e \in Entry : f.found = e
      BY <2>2 DEF Fetch
    <3>2. CallInv("failed", c, f)
      BY <1>1 DEF AnswerInv, Calls, Degrade
    <3>3. Backed(e.at, c.who, c.query, e.rows)
      BY <2>2, <3>1, <3>2 DEF CallInv
    <3>4. e.at \in Int /\ 0 \in Int /\ 0 <= e.at
      BY TimeAssumption DEF Entry
    <3>5. Backed(0, c.who, c.query, e.rows)
      BY <3>3, <3>4, BackedBefore
    <3>6. Backed(0, c.who, c.query, e.rows)'
      BY <3>5, BackedStays
    <3>7. out' = Served(c.who, c.query, e.rows, "stale", f.began)
      BY <1>1, <2>2, <3>1 DEF Degrade
    <3> QED
      BY <3>6, <3>7, ServedHanded
  <2> QED
    BY <2>1, <2>2
<1>3. Calls' /\ Entries' /\ Present'
  BY ReturnKeepsCalls, EntriesStay DEF Degrade, AnswerInv, Present, Return
<1> QED
  BY <1>2, <1>3 DEF AnswerInv

LEMMA HandOverKeeps ==
  ASSUME CacheTypeOK, CacheTypeOK', Grows, AnswerInv, NEW p \in Procs, HandOver(p)
  PROVE  AnswerInv'
<1>1. PICK c \in Call, f \in Fetch : call[p] = c /\ fetch[p] = f
  BY CallInProgress DEF HandOver, CacheTypeOK
<1>2. Handed'
  <2>1. CASE pc[p] = "failed"
    BY <2>1, NothingHanded DEF HandOver
  <2>2. CASE pc[p] = "answered"
    <3>1. CallInv("answered", c, f)
      BY <1>1, <2>2 DEF AnswerInv, Calls
    <3>2. Backed(f.began, c.who, c.query, c.rows)
      BY <3>1 DEF CallInv, Backed
    <3>3. f.began \in Int /\ f.began - TTL \in Int /\ f.began - TTL <= f.began
      BY TimeAssumption DEF Fetch
    <3>4. Backed(f.began - TTL, c.who, c.query, c.rows)
      BY <3>2, <3>3, BackedBefore
    <3>5. Backed(f.began - TTL, c.who, c.query, c.rows)'
      BY <3>4, BackedStays
    <3>6. out' = Served(c.who, c.query, c.rows, "fresh", f.began)
      BY <1>1, <2>2 DEF HandOver
    <3> QED
      BY <3>5, <3>6, ServedHanded
  <2> QED
    BY <2>1, <2>2 DEF HandOver, Return
<1>3. Calls' /\ Entries' /\ Present'
  BY ReturnKeepsCalls, EntriesStay DEF HandOver, AnswerInv, Present, Return
<1> QED
  BY <1>2, <1>3 DEF AnswerInv

LEMMA NextKeepsAnswers ==
  ASSUME CacheTypeOK, AnswerInv, ServedNext
  PROVE  AnswerInv'
<1>0. CacheTypeOK' /\ Grows
  BY NextType, NextGrows
<1>1. ASSUME NEW p \in Procs, NEW q \in Queries, NEW who \in Cached, Hit(p, who, q)
      PROVE  AnswerInv'
  BY <1>0, <1>1, HitKeeps
<1>2. ASSUME NEW p \in Procs, NEW q \in Queries, NEW who \in Cached, Miss(p, who, q)
      PROVE  AnswerInv'
  <2>1. PICK e \in Entry \cup {NoEntry} : entries[Key(who, q)] = e
    BY KeyType DEF CacheTypeOK
  <2>2. e # NoEntry => Backed(e.at, who, q, e.rows)
    BY <2>1 DEF AnswerInv, Entries
  <2>3. Calls'
    BY <1>0, <1>2, <2>1, <2>2, BeginKeepsCalls DEF Miss, AnswerInv, Cached
  <2>4. Entries' /\ Handed' /\ Present'
    BY <1>0, <1>2, EntriesStay, NothingHanded DEF Miss, Begin, AnswerInv, Present
  <2> QED
    BY <2>3, <2>4 DEF AnswerInv
<1>3. ASSUME NEW p \in Procs, NEW q \in Queries, NEW who \in Direct, Ask(p, who, q)
      PROVE  AnswerInv'
  <2>1. Calls'
    BY <1>0, <1>3, BeginKeepsCalls DEF Ask, AnswerInv, Direct
  <2>2. Entries' /\ Handed' /\ Present'
    BY <1>0, <1>3, EntriesStay, NothingHanded DEF Ask, Begin, AnswerInv, Present
  <2> QED
    BY <2>1, <2>2 DEF AnswerInv
<1>4. ASSUME NEW p \in Procs, Proceed(p)
      PROVE  AnswerInv'
  <2>1. Calls'
    BY <1>0, <1>4, ExecuteKeepsCalls, OtherStepsKeepCalls DEF Proceed, Step, AnswerInv
  <2>2. orders' = orders
    BY <1>4 DEF Proceed, Step, CheckBudget, Execute, AuditFailure, Audit, Charge
  <2>3. Entries' /\ Handed' /\ Present'
    BY <1>0, <1>4, <2>2, EntriesStay, NothingHanded DEF Proceed, AnswerInv, Present
  <2> QED
    BY <2>1, <2>3 DEF AnswerInv
<1>5. ASSUME NEW p \in Procs, Store(p) \/ Degrade(p) \/ HandOver(p)
      PROVE  AnswerInv'
  BY <1>0, <1>5, StoreKeeps, DegradeKeeps, HandOverKeeps
<1>6. CASE Tick
  <2>1. Calls' /\ Entries' /\ Handed'
    BY <1>0, <1>6, WaitKeepsCalls, EntriesStay, NothingHanded DEF Tick, AnswerInv, govVars
  <2>2. now + 1 \in 0 .. MaxTime /\ orders' = orders
    BY <1>6, TimeAssumption DEF Tick, CacheTypeOK, govVars
  <2>3. Present'
    BY <1>6, <2>2 DEF Tick, Present, CacheTypeOK
  <2> QED
    BY <2>1, <2>3 DEF AnswerInv
<1>7. CASE Outside
  <2>1. pc' = pc /\ call' = call
    BY <1>7 DEF Outside, World, Reset, Write
  <2>2. Calls' /\ Entries' /\ Handed'
    BY <1>0, <1>7, <2>1, WaitKeepsCalls, EntriesStay, NothingHanded DEF Outside, AnswerInv
  <2>3. Present'
    BY <1>7 DEF Outside, Present, CacheTypeOK
  <2> QED
    BY <2>2, <2>3 DEF AnswerInv
<1> QED
  BY <1>1, <1>2, <1>3, <1>4, <1>5, <1>6, <1>7 DEF ServedNext

LEMMA InitAnswers == ServedInit => AnswerInv
<1> SUFFICES ASSUME ServedInit
             PROVE  AnswerInv
  OBVIOUS
<1>1. \A p \in Procs : fetch[p] = NoFetch
  BY DEF ServedInit
<1>2. \A f \in Fetch : DOMAIN f # DOMAIN NoFetch
  BY DEF Fetch, NoFetch
<1>3. \A e \in Entry : DOMAIN e # DOMAIN NoEntry
  BY DEF Entry, NoEntry
<1>4. \A a \in Answer : DOMAIN a # DOMAIN Nothing
  BY DEF Answer, Nothing
<1>5. Calls
  BY <1>1, <1>2 DEF Calls
<1>6. Entries
  BY <1>3, KeyType DEF Entries, ServedInit
<1>7. Handed
  BY <1>4 DEF Handed, ServedInit
<1>8. Present
  BY TimeAssumption DEF Present, ServedInit, Init
<1> QED
  BY <1>5, <1>6, <1>7, <1>8 DEF AnswerInv

LEMMA AnswersHold == ServedSpec => []AnswerInv
<1>1. CacheTypeOK /\ AnswerInv /\ UNCHANGED vars => AnswerInv'
  <2> SUFFICES ASSUME CacheTypeOK, AnswerInv, UNCHANGED vars
               PROVE  AnswerInv'
    OBVIOUS
  <2>1. CacheTypeOK' /\ Grows
    BY DEF CacheTypeOK, TypeOK, Grows, vars, govVars, cacheVars
  <2>2. Calls'
    BY <2>1, WaitKeepsCalls DEF AnswerInv, vars, govVars, cacheVars
  <2>3. Entries'
    BY <2>1, EntriesStay DEF AnswerInv, vars, cacheVars
  <2>4. Handed'
    BY <2>1, BackedStays DEF AnswerInv, Handed, Since, vars, cacheVars
  <2>5. Present'
    BY DEF AnswerInv, Present, vars, govVars, cacheVars
  <2> QED
    BY <2>2, <2>3, <2>4, <2>5 DEF AnswerInv
<1> QED
  BY <1>1, InitAnswers, NextKeepsAnswers, TypeCorrect, PTL DEF ServedSpec

(* Whichever way an answer took, through the cache or not, its caller is    *)
(* entitled to all of it.                                                   *)
THEOREM AnswersAreEntitled == ServedSpec => []OnlyEntitled
<1>1. CacheTypeOK /\ AnswerInv => OnlyEntitled
  BY DEF CacheTypeOK, AnswerInv, Handed, Backed, OnlyEntitled
<1> QED
  BY <1>1, AnswersHold, TypeCorrect, PTL

(* No answer is older than its label says, however fetches of one key       *)
(* overlap.                                                                 *)
THEOREM AnswersAreFresh == ServedSpec => []AsFreshAsLabelled
<1>1. CacheTypeOK /\ AnswerInv => AsFreshAsLabelled
  BY DEF CacheTypeOK, AnswerInv, Handed, Backed, Since, AsFreshAsLabelled
<1> QED
  BY <1>1, AnswersHold, TypeCorrect, PTL

(* Every answer handed out is on the trail, unless an insert into it failed.*)
THEOREM AnswersAreLogged == ServedSpec => []TrailCoversAnswers
<1>1. CacheTypeOK /\ AnswerInv => TrailCoversAnswers
  BY DEF CacheTypeOK, AnswerInv, Handed, Backed, OnTrail, LineOf, TrailCoversAnswers
<1> QED
  BY <1>1, AnswersHold, TypeCorrect, PTL

=============================================================================
