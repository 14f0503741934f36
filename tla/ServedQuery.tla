------------------------------ MODULE ServedQuery ------------------------------
(***************************************************************************)
(* The two ways to a governed answer.  POST /v1/query and the other        *)
(* surfaces run every query (Governance).  POST /query, the control        *)
(* plane's, goes through a result cache (package cache): a caller there is *)
(* a role, without attributes or budget, and an entry serves all of its    *)
(* callers for a time to live.                                             *)
(*                                                                         *)
(* A lookup and a store are each under the mutex; the query between them   *)
(* is not.  Two fetches of one key can overlap, and an entry is stamped    *)
(* with the time its fetch began.  When a fetch fails, the entry that the  *)
(* lookup found, however old, is served with a label.  The counters of     *)
(* GET /cache and Invalidate, which nothing calls, are left out.           *)
(***************************************************************************)
EXTENDS Governance, Integers

CONSTANTS
  Api,      \* the user name of every caller of POST /query
  TTL,      \* how long an entry is fresh
  MaxTime   \* bound: the clock

ASSUME TimeAssumption == TTL \in Nat /\ MaxTime \in Nat
ASSUME ApiAssumption ==
  \A w \in Principals : w.user = Api => w.region = None /\ w.tenant = None

VARIABLES
  now,      \* the clock
  entries,  \* the cache
  fetch,    \* per call: when it began, and the entry its lookup found
  out,      \* what the latest step handed to a caller
  past      \* history: the facts that held at some time of each tick

cacheVars == <<now, entries, fetch, out, past>>
vars == <<govVars, cacheVars>>

(* POST /query takes the role of its body; /v1 takes a verified principal.  *)
Cached == {w \in Principals : w.user = Api}
Direct == Principals \ Cached

(* Mutant: the key is the query alone.                                      *)
KeyOfQuery(who, q) == [role |-> Api, attrs |-> <<None, None>>, query |-> q]

(* The caller and the shape of the query (the cost is the query's).         *)
Key(who, q) == [role |-> who.role, attrs |-> <<who.region, who.tenant>>, query |-> q]
Keys == {Key(w, q) : w \in Cached, q \in Queries}

Entry == [rows : SUBSET Row, at : 0 .. MaxTime]
NoEntry == [at |-> None]

Fetch == [began : 0 .. MaxTime, found : Entry \cup {NoEntry}]
NoFetch == [began |-> None]

Answer == [who   : Principals,
           query : Queries,
           rows  : SUBSET Row,
           label : {"hit", "fresh", "stale"},
           asked : 0 .. MaxTime]
Nothing == [who |-> None]

CacheTypeOK ==
  /\ TypeOK
  /\ now \in 0 .. MaxTime
  /\ entries \in [Keys -> Entry \cup {NoEntry}]
  /\ fetch \in [Procs -> Fetch \cup {NoFetch}]
  /\ \A p \in Procs : fetch[p] = NoFetch <=> pc[p] = "idle"
  /\ out \in Answer \cup {Nothing}
  /\ past \in [0 .. MaxTime -> SUBSET SUBSET Orders]

ServedInit ==
  /\ Init
  /\ now = 0
  /\ entries = [k \in Keys |-> NoEntry]
  /\ fetch = [p \in Procs |-> NoFetch]
  /\ out = Nothing
  /\ past = [t \in 0 .. MaxTime |-> IF t = 0 THEN {Orders0} ELSE {}]

-----------------------------------------------------------------------------
Fresh(e) == e # NoEntry /\ now - e.at <= TTL

Served(who, q, rows, label, asked) ==
  [who |-> who, query |-> q, rows |-> rows, label |-> label, asked |-> asked]

(* A fresh entry is served at once: nothing is executed, charged or logged. *)
Hit(p, who, q) ==
  LET e == entries[Key(who, q)] IN
  /\ pc[p] = "idle" /\ calls < MaxCalls
  /\ Fresh(e)
  /\ calls' = calls + 1
  /\ out' = Served(who, q, e.rows, "hit", now)
  /\ UNCHANGED <<orders, spent, trail, pc, call, writes, failures, resets, missed,
                 unlogged, now, entries, fetch, past>>

Miss(p, who, q) ==
  LET e == entries[Key(who, q)] IN
  /\ ~Fresh(e)
  /\ Begin(p, who, q, FALSE)
  /\ fetch' = [fetch EXCEPT ![p] = [began |-> now, found |-> e]]
  /\ out' = Nothing
  /\ UNCHANGED <<now, entries, past>>

Ask(p, who, q) ==
  /\ Begin(p, who, q, TRUE)
  /\ fetch' = [fetch EXCEPT ![p] = [began |-> now, found |-> NoEntry]]
  /\ out' = Nothing
  /\ UNCHANGED <<now, entries, past>>

Proceed(p) ==
  /\ Step(p)
  /\ out' = Nothing
  /\ UNCHANGED <<now, entries, fetch, past>>

(* Mutant: the entry is stamped when it is stored.                          *)
StoreStampedLate(p) ==
  LET c == call[p]  f == fetch[p] IN
  /\ pc[p] = "answered" /\ ~c.metered
  /\ entries' = [entries EXCEPT ![Key(c.who, c.query)] = [rows |-> c.rows, at |-> now]]
  /\ out' = Served(c.who, c.query, c.rows, "fresh", f.began)
  /\ fetch' = [fetch EXCEPT ![p] = NoFetch]
  /\ Return(p)
  /\ UNCHANGED <<now, past>>

(* The entry carries the time the lookup read.                              *)
Store(p) ==
  LET c == call[p]  f == fetch[p] IN
  /\ pc[p] = "answered" /\ ~c.metered
  /\ entries' = [entries EXCEPT ![Key(c.who, c.query)] = [rows |-> c.rows, at |-> f.began]]
  /\ out' = Served(c.who, c.query, c.rows, "fresh", f.began)
  /\ fetch' = [fetch EXCEPT ![p] = NoFetch]
  /\ Return(p)
  /\ UNCHANGED <<now, past>>

(* Any error of the fetch: the entry that was found, or the error.          *)
Degrade(p) ==
  LET c == call[p]  f == fetch[p] IN
  /\ pc[p] = "failed" /\ ~c.metered
  /\ out' = IF f.found = NoEntry THEN Nothing
            ELSE Served(c.who, c.query, f.found.rows, "stale", f.began)
  /\ fetch' = [fetch EXCEPT ![p] = NoFetch]
  /\ Return(p)
  /\ UNCHANGED <<now, entries, past>>

(* Without the cache the answer is handed over as it is.                    *)
HandOver(p) ==
  /\ pc[p] # "idle" /\ call[p].metered
  /\ out' = IF pc[p] = "failed" THEN Nothing
            ELSE Served(call[p].who, call[p].query, call[p].rows, "fresh", fetch[p].began)
  /\ fetch' = [fetch EXCEPT ![p] = NoFetch]
  /\ Return(p)
  /\ UNCHANGED <<now, entries, past>>

Tick ==
  /\ now < MaxTime
  /\ now' = now + 1
  /\ past' = [past EXCEPT ![now + 1] = {orders}]
  /\ out' = Nothing
  /\ UNCHANGED <<govVars, entries, fetch>>

Outside ==
  /\ World
  /\ past' = [past EXCEPT ![now] = @ \cup {orders'}]
  /\ out' = Nothing
  /\ UNCHANGED <<now, entries, fetch>>

ServedNext ==
  \/ \E p \in Procs, q \in Queries :
        \/ \E who \in Cached : Hit(p, who, q) \/ Miss(p, who, q)
        \/ \E who \in Direct : Ask(p, who, q)
  \/ \E p \in Procs : Proceed(p) \/ Store(p) \/ Degrade(p) \/ HandOver(p)
  \/ Tick
  \/ Outside

ServedSpec == ServedInit /\ [][ServedNext]_vars

-----------------------------------------------------------------------------
(* Properties.                                                             *)

Entitled(who, q, rows) ==
  /\ \A m \in q.metrics : RolesOf[m] # {} => who.role \in RolesOf[m]
  /\ \A r \in rows :
       /\ who.role \in Scoped => \A o \in r.about : o.region = who.region
       /\ (K > 0 /\ who.role \notin KAnonExempt /\ q.by \cap KAnonDims # {})
            => Cardinality(r.about) >= K
       /\ who.role \notin Unmask =>
            /\ "region" \in Masked => r.region \notin Regions
            /\ "customer" \in Masked => r.customer \notin Customers

(* Whatever way an answer takes, its caller is entitled to all of it: the   *)
(* metrics, the rows of its region, cohorts of at least K where they are    *)
(* protected, and no value of a masked dimension (governance.go:83-182; the *)
(* key of an entry, cache.go:47).                                           *)
OnlyEntitled == out # Nothing => Entitled(out.who, out.query, out.rows)

(* The answer is what its caller would have been given at some time from    *)
(* `since` on.                                                              *)
HeldSince(since, who, q, rows) ==
  \E t \in 0 .. now :
    /\ t >= since
    /\ \E os \in past[t] : rows = Governed(who, q, os)

(* No answer is older than it says: unless it is labelled stale, it is what *)
(* this caller would have been given at some time no further back than a    *)
(* time to live before it asked, even when fetches of one key overlap and   *)
(* the older one is stored last; a stale one was true once                  *)
(* (cache.go:58-83).                                                        *)
AsFreshAsLabelled ==
  out # Nothing =>
    HeldSince(IF out.label = "stale" THEN 0 ELSE out.asked - TTL, out.who, out.query, out.rows)

(* Every answer handed out is on the trail: the one that ran, or for a hit  *)
(* or a stale answer the one that filled the entry (governance.go:153-161;  *)
(* cache.go:64-75).                                                         *)
TrailCoversAnswers ==
  out # Nothing /\ ~unlogged =>
    [who |-> out.who, query |-> out.query, outcome |-> "rows"] \in trail

=============================================================================
