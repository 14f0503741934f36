------------------------------- MODULE Branch -------------------------------
(***************************************************************************)
(* The pre-ingestion gate, src/branch/branch.go: a branch is a schema       *)
(* br_<name> that holds copies of some of production's tables; a batch is   *)
(* loaded into it, it is compared with production, and Promote replaces     *)
(* the data of production's tables by the branch's in one transaction.      *)
(*                                                                         *)
(* Every statement is a step.  Outside Promote each one commits by itself;  *)
(* Promote's are one transaction at PostgreSQL's default isolation: a       *)
(* statement sees what was committed when it began, and waits for the rows  *)
(* other transactions hold.  A row is its key.  A key of a child table      *)
(* refers to the row of the same key in its parent table.                   *)
(***************************************************************************)
EXTENDS Integers, FiniteSets

CONSTANTS
    Tables,      \* the tables of public, numbered in the order of their names
    Keys,        \* the rows' keys
    Names,       \* names of branches
    Callers,     \* requests in progress on /v1/branch
    References,  \* production's foreign keys: pairs <<child, parent>>
    Batch,       \* what may be loaded into a branch: pairs <<table, key>>
    Start,       \* what production holds at first
    MaxCalls,    \* bound: requests begun
    MaxFaults    \* bound: statements that fail, processes that die

ASSUME BranchAssumption ==
    /\ Tables \subseteq Nat /\ IsFiniteSet(Tables)
    /\ Keys \subseteq Nat \ {0} /\ IsFiniteSet(Keys)
    /\ Names # {}
    /\ References \subseteq Tables \X Tables
    /\ Batch \subseteq Tables \X Keys
    /\ Start \in [Tables -> SUBSET Keys]
    /\ MaxCalls \in Nat /\ MaxFaults \in Nat

VARIABLES
    production,  \* the committed rows of every table of public
    branch,      \* the branch schemas there are, with their tables and rows
    call,        \* what every caller is doing
    calls, faults,
    late,        \* history: the rows that came to production since it was copied
    swept        \* history: the rows that promotions took from production

branchVars == <<production, branch, call, calls, faults, late, swept>>

Empty == [t \in Tables |-> {}]

\* A call: the step it is at, its branch, the tables of its list and those it
\* has yet to do; and in a promotion the rows its DELETE looked at, and what its
\* transaction has deleted and inserted so far.
Idle == [step |-> "idle", name |-> CHOOSE n \in Names : TRUE, tables |-> {},
         todo |-> {}, seen |-> {}, clr |-> Empty, ins |-> Empty]

BranchInit ==
    /\ production = Start
    /\ branch = [n \in {} |-> Empty]
    /\ call = [c \in Callers |-> Idle]
    /\ calls = 0 /\ faults = 0
    /\ late = [n \in Names |-> Empty]
    /\ swept = Empty

Free(c) == call[c].step \in {"idle", "refused"}

\* Promote takes the tables in the order of their names.
IsNext(c, t) == t \in call[c].todo /\ \A u \in call[c].todo : t <= u

Parents(t) == {p \in Tables : <<t, p>> \in References}
Children(t) == {u \in Tables : <<u, t>> \in References}

Return(c) == call' = [call EXCEPT ![c] = Idle]
Refuse(c) == call' = [call EXCEPT ![c] = [Idle EXCEPT !.step = "refused"]]

-----------------------------------------------------------------------------
(* Create: one statement after the other, each committed by itself.         *)

\* DROP SCHEMA waits for the promotions that have read a table of the branch.
Unread(n) ==
    \A c \in Callers : call[c].name = n => call[c].step \notin {"delete", "clear", "insert", "commit"}
                                           \/ call[c].todo = call[c].tables

Without(n) == [m \in DOMAIN branch \ {n} |-> branch[m]]

\* The function f with one more argument.
With(f, x, v) == [y \in DOMAIN f \union {x} |-> IF y = x THEN v ELSE f[y]]

\* Mutant: CREATE TABLE IF NOT EXISTS, over a schema that was not dropped.
CreateKeeping(c, n, picked) ==
    /\ Free(c) /\ calls < MaxCalls /\ picked # {}
    /\ call' = [call EXCEPT ![c] = [Idle EXCEPT !.name = n, !.tables = picked, !.todo = picked,
                                    !.step = IF n \in DOMAIN branch THEN "copy" ELSE "schema"]]
    /\ calls' = calls + 1
    /\ late' = [late EXCEPT ![n] = Empty]
    /\ UNCHANGED <<production, branch, faults, swept>>

\* Create drops the previous branch of that name.
Create(c, n, picked) ==
    /\ Free(c) /\ calls < MaxCalls /\ picked # {}
    /\ Unread(n)
    /\ branch' = Without(n)
    /\ call' = [call EXCEPT ![c] = [Idle EXCEPT !.step = "schema", !.name = n,
                                                !.tables = picked, !.todo = picked]]
    /\ calls' = calls + 1
    /\ UNCHANGED <<production, faults, late, swept>>

\* CREATE SCHEMA fails when another call made it meanwhile.
CreateSchema(c) ==
    LET n == call[c].name IN
    /\ call[c].step = "schema"
    /\ IF n \in DOMAIN branch
       THEN Return(c) /\ UNCHANGED branch
       ELSE /\ branch' = With(branch, n, [t \in {} |-> {}])
            /\ call' = [call EXCEPT ![c].step = "copy"]
    /\ UNCHANGED <<production, calls, faults, late, swept>>

\* CREATE TABLE ... AS TABLE public.t, for the tables in the order the request
\* names them; what is in production now is no latecomer.
CopyTable(c, t) ==
    LET n == call[c].name IN
    /\ call[c].step = "copy" /\ t \in call[c].todo
    /\ n \in DOMAIN branch /\ t \notin DOMAIN branch[n]
    /\ branch' = [branch EXCEPT ![n] = With(branch[n], t, production[t])]
    /\ late' = [late EXCEPT ![n][t] = {}]
    /\ call' = [call EXCEPT ![c] = IF call[c].todo = {t} THEN Idle
                                   ELSE [call[c] EXCEPT !.todo = @ \ {t}]]
    /\ UNCHANGED <<production, calls, faults, swept>>

\* The schema was dropped meanwhile, or holds the table already.
CopyFails(c, t) ==
    LET n == call[c].name IN
    /\ call[c].step = "copy" /\ t \in call[c].todo
    /\ n \in DOMAIN branch => t \in DOMAIN branch[n]
    /\ Return(c)
    /\ UNCHANGED <<production, branch, calls, faults, late, swept>>

\* The batch is loaded into the branch by its owner, with a client of his own.
Load(n, t, k) ==
    /\ n \in DOMAIN branch /\ t \in DOMAIN branch[n] /\ k \notin branch[n][t]
    /\ branch' = [branch EXCEPT ![n][t] = @ \union {k}]
    /\ UNCHANGED <<production, call, calls, faults, late, swept>>

\* DROP SCHEMA IF EXISTS, whether there is one or not.
Discard(c, n) ==
    /\ Free(c) /\ calls < MaxCalls
    /\ n \in DOMAIN branch /\ Unread(n)
    /\ branch' = Without(n)
    /\ calls' = calls + 1
    /\ UNCHANGED <<production, call, faults, late, swept>>

-----------------------------------------------------------------------------
(* Promote: the list of the branch's tables, then one transaction.          *)

\* The list is read before the transaction begins.
StartPromote(c, n) ==
    /\ Free(c) /\ calls < MaxCalls
    /\ n \in DOMAIN branch /\ DOMAIN branch[n] # {}
    /\ call' = [call EXCEPT ![c] = [Idle EXCEPT !.step = "delete", !.name = n,
                                    !.tables = DOMAIN branch[n], !.todo = DOMAIN branch[n]]]
    /\ calls' = calls + 1
    /\ UNCHANGED <<production, branch, faults, late, swept>>

\* DELETE FROM public.t begins: it will delete the rows it sees now.
Look(c, t) ==
    /\ call[c].step = "delete" /\ IsNext(c, t)
    /\ call' = [call EXCEPT ![c].step = "clear", ![c].seen = production[t]]
    /\ UNCHANGED <<production, branch, calls, faults, late, swept>>

\* What a transaction sees of a table: the committed rows and its own changes.
Sees(c, t) == (production[t] \ call[c].clr[t]) \union call[c].ins[t]

\* A transaction holds the rows it deleted or inserted, and the parents of those
\* it inserted, until it ends.
Holds(c, t) ==
    call[c].clr[t] \union call[c].ins[t] \union UNION {call[c].ins[u] : u \in Children(t)}

HeldByOthers(c, t) == UNION {Holds(d, t) : d \in Callers \ {c}}

\* Mutant: wh.Exec in place of tx.ExecContext.
ClearAtOnce(c, t) ==
    /\ call[c].step = "clear" /\ IsNext(c, t)
    /\ production' = [production EXCEPT ![t] = @ \ call[c].seen]
    /\ call' = [call EXCEPT ![c].step = "insert", ![c].seen = {}, ![c].clr[t] = call[c].seen]
    /\ UNCHANGED <<branch, calls, faults, late, swept>>

\* The rows are deleted, unless one is still referred to: the statement then
\* fails, and Promote with it.
Clear(c, t) ==
    /\ call[c].step = "clear" /\ IsNext(c, t)
    /\ call[c].seen \intersect HeldByOthers(c, t) = {}
    /\ IF \E u \in Children(t) : call[c].seen \intersect Sees(c, u) # {}
       THEN Refuse(c)
       ELSE call' = [call EXCEPT ![c].step = "insert", ![c].seen = {},
                                 ![c].clr[t] = call[c].seen]
    /\ UNCHANGED <<production, branch, calls, faults, late, swept>>

\* INSERT ... SELECT from the branch's table as it is now; it fails on a key that
\* is taken, on a parent that is missing, and when the table is gone.
Fill(c, t) ==
    LET n == call[c].name
        there == n \in DOMAIN branch /\ t \in DOMAIN branch[n]
        rows == branch[n][t]
    IN
    /\ call[c].step = "insert" /\ IsNext(c, t)
    /\ there => /\ rows \intersect UNION {call[d].clr[t] \union call[d].ins[t] : d \in Callers \ {c}} = {}
                /\ \A p \in Parents(t), d \in Callers \ {c} : rows \intersect call[d].clr[p] = {}
    /\ IF there /\ rows \intersect Sees(c, t) = {} /\ \A p \in Parents(t) : rows \subseteq Sees(c, p)
       THEN call' = [call EXCEPT ![c].ins[t] = rows, ![c].todo = @ \ {t},
                                 ![c].step = IF call[c].todo = {t} THEN "commit" ELSE "delete"]
       ELSE Refuse(c)
    /\ UNCHANGED <<production, branch, calls, faults, late, swept>>

\* What production holds once c's transaction commits.
Promoted(c) == [t \in Tables |-> Sees(c, t)]

\* Rows that come to production are latecomers of every branch.
Later(to) == [n \in Names |-> [t \in Tables |-> late[n][t] \union (to[t] \ production[t])]]

\* The rows of the table d is at that c's transaction has deleted.
Gone(c, d) == UNION {call[c].clr[t] : t \in {u \in Tables : IsNext(d, u)}}

\* The commit.  A DELETE that waited for it finds the old rows gone, and does not
\* see the new ones.
Commit(c) ==
    /\ call[c].step = "commit"
    /\ production' = Promoted(c)
    /\ late' = Later(Promoted(c))
    /\ swept' = [t \in Tables |-> swept[t] \union (production[t] \ Promoted(c)[t])]
    /\ call' = [d \in Callers |->
                  IF d = c THEN Idle
                  ELSE IF call[d].step = "clear"
                       THEN [call[d] EXCEPT !.seen = @ \ Gone(c, d)]
                       ELSE call[d]]
    /\ UNCHANGED <<branch, calls, faults>>

\* A statement fails, times out, or is the victim of a deadlock, or the process
\* dies: a transaction is rolled back, what Create did so far stays.
Abort(c) ==
    /\ ~Free(c) /\ faults < MaxFaults
    /\ Return(c)
    /\ faults' = faults + 1
    /\ UNCHANGED <<production, branch, calls, late, swept>>

BranchNext ==
    \/ \E c \in Callers, n \in Names :
         \/ \E picked \in SUBSET Tables : Create(c, n, picked)
         \/ StartPromote(c, n) \/ Discard(c, n)
    \/ \E c \in Callers :
         \/ CreateSchema(c)
         \/ \E t \in Tables :
              CopyTable(c, t) \/ CopyFails(c, t) \/ Look(c, t) \/ Clear(c, t) \/ Fill(c, t)
         \/ Commit(c) \/ Abort(c)
    \/ \E n \in Names, b \in Batch : Load(n, b[1], b[2])

-----------------------------------------------------------------------------
Contents == [Tables -> SUBSET Keys]

Steps == {"idle", "refused", "schema", "copy", "delete", "clear", "insert", "commit"}

Calls == [step : Steps, name : Names, tables : SUBSET Tables, todo : SUBSET Tables,
          seen : SUBSET Keys, clr : Contents, ins : Contents]

\* A call has tables left to do until it ends or commits.
CallOK(w) ==
    /\ w \in Calls
    /\ w.todo \subseteq w.tables
    /\ (w.todo = {}) <=> (w.step \in {"idle", "refused", "commit"})

\* What is in a set of schemas.
SchemasOK(b) ==
    /\ DOMAIN b \subseteq Names
    /\ \A n \in DOMAIN b : /\ DOMAIN b[n] \subseteq Tables
                           /\ \A t \in DOMAIN b[n] : b[n][t] \subseteq Keys

BranchTypeOK ==
    /\ production \in Contents /\ swept \in Contents
    /\ SchemasOK(branch)
    /\ late \in [Names -> Contents]
    /\ call \in [Callers -> Calls]
    /\ \A c \in Callers : CallOK(call[c])
    /\ calls \in 0 .. MaxCalls /\ faults \in 0 .. MaxFaults

\* Promote's comment (branch.go:306-312): a failure partway leaves no table
\* replaced and another one emptied.  Rows leave production in one step only,
\* the commit of a promotion, and in that step every table of its list holds what
\* the branch held and nothing of what the promotion found there; before it, no
\* statement and no failure of a promotion shows in production.
PromotedAtOnce ==
    [][(\E t \in Tables : ~(production[t] \subseteq production'[t]))
       => \E c \in Callers :
            /\ call[c].step = "commit" /\ call'[c].step = "idle"
            /\ \A t \in call[c].tables :
                 /\ call[c].ins[t] \subseteq production'[t]
                 /\ call[c].clr[t] \intersect production'[t] \subseteq call[c].ins[t]]_branchVars

\* What a promotion takes from production came there after the branch's copy of
\* that table was made: Create replaces an older branch (branch.go:62-63, 93), so
\* that promoting never brings back a state from before the last Create.
SweptCameLater ==
    [][\A c \in Callers :
         call[c].step = "commit" /\ call'[c].step = "idle" /\ faults' = faults
         => \A t \in call[c].tables :
              production[t] \ production'[t] \subseteq late[call[c].name][t]]_branchVars

\* "Promote replaces production's data with the branch's" (branch.go:306): where
\* nothing else is going on and no statement fails of itself, a promotion is not
\* turned away.
PromotionGoesThrough == \A c \in Callers : call[c].step # "refused"
=============================================================================
