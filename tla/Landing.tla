------------------------------- MODULE Landing -------------------------------
(***************************************************************************)
(* `di sync`, src/cmd/di/main.go:1567-1690, beside the branches of module   *)
(* Branch: new rows of a live source table are polled past a watermark,     *)
(* landed in a staging table of production's warehouse, upserted from there *)
(* into the governed table, and the watermark is saved last.  Every one of  *)
(* these is a statement of its own, and any error ends the process; the     *)
(* next run starts from what was saved.  One sync of a source runs at once. *)
(***************************************************************************)
EXTENDS Branch

CONSTANTS
    Target,      \* the governed table, -dest-table
    Incomplete,  \* the keys of source rows that lack a -required column
    PageSize,    \* rows of a poll (LIMIT 1000)
    ChunkSize,   \* rows of an INSERT (60000 parameters)
    MaxSource    \* bound: rows of the source

ASSUME LandingAssumption ==
    /\ Target \in Tables /\ Incomplete \subseteq Keys
    /\ PageSize \in Nat \ {0} /\ ChunkSize \in Nat \ {0}
    /\ MaxSource \in Nat /\ 1 .. MaxSource \subseteq Keys

VARIABLES
    source,    \* the source table holds the keys 1 .. source
    mark,      \* the saved watermark, 0 when there is none
    stage,     \* the staging table
    sync,      \* the sync in progress
    jumped,    \* history: the keys between the watermark and a seed
    rejected   \* history: the rows the transform's foreign-key gate left out

syncVars == <<source, mark, stage, sync, jumped, rejected>>
vars == <<branchVars, syncVars>>

NoSync == [step |-> "idle", cursor |-> 0, rows |-> {}, todo |-> {}]

LandingInit ==
    /\ BranchInit
    /\ source = 0 /\ mark = 0 /\ stage = {} /\ sync = NoSync
    /\ jumped = {} /\ rejected = {}

Highest(S) == CHOOSE k \in S \union {0} : \A j \in S \union {0} : j <= k

\* The `size` lowest keys of S: ORDER BY the cursor LIMIT size.
Lowest(S, size) == {k \in S : Cardinality({j \in S : j < k}) < size}

\* A row is committed at the source.  Rows become visible in the cursor's order.
Grow ==
    /\ source < MaxSource
    /\ source' = source + 1
    /\ UNCHANGED <<branchVars, mark, stage, sync, jumped, rejected>>

\* A run resumes from the saved watermark.
Resume ==
    /\ sync.step = "idle" /\ mark # 0
    /\ sync' = [NoSync EXCEPT !.step = "poll", !.cursor = mark]
    /\ UNCHANGED <<branchVars, source, mark, stage, jumped, rejected>>

\* There is none, or reading it failed: it starts from the governed table's
\* highest key, or from 0 when reading that fails too.
Seed(from, failures) ==
    /\ sync.step = "idle"
    /\ \/ from = Highest(production[Target]) /\ failures = (IF mark = 0 THEN 0 ELSE 1)
       \/ from = 0 /\ failures = (IF mark = 0 THEN 1 ELSE 2)
    /\ faults + failures <= MaxFaults
    /\ sync' = [NoSync EXCEPT !.step = "poll", !.cursor = from]
    /\ jumped' = jumped \union (mark + 1) .. from
    /\ faults' = faults + failures
    /\ UNCHANGED <<production, branch, call, calls, late, swept, source, mark, stage, rejected>>

\* A page of the rows past the cursor, in its order; an empty one ends the
\* reading, and the sync too when it read nothing.
Poll ==
    LET last == IF sync.cursor + PageSize < source THEN sync.cursor + PageSize ELSE source IN
    /\ sync.step = "poll"
    /\ sync' = IF last > sync.cursor
               THEN [sync EXCEPT !.rows = @ \union (sync.cursor + 1) .. last, !.cursor = last]
               ELSE IF sync.rows = {} THEN NoSync
               ELSE [sync EXCEPT !.step = "drop"]
    /\ UNCHANGED <<branchVars, source, mark, stage, jumped, rejected>>

\* DROP TABLE IF EXISTS; ingest.Run skips the rows that lack a required column.
DropStage ==
    /\ sync.step = "drop"
    /\ stage' = {}
    /\ sync' = [sync EXCEPT !.step = "land", !.todo = sync.rows \ Incomplete]
    /\ UNCHANGED <<branchVars, source, mark, jumped, rejected>>

\* One INSERT of ingest.Run.
Land ==
    LET chunk == Lowest(sync.todo, ChunkSize) IN
    /\ sync.step = "land"
    /\ stage' = stage \union chunk
    /\ sync' = [sync EXCEPT !.todo = @ \ chunk,
                            !.step = IF sync.todo = chunk THEN "transform" ELSE "land"]
    /\ UNCHANGED <<branchVars, source, mark, jumped, rejected>>

\* The -after SQL (transform_cdc.sql): the staged rows whose parents exist go to
\* the governed table, ON CONFLICT DO NOTHING.  It waits for promotions that
\* hold a row it writes or refers to.
Transform ==
    LET gated == {k \in stage : \A p \in Parents(Target) : k \in production[p]}
        after == [production EXCEPT ![Target] = @ \union gated]
    IN
    /\ sync.step = "transform"
    /\ \A c \in Callers :
         /\ gated \intersect (call[c].clr[Target] \union call[c].ins[Target]) = {}
         /\ \A p \in Parents(Target) : gated \intersect call[c].clr[p] = {}
    /\ production' = after
    /\ late' = Later(after)
    /\ rejected' = rejected \union (stage \ gated)
    /\ sync' = [sync EXCEPT !.step = "save"]
    /\ UNCHANGED <<branch, call, calls, faults, swept, source, mark, stage, jumped>>

\* Mutant: the watermark is taken from the source after the rows were read.
SaveMarkOfSource ==
    /\ sync.step = "save"
    /\ mark' = source
    /\ sync' = NoSync
    /\ UNCHANGED <<branchVars, source, stage, jumped, rejected>>

\* The watermark is saved: the highest key that was read.
SaveMark ==
    /\ sync.step = "save"
    /\ mark' = sync.cursor
    /\ sync' = NoSync
    /\ UNCHANGED <<branchVars, source, stage, jumped, rejected>>

\* Any error is fatal, and the process may die anywhere.
SyncDies ==
    /\ sync.step # "idle" /\ faults < MaxFaults
    /\ sync' = NoSync
    /\ faults' = faults + 1
    /\ UNCHANGED <<production, branch, call, calls, late, swept, source, mark, stage, jumped, rejected>>

SyncNext ==
    \/ Grow \/ Resume \/ Poll \/ DropStage \/ Land \/ Transform \/ SaveMark \/ SyncDies
    \/ \E from \in Keys \union {0}, failures \in 0 .. 2 : Seed(from, failures)

LandingNext ==
    \/ BranchNext /\ UNCHANGED syncVars
    \/ SyncNext

LandingSpec == LandingInit /\ [][LandingNext]_vars

-----------------------------------------------------------------------------
Syncs == [step : {"idle", "poll", "drop", "land", "transform", "save"},
          cursor : Nat, rows : SUBSET (1 .. MaxSource), todo : SUBSET (1 .. MaxSource)]

LandingTypeOK ==
    /\ BranchTypeOK
    /\ source \in 0 .. MaxSource /\ mark \in 0 .. source
    /\ stage \subseteq 1 .. source /\ jumped \subseteq Nat /\ rejected \subseteq 1 .. source
    /\ sync \in Syncs
    /\ sync.rows \subseteq 1 .. source /\ sync.todo \subseteq sync.rows
    /\ (sync.rows # {} => sync.cursor <= source)
    /\ (sync.step \in {"drop", "land", "transform", "save"} => sync.rows # {})

\* "incrementally lands new rows from a LIVE source table" (cmd/di/main.go:1567):
\* a source row at or below the saved watermark will not be read again, so it must
\* be in the governed table by now, wherever a sync died and whatever was promoted
\* meanwhile; or the rules of the recipe left it out (a required column, a parent
\* that was not there yet), a promotion took it away, or a seed jumped over it.
NothingMissed ==
    \A k \in 1 .. mark :
        \/ k \in production[Target] \/ k \in swept[Target]
        \/ k \in Incomplete \union rejected \union jumped

\* The watermark never goes back (cmd/di/main.go:1660-1662), although a run whose
\* read of it failed starts from the governed table's highest key, which a
\* promotion may have lowered.
MarkOnlyAdvances == [][mark' >= mark]_vars
=============================================================================
