# Verification of dataintelligence

TLA+ models of the governed semantic layer in this repository, the TLC runs that
check them on small instances, and theorems about them that TLAPS proves for
every instance.

## 1. The system

`di` is one Go program: a command line, a REST server and an MCP server over the
same packages. They share three stores.

| store | what is in it | who writes it |
|---|---|---|
| the customer's warehouse (SQL) | the customer's rows; DI's own tables `_audit`, `_spend`, `_traces`, `_flow_runs`, `_proposals`, `_writeback_audit`, `_model_versions`, `_model_ledger` | governance, obs, flow, writeback, rollout, ingest, branch |
| the brain (cortexdb, a local SQLite file by default) | intake plans and their ledger, frozen reports, documents, mirrored ledger lines | intake, reported, corpus, rollout |
| the filesystem | semantic models (YAML), `databases.json`, source and flow manifests | writeback, engine, modelgen, editors |

No lock or transaction spans two of these stores, and most operations on the
warehouse's own tables are "read a document, change it in memory, write it back
whole" with no check that it is still the document that was read. Several
processes (command lines, the servers' goroutines) run at once.

## 2. Inventory

For each part: the state it keeps, what it does, what is hard, and what makes it
correct. Parts marked (M) are modelled here, (P) partly, the others not; section
7 says why not, part by part.

### Parts that keep state

- **writeback** (M) — proposals for changes to the customer's rows.
  *State*: documents in `_proposals` (status, approver, before-image), rows of
  the writable tables, lines of `_writeback_audit`. *Operations*: `Propose`, `Approve`,
  `Reject`, `Rollback`, each a process of its own (`di approve` and so on);
  changes of a semantic model go through the same proposals and end in a
  read-merge-write of a YAML file with a backup beside it. *Hard*: the decision is
  taken on a copy of the document; the mutation, the document and the audit line
  are three commits; the before-image and the mutation are two statements; the model
  file is emptied before it is written. *Correct when*: duties are separated,
  records and audit claim no effect that did not happen, a decision is final, a
  rollback restores, a whole model is always on disk.
- **rollout** (M) — the registry of model versions.
  *State*: documents in `_model_versions` (candidate, canary, active, retired;
  hash; signature), an append-only `_model_ledger`, the model files.
  *Operations*: `Register`, `Canary`, `Sign`, `Promote`, `Rollback`, `Route`;
  ledger lines are mirrored into the brain when one is attached, and `Resync`
  closes what the brain missed. *Hard*: Promote is up to six documents' reads and
  saves; anybody edits a model file at any time; a failed read is taken for "none
  active"; the brain is a second store that may be down, and a decision points at
  others that may not be there. *Correct when*: one version is active, it is
  signed, its signature is for its bytes, the ledger accounts for it, and the
  brain says what the ledger says.
- **intake** (M) — who agreed which columns of a database may be read.
  *State*: plans and their ledger, in the brain. *Operations*: `Propose`,
  `Amend`, `Sign`, `Check`/`Require`; `di model gen` and `di survey` read behind
  the gate. *Hard*: transactions overlap; the customer's catalogue changes
  between the check and the read. *Correct when*: values are read only under a
  plan somebody signed, a signed plan never changes, the ledger replays to the
  plans.
- **flow** (M) — workflows with approvals and compensation.
  *State*: a document per run in `_flow_runs` (status, cursor, journal,
  snapshots) and whatever the steps write. *Operations*: `Start`, `Approve`,
  `Reject`, `Rollback`; steps `sql`, `ingest`, `mutate`, `human`. *Hard*: an
  effect, its journal entry and its save are not one commit; compensation may
  fail half-way; a call may die between any two steps. *Correct when*: no step
  passes an unapproved gate, the journal tells what happened, the status tells
  which effects stand, an undone run restored what it mutated.
- **engine registry** (M; package engine with the `/v1` handlers of package
  runtime and the boot of `di serve`) — which databases a process serves.
  *State*: definitions, order and default, open engines, grounders, the marks of
  what was registered, `databases.json`. *Operations*: register, unregister,
  give a database a model, resolve, raw SQL, boot, stop. *Hard*: handlers run
  concurrently over several mutexes, and some of the state has none; an engine is
  opened and used in different critical sections; saves share one temporary
  file. *Correct when*: raw SQL runs only where the definition permits it,
  callers who name no database all reach the same one, an edit is live when the
  call returns, a restart serves what was served.
- **engine query** (P), **governance** (P), **cache** (P) — a semantic query is checked
  (`authorize`, budget, row filters, k-anonymity), compiled, run under the
  caller's session, masked, audited and charged; the cache keeps answers by role,
  attributes and query. *State*: `_audit`, `_spend`, a map with times. *Hard*: the
  budget is read before the query and charged after it; two fills of one key
  overlap and the older answer may stay; an expired answer is served when the
  fetch fails, for whatever reason. *Correct when*: no answer holds a row, cohort
  or value the caller may not see, none is older than the cache says, each query
  that ran is audited and charged.
- **branch** (M) — data branches. *State*: a schema per branch with copies of the
  tables. *Operations*: `Create`, `Diff`, `Promote`, `Discard`. *Hard*: Create
  copies table by table, in statements of their own; Promote replaces the rows of
  production tables by the branch's in one transaction, whatever was written to
  them since. *Correct when*: production is the branch's or untouched, and a
  promotion takes away only what came since.
- **ingest** (P), **connectors** (P), with `di sync` — mapping a source's columns,
  staging, required fields, change-data capture by polling a cursor column.
  *State*: the staging table, the saved watermark. *Hard*: staging, transform and watermark are
  separate commits; rows land in chunks, each a statement of its own, and
  a chunk may fail; the cursor passes a row that is numbered but not committed
  yet, and splits a page of equal values. *Correct when*: what is landed is the
  batch, and no event is lost.
- **mcp** — the MCP server: tokens, signing keys, a rate limiter. *State*: cached
  keys, one token bucket per caller. *Hard*: a key refresh that races another or
  fails; bursts at a bucket's limit.
- **reported** — frozen reports in the brain, later run again and compared.
- **nodes** — two sources' records of one thing merged field by field by rule,
  with events for conflicts. **platform** — opening the parts in order and closing what was
  opened when one fails. **critic**, **convo** — bounded retry of an answer;
  a session whose next question merges with the last query. **grounding** —
  exemplars kept in a file, retrieval and an LLM call. **runtime** (P) — the HTTP
  handlers over all of these. **corpus** — documents in
  the brain. **obs** — a trace per query.

### Parts without state of their own

`warehouse` (drivers, transactions, read-only statements and scan limits: its
transactions are the steps of the modules above), `config`, `engagement`,
`internal/strictyaml`, `modelgen` (P), `modelgraph`, `survey`, `reconcile`,
`nleval`, `spiderbench`, `handover`, `brief`, `board`, `anchor`, `agenttools`,
`aicli`, `copilot`, `destinations`; and the command line `cmd/di` (P), whose
`serve` and `sync` are modelled with what they drive.
`PROJECT.json` lists each with what is or is not modelled.

### How they interact

`cmd/di` and the servers call everything; calls are synchronous, and what runs
concurrently are processes and HTTP handlers. `survey` and `modelgen` ask
`intake` first. A flow's `mutate` and `ingest` steps write the tables that
writeback and branch write. A rollout signature is what `reported` and `handover`
later look up by hash. Queries and changes leave lines in `_audit`, which
`handover` joins with the model ledger. No event or callback connects two
parts: they meet in the stores.

## 3. Plan

| # | module | composes | status |
|---|---|---|---|
| 1 | `WriteBack`; `ReviewedChange` (abstract) and `WriteBackPromise` (its refinement); `WriteBackProofs` | proposals, the table, the audit trail | done |
| 2 | `Rollout`, `RolloutProofs` | registry, ledger, model files | done |
| 3 | `Intake`, `IntakeProofs` | plans, ledger, catalogue, the readers behind the gate | done |
| 4 | `Flow`, `FlowProofs` | runs, steps, the warehouse's cells | done |
| 5 | `Databases`, `DatabasesProofs` | registry, grounders, store, `/v1` handlers, boot | done |
| 6 | `Governance`, `ServedQuery`, `ServedQueryProofs` | budget, row policy, k-anonymity, masks and trail around a query, with the result cache in front | done |
| 7 | `Branch`, `Landing`, `LandingProofs` | create, load, promote and discard, with `di sync` landing rows in the same tables | done |
| 8 | inside `WriteBack`: the model change | the read-merge-write of a model file and its `.bak` | done |
| 9 | `RolloutMirror`, `RolloutMirrorProofs` | ledger lines mirrored into the brain and `Resync`, over `Rollout` | done |
| 10 | `KeyCache`, `Reported`, `NodeMerge`, `Exemplars` | the MCP server's signing keys and limiter; frozen reports; the merge of records; the exemplar file | later |

*Abstract specifications*: `ReviewedChange` (done); a register of one signed
active version for `Rollout` under serial calls; a saga (every step done or
undone, in order) for `Flow` under calls that finish.

*Theorems*: every safety property a run checks is proved (section 6). To come: the
refinements of the two other abstract specifications, and the modules of row 10.

## 4. The modules and the code

In every module a call is a *program counter* and what the call *holds in
memory*; a step is one statement, one transaction or one region under a mutex, so
that other calls take theirs in between. An operation that reads a document,
changes it and writes it back is therefore at least two actions: `Load...`
copies, `Save`/`Put...` overwrites. Documents, names and texts are model values;
a hash is the content it stands for.

### `WriteBack` (writeback/engine.go, plan.go, proposal.go, model.go)

| code | action or operator |
|---|---|
| `Propose`, and the preview that counts affected rows | `Propose`, `WithinCap` |
| `Approve`: `load`, status and duties, `commitData` (before-image, then mutation with the row cap), `save`, `writeAudit` | `LoadApprove`, `Snapshot`, `Exec`, `Save`, `WriteAudit` |
| `Reject`, `Rollback` with `restoreRow`, `reinsertRow`, or the delete by inserted key | `LoadReject`; `LoadRollback`, `Undo` |
| SQL of a change | `Matching`, `Captured`, `Executed`, `Undone` |
| `commitModel`: merge, read again and back up, open the file, write it | `Merge`, `Backup`, `Truncate`, `WriteModel` |

A row is a key and one value; a predicate is a set of keys and a set of values.
The transaction runs at the database's default isolation, so `Snapshot` and
`Exec` are two steps. `Die` ends a call anywhere; inside the transaction its
effects are lost with it. `applied`, `undone`, `lastId` and `lastPre` are
history: what happened to the table, whatever the documents say.

The model file is how often it holds each proposal's entry and the model that
was there (`Base`); `os.WriteFile` empties it before it writes, so a death or
another call may find it `Broken`. `Rollback` refuses a model change
(engine.go:174): going back is somebody copying a backup.

`ReviewedChange` is what a reader of the write path may count on: a decision per
change, taken once; table and decision move together; taking back the latest
change gives back the table it found; a model change is decided and leaves the
table alone (`CommitModel`). `WriteBackPromise` maps `WriteBack` to it:
the decision is the one in the memory of a handler about to save, else the
stored status; the table, the latest change and the table it found map to
themselves. It holds for one call at a time, where none dies and no update
renames a primary key (models/writeback.yaml lets one: `MCRenames` shows that
a rolled-back rename restores nothing, as engine.go:193 looks for the old key).

### `Rollout` (rollout/rollout.go, sign.go)

| code | action |
|---|---|
| `Register` | `Register` |
| `Canary`: demote every canary, get, put | `StartCanary`, `Demote`, `Demoted`, `GetCanary`, `PutCanary` |
| `Sign`: get, put, `record` | `LoadSign`, `PutSign`, `Record` |
| `Promote`: get and check, read the active, retire it, check the file again, demote canaries, put, `record` | `LoadPromote`, `ReadActive`, `Retire`, `CheckActive`, `Demote`..., `Activate`, `Record` |
| a failed read of the active version (rollout.go:207) | `LoseActive` |
| `Rollback` | `StartRollback` and the steps it shares with Promote |
| `Route`, `bucket` | `Route` |

`rank` is the order of `updated_at`, at the second's resolution: `Ties` says
whether two saves may fall into one second. `Edit` changes a file at any time.

### `RolloutMirror` (rollout/mirror.go), over `Rollout`

| code | action or operator |
|---|---|
| an act of the registry, with the ledger line it appends | `Act` |
| `mirror`: read the ledger back, take the latest line of this act | `ReadBack` |
| `mirrorEntry`, a recursion over what a decision rests on | `Descend`, `RecordDecision`; `Frames`, `Deps` |
| `Resync` | `StartResync`, `ResyncPick`, `ResyncDone` |
| the brain or the ledger cannot be reached; `OnMirrorError` | `GiveUp` |
| the process dies before the line is mirrored | `DieMirroring` |

The recursion of `mirrorEntry` is a stack of frames, each a ledger line with the
lines it points at; `visiting` is the lines on the stack. Identities of decisions
and the order of lines have the resolution of a second (`stamps`); `SameSecond`
says whether two lines may share one. `told`, `orphans` and `synced` are history.
Everything `mirror.go` looks up is looked up in the ledger it read, which is why a
later outage cannot change an edge.

### `Intake` (intake/*.go, cmd/di/intake.go, survey and model gen in cmd/di/main.go)

A transaction is a read step and a commit step. `overtaken` marks the
transactions whose reads another commit has overtaken: on a brain with
`Serial = TRUE` (SQLite, what the program opens) their writes are refused. With
`Serial = FALSE` (READ COMMITTED) `LedgerReplays` fails, as the UPDATEs of
store.go carry no guard of their own. Propose/`Insert`, `Amend`/`CommitAmend`,
`Sign`/`FindPrevious`/`CommitSign` are the acts, `Open`/`Compare`/`Introspect`/
`Draft`/`Write` the gate and what `model gen` and `survey` do behind it. `Alter` changes
the customer's catalogue and `Tamper` a plan's row. An amendment changes one
column or the columns of one table.

A draft is the set of its *mentions*: which column it names, as a key, a dimension
or a metric, and whether masked. `withholdRedacted` (`Kept`) filters the columns of a
schema and not its keys, so that a redacted primary or foreign key stays `Named`:
`HeuristicModel` makes entity keys, key counts and joins of it, and the prompt of
`refineWithLLM` lists it. The language model is external: it answers with anything
that loads (`RefinedModels`; one mention stands for all, as a mask is decided mention
by mention), and names columns as it was given them. `maskPlanned` then masks
dimensions only: a number that the plan masks is drafted as a sum, without a mask, and
intake/intake.go:110-113 lets masked values be aggregated. Left out: the key that is guessed for
a table that declares none (a key is declared here, or a column is not one), and
columns of types that are neither numbers, texts nor times, of which nothing is
drafted.

### `Flow` (flow/engine.go, manifest.go)

A run is the whole document; `call[p].doc` is the copy a call works on. `Do` runs
the statements of a step, `Fail` stops after some of them, `Undo` and `UndoFails`
compensate, `Save`, `Pause`, `Complete` and `End` are where the document is
stored, `TakeSnapshot` is the read that precedes a mutation. All runs are of one
flow, and the flow file does not change. `Overlap = FALSE` lets calls overlap on
different runs only: the code has no guard against two calls on one run. With
them a status may lie, rows are not given back and a journal misses what the other
call did (hazard engine.go:122); that no gate is passed, and that a journal tells
only what happened, is proved with them too.
`log`, `origin`, `mixed` and `broken` are history.

### `Databases` (engine/registry.go, databases.go, store.go, engine.go; runtime/v1.go; serve in cmd/di/main.go)

| code | action |
|---|---|
| boot of `di serve` and `Restore` | `Boot`, `Serve`, `Restored`, `Marks` |
| POST and DELETE of `/v1/databases`, POST and PUT of a database's model | `Register`, `Unregister`, `Generate`, `Edit`, then `WriteModel`, `Add`/`Remove`, `DropGrounder`, `Mark` |
| `persist` and `Store.Save` | `Collect`, `Create`, `Fill`, `Rename` |
| `Registry.Get` and the grounder | `Get`, `Ground` |
| `/v1/sql` | `AskSQL`, `Get`, `Check`, `Exec` |
| opens, probes and writes that fail; the process stops | `Fail`, `Stop` |

`Registry`'s maps and the grounders are each under a mutex, so what happens under
one is one step; the marks, the order, the default and the saved file have none.
An engine is what it was opened from: a definition and the edit counter of its
model file. The DSN is left out: nothing modelled depends on it. `moved` marks a
request that named no database and whose default changed before the check;
`overlapped` and `unsaved` are history for the properties about the saved file.

### `Governance` (governance/governance.go, spend.go) and `ServedQuery` (cache/cache.go, runtime/server.go, v1.go)

| code | action or operator |
|---|---|
| `Query` up to its first access: RBAC, the row policy when there is no budget | `Begin`; `Authorized`, `Scopable` |
| `ledger.Spent` and the comparison with the budget | `CheckBudget` |
| the statement under the caller's row filter, `kAnonSuppress`, `maskColumns` | `Execute`; `Governed` |
| the audit line of an answer, of a refusal or error | `Audit`, `AuditFailure` |
| `ledger.Add` | `Charge` |
| `di spend reset`; the systems the warehouse is fed from | `Reset`, `Write` |
| `Cache.Query`: lookup, fetch, store | `Hit`, `Miss`, `Store` |
| ... and the expired entry when the fetch fails | `Degrade` |
| `/v1/query`, without the cache | `Ask`, `HandOver` |

A row of an answer is the set of orders it counts and what its two dimensions
show, so that "which rows are behind this number" can be said. `POST /query` takes
a role from its body and uses the default policy: its callers have no attributes
and no budget (`Cached`). `/v1/query` has a verified principal (`Direct`). `past`
is the facts that held in each tick of the clock. `Governance` is a module of its
own because the command line and the MCP server call the same function.

### `Branch` (branch/branch.go) and `Landing` (`di sync` in cmd/di/main.go, connectors/postgres_cdc.go, ingest/ingest.go)

| code | action |
|---|---|
| `Create`: drop, create the schema, copy table by table | `Create`, `CreateSchema`, `CopyTable`, `CopyFails` |
| the batch, loaded by the branch's owner | `Load` |
| `Promote`: list the tables; in one transaction, DELETE and INSERT per table, commit | `StartPromote`; `Look`, `Clear`, `Fill`, `Commit` |
| `Discard`; a statement that fails | `Discard`, `Abort` |
| the source table | `Grow` |
| `runSync`: the saved watermark, or a seed when it is missing or cannot be read | `Resume`, `Seed` |
| ... poll pages, drop the stage, land in chunks, transform, save the watermark | `Poll`, `DropStage`, `Land`, `Transform`, `SaveMark` |
| any error is fatal; the process dies | `SyncDies` |

PostgreSQL is external and modelled from how these statements use it: a
statement sees what was committed when it began (`Look`), waits for the rows
other transactions hold (`Holds`), and fails on a key that is taken, a parent
that is missing or a row still referred to. A row is its key; a child's row refers
to the parent's of the same key. `late` (what came to production since the copy)
and `swept` (what promotions took away), `jumped` and `rejected` are history.

## 5. What the runs check

| run | actors and bounds | shows |
|---|---|---|
| `writeback_serial` | one handler, one proposer, no deaths, 3 proposals of 5 possible changes (one of the model), 2 rows, cap 1 | `StatusTellsEffect`; the write path implements `ReviewedChange` (`KeepsPromise`); no applied change stays open to approval (`NoLimbo`, under fairness) |
| `writeback_races` | two handlers, one death, 2 proposals of 3 possible changes (one of the model) | `DutiesSeparated`, `TrailTellsTruth`, `ModelKept`, `NeverPendingAgain` |
| `rollout_mirror` | one process and the operator's `Resync`, 4 ledger lines, one fault (a death, or an outage of the brain), one resync, no canaries or edits; up to exchange of the two versions with their files and bytes | one active version, the ledger accounts for it; the brain is what the ledger says, without dangling edges or gaps nobody was told of, and `Resync` closes them |
| `rollout_races` | two processes, one edit, one death, one failed read, 2 ledger lines; up to exchange of the processes and of the two versions | nothing unsigned goes live, signatures stay with their bytes, the ledger is truthful |
| `intake_races` | two processes, one person, one database of two columns (a number, and a personal text that is a key), one alteration, one tampering, 4 ledger lines | the gate, signatures, what is in force, the ledger, what drafts keep of their plan (`DraftKeepsPlan`), and that a signed plan is never edited |
| `intake_redacted` | one process | finding: `RedactedNotRead` |
| `flow_serial` | two runs, 4 calls, one failing statement, one death or failed save | journal, gates, status, restored rows |
| `flow_rejected` | one run, one failing statement | finding: `RejectedRunsNoMore` |
| `databases_races` | two handlers, 3 calls, one stop or failure, two configs | raw SQL gate, one default, edits live, registry and file agree and the file boots |
| `served_query` | two calls at once and three in all, three callers, two queries, one change of the facts, one failing statement, one reset; K 2, budget 2, time to live 1, clock 2 | answers only what their caller may see, none older than its label, all on the trail, bounded overspending |
| `landing` | two callers and a sync, one branch name, two tables, three keys, 3 calls, 3 source rows (one incomplete), pages and chunks of one row, 2 faults | promotions at once, taking latecomers only; no row missed below the watermark |
| `branch_promote` | one caller, one key, no faults | finding: `PromotionGoesThrough` |

Where a run checks a type invariant, it is one that section 6 proves; the other
properties are about the hazards of section 2.
Every run says `CHECK_DEADLOCK FALSE`: calls, proposals or ledger lines run out
at the bounds, and a program nobody calls rests.

**Why the bounds are enough.** Each property fails, in the run that checks it,
for a change of the code that a bug could be: the mutants in `PROJECT.json` name
them. Beyond that:

- *Two calls at a time* are what a race between a read and a write of one
  document takes; a third would repeat the role of one of them. Where a race
  takes more (section 8, the default of raw SQL), it is named. The theorems of
  section 6 cover any number of calls, versions, plans and runs; where a property
  needs one call at a time, its theorem says so, and so does the run.
- *Exchanging the two versions*, together with their files and bytes, changes
  nothing in `Rollout`: bytes are compared for equality and for the metrics they
  differ in, and neither has an order. `Twins` of `MCRollout` keeps one of the
  two; the processes of `rollout_races` are alike in the same way.
- *Two rows, two values*: a predicate that matches none, one or both rows, an
  insert that collides, a cap that is exceeded and one that is met.
- *Two versions, two contents*: retire one and restore the other, sign one and
  edit it; a third version would let Rollback choose, which `rank` decides.
- *Four ledger lines in the mirror*: sign and promote one version, then the other,
  is the shortest ledger in which a decision rests on one line and supersedes
  another, so that recording it may have to go back two steps.
- *Three callers, three orders*: behind the cache a role that sees everything and
  one scoped to a region it cannot name there, beside it a tenant's user; a cohort
  of one that grows to the K of two by the one change of the facts. Three calls
  make two overlapping fetches of one key and a hit on what they left, with the
  clock long enough for an entry to expire.
- *Two tables, three source rows*: a parent and a child, so that a promotion may
  stop between its tables; a row that lands, one that is incomplete, one after
  both; pages and chunks of one row make every boundary a step.
- *One fault, two in `landing`* (one makes a failed read of the watermark, the
  other a death in the run that follows): each property claims to survive it or
  leaves such runs out by name (`broken`, `faults = 0`, `unsaved`, `unlogged`,
  `missed`). Two deaths add nothing to a property that survives one call dying at
  each of its steps.
- *Five steps of a flow*: one of each kind, a mutation on either side of the gate
  so that both rows and their order of restoring matter, and a step of two
  statements of which the second may fail.
- *Two columns in the intake*: a number and a text that are kept, masked or redacted
  by amendment; the text is personal and a key, comes to the catalogue late and may be
  retyped, so that a draft meets each part of a model, each treatment, a redacted key
  that stays named and a redacted column that does not. A column is drafted without
  regard to the others.
- *Two configs*: with a database of the operator's and without; the change of
  one for the other at a restart.

**Fairness.** Only `writeback_serial` states any: `WF_vars(Continue(h))`, a call
that has begun goes on. It is a goroutine or a process whose only waits are for
the database; one that dies is a fault, which that run excludes. Nobody is
assumed to make another call.

## 6. What is proved

TLAPS checks `WriteBackProofs`, `RolloutProofs`, `RolloutMirrorProofs`,
`IntakeProofs`, `FlowProofs`, `DatabasesProofs`, `ServedQueryProofs` and
`LandingProofs` to the last leaf. They speak of any sets of callers, handlers,
databases, versions, plans, flows, tables, keys, policies and bounds, under the
named assumptions of the modules' constants. Some need more than those, and have it
as a hypothesis, in the third column: each is the setting of the run that checks
the property.

| theorem | the specification implies | for |
|---|---|---|
| `WriteBackProofs!TypeCorrect` | `[](TypeOK /\ LabelsFit)` |  |
| `WriteBackProofs!SeparationOfDuties` | `[]DutiesSeparated` |  |
| `WriteBackProofs!TruthfulTrail` | `[]TrailTellsTruth` |  |
| `WriteBackProofs!DecisionsAreFinal` | `NeverPendingAgain` |  |
| `WriteBackProofs!ModelIsKept` | `[]ModelKept` |  |
| `WriteBackProofs!StatusIsTold` | `[]StatusTellsEffect` | `OneCall`, `MaxFaults = 0` |
| `WriteBackProofs!PromiseIsKept` | `KeepsPromise`: implements `ReviewedChange` | `OneCall`, `MaxFaults = 0`, `NoRenames` |
| `WriteBackProofs!RollbackInverts` | `Undone` gives back what `Executed` replaced, from `Captured` | the change renames no key |
| `RolloutProofs!TypeCorrect` | `[]TypeOK` |  |
| `RolloutProofs!NothingLiveUnsigned` | `[]LiveIsSigned` |  |
| `RolloutProofs!SignaturesStayPut` | `[]SignaturesHold` |  |
| `RolloutProofs!LedgerTellsTruth` | `[]LedgerTruthful` |  |
| `RolloutProofs!OneIsActive` | `[]AtMostOneActive` | `OneAtATime`, `MaxLost = 0` |
| `RolloutProofs!ActiveIsAccountedFor` | `[]ActiveIsLedgered` | `OneAtATime`, `MaxLost = 0` |
| `RolloutMirrorProofs!MirrorTypeCorrect` | `[]MirrorTypeOK` |  |
| `RolloutMirrorProofs!EdgesHaveEnds` | `[]NoDanglingEdges` |  |
| `RolloutMirrorProofs!DecisionsAreDerived` | `[]BrainIsDerived` |  |
| `RolloutMirrorProofs!EveryGapIsKnown` | `[]GapsAreKnown` | `OneAtATime` |
| `IntakeProofs!TypeCorrect` | `[]TypeOK` |  |
| `IntakeProofs!DraftsKeepThePlan` | `[]DraftKeepsPlan` |  |
| `IntakeProofs!SignaturesBind` | `[]SignedAsRead` | `Serial` |
| `IntakeProofs!GateIsKept` | `[]GateHolds` | `Serial` |
| `IntakeProofs!LedgerTellsAll` | `[]LedgerReplays` | `Serial` |
| `IntakeProofs!LastSignedIsInForce` | `[]InForceIsLastSigned` | `Serial` |
| `IntakeProofs!SignedPlansStay` | `SignedNeverEdited` | `Serial` |
| `FlowProofs!TypeCorrect` | `[]TypeOK` |  |
| `FlowProofs!NoGateIsPassed` | `[]GateKeeps` |  |
| `FlowProofs!JournalsAreTrue` | `[]JournaledHappened`, the first half of `JournalTruthful` |  |
| `FlowProofs!JournalTellsTruth` | `[]JournalTruthful` | `~Overlap` |
| `FlowProofs!StatusIsTold` | `[]StatusTellsEffects` | `~Overlap` |
| `FlowProofs!RollbackGivesBack` | `[]RollbackRestores` | `~Overlap`, `MutatedApart` |
| `DatabasesProofs!TypeCorrect` | `[]TypeOK` |  |
| `DatabasesProofs!RawSQLGateHolds` | `[]RawSQLGate` |  |
| `DatabasesProofs!DefaultNeverMovesHolds` | `[]DefaultNeverMoves` |  |
| `DatabasesProofs!EditsAreServed` | `[]EditsAreLive` |  |
| `DatabasesProofs!RegistryIsKept` | `[]RegistryKept` |  |
| `ServedQueryProofs!TypeCorrect` | `[]CacheTypeOK` |  |
| `ServedQueryProofs!BudgetHolds` | `[]OvershootBounded` |  |
| `ServedQueryProofs!AnswersAreEntitled` | `[]OnlyEntitled` |  |
| `ServedQueryProofs!AnswersAreFresh` | `[]AsFreshAsLabelled` |  |
| `ServedQueryProofs!AnswersAreLogged` | `[]TrailCoversAnswers` |  |
| `LandingProofs!TypeCorrect` | `[]LandingTypeOK` |  |
| `LandingProofs!NoRowMissed` | `[]NothingMissed` |  |
| `LandingProofs!WatermarkAdvances` | `MarkOnlyAdvances` |  |
| `LandingProofs!PromotionsAreAtomic` | `PromotedAtOnce` |  |
| `LandingProofs!PromotionsTakeLatecomers` | `SweptCameLater` |  |

*The write path.* `LabelsFit` ties a handler's place to the status of the copy it
holds; with `TypeOK` it is inductive. Neither `DutiesSeparated` nor
`TrailTellsTruth` is inductive as it stands: a handler saves a copy over a record
that another handler may have written since. Both therefore speak of the stored
documents and of the copies held alike (`InForce`), and `IInv` adds `FiledById`,
that a document is stored under its own id, so that what holds of the copy holds
of the record it replaces. One step per action. `ModelKept` needs `BackupFirst`: a
call that opens the model file for writing has left a whole model in a backup, its
own, or that of the call which emptied the file before this one read it. Used:
`ChangesAssumption`, `RowsAssumption`, `MarkersAssumption`.

`StatusIsTold` speaks of one handler that does not die. A status is written after
its effect, so the invariant (`SerialInv`) speaks of the `Record`, the copy about to
be saved or else the stored document: nobody wrote it since the handler read it
(`Current`), and it counts every effect on the rows and in the model (`Counted`).
`ExactInv` adds that the before-image of the latest change is what that change
replaced, from which `RollbackInverts` gets the table back. `PromiseIsKept` then takes
each action to a step of `ReviewedChange` or to a stutter. A step that makes a handler
hold a new decision is the decision: a proposal, `Exec` and the write of the model a
commit, `Undo` the roll back, `LoadReject` the rejection; the saves and audit lines
that follow change nothing there.
`OneCall` is one handler; `NoRenames` leaves out the update that changes a primary
key, which the code cannot take back (section 4).

*The registry.* `IInv` is `TypeOK`, that every stored document is *sound* (what
is live is signed; a signature is for the registered bytes and was given), that
every document a call holds is sound and fits its place, and `LedgerTruthful`.
That calls save stale copies is why soundness must be said of the copies too.
Each step is first shown to have a *shape* (what it saves, where it goes, what it
signs and writes), and one lemma takes the shape to `IInv'`. Used:
`FilesAssumption`, `DiskAssumption`, `NamesAssumption`, `NoneAssumption`.

One active version, and the ledger's account of it, are promises of one process
(section 8 says how two break them) that finds the active version whenever it looks
for it (`MaxLost = 0`: a failed read at rollout.go:207 retires nothing). `Sole` says,
label by label, which versions may still be active: before `Retire` the one the call
read, before `Activate` none. `Told` says that a signature is on the ledger before
anything rests on it, and that what is active is the last activation there unless
that line is about to be written; it is stated until a call dies.

*The mirror.* A step of the mirror is a step of the registry, or leaves all of it
but the count of faults, so `IInv` carries over. `Jobs` says that a job holds lines
which it has read. `EdgesHaveEnds` is inductive by itself: a decision is recorded
after what it points at, and none is removed. For `DecisionsAreDerived`, what a line
derives depends on earlier lines alone, so the ledger may grow under a job;
`DerivedInv` says that every frame on a stack is as derived and stacks descend. It
holds while no two lines share a second (`Distinct`). `EveryGapIsKnown` needs
to know where each walk stands: `CallWalks` that a call's job is about the latest
line, `ResyncWalks` that everything before its next line is in the brain or on its
stack, `Accounted` that a line the brain lacks is later than the last `Resync` that
succeeded and is being recorded, was reported, or its call died. Used, besides the
registry's: `OperatorAssumption`.

*The intake.* A transaction reads, then commits. `ReadsCurrent` says that what a
transaction not yet overtaken has read is still there: on a brain that refuses the
overtaken ones (`Serial`: the SQLite file that the program opens), what is signed is
therefore what was read. `PastTheGate` says that what a call is working by was signed,
and covers the columns it has seen, and `LinesOfPlans` that the ledger speaks of plans
that exist and calls none signed that is a draft. `LedgerTellsAll` then follows plan by
plan: a line is appended in the commit that changes the plan, and one that supersedes
appends to two. `DraftsKeepThePlan` and the types need no isolation: the plan that a
call drafts under is in its memory since the gate, and `maskPlanned` runs after the
language model. Used: `NamesAssumption`, `CatalogueAssumption`, `NoneAssumption`.

*The flows.* The document in a call's memory is ahead of the stored one, and with
two calls on one run either may be saved last. `Typed` says of every document, stored
or held, that what its mutations changed had been read before. `NoGateIsPassed`
(`CursorsApproved`) says of both that the human steps behind the cursor were approved,
which no stale save can undo, since approvals only accumulate in the log: hence for
any overlap. The journals are related to what happened by a map (`Embeds`)
that keeps order and finds each entry of the journal in the log; `Faithful` is that
there is one, for every document held or stored, under any overlap;
`Whole`, that it misses nothing, is of one call on a run at a time. Every step moves
them in one of few ways (`Moves`), and `RanksAgree` takes the map to the ranks by
which `JournalTruthful` is stated. For the status, `EffectsKnown` says which
steps stand while a call is on its way (`Midway`) and what the status says of them at
rest (`Told`), for runs no call died on. For the restored rows, `RestoresKnown` says
how far each cell has been put back; it needs that only `mutate` steps write the
cells that `mutate` steps change, and that none of those is or becomes NULL
(`MutatedApart`). Without the first, an undo list puts its own value over the
restored one; without the second, the snapshot's text `<nil>` is written instead
(section 8). Used: `RunsAssumption`, `StepsAssumption`, `ValuesAssumption`,
`WorldAssumption`, `BoundsAssumption`.

*The databases.* `RawSQLGate` speaks of the past, so `IInv` says what makes the
next query right: an open engine is the one of the definition in force
(`Current`), what a handler resolved is still open and current unless it was
closed under it (`Held`), and past the check its definition permits raw SQL.
Closing, in the same region under the mutex as the change of the definition, is
what keeps `Held`: the mutant `CloseLater` moves it out and breaks the gate.
`Answered` carries `DefaultNeverMoves`: who was answered without naming a
database was answered by the default, and there is none once nobody is served.
The types rest on the order of the databases: it names each once, the default first,
before and after every change, replacement and boot (`OrderOf`). `EditsAreServed` says
that an open engine was opened from the text of its model's last registered edit or a
later one (`Fresh`). `RegistryIsKept` follows a
change that overlaps no other, label by label (`Stage`): what is marked is what is
registered off the config, what is collected is what is served, the temporary file is
whole when it is renamed, so that the saved file agrees with the registry or a save
failed (`unsaved`). Used: `IdsAssumption`, `DefsAssumption`, `FilesAssumption`,
`ConfigAssumption`.

*The served query.* An answer is right because of when its call began and what it
was allowed then, so `AnswerInv` says of each call in progress, entry of the cache
and answer handed out that it is *backed*: its caller is entitled to it, it held
at some time from a given one on, and it is on the trail. Two lemmas carry the
weight: what `Governed` returns is what the caller is entitled to, and callers
who share an entry's key have one policy (role, no attributes, the same query), so
that the answer of one is the answer of the other. For `OvershootBounded`, `Metered`
says that only metered calls read or charge the ledger; what a tenant has spent and
what its calls still owe then grows only at an admission, which found it under the
budget while at most the other calls were in progress. Used: `ProcsAssumption`,
`QueriesAssumption`, `BoundsAssumption`, `NoneAssumption`, `PrincipalsAssumption`,
`OrdersAssumption`, `ApiAssumption`, `TimeAssumption`.

*Branches and syncs.* `SyncKept` follows the rows of a sync: up to its cursor each
is accounted for or among those it read, and those it read are staged, still to
land or incomplete, as its step says; `Covered` (in production, swept, or left out by
name) only grows, because rows leave production in commits of promotions alone. The
saved watermark is the cursor of a sync all of whose rows are covered. `BranchKept`
says that a copy holds what production holds but for the latecomers (`CopiesKeepUp`),
and the same of what a promotion in progress has replaced (`AllKeepUp`); that a
branch's schema cannot be dropped under a promotion that has read it (`Unread`) is
what keeps the second. Used: `BranchAssumption`, `LandingAssumption`.

*Only model-checked*: `NoLimbo`, a liveness property. Liveness, `ENABLED` and
induction over data are out of the prover's reach. The properties that a comment or a
test of the repository states and the code does not keep (section 8) are neither
proved nor checked, but for the three findings.

## 7. What is not modelled, and why

- *Later in the plan*: the MCP server's key cache, whose refresh fetches outside its
  mutex so that of two overlapping ones the older answer may stay until it expires,
  and its rate limiter, whose decision is one critical section on one bucket; frozen
  reports, which unique constraints of their table decide; the merge of records,
  in memory and in one call; the exemplar file, which `Promote` rewrites from a copy
  of the bank; sessions of `convo`, used by one caller each.
- *Other programs*: databases, language models, the semantic compiler, the vector
  index, message brokers and object stores. What the code does with their answers
  is modelled where it changes state.
- *Functions of their input, or displays*: `board`, `brief`, `anchor`,
  `reconcile`, `modelgraph`, `survey`, `handover`, `nleval`, `spiderbench`,
  `engagement`, `config`, `strictyaml`, `agenttools`. They keep nothing between
  calls, and their tests reach what they compute.
- *The browser's side*: `runtime/ui/static` holds minified bundles of other projects
  (Tailwind, Alpine, htmx, GSAP, ai-gui and a shim of Node's Buffer, as published),
  served as they are; nothing in them is this program's.
- *Inside the modelled parts*: the wording of errors and reports; the DSN; the
  `.prev` copy of a model written over `/v1` (there, `WriteModel` of `Databases` is
  one step; in `WriteBack` it is two); other writers of a model file, editors and
  `/v1`, between the merge and the write of an approval; what `planModel` compiles
  when a model change is proposed; the locks of the customer's database outside
  `Branch`; a k-anonymity policy without a count metric (governance.go:212: it is one
  with K = 0) and an answer without its column (governance.go:232-235); changes of the
  flow file under a paused run; `Diff` and `List` of
  branches; duplicate rows in tables without a key, and in branches, whose copies
  have none; two syncs of one source at once, which share the staging table; cursors
  that tie, or that become visible out of order, at the source; `Invalidate` of the
  cache, which nothing calls, and its counters; retries by a caller, which are
  calls.

## 8. Where the code and its words part

Three runs find a violation of a sentence in the repository; `PROJECT.json`
quotes each with its line.

1. `intake_redacted` — `survey` and `model gen` read redacted columns
   (cmd/di/main.go:579-583, 3701-3707).
2. `flow_rejected` — a rejection whose compensation fails leaves the run waiting:
   it can be approved and runs on over undone steps (flow/engine.go:145-147).
3. `branch_promote` — a promotion deletes every row of a table that other tables
   refer to, which production's own foreign keys refuse, so that the promotion of
   an unchanged copy is turned away (branch/branch.go:331).

Others were met while modelling, and no run is spent on them:

- The comment at cmd/di/intake.go:163-166 says that a redacted column never reaches
  the draft, "its name included". A primary or foreign key does: it stays among the
  table's keys, from which the draft's entities, counts and joins are made
  (modelgen/generate.go:48-72), and in the prompt (generate.go:163-174).
  `RedactedNotNamed` of `Intake` states the comment, and TLC refutes it;
  `DraftKeepsPlan` is what the code keeps to.
- The model generated over `/v1` (runtime/v1.go:578-612) and its survey (v1.go:810)
  read a database without asking the gate. `GateHolds` is about `di model gen` and
  `di survey`.
- A request that names no database reads the default outside the mutex
  (registry.go:180). Should its database be removed, another registered and the
  first registered again with a model while it waits, its raw SQL runs where the
  check did not look. It takes four overlapping calls; `moved` leaves it out of
  `RawSQLGate`.
- `Resolve` builds a grounder from an engine it got earlier (databases.go:161): a
  grounder may be of an older model, or under another database's id.
- Registering over an id of the config file marks it as registered
  (databases.go:106): removing it then removes the operator's database until the
  next restart, and a model generated for it is forgotten there.
- Without a config file the default after a restart is the first id by name
  (store.go:57), not the one registered first.
- Overlapping saves write one temporary file (store.go:66), which may be renamed
  torn, and an earlier snapshot may be renamed last: `RegistryKept` speaks of saves
  that do not overlap.
- A new model for the default database closes the engine the console was given at
  boot (registry.go:131): `ConsoleServes` of `Databases` states what main.go:304-307
  assumes.
- Two overlapping promotions, or a promotion and a signature, leave two versions
  active (rollout.go:161-177): `AtMostOneActive`, which the comment at rollout.go:146
  states, holds for one call at a time. `Rollback` restores from the list it read
  before it demoted the canaries (rollout.go:217), and the newest version is the one
  saved last, at one-second resolution, by whatever call (rollout.go:292).
- A promotion's changed metrics are returned so that "exactly those caches" be
  invalidated (rollout.go:146-148); nothing calls `Invalidate`, and an answer of the
  old model is served until it expires.
- Decisions of two acts on the same bytes in one second have one identity, and an
  edge within a second may point forward (mirror.go:166): `BrainIsDerived` is stated
  for acts in different seconds.
- Of two overlapping approvals of model changes the later write drops the earlier
  entry (model.go:28-117), and the backup may lack it too: `ModelKept` keeps the
  model they started from, `StatusTellsEffect` speaks of one call at a time.
- Approve's mutation, its status and its audit line are three commits
  (engine.go:84-94): a call that dies between them leaves an applied change pending
  (`RecordedTogether`), and two overlapping ones a before-image that is not what the
  mutation replaced (`BeforeImageIsExact`).
- `/query` runs under the default policy (runtime/server.go:111), so that the tenant
  budget `di serve` is configured with (cmd/di/main.go:301-302) does not bind there;
  the ledger's upsert is PostgreSQL's (spend.go:49-51), and a failed read admits the
  query, so that on a warehouse that does not take it no budget binds.
- Rows that a promotion takes away do not come back with the next sync, as the
  watermark has passed them (`swept`); a run that cannot read its watermark and seeds
  from a higher key in production skips the rows in between (`jumped`).
- Two overlapping creations of one branch may both report tables of which the branch
  has only some (branch.go:93-106).
- Two calls on one flow run both proceed and the later save wins (flow/engine.go:122).
- Undoing a flow's `ingest` drops the table, and landing it had dropped the one that
  was there: what it held before is gone (manifest.go:133).
- A flow's snapshot renders NULL as the text `<nil>` (manifest.go:176), which a
  rollback then writes; `MCNullPrice` is a warehouse that shows it.
- `AuditedTogether`, `RejectedMeansUntouched` and `RollbackRestores` of
  `WriteBack`, `LedgerShowsLive` and `EveryoneServedSigned` of `Rollout` state
  sentences of comments that overlapping or dying calls violate.
