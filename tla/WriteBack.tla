------------------------------ MODULE WriteBack ------------------------------
(***************************************************************************)
(* The governed write path of package writeback: a typed change is         *)
(* proposed, approved by another principal and applied.  A data change is  *)
(* applied to one writable table and may be rolled back from its           *)
(* before-image; a model change adds an entry to the semantic model's file *)
(* and leaves a backup of the file beside it.                              *)
(*                                                                         *)
(* Every call of Approve, Reject and Rollback runs in a process of its own *)
(* (`di approve`, `di reject`, `di revert`); a handler is such a call.  It *)
(* reads the proposal, runs one transaction on the table or rewrites the   *)
(* model file, and then writes the proposal back in a statement of its     *)
(* own, so that other handlers take steps in between.  The transaction     *)
(* runs at the database's default isolation (BeginTx with nil options), in *)
(* which each statement sees what had been committed when it began: the    *)
(* before-image SELECT and the mutation are two steps.                     *)
(*                                                                         *)
(* A row is a key and the value of its other columns.  A predicate is the  *)
(* set of keys and the set of values it matches.  The model file is how    *)
(* often it holds each proposal's entry, and what it held at the start.    *)
(***************************************************************************)
EXTENDS Naturals, FiniteSets

CONSTANTS
  Principals,   \* callers, each a "user/role"
  Proposers,    \* those whose role may propose
  Approvers,    \* those whose role may approve
  Handlers,     \* calls in progress at a time
  Ids,          \* proposal ids
  Keys, Vals,   \* primary keys and column values of the table
  Changes,      \* the changes that may be proposed
  InitialRows,  \* the table at the start
  MaxAffected,  \* the table's row cap
  MaxFaults,    \* bound: calls that die or lose the database
  Absent,       \* no row under this key
  Keep,         \* a column that SET does not name
  Nobody,       \* no approver yet
  Base,         \* what the model file held at the start
  NoId,
  NoProposal,
  NoModel

Image == [Keys -> Vals \cup {Absent}]

Change == [op     : {"insert", "update", "delete", "model"},
           keys   : SUBSET Keys,
           vals   : SUBSET Vals,
           setKey : Keys \cup {Keep},
           setVal : Vals \cup {Keep}]

(* What Validate asks of a data change: an insert names every required      *)
(* column (the primary key among them), an update sets something, a delete  *)
(* sets nothing.  A model change is an entry of its proposal's own.         *)
Valid(c) ==
  \/ c.op = "insert" /\ c.setKey # Keep /\ c.setVal # Keep
  \/ c.op = "update" /\ (c.setKey # Keep \/ c.setVal # Keep)
  \/ c.op \in {"delete", "model"} /\ c.setKey = Keep /\ c.setVal = Keep

Status == {"pending", "rejected", "committed", "rolled_back"}

Proposal == [id       : Ids,
             status   : Status,
             proposer : Principals,
             approver : Principals \cup {Nobody},
             change   : Changes,
             before   : Image]

Model == [Ids \cup {Base} -> Nat]

(* A file that is cut off, or that two calls wrote into one another: none of *)
(* its entries can be counted on.                                           *)
Broken == [e \in Ids \cup {Base} |-> 0]

Whole(m) == m[Base] = 1

ASSUME RolesAssumption == Proposers \subseteq Principals /\ Approvers \subseteq Principals
ASSUME ChangesAssumption == Changes \subseteq {c \in Change : Valid(c)}
ASSUME RowsAssumption == InitialRows \in Image
ASSUME BoundsAssumption == MaxAffected \in Nat \ {0} /\ MaxFaults \in Nat
ASSUME MarkersAssumption ==
  /\ Absent \notin Vals
  /\ Keep \notin Keys \cup Vals
  /\ Nobody \notin Principals
  /\ NoId \notin Ids
  /\ NoProposal \notin Proposal
  /\ Base \notin Ids
  /\ NoModel \notin Model

VARIABLES
  rows,      \* the writable table
  model,     \* the semantic model's file
  backups,   \* the contents of its .bak files
  stored,    \* the _proposals table
  audit,     \* the lines of _writeback_audit, as <<id, action>>
  pc,        \* where each handler is
  doc,       \* the proposal each handler holds in memory
  merged,    \* the model each handler is about to write
  faults,    \* handlers that died so far
  applied,   \* history: times the mutation of each proposal was committed
  undone,    \* history: times it was reversed
  lastId,    \* history: proposal whose mutation was the last change to rows
  lastPre    \* history: the table just before that change

effects == <<rows, model, backups, applied, undone, lastId, lastPre>>
vars    == <<rows, model, backups, stored, audit, pc, doc, merged, faults,
             applied, undone, lastId, lastPre>>

OnData  == {"snapshot", "exec", "undo"}
Holding == {"backup", "truncate", "write"}
OnModel == {"merge"} \cup Holding
Labels  == {"idle", "save", "audit"} \cup OnData \cup OnModel
Actions == {"commit", "reject", "rollback"}

TypeOK ==
  /\ rows \in Image
  /\ stored \in [Ids -> Proposal \cup {NoProposal}]
  /\ audit \subseteq Ids \X Actions
  /\ pc \in [Handlers -> Labels]
  /\ doc \in [Handlers -> Proposal \cup {NoProposal}]
  /\ merged \in [Handlers -> Model \cup {NoModel}]
  /\ \A h \in Handlers : /\ pc[h] # "idle" <=> doc[h] \in Proposal
                         /\ pc[h] \in Holding <=> merged[h] \in Model
  /\ model \in Model
  /\ backups \subseteq Model
  /\ faults \in Nat
  /\ applied \in [Ids -> Nat]
  /\ undone \in [Ids -> Nat]
  /\ lastId \in Ids \cup {NoId}
  /\ lastPre \in Image

Init ==
  /\ rows = InitialRows
  /\ stored = [id \in Ids |-> NoProposal]
  /\ audit = {}
  /\ pc = [h \in Handlers |-> "idle"]
  /\ doc = [h \in Handlers |-> NoProposal]
  /\ merged = [h \in Handlers |-> NoModel]
  /\ model = [Broken EXCEPT ![Base] = 1]
  /\ backups = {}
  /\ faults = 0
  /\ applied = [id \in Ids |-> 0]
  /\ undone = [id \in Ids |-> 0]
  /\ lastId = NoId
  /\ lastPre = InitialRows

-----------------------------------------------------------------------------
(* What the statements do to the table.                                     *)

Matching(c, r) == {k \in c.keys : r[k] \in c.vals}

NoRows == [k \in Keys |-> Absent]

(* buildSelect and scanMaps: the rows the predicate matches, as they are.   *)
(* An insert captures nothing, and neither does a model change.             *)
Captured(c, r) ==
  IF c.op \in {"insert", "model"}
    THEN NoRows
    ELSE [k \in Keys |-> IF k \in Matching(c, r) THEN r[k] ELSE Absent]

CapturedKeys(image) == {k \in Keys : image[k] # Absent}

WithinCap(c, r) == c.op \in {"insert", "model"} \/ Cardinality(Matching(c, r)) <= MaxAffected

(* The statement build makes breaks the table's primary key otherwise.      *)
Executes(c, r) ==
  CASE c.op = "insert" -> r[c.setKey] = Absent
    [] c.op = "update" -> \/ c.setKey = Keep
                          \/ Matching(c, r) = {}
                          \/ \E k \in Keys :
                               /\ Matching(c, r) = {k}
                               /\ c.setKey = k \/ r[c.setKey] = Absent
    [] c.op = "delete" -> TRUE

NewVal(c, v) == IF c.setVal = Keep THEN v ELSE c.setVal

Executed(c, r) ==
  LET hit == Matching(c, r) IN
  CASE c.op = "insert" -> [r EXCEPT ![c.setKey] = c.setVal]
    [] c.op = "delete" -> [k \in Keys |-> IF k \in hit THEN Absent ELSE r[k]]
    [] c.op = "update" /\ c.setKey = Keep ->
         [k \in Keys |-> IF k \in hit THEN NewVal(c, r[k]) ELSE r[k]]
    [] c.op = "update" /\ c.setKey # Keep ->
         [k \in Keys |-> IF k = c.setKey /\ hit # {}
                           THEN NewVal(c, r[CHOOSE j \in hit : TRUE])
                           ELSE IF k \in hit THEN Absent ELSE r[k]]

(* reinsertRow fails on a key that is taken; the other two never fail.      *)
Undoes(c, image, r) ==
  c.op = "delete" => \A k \in CapturedKeys(image) : r[k] = Absent

(* Mutant: an update is undone on the rows its predicate matches by now.    *)
UndoneByPredicate(c, image, r) ==
  CASE c.op = "insert" -> [r EXCEPT ![c.setKey] = Absent]
    [] c.op = "delete" -> [k \in Keys |-> IF image[k] # Absent THEN image[k] ELSE r[k]]
    [] c.op = "update" -> [k \in Keys |-> IF k \in Matching(c, r) THEN image[k] ELSE r[k]]

(* restoreRow sets the SET columns of the row that now has the captured     *)
(* primary key, if there is one; when SET names the primary key it sets     *)
(* that to itself.                                                          *)
Undone(c, image, r) ==
  CASE c.op = "insert" -> [r EXCEPT ![c.setKey] = Absent]
    [] c.op = "delete" -> [k \in Keys |-> IF image[k] # Absent THEN image[k] ELSE r[k]]
    [] c.op = "update" ->
         [k \in Keys |-> IF image[k] # Absent /\ r[k] # Absent /\ c.setVal # Keep
                           THEN image[k] ELSE r[k]]

-----------------------------------------------------------------------------
(* Propose: role check, dry run under the cap (or of the merged model),     *)
(* saved as pending.  The id is the clock in nanoseconds, taken here to be  *)
(* fresh.                                                                   *)
Propose(id, p, c) ==
  /\ stored[id] = NoProposal
  /\ p \in Proposers
  /\ WithinCap(c, rows)
  /\ stored' = [stored EXCEPT ![id] =
                  [id |-> id, status |-> "pending", proposer |-> p, approver |-> Nobody,
                   change |-> c, before |-> Captured(c, rows)]]
  /\ UNCHANGED <<effects, audit, pc, doc, merged, faults>>

(* A handler reads the proposal and passes the checks that come before any  *)
(* effect.                                                                  *)
Hold(h, label, proposal) ==
  /\ pc[h] = "idle"
  /\ pc' = [pc EXCEPT ![h] = label]
  /\ doc' = [doc EXCEPT ![h] = proposal]
  /\ UNCHANGED <<effects, stored, audit, merged, faults>>

(* The call returns.                                                        *)
Return(h) ==
  /\ pc' = [pc EXCEPT ![h] = "idle"]
  /\ doc' = [doc EXCEPT ![h] = NoProposal]
  /\ merged' = [merged EXCEPT ![h] = NoModel]

HasStatus(id, status) == stored[id] # NoProposal /\ stored[id].status = status

FirstStep(c) ==
  CASE c.op = "insert"               -> "exec"
    [] c.op \in {"update", "delete"} -> "snapshot"
    [] c.op = "model"                -> "merge"

(* Mutant: without the comparison of approver and proposer.                 *)
LoadApproveOwn(h, p, id) ==
  /\ HasStatus(id, "pending")
  /\ p \in Approvers
  /\ Hold(h, FirstStep(stored[id].change), [stored[id] EXCEPT !.approver = p])

LoadApprove(h, p, id) ==
  /\ HasStatus(id, "pending")
  /\ p \in Approvers
  /\ p # stored[id].proposer
  /\ Hold(h, FirstStep(stored[id].change), [stored[id] EXCEPT !.approver = p])

LoadReject(h, p, id) ==
  /\ HasStatus(id, "pending")
  /\ Hold(h, "save", [stored[id] EXCEPT !.approver = p, !.status = "rejected"])

(* Mutant: without the check that the proposal is committed.                *)
LoadRollbackAny(h, p, id) ==
  /\ stored[id] # NoProposal
  /\ stored[id].change.op # "model"
  /\ p \in Approvers
  /\ Hold(h, "undo", stored[id])

LoadRollback(h, p, id) ==
  /\ HasStatus(id, "committed")
  /\ stored[id].change.op # "model"
  /\ p \in Approvers
  /\ Hold(h, "undo", stored[id])

(* commitData inside its transaction: the before-image is taken again, and  *)
(* the cap checked on it.                                                   *)
Snapshot(h) ==
  /\ pc[h] = "snapshot"
  /\ IF WithinCap(doc[h].change, rows)
       THEN /\ pc' = [pc EXCEPT ![h] = "exec"]
            /\ doc' = [doc EXCEPT ![h].before = Captured(doc[h].change, rows)]
            /\ UNCHANGED merged
       ELSE Return(h)
  /\ UNCHANGED <<effects, stored, audit, faults>>

(* Mutant: an error of the mutation is not returned.                        *)
ExecDropsError(h) ==
  /\ pc[h] = "exec"
  /\ doc' = [doc EXCEPT ![h].status = "committed"]
  /\ pc' = [pc EXCEPT ![h] = "save"]
  /\ IF Executes(doc[h].change, rows)
       THEN /\ rows' = Executed(doc[h].change, rows)
            /\ applied' = [applied EXCEPT ![doc[h].id] = @ + 1]
            /\ lastId' = doc[h].id
            /\ lastPre' = rows
            /\ UNCHANGED <<model, backups, merged, undone>>
       ELSE UNCHANGED <<effects, merged>>
  /\ UNCHANGED <<stored, audit, faults>>

(* The mutation and the commit of the transaction; a constraint error rolls *)
(* it back and ends the call.                                               *)
Exec(h) ==
  /\ pc[h] = "exec"
  /\ LET d == doc[h] IN
     IF Executes(d.change, rows)
       THEN /\ rows' = Executed(d.change, rows)
            /\ applied' = [applied EXCEPT ![d.id] = @ + 1]
            /\ lastId' = d.id
            /\ lastPre' = rows
            /\ doc' = [doc EXCEPT ![h].status = "committed"]
            /\ pc' = [pc EXCEPT ![h] = "save"]
            /\ UNCHANGED <<model, backups, merged, undone>>
       ELSE /\ Return(h)
            /\ UNCHANGED effects
  /\ UNCHANGED <<stored, audit, faults>>

(* Mutant: a change rolled back may be approved again.                      *)
UndoReopens(h) ==
  /\ pc[h] = "undo"
  /\ IF Undoes(doc[h].change, doc[h].before, rows)
       THEN /\ rows' = Undone(doc[h].change, doc[h].before, rows)
            /\ undone' = [undone EXCEPT ![doc[h].id] = @ + 1]
            /\ lastId' = NoId
            /\ lastPre' = rows
            /\ doc' = [doc EXCEPT ![h].status = "pending"]
            /\ pc' = [pc EXCEPT ![h] = "save"]
            /\ UNCHANGED <<model, backups, merged, applied>>
       ELSE /\ Return(h)
            /\ UNCHANGED effects
  /\ UNCHANGED <<stored, audit, faults>>

(* Rollback's transaction.                                                  *)
Undo(h) ==
  /\ pc[h] = "undo"
  /\ LET d == doc[h] IN
     IF Undoes(d.change, d.before, rows)
       THEN /\ rows' = Undone(d.change, d.before, rows)
            /\ undone' = [undone EXCEPT ![d.id] = @ + 1]
            /\ lastId' = NoId
            /\ lastPre' = rows
            /\ doc' = [doc EXCEPT ![h].status = "rolled_back"]
            /\ pc' = [pc EXCEPT ![h] = "save"]
            /\ UNCHANGED <<model, backups, merged, applied>>
       ELSE /\ Return(h)
            /\ UNCHANGED effects
  /\ UNCHANGED <<stored, audit, faults>>

(* commitModel reads the file and adds the entry (mergeModel).  Whether the *)
(* result is a model is for the semantic compiler to say.                   *)
Merge(h) ==
  /\ pc[h] = "merge"
  /\ \/ /\ merged' = [merged EXCEPT ![h] = [model EXCEPT ![doc[h].id] = @ + 1]]
        /\ pc' = [pc EXCEPT ![h] = "backup"]
        /\ UNCHANGED doc
     \/ Return(h)
  /\ UNCHANGED <<effects, stored, audit, faults>>

(* Mutant: no backup is made.                                               *)
BackupNothing(h) ==
  /\ pc[h] = "backup"
  /\ pc' = [pc EXCEPT ![h] = "truncate"]
  /\ UNCHANGED <<effects, stored, audit, doc, merged, faults>>

(* It reads the file once more, into a .bak of its own.                     *)
Backup(h) ==
  /\ pc[h] = "backup"
  /\ backups' = backups \cup {model}
  /\ pc' = [pc EXCEPT ![h] = "truncate"]
  /\ UNCHANGED <<rows, model, applied, undone, lastId, lastPre, stored, audit, doc, merged, faults>>

(* os.WriteFile empties the file when it opens it and writes it in a call   *)
(* of its own; what two calls write at once may mix.                        *)
Truncate(h) ==
  /\ pc[h] = "truncate"
  /\ model' = Broken
  /\ pc' = [pc EXCEPT ![h] = "write"]
  /\ UNCHANGED <<rows, backups, applied, undone, lastId, lastPre, stored, audit, doc, merged, faults>>

WriteModel(h) ==
  /\ pc[h] = "write"
  /\ model' \in {merged[h]} \cup {m \in {Broken} : model # Broken}
  /\ applied' = [applied EXCEPT ![doc[h].id] = @ + 1]
  /\ doc' = [doc EXCEPT ![h].status = "committed"]
  /\ merged' = [merged EXCEPT ![h] = NoModel]
  /\ pc' = [pc EXCEPT ![h] = "save"]
  /\ UNCHANGED <<rows, backups, undone, lastId, lastPre, stored, audit, faults>>

(* Mutant: ON CONFLICT DO NOTHING.                                          *)
SaveIfNew(h) ==
  /\ pc[h] = "save"
  /\ stored' = IF stored[doc[h].id] = NoProposal
                 THEN [stored EXCEPT ![doc[h].id] = doc[h]] ELSE stored
  /\ pc' = [pc EXCEPT ![h] = "audit"]
  /\ UNCHANGED <<effects, audit, doc, merged, faults>>

(* save: an upsert of the whole document, whatever is stored by now.        *)
Save(h) ==
  /\ pc[h] = "save"
  /\ stored' = [stored EXCEPT ![doc[h].id] = doc[h]]
  /\ pc' = [pc EXCEPT ![h] = "audit"]
  /\ UNCHANGED <<effects, audit, doc, merged, faults>>

ActionOf(status) ==
  CASE status = "committed"   -> "commit"
    [] status = "rejected"    -> "reject"
    [] status = "rolled_back" -> "rollback"

(* audit: its errors are dropped, which is Die here.                        *)
WriteAudit(h) ==
  /\ pc[h] = "audit"
  /\ audit' = audit \cup {<<doc[h].id, ActionOf(doc[h].status)>>}
  /\ Return(h)
  /\ UNCHANGED <<effects, stored, faults>>

(* The process dies, its context ends, or the next statement fails: a       *)
(* transaction in progress is rolled back, what was committed stays.        *)
Die(h) ==
  /\ pc[h] # "idle"
  /\ faults < MaxFaults
  /\ faults' = faults + 1
  /\ Return(h)
  /\ UNCHANGED <<effects, stored, audit>>

Request(h) ==
  \E p \in Principals, id \in Ids :
    LoadApprove(h, p, id) \/ LoadReject(h, p, id) \/ LoadRollback(h, p, id)

Continue(h) ==
  \/ Snapshot(h) \/ Exec(h) \/ Undo(h)
  \/ Merge(h) \/ Backup(h) \/ Truncate(h) \/ WriteModel(h)
  \/ Save(h) \/ WriteAudit(h)

Next ==
  \/ \E id \in Ids, p \in Principals, c \in Changes : Propose(id, p, c)
  \/ \E h \in Handlers : Request(h) \/ Continue(h) \/ Die(h)

Spec == Init /\ [][Next]_vars

(* A call that began goes on to its end unless it dies: a goroutine that    *)
(* waits for nothing but the database.                                      *)
FairSpec == Spec /\ \A h \in Handlers : WF_vars(Continue(h))
-----------------------------------------------------------------------------
(* Properties that hold whatever the handlers race or die.                  *)

InForce == {stored[id] : id \in {i \in Ids : stored[i] # NoProposal}}
             \cup {doc[h] : h \in {g \in Handlers : pc[g] # "idle"}}

(* Separation of duties (engine.go:73-76): whatever changes the table or    *)
(* the model file, or is recorded as having done so, was approved by an     *)
(* approver other than its proposer, although the decision is taken on a    *)
(* copy read earlier and any other handler may overwrite the record in      *)
(* between.                                                                 *)
DutiesSeparated ==
  /\ \A p \in InForce : p.status \in {"committed", "rolled_back"} =>
       p.approver \in Approvers \ {p.proposer}
  /\ \A h \in Handlers : pc[h] \in OnData \cup OnModel =>
       doc[h].approver \in Approvers \ {doc[h].proposer}

(* The audit trail and the records never claim an effect that did not       *)
(* happen: a commit that is recorded or audited was applied, a rollback     *)
(* that is recorded or audited was carried out on a change applied before.  *)
TrailTellsTruth ==
  /\ \A id \in Ids :
       /\ <<id, "commit">> \in audit => applied[id] > 0
       /\ <<id, "rollback">> \in audit => undone[id] > 0
       /\ undone[id] > 0 => applied[id] > 0
  /\ \A p \in InForce :
       /\ p.status = "committed" => applied[p.id] > 0
       /\ p.status = "rolled_back" => undone[p.id] > 0

(* model.go:94-95, "Rollback of a transform is restoring the .bak": however *)
(* approvals overlap and wherever one dies, even with the file just opened  *)
(* to be written (model.go:112), the model the team started from is whole   *)
(* in the file or in a backup.                                              *)
ModelKept == \E m \in backups \cup {model} : Whole(m)

(* A proposal that was decided is never open to a decision again, in        *)
(* whatever order the handlers write it back.                               *)
NeverPendingAgain ==
  [][\A id \in Ids : stored[id] # NoProposal /\ stored[id].status # "pending"
       => stored'[id].status # "pending"]_vars

(* Where no call dies, a change that reached the table does not stay listed *)
(* as pending, where it could be approved once more.                        *)
NoLimbo == \A id \in Ids : applied[id] > 0 ~> ~HasStatus(id, "pending") \/ faults > 0

-----------------------------------------------------------------------------
(* Properties of one call at a time, where no call dies.                    *)

(* The record tells what the table holds: nothing of a pending or rejected  *)
(* proposal, exactly one application of a committed one, one application    *)
(* and one reversal of one that was rolled back.  A committed model         *)
(* change's entry is in the model file, once.                               *)
StatusTellsEffect ==
  \A id \in Ids : (\A h \in Handlers : pc[h] = "idle") =>
    /\ undone[id] = IF HasStatus(id, "rolled_back") THEN 1 ELSE 0
    /\ applied[id] = IF HasStatus(id, "rolled_back") \/ HasStatus(id, "committed")
                       THEN 1 ELSE 0
    /\ model[id] = IF HasStatus(id, "committed") /\ stored[id].change.op = "model"
                     THEN 1 ELSE 0

-----------------------------------------------------------------------------
(* What comments of the package say of the program.                         *)

(* engine.go:115-116: commitData "snapshots the before-image and applies    *)
(* the mutation in ONE tx, then records the proposal as committed (with the *)
(* snapshot) -- all atomic".                                                *)
RecordedTogether ==
  \A id \in Ids : applied[id] > 0 =>
    \/ HasStatus(id, "committed") \/ HasStatus(id, "rolled_back")
    \/ \E h \in Handlers : pc[h] = "save" /\ doc[h].id = id

(* engine.go:132: the before-image is taken "inside the tx (consistent with *)
(* the mutation)": it is what the mutation replaced, within the row cap.    *)
BeforeImageIsExact ==
  \A h \in Handlers :
    pc[h] = "save" /\ doc[h].status = "committed" /\ lastId = doc[h].id
      => /\ doc[h].before = Captured(doc[h].change, lastPre)
         /\ Cardinality(CapturedKeys(doc[h].before)) <= MaxAffected

(* warehouse.go:160-161: "snapshot the before-image, mutate, and audit all  *)
(* commit together or not at all".                                          *)
AuditedTogether ==
  \A id \in Ids : applied[id] > 0 =>
    \/ <<id, "commit">> \in audit
    \/ \E h \in Handlers : pc[h] \in {"save", "audit"} /\ doc[h].id = id

(* engine.go:96: Reject marks a pending proposal rejected "(nothing was     *)
(* applied)".                                                               *)
RejectedMeansUntouched ==
  \A id \in Ids : HasStatus(id, "rejected") => applied[id] = 0

(* engine.go:163-164: "Updates and deletes restore the captured rows".      *)
RollbackRestores ==
  \A h \in Handlers : pc[h] = "save" /\ doc[h].status = "rolled_back" =>
    \A k \in CapturedKeys(doc[h].before) : rows[k] = doc[h].before[k]
=============================================================================
