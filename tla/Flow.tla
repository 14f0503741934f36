--------------------------------- MODULE Flow ---------------------------------
(***************************************************************************)
(* The workflow engine of package flow: steps run in order, a human step   *)
(* pauses the run for approval, and Reject, Rollback or a failing step     *)
(* compensate the steps done so far, in reverse.                           *)
(*                                                                         *)
(* A run is a document of _flow_runs that calls read, change in memory and *)
(* write back whole, in statements of their own between the effects of the *)
(* steps.  All runs here are of one flow.  A step's statements touch cells *)
(* of the customer's warehouse: a row, or a table that `ingest` lands.     *)
(***************************************************************************)
EXTENDS Naturals, Sequences, FiniteSets

CONSTANTS
  Runs,
  Steps,      \* the flow: what each step does
  Cells, Values,
  NilText,    \* how NULL reads once a snapshot has rendered it
  Procs,      \* calls in progress at a time
  Overlap,    \* whether two of them may work on one run
  World0,     \* the warehouse at the start
  MaxCalls,   \* bound: calls
  MaxFails,   \* bound: statements that fail
  MaxFaults,  \* bound: calls that die or cannot save
  Null,       \* SQL's NULL; an absent table
  None

Kinds == {"human", "ingest", "sql", "mutate"}

(* A statement sets one cell.  What undoes a `mutate` is not declared but   *)
(* snapshotted.                                                             *)
Statement == Cells \X (Values \cup {Null})
Step == [kind : Kinds, do : Seq(Statement), undo : Seq(Statement)]

Positions == DOMAIN Steps
Image     == [Cells -> Values \cup {None}]

JournalEntry ==
  [step : Positions, what : {"done", "compensated", "failed", "approved", "rejected"}]

Statuses == {"running", "awaiting_approval", "completed", "rejected", "rolled_back", "failed"}

Run == [status  : Statuses,
        cursor  : 1 .. Len(Steps) + 1,    \* the next step
        before  : [Positions -> Image],   \* the snapshots of `mutate` steps
        journal : Seq(JournalEntry)]

ASSUME RunsAssumption == None \notin Runs
ASSUME StepsAssumption == Steps \in Seq(Step)
ASSUME ValuesAssumption ==
  NilText \in Values /\ Null \notin Values /\ None \notin Values \cup {Null} \cup Run
ASSUME WorldAssumption == World0 \in [Cells -> Values \cup {Null}]
ASSUME BoundsAssumption ==
  Overlap \in BOOLEAN /\ {MaxCalls, MaxFails, MaxFaults} \subseteq Nat

VARIABLES
  docs,       \* _flow_runs
  world,      \* the customer's warehouse
  pc, call,   \* where each process is and what it holds in memory
  calls, fails, faults,   \* what has happened against the bounds
  log,        \* history: what really happened in each run, in order
  origin,     \* history: the warehouse when the run began
  mixed,      \* history: runs beside which another run wrote since they began
  broken      \* history: runs on which a call died or failed to undo

vars == <<docs, world, pc, call, calls, fails, faults, log, origin, mixed, broken>>
counts  == <<calls, fails, faults>>
history == <<log, origin, mixed, broken>>

NoImage == [c \in Cells |-> None]
NewRun  == [status |-> "running", cursor |-> 1, before |-> [k \in Positions |-> NoImage],
            journal |-> <<>>]

(* The run a call works on, its document in memory, the status its          *)
(* compensation ends in, and the step to compensate next.                   *)
Call   == [run : Runs \cup {None}, doc : Run, ends : Statuses, at : 0 .. Len(Steps)]
NoCall == [run |-> None, doc |-> NewRun, ends |-> "running", at |-> 0]

Labels == {"idle", "save", "step", "apply", "undo"}

TypeOK ==
  /\ docs \in [Runs -> Run \cup {None}]
  /\ world \in [Cells -> Values \cup {Null}]
  /\ pc \in [Procs -> Labels]
  /\ call \in [Procs -> Call]
  /\ \A p \in Procs : pc[p] = "idle" <=> call[p] = NoCall
  /\ {calls, fails, faults} \subseteq Nat
  /\ log \in [Runs -> Seq(JournalEntry)]
  /\ origin \in [Runs -> [Cells -> Values \cup {Null}]]
  /\ mixed \subseteq Runs /\ broken \subseteq Runs

Init ==
  /\ docs = [r \in Runs |-> None]
  /\ world = World0
  /\ pc = [p \in Procs |-> "idle"]
  /\ call = [p \in Procs |-> NoCall]
  /\ calls = 0 /\ fails = 0 /\ faults = 0
  /\ log = [r \in Runs |-> <<>>]
  /\ origin = [r \in Runs |-> World0]
  /\ mixed = {} /\ broken = {}

-----------------------------------------------------------------------------
(* The warehouse after the first n of some statements.                      *)
Written(w, statements, n) ==
  [c \in Cells |->
     LET sets == {k \in 1 .. n : statements[k][1] = c} IN
     IF sets = {} THEN w[c]
     ELSE statements[CHOOSE k \in sets : \A j \in sets : j <= k][2]]

Touched(k) == {Steps[k].do[j][1] : j \in DOMAIN Steps[k].do}

(* A snapshot renders what it reads with %v: NULL comes back as text.       *)
Rendered(v) == IF v = Null THEN NilText ELSE v

Snapshot(k, w) == [c \in Cells |-> IF c \in Touched(k) THEN Rendered(w[c]) ELSE None]

Undoing(doc, k) ==
  IF Steps[k].kind = "mutate"
  THEN [j \in DOMAIN Steps[k].do |-> <<Steps[k].do[j][1], doc.before[k][Steps[k].do[j][1]]>>]
  ELSE Steps[k].undo

Entry(k, what) == [step |-> k, what |-> what]
Recorded(doc, k, what) == [doc EXCEPT !.journal = Append(@, Entry(k, what))]
Advanced(doc, k, what) == [Recorded(doc, k, what) EXCEPT !.cursor = k + 1]

Happens(r, k, what) == log' = [log EXCEPT ![r] = Append(@, Entry(k, what))]

-----------------------------------------------------------------------------
Goto(p, label, c) ==
  /\ pc' = [pc EXCEPT ![p] = label]
  /\ call' = [call EXCEPT ![p] = c]

Return(p) == Goto(p, "idle", NoCall)

Working(r) == {p \in Procs : call[p].run = r}

(* A call on a run begins; it holds the document it read.                   *)
Begin(p, r, label, c) ==
  /\ pc[p] = "idle"
  /\ Overlap \/ Working(r) = {}
  /\ calls < MaxCalls
  /\ calls' = calls + 1
  /\ Goto(p, label, c)

(* Start creates a run and saves it.                                        *)
Start(p, r) ==
  /\ docs[r] = None /\ Working(r) = {}
  /\ Begin(p, r, "save", [NoCall EXCEPT !.run = r])
  /\ origin' = [origin EXCEPT ![r] = world]
  /\ UNCHANGED <<docs, world, fails, faults, log, mixed, broken>>

(* Approve: a run that waits goes on after the human step.                  *)
Approve(p, r) ==
  /\ docs[r] # None /\ docs[r].status = "awaiting_approval"
  /\ LET doc == docs[r] IN
     /\ Begin(p, r, "save", [NoCall EXCEPT !.run = r,
                !.doc = [Advanced(doc, doc.cursor, "approved") EXCEPT !.status = "running"]])
     /\ Happens(r, doc.cursor, "approved")
  /\ UNCHANGED <<docs, world, fails, faults, origin, mixed, broken>>

(* Reject: a run that waits is compensated.                                 *)
Reject(p, r) ==
  /\ docs[r] # None /\ docs[r].status = "awaiting_approval"
  /\ LET doc == docs[r] IN
     /\ Begin(p, r, "undo", [run |-> r, doc |-> Recorded(doc, doc.cursor, "rejected"),
                             ends |-> "rejected", at |-> doc.cursor - 1])
     /\ Happens(r, doc.cursor, "rejected")
  /\ UNCHANGED <<docs, world, fails, faults, origin, mixed, broken>>

(* Mutant: it begins with the step at the cursor.                           *)
RollbackFromCursor(p, r) ==
  /\ docs[r] # None
  /\ Begin(p, r, "undo", [run |-> r, doc |-> docs[r], ends |-> "rolled_back",
                          at |-> docs[r].cursor])
  /\ UNCHANGED <<docs, world, fails, faults, history>>

(* Rollback compensates whatever the status.                                *)
Rollback(p, r) ==
  /\ docs[r] # None
  /\ Begin(p, r, "undo", [run |-> r, doc |-> docs[r], ends |-> "rolled_back",
                          at |-> docs[r].cursor - 1])
  /\ UNCHANGED <<docs, world, fails, faults, history>>

-----------------------------------------------------------------------------
(* advance.                                                                 *)

(* The document is saved after every step.                                  *)
Save(p) ==
  /\ pc[p] = "save"
  /\ docs' = [docs EXCEPT ![call[p].run] = call[p].doc]
  /\ Goto(p, "step", call[p])
  /\ UNCHANGED <<world, counts, history>>

(* Mutant: the run pauses with the human step already behind it.            *)
PausePast(p) ==
  LET doc == call[p].doc IN
  /\ pc[p] = "step"
  /\ doc.cursor \in Positions /\ Steps[doc.cursor].kind = "human"
  /\ docs' = [docs EXCEPT ![call[p].run] = [doc EXCEPT !.status = "awaiting_approval",
                                                       !.cursor = @ + 1]]
  /\ Return(p)
  /\ UNCHANGED <<world, counts, history>>

(* At a human step the run is saved as waiting.                             *)
Pause(p) ==
  LET doc == call[p].doc IN
  /\ pc[p] = "step"
  /\ doc.cursor \in Positions /\ Steps[doc.cursor].kind = "human"
  /\ docs' = [docs EXCEPT ![call[p].run] = [doc EXCEPT !.status = "awaiting_approval"]]
  /\ Return(p)
  /\ UNCHANGED <<world, counts, history>>

(* Past the last step it is complete.                                       *)
Complete(p) ==
  /\ pc[p] = "step"
  /\ call[p].doc.cursor = Len(Steps) + 1
  /\ docs' = [docs EXCEPT ![call[p].run] = [call[p].doc EXCEPT !.status = "completed"]]
  /\ Return(p)
  /\ UNCHANGED <<world, counts, history>>

(* A `mutate` snapshots the rows it is about to change.                     *)
TakeSnapshot(p) ==
  LET k == call[p].doc.cursor IN
  /\ pc[p] = "step"
  /\ k \in Positions /\ Steps[k].kind = "mutate"
  /\ Goto(p, "apply", [call[p] EXCEPT !.doc.before[k] = Snapshot(k, world)])
  /\ UNCHANGED <<docs, world, counts, history>>

AtWork(p) ==
  \/ pc[p] = "apply"
  \/ /\ pc[p] = "step"
     /\ call[p].doc.cursor \in Positions
     /\ Steps[call[p].doc.cursor].kind \in {"ingest", "sql"}

MayFail(p) ==
  \/ pc[p] = "apply"
  \/ /\ pc[p] = "step"
     /\ call[p].doc.cursor \in Positions
     /\ Steps[call[p].doc.cursor].kind # "human"

Beside(r) == {s \in Runs \ {r} : docs[s] # None \/ Working(s) # {}}

(* The statements of a step; the step is journaled as done in memory.       *)
Do(p) ==
  LET k == call[p].doc.cursor  r == call[p].run IN
  /\ AtWork(p)
  /\ world' = Written(world, Steps[k].do, Len(Steps[k].do))
  /\ Goto(p, "save", [call[p] EXCEPT !.doc = Advanced(@, k, "done")])
  /\ Happens(r, k, "done")
  /\ mixed' = mixed \cup Beside(r)
  /\ UNCHANGED <<docs, counts, origin, broken>>

(* Mutant: the run fails and nothing is compensated.                        *)
FailUncompensated(p) ==
  LET k == call[p].doc.cursor IN
  /\ MayFail(p)
  /\ fails < MaxFails /\ fails' = fails + 1
  /\ Goto(p, "undo", [call[p] EXCEPT !.doc = Recorded(@, k, "failed"), !.ends = "failed",
                        !.at = 0])
  /\ UNCHANGED <<docs, world, calls, faults, history>>

(* Mutant: a step that failed is journaled as done.                         *)
FailAsDone(p) ==
  LET k == call[p].doc.cursor IN
  /\ MayFail(p)
  /\ fails < MaxFails /\ fails' = fails + 1
  /\ Goto(p, "undo", [call[p] EXCEPT !.doc = Recorded(@, k, "done"), !.ends = "failed",
                        !.at = k - 1])
  /\ UNCHANGED <<docs, world, calls, faults, history>>

(* One of the statements fails, a snapshot or a mutation whole, a list of   *)
(* statements after some of them: the steps before this one are             *)
(* compensated, and the run ends as failed.                                 *)
Fail(p) ==
  LET k == call[p].doc.cursor  r == call[p].run IN
  /\ MayFail(p)
  /\ fails < MaxFails /\ fails' = fails + 1
  /\ \E n \in IF Steps[k].kind = "mutate" THEN {0} ELSE 0 .. Len(Steps[k].do) - 1 :
       /\ world' = Written(world, Steps[k].do, n)
       /\ mixed' = IF n = 0 THEN mixed ELSE mixed \cup Beside(r)
  /\ Goto(p, "undo", [call[p] EXCEPT !.doc = Recorded(@, k, "failed"), !.ends = "failed",
                        !.at = k - 1])
  /\ UNCHANGED <<docs, calls, faults, log, origin, broken>>

-----------------------------------------------------------------------------
(* compensate.                                                              *)

(* Mutant: the loop stops before the first step.                            *)
UnwoundEarly(p) == call[p].at <= 1

Unwound(p) == call[p].at = 0

(* The step's undo runs; a human step has none.                             *)
Undo(p) ==
  LET k == call[p].at  r == call[p].run IN
  /\ pc[p] = "undo" /\ ~Unwound(p)
  /\ IF Steps[k].kind = "human"
     THEN /\ Goto(p, "undo", [call[p] EXCEPT !.at = k - 1])
          /\ UNCHANGED <<world, log, mixed>>
     ELSE /\ LET undoing == Undoing(call[p].doc, k) IN
             world' = Written(world, undoing, Len(undoing))
          /\ Goto(p, "undo", [call[p] EXCEPT !.doc = Recorded(@, k, "compensated"), !.at = k - 1])
          /\ Happens(r, k, "compensated")
          /\ mixed' = mixed \cup Beside(r)
  /\ UNCHANGED <<docs, counts, origin, broken>>

(* An undo fails after some of its statements: a failing run is saved as    *)
(* failed all the same; Reject and Rollback return and save nothing.        *)
UndoFails(p) ==
  LET k == call[p].at  r == call[p].run IN
  /\ pc[p] = "undo" /\ ~Unwound(p) /\ Steps[k].kind # "human"
  /\ fails < MaxFails /\ fails' = fails + 1
  /\ LET undoing == Undoing(call[p].doc, k) IN
     \E n \in 0 .. Len(undoing) - 1 : world' = Written(world, undoing, n)
  /\ IF call[p].ends = "failed"
     THEN Goto(p, "undo", [call[p] EXCEPT !.doc = Recorded(@, k, "failed"), !.at = 0])
     ELSE Return(p)
  /\ mixed' = mixed \cup Beside(r)
  /\ broken' = broken \cup {r}
  /\ UNCHANGED <<docs, calls, faults, log, origin>>

(* All is compensated: the run is saved with the status it ends in.         *)
End(p) ==
  /\ pc[p] = "undo" /\ Unwound(p)
  /\ docs' = [docs EXCEPT ![call[p].run] = [call[p].doc EXCEPT !.status = call[p].ends]]
  /\ Return(p)
  /\ UNCHANGED <<world, counts, history>>

(* The process dies, or cannot save and gives up.                           *)
Die(p) ==
  /\ pc[p] # "idle"
  /\ faults < MaxFaults /\ faults' = faults + 1
  /\ broken' = broken \cup {call[p].run}
  /\ Return(p)
  /\ UNCHANGED <<docs, world, calls, fails, log, origin, mixed>>

Act(p) ==
  \/ \E r \in Runs : Start(p, r) \/ Approve(p, r) \/ Reject(p, r) \/ Rollback(p, r)
  \/ Save(p) \/ Pause(p) \/ Complete(p)
  \/ TakeSnapshot(p) \/ Do(p) \/ Fail(p)
  \/ Undo(p) \/ UndoFails(p) \/ End(p)
  \/ Die(p)

Next == \E p \in Procs : Act(p)

Spec == Init /\ [][Next]_vars

-----------------------------------------------------------------------------
Resting(r) == docs[r] # None /\ Working(r) = {}

(* What a journal tells: its entries but those of steps that failed, whose  *)
(* statements may have run or not.                                          *)
TellingIn(entries) == {i \in DOMAIN entries : entries[i].what # "failed"}

Rank(i, S) == Cardinality({j \in S : j < i})

(* It tells, in their order, what happened at some places of the log.       *)
TellsOf(entries, happened, places) ==
  LET telling == TellingIn(entries) IN
    /\ Cardinality(telling) = Cardinality(places)
    /\ \A i \in telling, j \in places :
         Rank(i, telling) = Rank(j, places) => entries[i] = happened[j]

(* The journal tells what happened: whatever dies or fails, every step and  *)
(* decision it records did, in that order; and at rest it leaves nothing    *)
(* out, unless a call died on the run (engine.go:63-101, 122-167).          *)
JournalTruthful ==
  \A r \in Runs :
    /\ docs[r] # None =>
         \E lost \in SUBSET DOMAIN log[r] :
           TellsOf(docs[r].journal, log[r], DOMAIN log[r] \ lost)
    /\ Resting(r) /\ r \notin broken => TellsOf(docs[r].journal, log[r], DOMAIN log[r])

(* No step runs before the human steps ahead of it were approved.           *)
GateKeeps ==
  \A r \in Runs : \A i \in DOMAIN log[r] :
    log[r][i].what = "done" =>
      \A k \in 1 .. log[r][i].step - 1 :
        Steps[k].kind = "human" => \E j \in 1 .. i - 1 : log[r][j] = Entry(k, "approved")

NoStepAfterRejection(r) ==
  \A i, j \in DOMAIN log[r] :
    i < j /\ log[r][i].what = "rejected" => log[r][j].what # "done"

(* "Reject rejects a paused run and rolls back everything done so far":     *)
(* nothing is done in a run once it was rejected.                           *)
RejectedRunsNoMore == \A r \in Runs : NoStepAfterRejection(r)

(* The steps whose effects stand, by what happened last to each.            *)
Standing(r) ==
  {k \in Positions :
     \E i \in DOMAIN log[r] :
       /\ log[r][i] = Entry(k, "done")
       /\ \A j \in DOMAIN log[r] : j > i => log[r][j] # Entry(k, "compensated")}

Automatic(n) == {k \in 1 .. n : Steps[k].kind # "human"}

(* The dashboard's status tells which effects stand: all of them, those     *)
(* ahead of the human step that waits, or none.                             *)
StatusTellsEffects ==
  \A r \in Runs \ broken : Resting(r) =>
    Standing(r) = CASE docs[r].status = "completed" -> Automatic(Len(Steps))
                    [] docs[r].status = "awaiting_approval" -> Automatic(docs[r].cursor - 1)
                    [] OTHER -> {}

Mutated == UNION {Touched(k) : k \in {j \in Positions : Steps[j].kind = "mutate"}}

(* "mutate - snapshot rows, apply a change, restore them on rollback": a    *)
(* run that was undone left its mutated rows as it found them, where no     *)
(* other run wrote meanwhile and no call died.                              *)
RollbackRestores ==
  \A r \in Runs \ (broken \cup mixed) :
    Resting(r) /\ docs[r].status \in {"rejected", "rolled_back", "failed"} =>
      \A c \in Mutated : world[c] = origin[r][c]

=============================================================================
