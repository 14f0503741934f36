-------------------------------- MODULE Intake --------------------------------
(***************************************************************************)
(* Intake plans (package intake): who agreed that a customer's database    *)
(* may be read, column by column, and the gate that `model gen` and        *)
(* `survey` pass before their first read.                                  *)
(*                                                                         *)
(* Plans and their ledger are tables of the brain.  Every act is a         *)
(* transaction: it reads plans, decides, and commits its writes together   *)
(* with its ledger line.  Transactions of several processes overlap.       *)
(* Serial brains (SQLite) refuse the writes of a transaction that another  *)
(* one overtook; the others (READ COMMITTED) do not notice.  The           *)
(* catalogue belongs to the customer and changes at any time.              *)
(***************************************************************************)
EXTENDS Naturals, Sequences, FiniteSets

CONSTANTS
  Ids,        \* plan ids
  Sources,    \* databases
  Columns,    \* table.column
  Targets,    \* what a change may name: a column, or all columns of a table
  Types,      \* declared types,
  Numeric,    \* and those of numbers; the others are text or times
  Keys,       \* the columns that primary and foreign keys are declared on
  Personal,   \* the columns whose name reads as personal data (PIIColumn)
  People,
  Procs,      \* calls in progress at a time
  Serial,     \* whether the brain refuses an overtaken transaction
  Catalogue0, \* Catalogue0[s]: the catalogue of s at the start
  MaxLedger,  \* bound: ledger lines
  MaxAlters,  \* bound: changes of the catalogue
  MaxTampers, \* bound: edits of a plan's row behind its back
  None

Actions == {"keep", "mask", "redact"}

Treatment == [type : Types, action : Actions]

(* What is hashed: the database and the decisions.  A hash stands for it.   *)
Content == [source : Sources, cols : [Columns -> Treatment \cup {None}]]

Plan == [source : Sources,
         cols   : [Columns -> Treatment \cup {None}],
         hash   : Content,
         state  : {"draft", "signed", "superseded"},
         signer : People \cup {None}]

Entry == [act    : {"propose", "amend", "sign", "supersede"},
          plan   : Ids,
          source : Sources,
          by     : People,
          from   : Content \cup {None},
          to     : Content]

(* What a drafted model says of a column.                                   *)
Mention == [column : Columns, part : {"key", "dimension", "metric"}, masked : BOOLEAN]

ASSUME SourcesAssumption == IsFiniteSet(Columns) /\ Sources # {}
ASSUME TargetsAssumption == Targets \subseteq SUBSET Columns
ASSUME NamesAssumption == Personal \cup Keys \subseteq Columns /\ Numeric \subseteq Types
ASSUME CatalogueAssumption == Catalogue0 \in [Sources -> [Columns -> Types \cup {None}]]
ASSUME SerialAssumption == Serial \in BOOLEAN
ASSUME BoundsAssumption == {MaxLedger, MaxAlters, MaxTampers} \subseteq Nat
ASSUME NoneAssumption == None \notin Plan \cup Types \cup Treatment \cup Content \cup Ids
                                        \cup Sources \cup People

VARIABLES
  plans,      \* di_intake_plans
  ledger,     \* di_intake_ledger
  live,       \* the catalogues of the customer's databases
  pc, call,   \* where each process is and what it holds in memory
  overtaken,  \* the transactions that read before another one committed
  alters, tampers,  \* what has happened against the bounds
  signatures, \* history: <<plan, hash the signer named>>
  reads       \* history: the columns whose values were read, and under what

vars == <<plans, ledger, live, pc, call, overtaken, alters, tampers, signatures,
          reads>>
history == <<signatures, reads>>

Call == [act    : {"propose", "amend", "sign", "gen", "survey", "none"},
         id     : Ids \cup {None},
         by     : People \cup {None},
         hash   : Content \cup {None},   \* before the amendment; named by the signer
         plan   : Plan \cup {None},
         prev   : Ids \cup {None},       \* the plan to supersede, and its hash
         old    : Content \cup {None},
         seen   : [Columns -> Types \cup {None}] \cup {None},   \* the catalogue
         model  : SUBSET Mention]                               \* the draft

NoCall == [act |-> "none", id |-> None, by |-> None, hash |-> None, plan |-> None,
           prev |-> None, old |-> None, seen |-> None, model |-> {}]

Labels == {"idle", "insert", "amend", "previous", "sign", "compare", "read", "draft",
           "write"}

TypeOK ==
  /\ plans \in [Ids -> Plan \cup {None}]
  /\ ledger \in Seq(Entry)
  /\ live \in [Sources -> [Columns -> Types \cup {None}]]
  /\ pc \in [Procs -> Labels]
  /\ call \in [Procs -> Call]
  /\ \A p \in Procs : pc[p] = "idle" <=> call[p] = NoCall
  /\ overtaken \subseteq Procs
  /\ {alters, tampers} \subseteq Nat
  /\ signatures \subseteq Ids \X Content
  /\ reads \subseteq [under : Content, column : Columns, listed : BOOLEAN]

Init ==
  /\ plans = [i \in Ids |-> None]
  /\ ledger = <<>>
  /\ live = Catalogue0
  /\ pc = [p \in Procs |-> "idle"]
  /\ call = [p \in Procs |-> NoCall]
  /\ overtaken = {}
  /\ alters = 0 /\ tampers = 0
  /\ signatures = {} /\ reads = {}

-----------------------------------------------------------------------------
Proposed     == {i \in Ids : plans[i] # None}
PlanHash(p)  == [source |-> p.source, cols |-> p.cols]
Verified(p)  == PlanHash(p) = p.hash
InForce(s)   == {i \in Proposed : plans[i].source = s /\ plans[i].state = "signed"}
Covered(p)   == {c \in Columns : p.cols[c] # None}
Present(cat) == {c \in Columns : cat[c] # None}

(* Mutant: a column that is not in the catalogue gets a treatment too.      *)
TreatmentsForAll(cat) ==
  [c \in Columns |-> [type |-> cat[c], action |-> IF c \in Personal THEN "mask" ELSE "keep"]]

(* treatmentsFor: personal names are masked, everything else is kept.       *)
TreatmentsFor(cat) ==
  [c \in Columns |->
     IF cat[c] = None THEN None
     ELSE [type |-> cat[c], action |-> IF c \in Personal THEN "mask" ELSE "keep"]]

(* amend: the action of every column that the change names and the plan     *)
(* covers, and the hash that follows.                                       *)
Amended(p, target, action) ==
  LET cols == [c \in Columns |-> IF c \in target /\ p.cols[c] # None
                                 THEN [p.cols[c] EXCEPT !.action = action]
                                 ELSE p.cols[c]]
  IN [p EXCEPT !.cols = cols, !.hash = [source |-> p.source, cols |-> cols]]

Unclassified(p, cat) == Present(cat) \ Covered(p)

-----------------------------------------------------------------------------
Goto(p, label, c) ==
  /\ pc' = [pc EXCEPT ![p] = label]
  /\ call' = [call EXCEPT ![p] = c]

Return(p) == Goto(p, "idle", NoCall)

(* Committing overtakes every transaction that has read and not written.    *)
Overtakes(p) ==
  overtaken' = {q \in Procs \ {p} : pc[q] \in {"amend", "previous", "sign"}}

Record(act, i, source, hash, by, from) ==
  [act |-> act, plan |-> i, source |-> source, by |-> by, from |-> from, to |-> hash]

Starts(p) == pc[p] = "idle" /\ Len(ledger) < MaxLedger

Commits(p) == ~(Serial /\ p \in overtaken)

-----------------------------------------------------------------------------
(* Propose reads the catalogue, no rows, and inserts a draft.               *)
Propose(p, s, by) ==
  /\ Starts(p)
  /\ Present(live[s]) # {}
  /\ LET cols == TreatmentsFor(live[s]) IN
     Goto(p, "insert",
          [NoCall EXCEPT !.act = "propose", !.by = by,
             !.plan = [source |-> s, cols |-> cols, hash |-> [source |-> s, cols |-> cols],
                       state |-> "draft", signer |-> None]])
  /\ UNCHANGED <<plans, ledger, live, overtaken, alters, tampers, history>>

(* Mutant: the row of a plan with the same id is replaced.                  *)
Upsert(p, i) ==
  /\ pc[p] = "insert"
  /\ plans' = [plans EXCEPT ![i] = call[p].plan]
  /\ LET c == call[p] IN
     ledger' = Append(ledger, Record("propose", i, c.plan.source, c.plan.hash, c.by, None))
  /\ Overtakes(p)
  /\ Return(p)
  /\ UNCHANGED <<live, alters, tampers, history>>

Insert(p, i) ==
  /\ pc[p] = "insert"
  /\ i \notin Proposed
  /\ plans' = [plans EXCEPT ![i] = call[p].plan]
  /\ LET c == call[p] IN
     ledger' = Append(ledger, Record("propose", i, c.plan.source, c.plan.hash, c.by, None))
  /\ Overtakes(p)
  /\ Return(p)
  /\ UNCHANGED <<live, alters, tampers, history>>

(* Amend, its transaction's read: it must find a draft that verifies and    *)
(* covers what the change names; one that changes nothing writes nothing.   *)
Amend(p, i, target, action, by) ==
  /\ Starts(p)
  /\ i \in Proposed
  /\ plans[i].state = "draft" /\ Verified(plans[i])
  /\ target \cap Covered(plans[i]) # {}
  /\ LET new == Amended(plans[i], target, action) IN
     /\ new.hash # plans[i].hash
     /\ Goto(p, "amend", [NoCall EXCEPT !.act = "amend", !.id = i, !.by = by,
                            !.hash = plans[i].hash, !.plan = new])
  /\ overtaken' = overtaken \ {p}
  /\ UNCHANGED <<plans, ledger, live, alters, tampers, history>>

(* Mutant: the amendment leaves no ledger line.                             *)
CommitAmendSilently(p) ==
  /\ pc[p] = "amend"
  /\ Commits(p)
  /\ plans' = [plans EXCEPT ![call[p].id].cols = call[p].plan.cols,
                            ![call[p].id].hash = call[p].plan.hash]
  /\ Overtakes(p)
  /\ Return(p)
  /\ UNCHANGED <<ledger, live, alters, tampers, history>>

(* Its UPDATE sets treatments and hash, whatever the row has become.        *)
CommitAmend(p) ==
  /\ pc[p] = "amend"
  /\ Commits(p)
  /\ plans' = [plans EXCEPT ![call[p].id].cols = call[p].plan.cols,
                            ![call[p].id].hash = call[p].plan.hash]
  /\ LET c == call[p] IN
     ledger' = Append(ledger, Record("amend", c.id, c.plan.source, c.plan.hash, c.by, c.hash))
  /\ Overtakes(p)
  /\ Return(p)
  /\ UNCHANGED <<live, alters, tampers, history>>

(* Mutant: the hash the signer names is not compared.                       *)
SignUnread(p, i, hash, by) ==
  /\ Starts(p)
  /\ i \in Proposed
  /\ plans[i].state = "draft" /\ Verified(plans[i])
  /\ Goto(p, "previous", [NoCall EXCEPT !.act = "sign", !.id = i, !.by = by,
                            !.hash = hash, !.plan = plans[i]])
  /\ overtaken' = overtaken \ {p}
  /\ UNCHANGED <<plans, ledger, live, alters, tampers, history>>

(* Sign, its transaction's first read: a draft that verifies and whose hash *)
(* is the one the signer names.                                             *)
Sign(p, i, hash, by) ==
  /\ Starts(p)
  /\ i \in Proposed
  /\ plans[i].state = "draft" /\ Verified(plans[i])
  /\ hash = plans[i].hash
  /\ Goto(p, "previous", [NoCall EXCEPT !.act = "sign", !.id = i, !.by = by,
                            !.hash = hash, !.plan = plans[i]])
  /\ overtaken' = overtaken \ {p}
  /\ UNCHANGED <<plans, ledger, live, alters, tampers, history>>

(* Its second read: the plan in force, to supersede.                        *)
FindPrevious(p) ==
  /\ pc[p] = "previous"
  /\ LET s == call[p].plan.source IN
     \/ InForce(s) = {} /\ Goto(p, "sign", call[p])
     \/ \E i \in InForce(s) :
          Goto(p, "sign", [call[p] EXCEPT !.prev = i, !.old = plans[i].hash])
  /\ UNCHANGED <<plans, ledger, live, overtaken, alters, tampers, history>>

SignedBy(i, by) == [plans EXCEPT ![i].state = "signed", ![i].signer = by]

Supersede(ps, i) == IF i = None THEN ps ELSE [ps EXCEPT ![i].state = "superseded"]

(* Mutant: the new plan is signed and the old one stays in force.           *)
CommitSignBeside(p) ==
  /\ pc[p] = "sign"
  /\ Commits(p)
  /\ LET c == call[p] IN
     /\ plans' = SignedBy(c.id, c.by)
     /\ ledger' = Append(ledger, Record("sign", c.id, c.plan.source, c.plan.hash, c.by, None))
     /\ signatures' = signatures \cup {<<c.id, c.hash>>}
  /\ Overtakes(p)
  /\ Return(p)
  /\ UNCHANGED <<live, alters, tampers, reads>>

(* Its writes: the old plan is superseded, the new one signed, each with a  *)
(* ledger line.  The unique index refuses a second plan in force.           *)
CommitSign(p) ==
  /\ pc[p] = "sign"
  /\ Commits(p)
  /\ LET c == call[p] IN
     /\ InForce(c.plan.source) \subseteq {c.id, c.prev}
     /\ plans' = Supersede(SignedBy(c.id, c.by), c.prev)
     /\ ledger' = (IF c.prev = None THEN ledger
                   ELSE Append(ledger, Record("supersede", c.prev, c.plan.source, c.old, c.by, c.old)))
                  \o <<Record("sign", c.id, c.plan.source, c.plan.hash, c.by, None)>>
     /\ signatures' = signatures \cup {<<c.id, c.hash>>}
  /\ Overtakes(p)
  /\ Return(p)
  /\ UNCHANGED <<live, alters, tampers, reads>>

-----------------------------------------------------------------------------
(* Mutant: the gate trusts the row.                                         *)
OpenUnverified(p, act, s) ==
  /\ Starts(p)
  /\ \E i \in InForce(s) :
       Goto(p, "compare", [NoCall EXCEPT !.act = act, !.id = i, !.plan = plans[i]])
  /\ UNCHANGED <<plans, ledger, live, overtaken, alters, tampers, history>>

(* Require, first half: `model gen` and `survey` find the plan in force and *)
(* verify it.                                                               *)
Open(p, act, s) ==
  /\ Starts(p)
  /\ \E i \in InForce(s) :
       /\ Verified(plans[i])
       /\ Goto(p, "compare", [NoCall EXCEPT !.act = act, !.id = i, !.plan = plans[i]])
  /\ UNCHANGED <<plans, ledger, live, overtaken, alters, tampers, history>>

(* Second half: no column of the catalogue is unclassified.                 *)
Compare(p) ==
  /\ pc[p] = "compare"
  /\ LET cat == live[call[p].plan.source] IN
     IF Unclassified(call[p].plan, cat) = {}
     THEN Goto(p, "read", [call[p] EXCEPT !.seen = cat])
     ELSE Return(p)
  /\ UNCHANGED <<plans, ledger, live, overtaken, alters, tampers, history>>

(* Introspect lists the catalogue anew and reads values of its columns;     *)
(* `survey` then profiles every one of them and is done.                    *)
Introspect(p) ==
  /\ pc[p] = "read"
  /\ LET plan == call[p].plan
         cat  == live[plan.source] IN
     /\ reads' = reads \cup {[under |-> PlanHash(plan), column |-> c,
                              listed |-> c \in Present(call[p].seen)] : c \in Present(cat)}
     /\ IF call[p].act = "survey" THEN Return(p)
        ELSE Goto(p, "draft", [call[p] EXCEPT !.seen = cat])
  /\ UNCHANGED <<plans, ledger, live, overtaken, alters, tampers, signatures>>

(* Mutant: withholding goes by the name, not by the plan.                   *)
KeptByName(plan, cat) == Present(cat) \ Personal

(* withholdRedacted: the columns that are left of an introspected schema.   *)
Kept(plan, cat) == {c \in Present(cat) : plan.cols[c] = None \/ plan.cols[c].action # "redact"}

(* A schema lists the keys of a table beside its columns: these stay.       *)
Named(plan, cat) == Kept(plan, cat) \cup (Keys \cap Present(cat))

(* HeuristicModel: a key is an entity's or a join's; a number is a measure, *)
(* unless its name or its values read as a code; the rest are dimensions.   *)
(* curate masks a dimension whose name is personal.                         *)
Part(c, cat, codes) ==
  IF c \in Keys THEN "key"
  ELSE IF cat[c] \in Numeric /\ c \notin codes THEN "metric"
  ELSE "dimension"

HeuristicModel(plan, cat, codes) ==
  {[column |-> c, part |-> Part(c, cat, codes),
    masked |-> Part(c, cat, codes) = "dimension" /\ c \in Personal] : c \in Named(plan, cat)}

(* refineWithLLM: the language model is told every name, and whatever model *)
(* it answers with, if it loads, replaces the first.  One mention stands    *)
(* for the many of an answer.                                               *)
RefinedModels(plan, cat) ==
  LET Answers == [column : Named(plan, cat), part : {"key", "dimension", "metric"},
                  masked : BOOLEAN]
  IN {{m} : m \in {n \in Answers : n.masked => n.part = "dimension"}}

(* maskPlanned: the dimensions of the columns that the plan masks.          *)
MasksDimension(plan, m) ==
  /\ m.part = "dimension"
  /\ plan.cols[m.column] # None /\ plan.cols[m.column].action = "mask"

MaskPlanned(plan, model) ==
  {[m EXCEPT !.masked = m.masked \/ MasksDimension(plan, m)] : m \in model}

(* `model gen` drafts a model of what it introspected,                      *)
Draft(p) ==
  /\ pc[p] = "draft"
  /\ LET plan == call[p].plan
         cat  == call[p].seen IN
     /\ Named(plan, cat) # {}
     /\ \E model \in {HeuristicModel(plan, cat, codes) : codes \in SUBSET Columns}
                        \cup RefinedModels(plan, cat) :
          Goto(p, "write", [call[p] EXCEPT !.model = MaskPlanned(plan, model)])
  /\ UNCHANGED <<plans, ledger, live, overtaken, alters, tampers, history>>

(* and writes it down.                                                      *)
Write(p) ==
  /\ pc[p] = "write"
  /\ Return(p)
  /\ UNCHANGED <<plans, ledger, live, overtaken, alters, tampers, history>>

-----------------------------------------------------------------------------
(* A call fails or dies: its transaction, if it has one, leaves nothing.    *)
Fail(p) ==
  /\ pc[p] # "idle"
  /\ Return(p)
  /\ UNCHANGED <<plans, ledger, live, overtaken, alters, tampers, history>>

(* The customer adds, retypes or drops a column.                            *)
Alter(s, c, t) ==
  /\ alters < MaxAlters
  /\ alters' = alters + 1
  /\ live[s][c] # t
  /\ live' = [live EXCEPT ![s][c] = t]
  /\ UNCHANGED <<plans, ledger, pc, call, overtaken, tampers, history>>

(* Somebody edits the treatments of a row and not its hash.                 *)
Tamper(i, c, action) ==
  /\ tampers < MaxTampers
  /\ tampers' = tampers + 1
  /\ i \in Proposed /\ c \in Covered(plans[i])
  /\ plans' = [plans EXCEPT ![i].cols[c].action = action]
  /\ overtaken' = {q \in Procs : pc[q] \in {"amend", "previous", "sign"}}
  /\ UNCHANGED <<ledger, live, pc, call, alters, history>>

(* Hashes a signer may have read.                                           *)
Printed == {ledger[k].to : k \in DOMAIN ledger}

Act(p) ==
  \/ \E s \in Sources, by \in People : Propose(p, s, by)
  \/ \E i \in Ids : Insert(p, i)
  \/ \E i \in Ids, target \in Targets, action \in Actions, by \in People :
       Amend(p, i, target, action, by)
  \/ CommitAmend(p)
  \/ \E i \in Ids, hash \in Printed, by \in People : Sign(p, i, hash, by)
  \/ FindPrevious(p)
  \/ CommitSign(p)
  \/ \E act \in {"gen", "survey"}, s \in Sources : Open(p, act, s)
  \/ Compare(p)
  \/ Introspect(p)
  \/ Draft(p)
  \/ Write(p)
  \/ Fail(p)

Next ==
  \/ \E p \in Procs : Act(p)
  \/ \E s \in Sources, c \in Columns, t \in Types \cup {None} : Alter(s, c, t)
  \/ \E i \in Ids, c \in Columns, action \in Actions : Tamper(i, c, action)

Spec == Init /\ [][Next]_vars

-----------------------------------------------------------------------------
(* The gate holds: whatever is proposed, amended, superseded, tampered with *)
(* or altered around it, values are read only under decisions that somebody *)
(* signed for, by their hash, and a column that was in the catalogue when   *)
(* the gate looked is one of those decided about.                           *)
GateHolds ==
  \A r \in reads :
    /\ \E s \in signatures : s[2] = r.under
    /\ r.listed => r.under.cols[r.column] # None

(* A signature binds: a plan that was ever signed carries the hash its      *)
(* signer named, though amendments were under way when it was signed.       *)
SignedAsRead ==
  \A i \in Proposed :
    plans[i].state # "draft" => <<i, plans[i].hash>> \in signatures

(* Of a database's plans, the one in force is the one that the ledger says  *)
(* was signed last, by the one it says; there is no other.                  *)
InForceIsLastSigned ==
  \A s \in Sources :
    LET signs == {k \in DOMAIN ledger : ledger[k].act = "sign" /\ ledger[k].source = s} IN
    InForce(s) = {i \in Proposed : \E k \in signs :
                    /\ ledger[k].plan = i
                    /\ ledger[k].by = plans[i].signer
                    /\ \A l \in signs : l <= k}

StateAfter == [propose |-> "draft", amend |-> "draft", sign |-> "signed",
               supersede |-> "superseded"]

(* "Every act, in order, with the hash before and after it": a plan's lines *)
(* lead from its proposal to its present state and hash without a gap.      *)
LedgerReplays ==
  \A i \in Proposed :
    LET lines == {k \in DOMAIN ledger : ledger[k].plan = i} IN
    \E last \in lines :
      /\ \A k \in lines : k <= last
      /\ plans[i].state = StateAfter[ledger[last].act]
      /\ plans[i].hash = ledger[last].to
      /\ \A k \in lines : ledger[k].act = "amend" =>
           \E l \in lines : /\ l < k /\ ledger[l].to = ledger[k].from
                            /\ \A m \in lines : ~(l < m /\ m < k)

(* A model that `model gen` drafts names a column that its plan redacts only *)
(* where a key is declared on it, and has no dimension without a mask on a  *)
(* column that its plan masks, though the catalogue was read after the gate *)
(* and a language model may have rewritten the draft before it is written.  *)
DraftKeepsPlan ==
  \A p \in Procs : \A m \in call[p].model :
    LET t == call[p].plan.cols[m.column] IN
    t # None => /\ t.action = "redact" => m.column \in Keys
                /\ t.action = "mask" /\ m.part = "dimension" => m.masked

(* "A redacted column never reaches the draft model ... its name included". *)
(* The code keeps this of columns without a declared key only.              *)
RedactedNotNamed ==
  \A p \in Procs : \A m \in call[p].model :
    LET t == call[p].plan.cols[m.column] IN t # None => t.action # "redact"

(* A column that the plan redacts "is not read at all".                     *)
RedactedNotRead ==
  \A r \in reads :
    LET t == r.under.cols[r.column] IN t # None => t.action # "redact"

(* "A signed plan is never edited; a new one supersedes it": once signed, a *)
(* plan's decisions and hash stay, tampering aside, and its state only goes *)
(* on to superseded.                                                        *)
SignedStepwise ==
  \A i \in Proposed :
    plans[i].state # "draft" =>
      /\ plans'[i] # None
      /\ plans'[i].hash = plans[i].hash
      /\ plans'[i].cols = plans[i].cols \/ tampers' # tampers
      /\ plans'[i].state \in {plans[i].state, "superseded"}

SignedNeverEdited == [][SignedStepwise]_vars

=============================================================================
