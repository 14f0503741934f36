--------------------------- MODULE WriteBackProofs ---------------------------
(***************************************************************************)
(* Theorems about WriteBack for any number of handlers, proposals, rows    *)
(* and deaths: it is well typed, the duties stay separated, the trail      *)
(* tells the truth, a decision is never reopened and the model is kept.    *)
(* For one handler at a time, none of which dies: the status of a change   *)
(* tells its effect, and the write path implements ReviewedChange.         *)
(***************************************************************************)
EXTENDS WriteBackPromise, TLAPS

(* What each label says of the proposal its handler holds: a decision is    *)
(* written into the copy before it is saved, so that save never puts a      *)
(* pending document back; only data changes reach the table's statements.   *)
LabelsFit ==
  \A h \in Handlers :
    /\ pc[h] \in {"snapshot", "exec"} \cup OnModel => doc[h].status = "pending"
    /\ pc[h] = "undo" => doc[h].status = "committed"
    /\ pc[h] \in {"save", "audit"} => doc[h].status # "pending"
    /\ pc[h] \in OnData => doc[h].change.op # "model"

-----------------------------------------------------------------------------
(* The table operators stay within the table.                               *)

LEMMA CapturedType ==
  ASSUME NEW c \in Changes, NEW r \in Image
  PROVE  Captured(c, r) \in Image
  BY DEF Captured, Image, NoRows, Matching

LEMMA ExecutedType ==
  ASSUME NEW c \in Changes, c.op # "model", NEW r \in Image
  PROVE  Executed(c, r) \in Image
<1> USE ChangesAssumption DEF Image, Change, Valid
<1>1. CASE c.op = "insert"
  BY <1>1, MarkersAssumption DEF Executed
<1>2. CASE c.op = "delete"
  BY <1>2 DEF Executed
<1>3. CASE c.op = "update" /\ c.setKey = Keep
  BY <1>3 DEF Executed, NewVal
<1>4. CASE c.op = "update" /\ c.setKey # Keep
  <2> DEFINE hit == Matching(c, r)
  <2>1. hit # {} => (CHOOSE j \in hit : TRUE) \in Keys
    BY DEF Matching
  <2>2. QED
    BY <2>1, <1>4 DEF Executed, NewVal
<1>5. QED
  BY <1>1, <1>2, <1>3, <1>4

LEMMA UndoneType ==
  ASSUME NEW c \in Changes, c.op # "model", NEW image \in Image, NEW r \in Image
  PROVE  Undone(c, image, r) \in Image
<1> USE ChangesAssumption DEF Image, Change, Valid
<1>1. CASE c.op = "insert"
  BY <1>1, MarkersAssumption DEF Undone
<1>2. CASE c.op = "delete"
  BY <1>2 DEF Undone
<1>3. CASE c.op = "update"
  BY <1>3 DEF Undone
<1>4. QED
  BY <1>1, <1>2, <1>3

(* A decision to apply a change leads to the statements of its kind.        *)
LEMMA FirstStepFits ==
  ASSUME NEW c \in Changes
  PROVE  /\ FirstStep(c) \in {"exec", "snapshot", "merge"}
         /\ FirstStep(c) = "merge" <=> c.op = "model"
  BY ChangesAssumption DEF FirstStep, Change

(* The model file holds an entry for each proposal.                         *)
LEMMA ModelType ==
  /\ Broken \in Model
  /\ \A m \in Model, id \in Ids : [m EXCEPT ![id] = @ + 1] \in Model
  BY DEF Broken, Model

-----------------------------------------------------------------------------
LEMMA InitTypeOK == Init => TypeOK
<1> SUFFICES ASSUME Init PROVE TypeOK
  OBVIOUS
<1>1. model \in Model
  BY DEF Init, Broken, Model
<1>2. QED
  BY <1>1, RowsAssumption, MarkersAssumption DEF Init, TypeOK, Labels, OnData, OnModel, Holding

LEMMA NextTypeOK == TypeOK /\ LabelsFit /\ [Next]_vars => TypeOK'
<1> SUFFICES ASSUME TypeOK, LabelsFit, [Next]_vars PROVE TypeOK'
  OBVIOUS
<1> USE MarkersAssumption DEF TypeOK, Labels, OnData, OnModel, Holding
<1>1. ASSUME NEW id \in Ids, NEW p \in Principals, NEW c \in Changes, Propose(id, p, c)
      PROVE  TypeOK'
  <2>1. Captured(c, rows) \in Image
    BY CapturedType
  <2>2. [id |-> id, status |-> "pending", proposer |-> p, approver |-> Nobody,
         change |-> c, before |-> Captured(c, rows)] \in Proposal
    BY <2>1 DEF Proposal, Status
  <2>3. QED
    BY <1>1, <2>2 DEF Propose, effects
<1>2. ASSUME NEW h \in Handlers, NEW label \in Labels \ {"idle"}, NEW q \in Proposal,
             label \notin Holding, Hold(h, label, q)
      PROVE  TypeOK'
  BY <1>2 DEF Hold, effects
<1>3. ASSUME NEW h \in Handlers, Request(h)
      PROVE  TypeOK'
  <2>1. PICK p \in Principals, id \in Ids :
          LoadApprove(h, p, id) \/ LoadReject(h, p, id) \/ LoadRollback(h, p, id)
    BY <1>3 DEF Request
  <2>2. stored[id] \in Proposal
    BY <2>1 DEF LoadApprove, LoadReject, LoadRollback, HasStatus
  <2>3. [stored[id] EXCEPT !.approver = p] \in Proposal
    BY <2>2 DEF Proposal
  <2>4. [stored[id] EXCEPT !.approver = p, !.status = "rejected"] \in Proposal
    BY <2>2 DEF Proposal, Status
  <2>5. FirstStep(stored[id].change) \in {"exec", "snapshot", "merge"}
    BY <2>2, FirstStepFits DEF Proposal
  <2>6. CASE LoadApprove(h, p, id)
    <3>1. Hold(h, FirstStep(stored[id].change), [stored[id] EXCEPT !.approver = p])
      BY <2>6 DEF LoadApprove
    <3>2. QED
      BY <1>2, <2>3, <2>5, <3>1
  <2>7. CASE LoadReject(h, p, id)
    <3> DEFINE d == [stored[id] EXCEPT !.approver = p, !.status = "rejected"]
    <3>1. Hold(h, "save", d) /\ d \in Proposal
      BY <2>4, <2>7 DEF LoadReject
    <3> HIDE DEF d
    <3>2. QED
      BY <1>2, <3>1
  <2>8. CASE LoadRollback(h, p, id)
    <3>1. Hold(h, "undo", stored[id])
      BY <2>8 DEF LoadRollback
    <3>2. QED
      BY <1>2, <2>2, <3>1
  <2>9. QED
    BY <2>1, <2>6, <2>7, <2>8
<1>4. ASSUME NEW h \in Handlers, Snapshot(h)
      PROVE  TypeOK'
  <2>1. doc[h] \in Proposal
    BY <1>4 DEF Snapshot
  <2>2. [doc[h] EXCEPT !.before = Captured(doc[h].change, rows)] \in Proposal
    BY <2>1, CapturedType DEF Proposal
  <2>3. QED
    BY <1>4, <2>1, <2>2 DEF Snapshot, Return, effects
<1>5. ASSUME NEW h \in Handlers, Exec(h)
      PROVE  TypeOK'
  <2>1. doc[h] \in Proposal
    BY <1>5 DEF Exec
  <2>2. /\ [doc[h] EXCEPT !.status = "committed"] \in Proposal
        /\ doc[h].change \in Changes
        /\ doc[h].change.op # "model"
        /\ doc[h].id \in Ids
    BY <1>5, <2>1 DEF Exec, LabelsFit, Proposal, Status
  <2>3. Executed(doc[h].change, rows) \in Image
    BY <2>2, ExecutedType
  <2>4. QED
    BY <1>5, <2>2, <2>3 DEF Exec, Return, effects
<1>6. ASSUME NEW h \in Handlers, Undo(h)
      PROVE  TypeOK'
  <2>1. doc[h] \in Proposal
    BY <1>6 DEF Undo
  <2>2. /\ [doc[h] EXCEPT !.status = "rolled_back"] \in Proposal
        /\ doc[h].change \in Changes
        /\ doc[h].change.op # "model"
        /\ doc[h].before \in Image
        /\ doc[h].id \in Ids
    BY <1>6, <2>1 DEF Undo, LabelsFit, Proposal, Status
  <2>3. Undone(doc[h].change, doc[h].before, rows) \in Image
    BY <2>2, UndoneType
  <2>4. QED
    BY <1>6, <2>2, <2>3 DEF Undo, Return, effects
<1>7. ASSUME NEW h \in Handlers, Save(h)
      PROVE  TypeOK'
  <2>1. doc[h] \in Proposal /\ doc[h].id \in Ids
    BY <1>7 DEF Save, Proposal
  <2>2. QED
    BY <1>7, <2>1 DEF Save, effects
<1>8. ASSUME NEW h \in Handlers, WriteAudit(h)
      PROVE  TypeOK'
  <2>1. /\ doc[h] \in Proposal
        /\ doc[h].id \in Ids
        /\ doc[h].status \in Status \ {"pending"}
    BY <1>8 DEF WriteAudit, Proposal, LabelsFit
  <2>2. ActionOf(doc[h].status) \in Actions
    BY <2>1 DEF ActionOf, Actions, Status
  <2>3. QED
    BY <1>8, <2>1, <2>2 DEF WriteAudit, Return, effects
<1>9. ASSUME NEW h \in Handlers, Die(h)
      PROVE  TypeOK'
  BY <1>9 DEF Die, Return, effects
<1>10. ASSUME NEW h \in Handlers, Merge(h)
      PROVE  TypeOK'
  <2>1. doc[h].id \in Ids
    BY <1>10 DEF Merge, Proposal
  <2>2. [model EXCEPT ![doc[h].id] = @ + 1] \in Model
    BY <2>1, ModelType
  <2>3. QED
    BY <1>10, <2>2 DEF Merge, Return, effects
<1>11. ASSUME NEW h \in Handlers, Backup(h)
      PROVE  TypeOK'
  BY <1>11 DEF Backup
<1>12. ASSUME NEW h \in Handlers, Truncate(h)
      PROVE  TypeOK'
  BY <1>12, ModelType DEF Truncate
<1>13. ASSUME NEW h \in Handlers, WriteModel(h)
      PROVE  TypeOK'
  <2>1. doc[h] \in Proposal /\ merged[h] \in Model
    BY <1>13 DEF WriteModel
  <2>2. [doc[h] EXCEPT !.status = "committed"] \in Proposal /\ doc[h].id \in Ids
    BY <2>1 DEF Proposal, Status
  <2>3. model' \in Model
    BY <1>13, <2>1, ModelType DEF WriteModel
  <2>4. QED
    BY <1>13, <2>1, <2>2, <2>3 DEF WriteModel
<1>14. CASE UNCHANGED vars
  BY <1>14 DEF vars
<1>15. QED
  BY <1>1, <1>3, <1>4, <1>5, <1>6, <1>7, <1>8, <1>9, <1>10, <1>11, <1>12, <1>13, <1>14
     DEF Next, Continue

-----------------------------------------------------------------------------
LEMMA InitLabelsFit == Init => LabelsFit
  BY DEF Init, LabelsFit, OnData, OnModel, Holding

LEMMA NextLabelsFit == TypeOK /\ LabelsFit /\ [Next]_vars => LabelsFit'
<1> SUFFICES ASSUME TypeOK, LabelsFit, [Next]_vars PROVE LabelsFit'
  OBVIOUS
<1> USE DEF LabelsFit, OnData, OnModel, Holding
<1>1. ASSUME NEW id \in Ids, NEW p \in Principals, NEW c \in Changes, Propose(id, p, c)
      PROVE  LabelsFit'
  BY <1>1 DEF Propose
<1>2. ASSUME NEW h \in Handlers, Request(h)
      PROVE  LabelsFit'
  <2>1. PICK p \in Principals, id \in Ids :
          LoadApprove(h, p, id) \/ LoadReject(h, p, id) \/ LoadRollback(h, p, id)
    BY <1>2 DEF Request
  <2>2. stored[id] \in Proposal
    BY <2>1 DEF LoadApprove, LoadReject, LoadRollback, HasStatus, TypeOK
  <2>3. CASE LoadApprove(h, p, id)
    <3> DEFINE d == [stored[id] EXCEPT !.approver = p]
    <3>1. /\ d.status = "pending"
          /\ d.change = stored[id].change
          /\ stored[id].change \in Changes
      BY <2>2, <2>3 DEF LoadApprove, HasStatus, Proposal
    <3>2. /\ doc' = [doc EXCEPT ![h] = d]
          /\ pc' = [pc EXCEPT ![h] = FirstStep(d.change)]
      BY <2>3, <3>1 DEF LoadApprove, Hold
    <3>3. /\ FirstStep(d.change) \in {"exec", "snapshot", "merge"}
          /\ FirstStep(d.change) = "merge" <=> d.change.op = "model"
      BY <3>1, FirstStepFits
    <3> HIDE DEF d
    <3>4. QED
      BY <3>1, <3>2, <3>3 DEF TypeOK
  <2>4. CASE LoadReject(h, p, id)
    <3>1. [stored[id] EXCEPT !.approver = p, !.status = "rejected"].status = "rejected"
      BY <2>2 DEF Proposal
    <3>2. QED
      BY <2>4, <3>1 DEF LoadReject, Hold, TypeOK
  <2>5. CASE LoadRollback(h, p, id)
    BY <2>5 DEF LoadRollback, Hold, HasStatus, TypeOK
  <2>6. QED
    BY <2>1, <2>3, <2>4, <2>5
<1>3. ASSUME NEW h \in Handlers, Snapshot(h)
      PROVE  LabelsFit'
  <2>1. doc[h] \in Proposal /\ doc[h].status = "pending"
    BY <1>3 DEF Snapshot, TypeOK
  <2> DEFINE d == [doc[h] EXCEPT !.before = Captured(doc[h].change, rows)]
  <2>2. d.status = "pending" /\ d.change = doc[h].change /\ d.change.op # "model"
    BY <1>3, <2>1 DEF Snapshot, Proposal
  <2>3. \/ doc' = [doc EXCEPT ![h] = d] /\ pc' = [pc EXCEPT ![h] = "exec"]
        \/ doc' = [doc EXCEPT ![h] = NoProposal] /\ pc' = [pc EXCEPT ![h] = "idle"]
    BY <1>3 DEF Snapshot, Return
  <2> HIDE DEF d
  <2>4. QED
    BY <2>2, <2>3 DEF TypeOK
<1>4. ASSUME NEW h \in Handlers, Exec(h)
      PROVE  LabelsFit'
  <2>1. doc[h] \in Proposal
    BY <1>4 DEF Exec, TypeOK
  <2> DEFINE d == [doc[h] EXCEPT !.status = "committed"]
  <2>2. d.status = "committed"
    BY <2>1 DEF Proposal
  <2>3. \/ doc' = [doc EXCEPT ![h] = d] /\ pc' = [pc EXCEPT ![h] = "save"]
        \/ doc' = [doc EXCEPT ![h] = NoProposal] /\ pc' = [pc EXCEPT ![h] = "idle"]
    BY <1>4 DEF Exec, Return
  <2> HIDE DEF d
  <2>4. QED
    BY <2>2, <2>3 DEF TypeOK
<1>5. ASSUME NEW h \in Handlers, Undo(h)
      PROVE  LabelsFit'
  <2>1. doc[h] \in Proposal
    BY <1>5 DEF Undo, TypeOK
  <2> DEFINE d == [doc[h] EXCEPT !.status = "rolled_back"]
  <2>2. d.status = "rolled_back"
    BY <2>1 DEF Proposal
  <2>3. \/ doc' = [doc EXCEPT ![h] = d] /\ pc' = [pc EXCEPT ![h] = "save"]
        \/ doc' = [doc EXCEPT ![h] = NoProposal] /\ pc' = [pc EXCEPT ![h] = "idle"]
    BY <1>5 DEF Undo, Return
  <2> HIDE DEF d
  <2>4. QED
    BY <2>2, <2>3 DEF TypeOK
<1>6. ASSUME NEW h \in Handlers, Save(h)
      PROVE  LabelsFit'
  BY <1>6 DEF Save, TypeOK
<1>7. ASSUME NEW h \in Handlers, WriteAudit(h) \/ Die(h)
      PROVE  LabelsFit'
  BY <1>7 DEF WriteAudit, Die, Return, TypeOK
<1>8. ASSUME NEW h \in Handlers, Merge(h) \/ Backup(h) \/ Truncate(h)
      PROVE  LabelsFit'
  BY <1>8 DEF Merge, Backup, Truncate, Return, TypeOK
<1>9. ASSUME NEW h \in Handlers, WriteModel(h)
      PROVE  LabelsFit'
  <2>1. doc[h] \in Proposal
    BY <1>9 DEF WriteModel, TypeOK
  <2>2. [doc[h] EXCEPT !.status = "committed"].status = "committed"
    BY <2>1 DEF Proposal
  <2>3. QED
    BY <1>9, <2>2 DEF WriteModel, TypeOK
<1>10. CASE UNCHANGED vars
  BY <1>10 DEF vars
<1>11. QED
  BY <1>1, <1>2, <1>3, <1>4, <1>5, <1>6, <1>7, <1>8, <1>9, <1>10 DEF Next, Continue

(* The state of the write path is always well typed: what the handlers race *)
(* to write back is a proposal, the table stays a table and every audit     *)
(* line names an action (engine.go:62-113, 165-217, 278-299).               *)
THEOREM TypeCorrect == Spec => [](TypeOK /\ LabelsFit)
<1>1. Init => TypeOK /\ LabelsFit
  BY InitTypeOK, InitLabelsFit
<1>2. TypeOK /\ LabelsFit /\ [Next]_vars => (TypeOK /\ LabelsFit)'
  BY NextTypeOK, NextLabelsFit
<1>3. QED
  BY <1>1, <1>2, PTL DEF Spec
-----------------------------------------------------------------------------
(* The invariant behind the separation of duties, the truth of the trail    *)
(* and the finality of decisions: a stored proposal is filed under its own  *)
(* id, so that what holds of the copy a handler saves holds of the record   *)
(* it overwrites.                                                           *)
FiledById == \A id \in Ids : stored[id] # NoProposal => stored[id].id = id

IInv == TypeOK /\ LabelsFit /\ FiledById /\ DutiesSeparated /\ TrailTellsTruth

LEMMA InitIInv == Init => IInv
<1> SUFFICES ASSUME Init PROVE IInv
  OBVIOUS
<1>1. TypeOK /\ LabelsFit
  BY InitTypeOK, InitLabelsFit
<1>2. InForce = {} /\ \A h \in Handlers : pc[h] = "idle"
  BY DEF Init, InForce
<1>3. QED
  BY <1>1, <1>2 DEF Init, IInv, FiledById, DutiesSeparated, TrailTellsTruth,
                    OnData, OnModel, Holding

(* DutiesSeparated and TrailTellsTruth speak of every proposal in force.    *)
(* In each step one of them appears, a copy of one that was there or a      *)
(* change of one, and the others were there before.                         *)
Backed(p) ==
  /\ p.status \in {"committed", "rolled_back"} => p.approver \in Approvers \ {p.proposer}
  /\ p.status = "committed" => applied[p.id] > 0
  /\ p.status = "rolled_back" => undone[p.id] > 0

Busy(h) == pc[h] \in OnData \cup OnModel =>
             doc[h].approver \in Approvers \ {doc[h].proposer}

Trail == \A id \in Ids :
           /\ <<id, "commit">> \in audit => applied[id] > 0
           /\ <<id, "rollback">> \in audit => undone[id] > 0
           /\ undone[id] > 0 => applied[id] > 0

LEMMA IInvByParts ==
  DutiesSeparated /\ TrailTellsTruth <=>
    /\ \A p \in InForce : Backed(p)
    /\ \A h \in Handlers : Busy(h)
    /\ Trail
  BY DEF DutiesSeparated, TrailTellsTruth, Backed, Busy, Trail

LEMMA NextIInv == IInv /\ [Next]_vars => IInv'
<1> SUFFICES ASSUME IInv, [Next]_vars PROVE IInv'
  OBVIOUS
<1> USE DEF OnData, OnModel, Holding
<1>1. TypeOK' /\ LabelsFit'
  BY NextTypeOK, NextLabelsFit DEF IInv
<1>2. /\ TypeOK /\ LabelsFit /\ FiledById
      /\ \A p \in InForce : Backed(p)
      /\ \A h \in Handlers : Busy(h)
      /\ Trail
  BY IInvByParts DEF IInv
<1>3. ASSUME NEW id \in Ids, NEW p \in Principals, NEW c \in Changes, Propose(id, p, c)
      PROVE  FiledById' /\ (\A q \in InForce' : Backed(q)') /\ (\A h \in Handlers : Busy(h)') /\ Trail'
  <2>1. \A q \in InForce' : q \in InForce \/ q.status = "pending"
    BY <1>3, <1>2 DEF Propose, InForce, TypeOK
  <2>2. QED
    BY <1>3, <1>2, <2>1 DEF Propose, effects, FiledById, Backed, Busy, Trail, TypeOK
<1>4. ASSUME NEW h \in Handlers, Request(h)
      PROVE  FiledById' /\ (\A q \in InForce' : Backed(q)') /\ (\A g \in Handlers : Busy(g)') /\ Trail'
  <2>1. PICK p \in Principals, id \in Ids :
          LoadApprove(h, p, id) \/ LoadReject(h, p, id) \/ LoadRollback(h, p, id)
    BY <1>4 DEF Request
  <2>2. stored[id] \in Proposal /\ stored[id] \in InForce
    BY <2>1, <1>2 DEF LoadApprove, LoadReject, LoadRollback, HasStatus, TypeOK, InForce
  <2>3. UNCHANGED <<effects, stored, audit>> /\ doc' = [doc EXCEPT ![h] = doc'[h]]
        /\ pc' = [pc EXCEPT ![h] = pc'[h]]
    BY <2>1, <1>2 DEF LoadApprove, LoadReject, LoadRollback, Hold, TypeOK
  <2>4. \A q \in InForce' : q \in InForce \/ q = doc'[h]
    BY <2>3, <1>2 DEF InForce, TypeOK
  <2>5. Backed(doc'[h]) /\ Busy(h)'
    <3>1. CASE LoadApprove(h, p, id)
      <4> DEFINE d == [stored[id] EXCEPT !.approver = p]
      <4>1. d.status = "pending" /\ d.approver = p /\ d.proposer = stored[id].proposer
        BY <3>1, <2>2 DEF LoadApprove, HasStatus, Proposal
      <4>2. doc'[h] = d
        BY <3>1, <1>2 DEF LoadApprove, Hold, TypeOK
      <4>3. QED
        BY <4>1, <4>2, <3>1 DEF LoadApprove, Backed, Busy
    <3>2. CASE LoadReject(h, p, id)
      <4> DEFINE d == [stored[id] EXCEPT !.approver = p, !.status = "rejected"]
      <4>1. d.status = "rejected"
        BY <2>2 DEF Proposal
      <4>2. doc'[h] = d /\ pc'[h] = "save"
        BY <3>2, <1>2 DEF LoadReject, Hold, TypeOK
      <4>3. QED
        BY <4>1, <4>2 DEF Backed, Busy
    <3>3. CASE LoadRollback(h, p, id)
      <4>1. doc'[h] = stored[id]
        BY <3>3, <1>2 DEF LoadRollback, Hold, TypeOK
      <4>2. QED
        BY <4>1, <3>3, <2>2, <1>2 DEF LoadRollback, HasStatus, Backed, Busy
    <3>4. QED
      BY <2>1, <3>1, <3>2, <3>3
  <2>6. QED
    BY <2>3, <2>4, <2>5, <1>2 DEF effects, FiledById, Backed, Busy, Trail, TypeOK
<1>5. ASSUME NEW h \in Handlers, Snapshot(h)
      PROVE  FiledById' /\ (\A q \in InForce' : Backed(q)') /\ (\A g \in Handlers : Busy(g)') /\ Trail'
  <2> DEFINE d == [doc[h] EXCEPT !.before = Captured(doc[h].change, rows)]
  <2>1. /\ doc[h] \in Proposal
        /\ d.status = "pending" /\ d.approver = doc[h].approver
        /\ d.proposer = doc[h].proposer
    BY <1>5, <1>2 DEF Snapshot, TypeOK, LabelsFit, Proposal
  <2>2. UNCHANGED <<effects, stored, audit>>
    BY <1>5 DEF Snapshot
  <2>3. \/ doc' = [doc EXCEPT ![h] = d] /\ pc' = [pc EXCEPT ![h] = "exec"]
        \/ doc' = [doc EXCEPT ![h] = NoProposal] /\ pc' = [pc EXCEPT ![h] = "idle"]
    BY <1>5 DEF Snapshot, Return
  <2>4. \A q \in InForce' : q \in InForce \/ q = d
    BY <2>2, <2>3, <1>2 DEF InForce, TypeOK
  <2>5. Backed(d)
    BY <2>1 DEF Backed
  <2>6. \A g \in Handlers : Busy(g)'
    BY <2>1, <2>3, <1>2, <1>5 DEF Busy, Snapshot, TypeOK
  <2>7. QED
    BY <2>2, <2>4, <2>5, <2>6, <1>2 DEF effects, FiledById, Backed, Trail
<1>6. ASSUME NEW h \in Handlers, Exec(h) \/ Undo(h)
      PROVE  FiledById' /\ (\A q \in InForce' : Backed(q)') /\ (\A g \in Handlers : Busy(g)') /\ Trail'
  <2>1. /\ doc[h] \in Proposal /\ doc[h] \in InForce /\ doc[h].id \in Ids
        /\ UNCHANGED <<stored, audit>>
    BY <1>6, <1>2 DEF Exec, Undo, TypeOK, InForce, Proposal
  <2>2. CASE pc'[h] = "idle"
    <3>1. UNCHANGED effects /\ Return(h)
      BY <1>6, <2>2, <1>2 DEF Exec, Undo, TypeOK
    <3>2. \A q \in InForce' : q \in InForce
      BY <3>1, <2>1, <1>2 DEF Return, InForce, TypeOK
    <3>3. QED
      BY <3>1, <3>2, <2>1, <1>2 DEF effects, Return, FiledById, Backed, Busy, Trail, TypeOK
  <2>3. CASE pc'[h] # "idle"
    <3>1. PICK s \in {"committed", "rolled_back"} :
            /\ doc' = [doc EXCEPT ![h].status = s]
            /\ pc' = [pc EXCEPT ![h] = "save"]
            /\ s = "committed" => Exec(h) /\ applied' = [applied EXCEPT ![doc[h].id] = @ + 1]
                                 /\ undone' = undone
            /\ s = "rolled_back" => Undo(h) /\ undone' = [undone EXCEPT ![doc[h].id] = @ + 1]
                                   /\ applied' = applied
      BY <1>6, <2>3, <1>2 DEF Exec, Undo, Return, TypeOK
    <3> DEFINE d == [doc[h] EXCEPT !.status = s]
    <3>2. /\ d.status = s /\ d.approver = doc[h].approver
          /\ d.proposer = doc[h].proposer /\ d.id = doc[h].id
          /\ doc'[h] = d
      BY <2>1, <3>1, <1>2 DEF Proposal, TypeOK
    <3>3. \A q \in InForce' : q \in InForce \/ q = d
      BY <2>1, <3>1, <3>2, <1>2 DEF InForce, TypeOK
    <3>4. doc[h].approver \in Approvers \ {doc[h].proposer}
      BY <1>2, <1>6 DEF Busy, Exec, Undo
    <3>5. \A i \in Ids : /\ applied[i] > 0 => applied'[i] > 0
                         /\ undone[i] > 0 => undone'[i] > 0
      BY <3>1, <2>1, <1>2 DEF TypeOK
    <3>6. \A q : q = d => Backed(q)'
      BY <3>1, <3>2, <3>4, <2>1, <1>2 DEF Backed, TypeOK
    <3>7. \A q \in InForce : q.id \in Ids
      BY <1>2 DEF InForce, TypeOK, Proposal
    <3>8. \A q \in InForce' : Backed(q)'
      BY <3>3, <3>5, <3>6, <3>7, <1>2 DEF Backed
    <3>9. s = "rolled_back" => applied[doc[h].id] > 0
      BY <3>1, <2>1, <1>2 DEF Undo, LabelsFit, Backed
    <3>10. Trail'
      BY <3>1, <3>5, <3>9, <2>1, <1>2 DEF Trail, TypeOK
    <3>11. \A g \in Handlers : Busy(g)'
      BY <3>1, <1>2 DEF Busy, TypeOK
    <3>12. QED
      BY <2>1, <3>8, <3>10, <3>11, <1>2 DEF FiledById
  <2>4. QED
    BY <2>2, <2>3
<1>7. ASSUME NEW h \in Handlers, Save(h)
      PROVE  FiledById' /\ (\A q \in InForce' : Backed(q)') /\ (\A g \in Handlers : Busy(g)') /\ Trail'
  <2>1. doc[h] \in Proposal /\ doc[h] \in InForce /\ doc[h].id \in Ids
    BY <1>7, <1>2 DEF Save, TypeOK, InForce, Proposal
  <2>2. \A q \in InForce' : q \in InForce
    BY <1>7, <2>1, <1>2 DEF Save, InForce, TypeOK
  <2>3. FiledById'
    BY <1>7, <2>1, <1>2 DEF Save, FiledById, TypeOK
  <2>4. QED
    BY <1>7, <2>2, <2>3, <1>2 DEF Save, effects, Backed, Busy, Trail, TypeOK
<1>8. ASSUME NEW h \in Handlers, WriteAudit(h)
      PROVE  FiledById' /\ (\A q \in InForce' : Backed(q)') /\ (\A g \in Handlers : Busy(g)') /\ Trail'
  <2>1. /\ doc[h] \in Proposal /\ doc[h] \in InForce /\ doc[h].id \in Ids
        /\ doc[h].status \in Status \ {"pending"} /\ Backed(doc[h])
    BY <1>8, <1>2 DEF WriteAudit, TypeOK, InForce, Proposal, LabelsFit
  <2>2. \A q \in InForce' : q \in InForce
    BY <1>8, <1>2 DEF WriteAudit, Return, InForce, TypeOK
  <2>3. Trail'
    BY <1>8, <2>1, <1>2 DEF WriteAudit, ActionOf, Status, effects, Trail, Backed
  <2>4. QED
    BY <1>8, <2>2, <2>3, <1>2 DEF WriteAudit, Return, effects, FiledById, Backed, Busy, TypeOK
<1>9. ASSUME NEW h \in Handlers, Die(h)
      PROVE  FiledById' /\ (\A q \in InForce' : Backed(q)') /\ (\A g \in Handlers : Busy(g)') /\ Trail'
  <2>1. \A q \in InForce' : q \in InForce
    BY <1>9, <1>2 DEF Die, Return, InForce, TypeOK
  <2>2. QED
    BY <1>9, <2>1, <1>2 DEF Die, Return, effects, FiledById, Backed, Busy, Trail, TypeOK
<1>10. CASE UNCHANGED vars
  BY <1>10 DEF vars, IInv, TypeOK, LabelsFit, FiledById, DutiesSeparated, TrailTellsTruth, InForce
<1>11. ASSUME NEW h \in Handlers, Merge(h) \/ Backup(h) \/ Truncate(h)
      PROVE  FiledById' /\ (\A q \in InForce' : Backed(q)') /\ (\A g \in Handlers : Busy(g)') /\ Trail'
  <2>1. /\ UNCHANGED <<stored, audit, applied, undone>>
        /\ \/ doc' = doc /\ pc[h] # "idle" /\ \E l \in OnModel : pc' = [pc EXCEPT ![h] = l]
           \/ Return(h)
    BY <1>11 DEF Merge, Backup, Truncate, effects
  <2>2. \A q \in InForce' : q \in InForce
    BY <2>1, <1>2 DEF Return, InForce, TypeOK
  <2>3. \A g \in Handlers : Busy(g)'
    BY <2>1, <1>2, <1>11 DEF Return, Busy, TypeOK, Merge, Backup, Truncate
  <2>4. QED
    BY <2>1, <2>2, <2>3, <1>2 DEF FiledById, Backed, Trail
<1>12. ASSUME NEW h \in Handlers, WriteModel(h)
      PROVE  FiledById' /\ (\A q \in InForce' : Backed(q)') /\ (\A g \in Handlers : Busy(g)') /\ Trail'
  <2> DEFINE d == [doc[h] EXCEPT !.status = "committed"]
  <2>1. /\ doc[h] \in Proposal /\ doc[h].id \in Ids
        /\ doc[h].approver \in Approvers \ {doc[h].proposer}
    BY <1>12, <1>2 DEF WriteModel, TypeOK, Proposal, Busy
  <2>2. /\ d.status = "committed" /\ d.approver = doc[h].approver
        /\ d.proposer = doc[h].proposer /\ d.id = doc[h].id
    BY <2>1 DEF Proposal
  <2>3. /\ UNCHANGED <<stored, audit, undone>>
        /\ applied' = [applied EXCEPT ![doc[h].id] = @ + 1]
        /\ doc' = [doc EXCEPT ![h] = d]
        /\ pc' = [pc EXCEPT ![h] = "save"]
    BY <1>12 DEF WriteModel
  <2> HIDE DEF d
  <2>4. \A q \in InForce' : q \in InForce \/ q = d
    BY <2>3, <1>2 DEF InForce, TypeOK
  <2>5. \A i \in Ids : applied[i] > 0 => applied'[i] > 0
    BY <2>1, <2>3, <1>2 DEF TypeOK
  <2>6. \A q : q = d => Backed(q)'
    BY <2>1, <2>2, <2>3, <1>2 DEF Backed, TypeOK
  <2>7. \A q \in InForce : q.id \in Ids
    BY <1>2 DEF InForce, TypeOK, Proposal
  <2>8. \A q \in InForce' : Backed(q)'
    BY <2>3, <2>4, <2>5, <2>6, <2>7, <1>2 DEF Backed
  <2>9. Trail' /\ FiledById' /\ \A g \in Handlers : Busy(g)'
    BY <2>3, <2>5, <1>2 DEF Trail, FiledById, Busy, TypeOK
  <2>10. QED
    BY <2>8, <2>9
<1>13. CASE Next
  <2>1. FiledById' /\ (\A q \in InForce' : Backed(q)') /\ (\A h \in Handlers : Busy(h)') /\ Trail'
    BY <1>3, <1>4, <1>5, <1>6, <1>7, <1>8, <1>9, <1>13, <1>11, <1>12 DEF Next, Continue
  <2>2. DutiesSeparated' /\ TrailTellsTruth'
    BY <2>1 DEF DutiesSeparated, TrailTellsTruth, Backed, Busy, Trail
  <2>3. QED
    BY <1>1, <2>1, <2>2 DEF IInv
<1>14. QED
  BY <1>10, <1>13

LEMMA Invariance == Spec => []IInv
  BY InitIInv, NextIInv, PTL DEF Spec

(* Whatever the handlers race and wherever they die, what changed the table *)
(* was approved by an approver other than its proposer (engine.go:70-76).   *)
THEOREM SeparationOfDuties == Spec => []DutiesSeparated
<1>1. IInv => DutiesSeparated
  BY DEF IInv
<1>2. QED
  BY <1>1, Invariance, PTL

(* The records and the audit trail never claim an effect that did not       *)
(* happen (engine.go:84-92, 182-215).                                       *)
THEOREM TruthfulTrail == Spec => []TrailTellsTruth
<1>1. IInv => TrailTellsTruth
  BY DEF IInv
<1>2. QED
  BY <1>1, Invariance, PTL

(* No interleaving of decisions makes a decided proposal pending again      *)
(* (engine.go:67-69, 102-104, 170-172 with the upsert of 278-290).          *)
THEOREM DecisionsAreFinal == Spec => NeverPendingAgain
<1>1. IInv /\ [Next]_vars =>
        [\A id \in Ids : stored[id] # NoProposal /\ stored[id].status # "pending"
           => stored'[id].status # "pending"]_vars
  <2> SUFFICES ASSUME IInv, Next, NEW i \in Ids,
                      stored[i] # NoProposal, stored[i].status # "pending"
               PROVE  stored'[i].status # "pending"
    OBVIOUS
  <2>1. ASSUME NEW id \in Ids, NEW p \in Principals, NEW c \in Changes, Propose(id, p, c)
        PROVE  stored'[i].status # "pending"
    BY <2>1 DEF Propose, IInv, TypeOK
  <2>2. ASSUME NEW h \in Handlers, Save(h)
        PROVE  stored'[i].status # "pending"
    BY <2>2 DEF Save, IInv, TypeOK, LabelsFit
  <2>3. ASSUME NEW h \in Handlers,
               \/ Request(h) \/ Snapshot(h) \/ Exec(h) \/ Undo(h) \/ Merge(h) \/ Backup(h)
               \/ Truncate(h) \/ WriteModel(h) \/ WriteAudit(h) \/ Die(h)
        PROVE  stored' = stored
    BY <2>3 DEF Request, LoadApprove, LoadReject, LoadRollback, Hold, Snapshot, Exec,
                Undo, Merge, Backup, Truncate, WriteModel, WriteAudit, Die
  <2>4. QED
    BY <2>1, <2>2, <2>3 DEF Next, Continue
<1>2. QED
  BY <1>1, Invariance, PTL DEF Spec, NeverPendingAgain

-----------------------------------------------------------------------------
(* A call opens the model file for writing only once a whole model is in a  *)
(* backup: its own, or that of whoever cut the file off before it was read. *)
BackupFirst ==
  \A h \in Handlers : pc[h] \in {"truncate", "write"} => \E m \in backups : Whole(m)

LEMMA InitKept == Init => ModelKept /\ BackupFirst
<1> SUFFICES ASSUME Init PROVE ModelKept /\ BackupFirst
  OBVIOUS
<1>1. Whole(model)
  BY DEF Init, Whole, Broken
<1>2. QED
  BY <1>1 DEF Init, ModelKept, BackupFirst

LEMMA NextKept == TypeOK /\ ModelKept /\ BackupFirst /\ [Next]_vars => (ModelKept /\ BackupFirst)'
<1> SUFFICES ASSUME TypeOK, ModelKept, BackupFirst, [Next]_vars
             PROVE  (ModelKept /\ BackupFirst)'
  OBVIOUS
<1>1. ASSUME UNCHANGED <<model, backups>>,
             \A h \in Handlers : pc'[h] \in {"truncate", "write"} => pc'[h] = pc[h]
      PROVE  (ModelKept /\ BackupFirst)'
  BY <1>1 DEF ModelKept, BackupFirst, Whole
<1>2. ASSUME NEW h \in Handlers, Backup(h)
      PROVE  (ModelKept /\ BackupFirst)'
  <2>1. model' = model /\ backups' = backups \cup {model}
    BY <1>2 DEF Backup
  <2>2. \E m \in backups' : Whole(m)
    BY <2>1 DEF ModelKept
  <2>3. QED
    BY <2>2 DEF ModelKept, BackupFirst, Whole
<1>3. ASSUME NEW h \in Handlers, Truncate(h) \/ WriteModel(h)
      PROVE  (ModelKept /\ BackupFirst)'
  <2>1. \E m \in backups : Whole(m)
    BY <1>3 DEF Truncate, WriteModel, BackupFirst
  <2>2. backups' = backups
    BY <1>3 DEF Truncate, WriteModel
  <2>3. QED
    BY <2>1, <2>2 DEF ModelKept, BackupFirst, Whole
<1>4. ASSUME NEW id \in Ids, NEW p \in Principals, NEW c \in Changes, Propose(id, p, c)
      PROVE  (ModelKept /\ BackupFirst)'
  BY <1>1, <1>4 DEF Propose, effects
<1>5. ASSUME NEW h \in Handlers, Request(h)
      PROVE  (ModelKept /\ BackupFirst)'
  <2>1. PICK p \in Principals, id \in Ids :
          LoadApprove(h, p, id) \/ LoadReject(h, p, id) \/ LoadRollback(h, p, id)
    BY <1>5 DEF Request
  <2>2. LoadApprove(h, p, id) => FirstStep(stored[id].change) \in {"exec", "snapshot", "merge"}
    BY FirstStepFits DEF LoadApprove, HasStatus, TypeOK, Proposal
  <2>3. /\ UNCHANGED <<model, backups>>
        /\ \E l \in {"exec", "snapshot", "merge", "save", "undo"} : pc' = [pc EXCEPT ![h] = l]
    BY <2>1, <2>2 DEF LoadApprove, LoadReject, LoadRollback, Hold, effects
  <2>4. QED
    BY <1>1, <2>3 DEF TypeOK
<1>6. ASSUME NEW h \in Handlers,
             \/ Snapshot(h) \/ Exec(h) \/ Undo(h) \/ Merge(h) \/ Save(h)
             \/ WriteAudit(h) \/ Die(h)
      PROVE  (ModelKept /\ BackupFirst)'
  <2>1. /\ UNCHANGED <<model, backups>>
        /\ \E l \in {"exec", "save", "audit", "backup", "idle"} : pc' = [pc EXCEPT ![h] = l]
    BY <1>6 DEF Snapshot, Exec, Undo, Merge, Save, WriteAudit, Die, Return, effects
  <2>2. QED
    BY <1>1, <2>1 DEF TypeOK
<1>7. CASE UNCHANGED vars
  BY <1>1, <1>7 DEF vars
<1>8. QED
  BY <1>2, <1>3, <1>4, <1>5, <1>6, <1>7 DEF Next, Continue

(* However approvals of model changes overlap and wherever one of them      *)
(* dies, the model the team started from is whole in the file or in one of  *)
(* the backups made before it was opened (model.go:96-119).                 *)
THEOREM ModelIsKept == Spec => []ModelKept
<1>1. TypeOK /\ LabelsFit /\ ModelKept /\ BackupFirst /\ [Next]_vars
        => (TypeOK /\ LabelsFit /\ ModelKept /\ BackupFirst)'
  BY NextTypeOK, NextLabelsFit, NextKept
<1>2. QED
  BY <1>1, InitTypeOK, InitLabelsFit, InitKept, PTL DEF Spec

(* The inverse operations of Rollback (engine.go:182-206): unless an update *)
(* renames a primary key, undoing a change from the before-image taken with *)
(* it gives back the very table the change found.                           *)
THEOREM RollbackInverts ==
  ASSUME NEW c \in Changes, NEW r \in Image, Executes(c, r),
         c.op # "model", c.op = "update" => c.setKey = Keep
  PROVE  /\ Undoes(c, Captured(c, r), Executed(c, r))
         /\ Undone(c, Captured(c, r), Executed(c, r)) = r
<1> USE ChangesAssumption, MarkersAssumption DEF Image, Change, Valid
<1>1. CASE c.op = "insert"
  BY <1>1 DEF Executes, Executed, Undoes, Undone
<1>2. CASE c.op = "delete"
  BY <1>2 DEF Executed, Undoes, Undone, Captured, CapturedKeys, Matching
<1>3. CASE c.op = "update"
  BY <1>3 DEF Executed, NewVal, Undoes, Undone, Captured, Matching
<1>4. QED
  BY <1>1, <1>2, <1>3
-----------------------------------------------------------------------------
(* One call at a time, where none dies.  What a reader would see on a       *)
(* proposal is the copy in the memory of the handler about to save it, or   *)
(* else what is stored.                                                     *)
OneCall == \E h : Handlers = {h}

Record(h, id) == IF pc[h] = "save" /\ doc[h].id = id THEN doc[h] ELSE stored[id]

Said(h, id, status) == Record(h, id) # NoProposal /\ Record(h, id).status = status

Entry(h, id) ==
  IF Said(h, id, "committed") /\ Record(h, id).change.op = "model" THEN 1 ELSE 0

(* Nobody wrote the proposal since the handler read it.                     *)
Current(h) ==
  pc[h] # "idle" =>
    /\ stored[doc[h].id] # NoProposal
    /\ pc[h] \in {"snapshot", "exec"} \cup OnModel => stored[doc[h].id].status = "pending"
    /\ pc[h] \in {"undo", "audit"} => stored[doc[h].id] = doc[h]
    /\ pc[h] = "save" => stored[doc[h].id].status =
                           IF doc[h].status = "rolled_back" THEN "committed" ELSE "pending"
    /\ pc[h] \in OnModel => doc[h].change.op = "model"

(* The record counts the effects, and the model a handler is about to write *)
(* is the one in the file and its own entry.                                *)
Counted(h) ==
  /\ pc[h] = "write" => model = Broken
  /\ \A id \in Ids :
       /\ undone[id] = IF Said(h, id, "rolled_back") THEN 1 ELSE 0
       /\ applied[id] = IF Said(h, id, "rolled_back") \/ Said(h, id, "committed") THEN 1 ELSE 0
       /\ pc[h] # "write" => model[id] = Entry(h, id)
       /\ pc[h] \in Holding => merged[h][id] = IF id = doc[h].id THEN 1 ELSE Entry(h, id)

SerialInv == \A h \in Handlers : Current(h) /\ Counted(h)

(* An insert has no before-image.                                           *)
Plain(d) == d # NoProposal /\ d.change.op = "insert" => d.before = NoRows

(* The before-image of the latest change is what the change replaced.       *)
Latest(h) ==
  LET r == Record(h, lastId) IN
    /\ Said(h, lastId, "committed")
    /\ r.change.op # "model"
    /\ r.before = Captured(r.change, lastPre)
    /\ Executes(r.change, lastPre)
    /\ rows = Executed(r.change, lastPre)

Exact(h) ==
  /\ \A id \in Ids : Plain(stored[id])
  /\ Plain(doc[h])
  /\ pc[h] = "exec" => /\ doc[h].before = Captured(doc[h].change, rows)
  /\ lastId # NoId => Latest(h)

ExactInv == \A h \in Handlers : Exact(h)

LEMMA InitSerial == Init => SerialInv /\ ExactInv
<1> SUFFICES ASSUME Init, NEW h \in Handlers PROVE Current(h) /\ Counted(h) /\ Exact(h)
  BY DEF SerialInv, ExactInv
<1>1. \A id \in Ids : Record(h, id) = NoProposal /\ model[id] = 0
  BY MarkersAssumption DEF Init, Record, Broken
<1>2. QED
  BY <1>1, MarkersAssumption
     DEF Init, Current, Counted, Said, Entry, Exact, Plain, Latest, Holding

(* A step that leaves the effects alone and changes no record a reader      *)
(* would see keeps the counts.                                              *)
LEMMA CountedStays ==
  ASSUME NEW h \in Handlers, TypeOK, Counted(h), UNCHANGED <<model, applied, undone>>,
         \A id \in Ids : Record(h, id)' = Record(h, id)
                         \/ /\ \A s \in {"committed", "rolled_back"} : ~Said(h, id, s)
                            /\ \A s \in {"committed", "rolled_back"} : ~Said(h, id, s)',
         pc'[h] # "write", pc[h] # "write",
         pc'[h] \in Holding => pc[h] \in Holding /\ merged'[h] = merged[h] /\ doc'[h] = doc[h]
  PROVE  Counted(h)'
<1>1. \A id \in Ids : /\ \A s \in {"committed", "rolled_back"} : Said(h, id, s)' <=> Said(h, id, s)
                      /\ Entry(h, id)' = Entry(h, id)
  BY DEF Said, Entry
<1>2. QED
  BY <1>1 DEF Counted

LEMMA NextSerial ==
  ASSUME NEW h, Handlers = {h}, MaxFaults = 0, TypeOK, LabelsFit, FiledById, TypeOK',
         Current(h), Counted(h), Next
  PROVE  Current(h)' /\ Counted(h)'
<1> USE DEF OnData, OnModel, Holding
<1>0. /\ h \in Handlers
      /\ \A i \in Ids : stored[i] # NoProposal => stored[i] \in Proposal
      /\ pc[h] # "idle" => doc[h] \in Proposal /\ doc[h].id \in Ids
      /\ \A p \in Proposal : p.id \in Ids /\ p.change \in Changes
  BY DEF TypeOK, Proposal
<1>1. ASSUME NEW id \in Ids, NEW p \in Principals, NEW c \in Changes, Propose(id, p, c)
      PROVE  Current(h)' /\ Counted(h)'
  <2> DEFINE d == [id |-> id, status |-> "pending", proposer |-> p, approver |-> Nobody,
                   change |-> c, before |-> Captured(c, rows)]
  <2>1. /\ d.status = "pending"
        /\ stored' = [stored EXCEPT ![id] = d]
        /\ stored[id] = NoProposal
        /\ UNCHANGED <<model, applied, undone, pc, doc, merged>>
    BY <1>1 DEF Propose, effects
  <2> HIDE DEF d
  <2>2. \A i \in Ids : i # id => Record(h, i)' = Record(h, i)
    BY <2>1 DEF Record, TypeOK
  <2>3. Record(h, id) = NoProposal /\ Record(h, id)' = d
    BY <2>1, <1>0 DEF Record, Current, TypeOK
  <2>4. \A s \in {"committed", "rolled_back"} : ~Said(h, id, s) /\ ~Said(h, id, s)'
    BY <2>1, <2>3 DEF Said
  <2>5. Current(h)'
    BY <2>1, <1>0 DEF Current, TypeOK
  <2>6. \A i \in Ids : /\ \A s \in {"committed", "rolled_back"} : Said(h, i, s)' <=> Said(h, i, s)
                       /\ Entry(h, i)' = Entry(h, i)
    BY <2>2, <2>4 DEF Said, Entry
  <2>7. QED
    BY <2>1, <2>5, <2>6 DEF Counted
<1>2. CASE Request(h)
  <2>1. PICK p \in Principals, id \in Ids :
          LoadApprove(h, p, id) \/ LoadReject(h, p, id) \/ LoadRollback(h, p, id)
    BY <1>2 DEF Request
  <2>2. /\ stored[id] # NoProposal /\ stored[id] \in Proposal /\ stored[id].id = id
        /\ pc[h] = "idle"
        /\ UNCHANGED <<model, applied, undone, stored, merged>>
    BY <2>1, <1>0 DEF LoadApprove, LoadReject, LoadRollback, HasStatus, Hold, effects, FiledById
  <2>3. CASE LoadApprove(h, p, id)
    <3> DEFINE d == [stored[id] EXCEPT !.approver = p]
    <3>1. /\ d.id = id /\ d.status = "pending" /\ d.change = stored[id].change
          /\ stored[id].status = "pending" /\ stored[id].change \in Changes
      BY <2>2, <2>3, <1>0 DEF LoadApprove, HasStatus, Proposal
    <3>2. /\ doc' = [doc EXCEPT ![h] = d]
          /\ pc' = [pc EXCEPT ![h] = FirstStep(d.change)]
      BY <2>3, <3>1 DEF LoadApprove, Hold
    <3> HIDE DEF d
    <3>3. /\ FirstStep(d.change) \in {"exec", "snapshot", "merge"}
          /\ FirstStep(d.change) = "merge" => d.change.op = "model"
      BY <3>1, FirstStepFits
    <3>4. /\ pc'[h] \in {"exec", "snapshot", "merge"} /\ doc'[h] = d
          /\ pc'[h] = "merge" => d.change.op = "model"
      BY <1>0, <3>2, <3>3 DEF TypeOK
    <3>5. Current(h)'
      BY <2>2, <3>1, <3>4 DEF Current
    <3>6. \A i \in Ids : Record(h, i)' = Record(h, i)
      BY <2>2, <3>4 DEF Record
    <3>7. QED
      BY <2>2, <3>4, <3>5, <3>6, <1>0, CountedStays
  <2>4. CASE LoadReject(h, p, id)
    <3> DEFINE d == [stored[id] EXCEPT !.approver = p, !.status = "rejected"]
    <3>1. d.id = id /\ d.status = "rejected" /\ stored[id].status = "pending"
      BY <2>2, <2>4 DEF LoadReject, HasStatus, Proposal
    <3>2. doc' = [doc EXCEPT ![h] = d] /\ pc' = [pc EXCEPT ![h] = "save"]
      BY <2>4 DEF LoadReject, Hold
    <3> HIDE DEF d
    <3>3. pc'[h] = "save" /\ doc'[h] = d
      BY <1>0, <3>2 DEF TypeOK
    <3>4. Current(h)'
      BY <2>2, <3>1, <3>3 DEF Current
    <3>5. \A i \in Ids : i # id => Record(h, i)' = Record(h, i)
      BY <2>2, <3>1, <3>3 DEF Record
    <3>6. Record(h, id) = stored[id] /\ Record(h, id)' = d
      BY <2>2, <3>1, <3>3 DEF Record
    <3>7. \A s \in {"committed", "rolled_back"} : ~Said(h, id, s) /\ ~Said(h, id, s)'
      BY <3>1, <3>6 DEF Said
    <3>8. QED
      BY <2>2, <3>3, <3>4, <3>5, <3>7, <1>0, CountedStays
  <2>5. CASE LoadRollback(h, p, id)
    <3>1. pc'[h] = "undo" /\ doc'[h] = stored[id]
      BY <2>5, <1>0 DEF LoadRollback, Hold, TypeOK
    <3>2. Current(h)'
      BY <2>2, <3>1 DEF Current
    <3>3. \A i \in Ids : Record(h, i)' = Record(h, i)
      BY <2>2, <3>1 DEF Record
    <3>4. QED
      BY <2>2, <3>1, <3>2, <3>3, <1>0, CountedStays
  <2>6. QED
    BY <2>1, <2>3, <2>4, <2>5
<1>3. CASE Snapshot(h)
  <2> DEFINE d == [doc[h] EXCEPT !.before = Captured(doc[h].change, rows)]
  <2>1. /\ UNCHANGED <<model, applied, undone, stored>> /\ pc[h] = "snapshot"
        /\ d.status = doc[h].status /\ d.id = doc[h].id /\ d.change = doc[h].change
    BY <1>3, <1>0 DEF Snapshot, effects, Proposal
  <2>2. \/ doc'[h] = d /\ pc'[h] = "exec"
        \/ pc'[h] = "idle"
    BY <1>3, <1>0 DEF Snapshot, Return, TypeOK
  <2> HIDE DEF d
  <2>3. Current(h)'
    BY <2>1, <2>2 DEF Current
  <2>4. \A i \in Ids : Record(h, i)' = Record(h, i)
    BY <2>1, <2>2 DEF Record
  <2>5. QED
    BY <2>1, <2>2, <2>3, <2>4, <1>0, CountedStays
<1>4. CASE Exec(h)
  <2>1. pc[h] = "exec" /\ stored' = stored /\ stored[doc[h].id] # NoProposal
        /\ stored[doc[h].id].status = "pending" /\ doc[h].change.op # "model"
    BY <1>4, <1>0 DEF Exec, Current, LabelsFit
  <2>2. CASE Executes(doc[h].change, rows)
    <3> DEFINE d == [doc[h] EXCEPT !.status = "committed"]
    <3>1. d.id = doc[h].id /\ d.status = "committed" /\ d.change = doc[h].change
          /\ d # NoProposal
      BY <1>0, <2>1, MarkersAssumption DEF Proposal, Status
    <3>2. doc'[h] = d /\ pc'[h] = "save" /\ applied' = [applied EXCEPT ![doc[h].id] = @ + 1]
          /\ UNCHANGED <<model, undone>>
      BY <1>4, <2>2, <1>0 DEF Exec, TypeOK
    <3> HIDE DEF d
    <3>3. Current(h)'
      BY <2>1, <3>1, <3>2 DEF Current
    <3>4. \A i \in Ids : i # doc[h].id => Record(h, i)' = Record(h, i)
      BY <2>1, <3>1, <3>2 DEF Record
    <3>5. \A i \in Ids : i = doc[h].id => Record(h, i) = stored[i] /\ Record(h, i)' = d
      BY <2>1, <3>1, <3>2 DEF Record
    <3>6. \A i \in Ids : i = doc[h].id =>
            /\ ~Said(h, i, "committed") /\ ~Said(h, i, "rolled_back")
            /\ Said(h, i, "committed")' /\ ~Said(h, i, "rolled_back")'
            /\ Entry(h, i) = 0 /\ Entry(h, i)' = 0
      BY <2>1, <3>1, <3>5 DEF Said, Entry
    <3>7. \A i \in Ids : i # doc[h].id =>
            /\ \A s \in {"committed", "rolled_back"} : Said(h, i, s)' <=> Said(h, i, s)
            /\ Entry(h, i)' = Entry(h, i)
      BY <3>4 DEF Said, Entry
    <3>8. doc[h].id \in Ids /\ applied[doc[h].id] = 0 /\ applied'[doc[h].id] = 1
      BY <2>1, <3>2, <3>6, <1>0 DEF Counted, TypeOK
    <3>9. \A i \in Ids : i # doc[h].id => applied'[i] = applied[i]
      BY <3>2, <1>0 DEF TypeOK
    <3>10. ASSUME NEW i \in Ids
           PROVE  /\ undone'[i] = IF Said(h, i, "rolled_back")' THEN 1 ELSE 0
                  /\ applied'[i] = IF Said(h, i, "rolled_back")' \/ Said(h, i, "committed")'
                                    THEN 1 ELSE 0
                  /\ model'[i] = Entry(h, i)'
      <4>1. CASE i = doc[h].id
        BY <4>1, <2>1, <3>2, <3>6, <3>8 DEF Counted
      <4>2. CASE i # doc[h].id
        BY <4>2, <2>1, <3>2, <3>7, <3>9 DEF Counted
      <4>3. QED
        BY <4>1, <4>2
    <3>11. QED
      BY <3>2, <3>3, <3>10 DEF Counted
  <2>3. CASE ~Executes(doc[h].change, rows)
    <3>1. UNCHANGED <<model, applied, undone>> /\ pc'[h] = "idle"
      BY <1>4, <2>3, <1>0 DEF Exec, Return, effects, TypeOK
    <3>2. \A i \in Ids : Record(h, i)' = Record(h, i)
      BY <2>1, <3>1 DEF Record
    <3>3. QED
      BY <2>1, <3>1, <3>2, <1>0, CountedStays DEF Current
  <2>4. QED
    BY <2>2, <2>3
<1>5. CASE Undo(h)
  <2>1. pc[h] = "undo" /\ stored' = stored /\ stored[doc[h].id] = doc[h]
        /\ doc[h].status = "committed" /\ doc[h].change.op # "model" /\ doc[h] # NoProposal
    BY <1>5, <1>0 DEF Undo, Current, LabelsFit
  <2>2. CASE Undoes(doc[h].change, doc[h].before, rows)
    <3> DEFINE d == [doc[h] EXCEPT !.status = "rolled_back"]
    <3>1. d.id = doc[h].id /\ d.status = "rolled_back" /\ d.change = doc[h].change
          /\ d # NoProposal
      BY <1>0, <2>1, MarkersAssumption DEF Proposal, Status
    <3>2. doc'[h] = d /\ pc'[h] = "save" /\ undone' = [undone EXCEPT ![doc[h].id] = @ + 1]
          /\ UNCHANGED <<model, applied>>
      BY <1>5, <2>2, <1>0 DEF Undo, TypeOK
    <3> HIDE DEF d
    <3>3. Current(h)'
      BY <2>1, <3>1, <3>2 DEF Current
    <3>4. \A i \in Ids : i # doc[h].id => Record(h, i)' = Record(h, i)
      BY <2>1, <3>1, <3>2 DEF Record
    <3>5. \A i \in Ids : i = doc[h].id => Record(h, i) = doc[h] /\ Record(h, i)' = d
      BY <2>1, <3>1, <3>2 DEF Record
    <3>6. \A i \in Ids : i = doc[h].id =>
            /\ Said(h, i, "committed") /\ ~Said(h, i, "rolled_back")
            /\ ~Said(h, i, "committed")' /\ Said(h, i, "rolled_back")'
            /\ Entry(h, i) = 0 /\ Entry(h, i)' = 0
      BY <2>1, <3>1, <3>5 DEF Said, Entry
    <3>7. \A i \in Ids : i # doc[h].id =>
            /\ \A s \in {"committed", "rolled_back"} : Said(h, i, s)' <=> Said(h, i, s)
            /\ Entry(h, i)' = Entry(h, i)
      BY <3>4 DEF Said, Entry
    <3>8. doc[h].id \in Ids /\ undone[doc[h].id] = 0 /\ undone'[doc[h].id] = 1
      BY <2>1, <3>2, <3>6, <1>0 DEF Counted, TypeOK
    <3>9. \A i \in Ids : i # doc[h].id => undone'[i] = undone[i]
      BY <3>2, <1>0 DEF TypeOK
    <3>10. ASSUME NEW i \in Ids
           PROVE  /\ undone'[i] = IF Said(h, i, "rolled_back")' THEN 1 ELSE 0
                  /\ applied'[i] = IF Said(h, i, "rolled_back")' \/ Said(h, i, "committed")'
                                    THEN 1 ELSE 0
                  /\ model'[i] = Entry(h, i)'
      <4>1. CASE i = doc[h].id
        BY <4>1, <2>1, <3>2, <3>6, <3>8 DEF Counted
      <4>2. CASE i # doc[h].id
        BY <4>2, <2>1, <3>2, <3>7, <3>9 DEF Counted
      <4>3. QED
        BY <4>1, <4>2
    <3>11. QED
      BY <3>2, <3>3, <3>10 DEF Counted
  <2>3. CASE ~Undoes(doc[h].change, doc[h].before, rows)
    <3>1. UNCHANGED <<model, applied, undone>> /\ pc'[h] = "idle"
      BY <1>5, <2>3, <1>0 DEF Undo, Return, effects, TypeOK
    <3>2. \A i \in Ids : Record(h, i)' = Record(h, i)
      BY <2>1, <3>1 DEF Record
    <3>3. QED
      BY <2>1, <3>1, <3>2, <1>0, CountedStays DEF Current
  <2>4. QED
    BY <2>2, <2>3
<1>6. CASE Merge(h)
  <2>1. /\ pc[h] = "merge" /\ UNCHANGED <<stored, model, applied, undone>>
        /\ stored[doc[h].id] # NoProposal /\ stored[doc[h].id].status = "pending"
        /\ doc[h].id \in Ids /\ doc[h].change.op = "model"
    BY <1>6, <1>0 DEF Merge, effects, Current
  <2>2. CASE pc'[h] = "idle"
    <3>1. \A i \in Ids : Record(h, i)' = Record(h, i)
      BY <2>1, <2>2 DEF Record
    <3>2. QED
      BY <2>1, <2>2, <3>1, <1>0, CountedStays DEF Current
  <2>3. CASE pc'[h] # "idle"
    <3>1. /\ pc'[h] = "backup" /\ doc' = doc
          /\ merged'[h] = [model EXCEPT ![doc[h].id] = @ + 1]
      BY <1>6, <2>3, <1>0 DEF Merge, Return, TypeOK
    <3>2. Current(h)'
      BY <2>1, <3>1 DEF Current
    <3>3. \A i \in Ids : Record(h, i)' = Record(h, i)
      BY <2>1, <3>1 DEF Record
    <3>4. \A i \in Ids : /\ \A s \in {"committed", "rolled_back"} : Said(h, i, s)' <=> Said(h, i, s)
                         /\ Entry(h, i)' = Entry(h, i)
      BY <3>3 DEF Said, Entry
    <3>5. Entry(h, doc[h].id) = 0
      BY <2>1 DEF Entry, Said, Record
    <3>6. \A i \in Ids : merged'[h][i] = IF i = doc[h].id THEN model[i] + 1 ELSE model[i]
      BY <3>1, <2>1 DEF TypeOK, Model
    <3>7. QED
      BY <2>1, <3>1, <3>2, <3>4, <3>5, <3>6, <1>0 DEF Counted
  <2>4. QED
    BY <2>2, <2>3
<1>7. CASE Backup(h)
  <2>1. /\ pc[h] = "backup" /\ pc'[h] = "truncate"
        /\ UNCHANGED <<stored, model, applied, undone, doc, merged>>
    BY <1>7, <1>0 DEF Backup, TypeOK
  <2>2. \A i \in Ids : Record(h, i)' = Record(h, i)
    BY <2>1 DEF Record
  <2>3. QED
    BY <2>1, <2>2, <1>0, CountedStays DEF Current
<1>8. CASE Truncate(h)
  <2>1. /\ pc[h] = "truncate" /\ pc'[h] = "write" /\ model' = Broken
        /\ UNCHANGED <<stored, applied, undone, doc, merged>>
    BY <1>8, <1>0 DEF Truncate, TypeOK
  <2>2. \A i \in Ids : Record(h, i)' = Record(h, i)
    BY <2>1 DEF Record
  <2>3. \A i \in Ids : /\ \A s \in {"committed", "rolled_back"} : Said(h, i, s)' <=> Said(h, i, s)
                       /\ Entry(h, i)' = Entry(h, i)
    BY <2>2 DEF Said, Entry
  <2>4. Broken' = Broken
    BY DEF Broken
  <2>5. QED
    BY <2>1, <2>3, <2>4, <1>0 DEF Current, Counted
<1>9. CASE WriteModel(h)
  <2> DEFINE d == [doc[h] EXCEPT !.status = "committed"]
  <2>1. /\ pc[h] = "write" /\ pc'[h] = "save" /\ doc'[h] = d
        /\ applied' = [applied EXCEPT ![doc[h].id] = @ + 1]
        /\ UNCHANGED <<stored, undone>>
        /\ stored[doc[h].id] # NoProposal /\ stored[doc[h].id].status = "pending"
        /\ doc[h].id \in Ids /\ doc[h].change.op = "model"
    BY <1>9, <1>0 DEF WriteModel, Current, TypeOK
  <2>2. model' = merged[h]
    BY <1>9, <2>1, <1>0 DEF WriteModel, Counted
  <2>3. d.id = doc[h].id /\ d.status = "committed" /\ d.change = doc[h].change
        /\ d # NoProposal
    BY <1>0, <2>1, MarkersAssumption DEF Proposal, Status
  <2> HIDE DEF d
  <2>4. Current(h)'
    BY <2>1, <2>3 DEF Current
  <2>5. \A i \in Ids : i # doc[h].id => Record(h, i)' = Record(h, i)
    BY <2>1, <2>3 DEF Record
  <2>6. \A i \in Ids : i = doc[h].id => Record(h, i) = stored[i] /\ Record(h, i)' = d
    BY <2>1, <2>3 DEF Record
  <2>7. \A i \in Ids : i = doc[h].id =>
          /\ ~Said(h, i, "committed") /\ ~Said(h, i, "rolled_back")
          /\ Said(h, i, "committed")' /\ ~Said(h, i, "rolled_back")'
          /\ Entry(h, i)' = 1
    BY <2>1, <2>3, <2>6 DEF Said, Entry
  <2>8. \A i \in Ids : i # doc[h].id =>
          /\ \A s \in {"committed", "rolled_back"} : Said(h, i, s)' <=> Said(h, i, s)
          /\ Entry(h, i)' = Entry(h, i)
    BY <2>5 DEF Said, Entry
  <2>9. applied[doc[h].id] = 0 /\ applied'[doc[h].id] = 1
    BY <2>1, <2>7 DEF Counted, TypeOK
  <2>10. \A i \in Ids : i # doc[h].id => applied'[i] = applied[i]
    BY <2>1 DEF TypeOK
  <2>11. ASSUME NEW i \in Ids
         PROVE  /\ undone'[i] = IF Said(h, i, "rolled_back")' THEN 1 ELSE 0
                /\ applied'[i] = IF Said(h, i, "rolled_back")' \/ Said(h, i, "committed")'
                                  THEN 1 ELSE 0
                /\ model'[i] = Entry(h, i)'
    <3>1. CASE i = doc[h].id
      BY <3>1, <2>1, <2>2, <2>7, <2>9 DEF Counted
    <3>2. CASE i # doc[h].id
      BY <3>2, <2>1, <2>2, <2>8, <2>10 DEF Counted
    <3>3. QED
      BY <3>1, <3>2
  <2>12. QED
    BY <2>1, <2>4, <2>11 DEF Counted
<1>10. CASE Save(h)
  <2>1. /\ pc[h] = "save" /\ pc'[h] = "audit" /\ doc' = doc
        /\ stored' = [stored EXCEPT ![doc[h].id] = doc[h]]
        /\ UNCHANGED <<model, applied, undone>>
        /\ doc[h] # NoProposal /\ doc[h].id \in Ids
    BY <1>10, <1>0, MarkersAssumption DEF Save, effects, TypeOK
  <2>2. \A i \in Ids : Record(h, i)' = Record(h, i)
    BY <2>1 DEF Record, TypeOK
  <2>3. Current(h)'
    BY <2>1 DEF Current, TypeOK
  <2>4. QED
    BY <2>1, <2>2, <2>3, <1>0, CountedStays
<1>11. CASE WriteAudit(h)
  <2>1. pc[h] = "audit" /\ pc'[h] = "idle" /\ UNCHANGED <<stored, model, applied, undone>>
    BY <1>11, <1>0 DEF WriteAudit, Return, effects, TypeOK
  <2>2. \A i \in Ids : Record(h, i)' = Record(h, i)
    BY <2>1 DEF Record
  <2>3. QED
    BY <2>1, <2>2, <1>0, CountedStays DEF Current
<1>12. ~Die(h)
  BY DEF Die, TypeOK
<1>13. QED
  BY <1>1, <1>2, <1>3, <1>4, <1>5, <1>6, <1>7, <1>8, <1>9, <1>10, <1>11, <1>12
     DEF Next, Continue

LEMMA SerialInvariance ==
  ASSUME OneCall, MaxFaults = 0
  PROVE  Spec => [](IInv /\ SerialInv)
<1>1. IInv /\ SerialInv /\ [Next]_vars => (IInv /\ SerialInv)'
  <2> SUFFICES ASSUME IInv, SerialInv, [Next]_vars PROVE IInv' /\ SerialInv'
    OBVIOUS
  <2>1. IInv' /\ TypeOK /\ LabelsFit /\ FiledById /\ TypeOK'
    BY NextIInv DEF IInv
  <2>2. PICK h : Handlers = {h}
    BY DEF OneCall
  <2>3. Current(h) /\ Counted(h)
    BY <2>2 DEF SerialInv
  <2>4. CASE Next
    <3>1. Current(h)' /\ Counted(h)'
      BY <2>1, <2>2, <2>3, <2>4, NextSerial
    <3>2. QED
      BY <2>1, <2>2, <3>1 DEF SerialInv
  <2>5. CASE UNCHANGED vars
    BY <2>1, <2>5 DEF vars, SerialInv, Current, Counted, Entry, Said, Record
  <2>6. QED
    BY <2>4, <2>5
<1>2. QED
  BY <1>1, InitIInv, InitSerial, PTL DEF Spec

(* One call at a time, none of which dies, leaves a record that tells what  *)
(* happened: nothing of a pending or rejected proposal, one application of  *)
(* a committed one and one reversal of one rolled back, the entry of a      *)
(* model change once in the file (engine.go:62-113, 165-217; model.go).     *)
THEOREM StatusIsTold ==
  ASSUME OneCall, MaxFaults = 0
  PROVE  Spec => []StatusTellsEffect
<1>1. SerialInv => StatusTellsEffect
  <2> SUFFICES ASSUME SerialInv, NEW id \in Ids, \A h \in Handlers : pc[h] = "idle"
               PROVE  /\ undone[id] = IF HasStatus(id, "rolled_back") THEN 1 ELSE 0
                      /\ applied[id] = IF HasStatus(id, "rolled_back") \/ HasStatus(id, "committed")
                                         THEN 1 ELSE 0
                      /\ model[id] = IF HasStatus(id, "committed") /\ stored[id].change.op = "model"
                                       THEN 1 ELSE 0
    BY DEF StatusTellsEffect
  <2>1. PICK h : Handlers = {h}
    BY DEF OneCall
  <2>2. Counted(h) /\ pc[h] = "idle"
    BY <2>1 DEF SerialInv
  <2>3. QED
    BY <2>2 DEF Counted, Said, Entry, Record, HasStatus
<1>2. QED
  BY <1>1, SerialInvariance, PTL

-----------------------------------------------------------------------------
(* What the latest change replaced is in the before-image of its record.    *)
LEMMA ExactStays ==
  ASSUME NEW h, Exact(h), UNCHANGED <<rows, lastId, lastPre>>,
         \A i : Said(h, i, "committed") => Record(h, i)' = Record(h, i),
         \A i \in Ids : Plain(stored'[i]),
         Plain(doc'[h]),
         pc'[h] = "exec" => doc'[h].before = Captured(doc'[h].change, rows)
  PROVE  Exact(h)'
<1>1. CASE lastId = NoId
  BY <1>1 DEF Exact
<1>2. CASE lastId # NoId
  <2> DEFINE r == Record(h, lastId)
  <2>1. /\ Said(h, lastId, "committed") /\ r # NoProposal /\ r.status = "committed"
        /\ r.change.op # "model"
        /\ r.before = Captured(r.change, lastPre)
        /\ Executes(r.change, lastPre)
        /\ rows = Executed(r.change, lastPre)
    BY <1>2 DEF Exact, Latest, Said
  <2>2. \A i : i = lastId => Record(h, i)' = r
    BY <2>1
  <2>3. Record(h, lastId)' = r
    BY <2>2
  <2> HIDE DEF r
  <2>4. Latest(h)'
    BY <2>1, <2>3 DEF Latest, Said
  <2>5. QED
    BY <2>4 DEF Exact
<1>3. QED
  BY <1>1, <1>2

LEMMA NextExact ==
  ASSUME NEW h, Handlers = {h}, MaxFaults = 0, TypeOK, LabelsFit, FiledById,
         Current(h), Exact(h), Next
  PROVE  Exact(h)'
<1> USE DEF OnData, OnModel, Holding
<1>0. /\ h \in Handlers
      /\ \A i \in Ids : stored[i] # NoProposal => stored[i] \in Proposal
      /\ pc[h] # "idle" => doc[h] \in Proposal /\ doc[h].id \in Ids /\ doc[h] # NoProposal
      /\ \A p \in Proposal : p.id \in Ids /\ p.change \in Changes
      /\ \A i \in Ids : Plain(stored[i])
      /\ Plain(doc[h])
      /\ Plain(NoProposal)
  BY MarkersAssumption DEF TypeOK, Proposal, Exact, Plain
<1>1. ASSUME NEW id \in Ids, NEW p \in Principals, NEW c \in Changes, Propose(id, p, c)
      PROVE  Exact(h)'
  <2> DEFINE d == [id |-> id, status |-> "pending", proposer |-> p, approver |-> Nobody,
                   change |-> c, before |-> Captured(c, rows)]
  <2>1. /\ Plain(d)
        /\ stored' = [stored EXCEPT ![id] = d]
        /\ stored[id] = NoProposal
        /\ UNCHANGED <<rows, lastId, lastPre, pc, doc>>
    BY <1>1 DEF Propose, effects, Plain, Captured
  <2> HIDE DEF d
  <2>2. \A i : i # id => Record(h, i)' = Record(h, i)
    BY <2>1 DEF Record, TypeOK
  <2>3. ~Said(h, id, "committed")
    BY <2>1, <1>0 DEF Record, Current, Said
  <2>4. \A i \in Ids : Plain(stored'[i])
    BY <2>1, <1>0 DEF TypeOK
  <2>5. \A i : Said(h, i, "committed") => Record(h, i)' = Record(h, i)
    BY <2>2, <2>3
  <2>6. pc'[h] = "exec" => doc'[h].before = Captured(doc'[h].change, rows)
    BY <2>1 DEF Exact
  <2>7. QED
    BY <2>1, <2>4, <2>5, <2>6, <1>0, ExactStays
<1>2. CASE Request(h)
  <2>1. PICK p \in Principals, id \in Ids :
          LoadApprove(h, p, id) \/ LoadReject(h, p, id) \/ LoadRollback(h, p, id)
    BY <1>2 DEF Request
  <2>2. /\ stored[id] # NoProposal /\ stored[id] \in Proposal /\ stored[id].id = id
        /\ pc[h] = "idle"
        /\ UNCHANGED <<rows, lastId, lastPre, stored>>
    BY <2>1, <1>0 DEF LoadApprove, LoadReject, LoadRollback, HasStatus, Hold, effects, FiledById
  <2>3. CASE LoadApprove(h, p, id)
    <3> DEFINE d == [stored[id] EXCEPT !.approver = p]
    <3>1. d.change = stored[id].change /\ d.before = stored[id].before
          /\ d.change \in Changes
      BY <2>2, <1>0 DEF Proposal
    <3>2. pc'[h] = FirstStep(d.change) /\ doc'[h] = d
      BY <2>3, <3>1, <1>0 DEF LoadApprove, Hold, TypeOK
    <3> HIDE DEF d
    <3>3. /\ FirstStep(d.change) \in {"exec", "snapshot", "merge"}
          /\ FirstStep(d.change) = "exec" => d.change.op = "insert"
      BY <3>1, FirstStepFits, ChangesAssumption DEF FirstStep, Change
    <3>4. Plain(d) /\ (FirstStep(d.change) = "exec" => d.before = Captured(d.change, rows))
      BY <2>2, <3>1, <3>3, <1>0 DEF Plain, Captured
    <3>5. \A i : Record(h, i)' = Record(h, i)
      BY <2>2, <3>2, <3>3 DEF Record
    <3>6. QED
      BY <2>2, <3>2, <3>4, <3>5, <1>0, ExactStays
  <2>4. CASE LoadReject(h, p, id)
    <3> DEFINE d == [stored[id] EXCEPT !.approver = p, !.status = "rejected"]
    <3>1. d.id = id /\ d.change = stored[id].change /\ d.before = stored[id].before
          /\ stored[id].status = "pending"
      BY <2>2, <2>4 DEF LoadReject, HasStatus, Proposal
    <3>2. pc'[h] = "save" /\ doc'[h] = d
      BY <2>4, <1>0 DEF LoadReject, Hold, TypeOK
    <3> HIDE DEF d
    <3>3. \A i : Said(h, i, "committed") => Record(h, i)' = Record(h, i)
      BY <2>2, <3>1, <3>2 DEF Record, Said
    <3>4. Plain(d)
      BY <2>2, <3>1, <1>0 DEF Plain
    <3>5. QED
      BY <2>2, <3>2, <3>3, <3>4, <1>0, ExactStays
  <2>5. CASE LoadRollback(h, p, id)
    <3>1. pc'[h] = "undo" /\ doc'[h] = stored[id]
      BY <2>5, <1>0 DEF LoadRollback, Hold, TypeOK
    <3>2. \A i : Record(h, i)' = Record(h, i)
      BY <2>2, <3>1 DEF Record
    <3>3. QED
      BY <2>2, <3>1, <3>2, <1>0, ExactStays
  <2>6. QED
    BY <2>1, <2>3, <2>4, <2>5
<1>3. CASE Snapshot(h)
  <2> DEFINE d == [doc[h] EXCEPT !.before = Captured(doc[h].change, rows)]
  <2>1. /\ UNCHANGED <<rows, lastId, lastPre, stored>> /\ pc[h] = "snapshot"
        /\ d.change = doc[h].change /\ d.before = Captured(d.change, rows)
    BY <1>3, <1>0 DEF Snapshot, effects, Proposal
  <2>2. \/ doc'[h] = d /\ pc'[h] = "exec"
        \/ doc'[h] = NoProposal /\ pc'[h] = "idle"
    BY <1>3, <1>0 DEF Snapshot, Return, TypeOK
  <2> HIDE DEF d
  <2>3. Plain(d)
    BY <2>1 DEF Plain, Captured
  <2>4. \A i : Record(h, i)' = Record(h, i)
    BY <2>1, <2>2 DEF Record
  <2>5. QED
    BY <2>1, <2>2, <2>3, <2>4, <1>0, ExactStays
<1>4. CASE Exec(h)
  <2>1. pc[h] = "exec" /\ stored' = stored /\ doc[h].change.op # "model"
        /\ doc[h].before = Captured(doc[h].change, rows)
    BY <1>4, <1>0 DEF Exec, LabelsFit, Exact
  <2>2. CASE Executes(doc[h].change, rows)
    <3> DEFINE d == [doc[h] EXCEPT !.status = "committed"]
    <3>1. /\ d.id = doc[h].id /\ d.status = "committed" /\ d.change = doc[h].change
          /\ d.before = doc[h].before /\ d # NoProposal
      BY <1>0, <2>1, MarkersAssumption DEF Proposal, Status
    <3>2. /\ doc'[h] = d /\ pc'[h] = "save"
          /\ rows' = Executed(d.change, rows) /\ lastId' = d.id /\ lastPre' = rows
      BY <1>4, <2>2, <3>1, <1>0 DEF Exec, TypeOK
    <3> HIDE DEF d
    <3>3. Record(h, lastId)' = d
      BY <3>2 DEF Record
    <3>4. Latest(h)'
      BY <2>1, <2>2, <3>1, <3>2, <3>3 DEF Latest, Said
    <3>5. Plain(d)
      BY <2>1, <3>1, <1>0 DEF Plain
    <3>6. QED
      BY <2>1, <3>2, <3>4, <3>5, <1>0 DEF Exact
  <2>3. CASE ~Executes(doc[h].change, rows)
    <3>1. UNCHANGED <<rows, lastId, lastPre>> /\ pc'[h] = "idle" /\ doc'[h] = NoProposal
      BY <1>4, <2>3, <1>0 DEF Exec, Return, effects, TypeOK
    <3>2. \A i : Record(h, i)' = Record(h, i)
      BY <2>1, <3>1 DEF Record
    <3>3. QED
      BY <2>1, <3>1, <3>2, <1>0, ExactStays
  <2>4. QED
    BY <2>2, <2>3
<1>5. CASE Undo(h)
  <2>1. pc[h] = "undo" /\ stored' = stored
    BY <1>5 DEF Undo
  <2>2. CASE Undoes(doc[h].change, doc[h].before, rows)
    <3> DEFINE d == [doc[h] EXCEPT !.status = "rolled_back"]
    <3>1. /\ d.change = doc[h].change /\ d.before = doc[h].before
      BY <1>0, <2>1 DEF Proposal
    <3>2. doc'[h] = d /\ pc'[h] = "save" /\ lastId' = NoId
      BY <1>5, <2>2, <1>0 DEF Undo, TypeOK
    <3> HIDE DEF d
    <3>3. Plain(d)
      BY <3>1, <2>1, <1>0 DEF Plain
    <3>4. QED
      BY <2>1, <3>2, <3>3, <1>0 DEF Exact
  <2>3. CASE ~Undoes(doc[h].change, doc[h].before, rows)
    <3>1. UNCHANGED <<rows, lastId, lastPre>> /\ pc'[h] = "idle" /\ doc'[h] = NoProposal
      BY <1>5, <2>3, <1>0 DEF Undo, Return, effects, TypeOK
    <3>2. \A i : Record(h, i)' = Record(h, i)
      BY <2>1, <3>1 DEF Record
    <3>3. QED
      BY <2>1, <3>1, <3>2, <1>0, ExactStays
  <2>4. QED
    BY <2>2, <2>3
<1>6. CASE Merge(h) \/ Backup(h) \/ Truncate(h) \/ WriteAudit(h)
  <2>1. /\ UNCHANGED <<rows, lastId, lastPre, stored>>
        /\ pc[h] # "save" /\ pc'[h] \notin {"save", "exec"}
        /\ doc'[h] \in {doc[h], NoProposal}
    BY <1>6, <1>0 DEF Merge, Backup, Truncate, WriteAudit, Return, effects, TypeOK
  <2>2. \A i : Record(h, i)' = Record(h, i)
    BY <2>1 DEF Record
  <2>3. QED
    BY <2>1, <2>2, <1>0, ExactStays
<1>7. CASE WriteModel(h)
  <2> DEFINE d == [doc[h] EXCEPT !.status = "committed"]
  <2>1. /\ UNCHANGED <<rows, lastId, lastPre, stored>>
        /\ pc[h] = "write" /\ pc'[h] = "save" /\ doc'[h] = d
        /\ stored[doc[h].id].status = "pending"
    BY <1>7, <1>0 DEF WriteModel, TypeOK, Current
  <2>2. d.id = doc[h].id /\ d.change = doc[h].change /\ d.before = doc[h].before
    BY <2>1, <1>0 DEF Proposal
  <2> HIDE DEF d
  <2>3. \A i : Said(h, i, "committed") => Record(h, i)' = Record(h, i)
    BY <2>1, <2>2 DEF Record, Said
  <2>4. Plain(d)
    BY <2>1, <2>2, <1>0 DEF Plain
  <2>5. QED
    BY <2>1, <2>3, <2>4, <1>0, ExactStays
<1>8. CASE Save(h)
  <2>1. /\ pc[h] = "save" /\ pc'[h] = "audit" /\ doc' = doc
        /\ stored' = [stored EXCEPT ![doc[h].id] = doc[h]]
        /\ UNCHANGED <<rows, lastId, lastPre>>
        /\ doc[h].id \in Ids
    BY <1>8, <1>0 DEF Save, effects, TypeOK
  <2>2. \A i : Record(h, i)' = Record(h, i)
    BY <2>1 DEF Record, TypeOK
  <2>3. \A i \in Ids : Plain(stored'[i])
    BY <2>1, <1>0 DEF TypeOK
  <2>4. QED
    BY <2>1, <2>2, <2>3, <1>0, ExactStays
<1>9. ~Die(h)
  BY DEF Die, TypeOK
<1>10. QED
  BY <1>1, <1>2, <1>3, <1>4, <1>5, <1>6, <1>7, <1>8, <1>9 DEF Next, Continue

-----------------------------------------------------------------------------
(* The refinement.  models/writeback.yaml lets an update set the primary    *)
(* key of `stores`; restoreRow then looks for the old key and restores      *)
(* nothing (engine.go:193), so such updates are excluded here.              *)
NoRenames == \A c \in Changes : c.op = "update" => c.setKey = Keep
(* The decision in force is the status of the record a reader would see,    *)
(* before a step and after it.                                              *)
Decided(h, id) == IF Record(h, id) = NoProposal THEN "none" ELSE Record(h, id).status

LEMMA DecisionOfRecord ==
  ASSUME NEW h, Handlers = {h}, TypeOK, TypeOK', NEW id \in Ids
  PROVE  DecisionOn(id) = Decided(h, id) /\ DecisionOn(id)' = Decided(h, id)'
<1> DEFINE unsaved == {g \in Handlers : pc[g] = "save" /\ doc[g].id = id}
<1>0. \A S : S = {h} => (CHOOSE g \in S : TRUE) = h
  OBVIOUS
<1>1. DecisionOn(id) = Decided(h, id)
  <2>0. pc[h] = "save" => doc[h] # NoProposal
    BY MarkersAssumption DEF TypeOK
  <2>1. CASE pc[h] = "save" /\ doc[h].id = id
    <3>1. unsaved = {h}
      BY <2>1
    <3>2. QED
      BY <1>0, <2>0, <2>1, <3>1 DEF DecisionOn, Record, Decided
  <2>2. CASE ~(pc[h] = "save" /\ doc[h].id = id)
    <3>1. unsaved = {}
      BY <2>2
    <3>2. QED
      BY <2>2, <3>1 DEF DecisionOn, Record, Decided
  <2>3. QED
    BY <2>1, <2>2
<1>2. DecisionOn(id)' = Decided(h, id)'
  <2>0. pc'[h] = "save" => doc'[h] # NoProposal
    BY MarkersAssumption DEF TypeOK
  <2>1. CASE pc'[h] = "save" /\ doc'[h].id = id
    <3>1. unsaved' = {h}
      BY <2>1
    <3>2. QED
      BY <1>0, <2>0, <2>1, <3>1 DEF DecisionOn, Record, Decided
  <2>2. CASE ~(pc'[h] = "save" /\ doc'[h].id = id)
    <3>1. unsaved' = {}
      BY <2>2
    <3>2. QED
      BY <2>2, <3>1 DEF DecisionOn, Record, Decided
  <2>3. QED
    BY <2>1, <2>2
<1>3. QED
  BY <1>1, <1>2

LEMMA DecisionStays ==
  ASSUME NEW h, Handlers = {h}, TypeOK, TypeOK',
         \A i \in Ids : Record(h, i)' = Record(h, i),
         UNCHANGED <<rows, lastId, lastPre>>
  PROVE  UNCHANGED Promise!vars
<1>1. \A i \in Ids : DecisionOn(i)' = DecisionOn(i)
  BY DecisionOfRecord DEF Decided
<1>2. [i \in Ids |-> DecisionOn(i)]' = [i \in Ids |-> DecisionOn(i)]
  BY <1>1
<1>3. QED
  BY <1>2 DEF Promise!vars

LEMMA DecisionMoves ==
  ASSUME NEW h, Handlers = {h}, TypeOK, TypeOK', NEW id \in Ids, NEW from, NEW to,
         \A i \in Ids : i # id => Record(h, i)' = Record(h, i),
         Decided(h, id) = from, Decided(h, id)' = to
  PROVE  Promise!Moves(id, from, to)
<1>1. \A i \in Ids : DecisionOn(i)' = IF i = id THEN to ELSE DecisionOn(i)
  BY DecisionOfRecord DEF Decided
<1>2. DecisionOn(id) = from
  BY DecisionOfRecord
<1>3. QED
  BY <1>1, <1>2 DEF Promise!Moves

(* Every step of the write path is a step of ReviewedChange or changes      *)
(* nothing there.                                                           *)
LEMMA NextKeepsPromise ==
  ASSUME NEW h, Handlers = {h}, MaxFaults = 0, NoRenames, TypeOK, TypeOK', LabelsFit, FiledById,
         Current(h), Exact(h), Next
  PROVE  Promise!Next \/ UNCHANGED Promise!vars
<1> USE DEF OnData, OnModel, Holding
<1>0. /\ h \in Handlers
      /\ \A i \in Ids : stored[i] # NoProposal => stored[i] \in Proposal
      /\ pc[h] # "idle" => doc[h] \in Proposal /\ doc[h].id \in Ids /\ doc[h] # NoProposal
      /\ \A p \in Proposal : p.id \in Ids /\ p.change \in Changes
      /\ rows' \in Image
  BY MarkersAssumption DEF TypeOK, Proposal
<1>1. ASSUME NEW id \in Ids, NEW p \in Principals, NEW c \in Changes, Propose(id, p, c)
      PROVE  Promise!Next
  <2> DEFINE d == [id |-> id, status |-> "pending", proposer |-> p, approver |-> Nobody,
                   change |-> c, before |-> Captured(c, rows)]
  <2>1. /\ d.status = "pending"
        /\ stored' = [stored EXCEPT ![id] = d]
        /\ stored[id] = NoProposal
        /\ UNCHANGED <<rows, lastId, lastPre, pc, doc>>
    BY <1>1 DEF Propose, effects
  <2>2. stored'[id] \in Proposal /\ d # NoProposal /\ stored'[id] = d
    <3>1. d \in Proposal
      BY CapturedType DEF d, Proposal, Status, TypeOK
    <3> HIDE DEF d
    <3>2. QED
      BY <3>1, <2>1, MarkersAssumption DEF TypeOK
  <2> HIDE DEF d
  <2>3. \A i \in Ids : i # id => Record(h, i)' = Record(h, i)
    BY <2>1 DEF Record, TypeOK
  <2>4. Decided(h, id) = "none" /\ Decided(h, id)' = "pending"
    BY <2>1, <2>2, <1>0 DEF Record, Current, Decided
  <2>5. Promise!Moves(id, "none", "pending")
    BY <2>3, <2>4, DecisionMoves
  <2>6. Promise!Propose(id)
    BY <2>1, <2>5 DEF Promise!Propose
  <2>7. QED
    BY <2>6 DEF Promise!Next
<1>2. CASE Request(h)
  <2>1. PICK p \in Principals, id \in Ids :
          LoadApprove(h, p, id) \/ LoadReject(h, p, id) \/ LoadRollback(h, p, id)
    BY <1>2 DEF Request
  <2>2. /\ stored[id] # NoProposal /\ stored[id] \in Proposal /\ stored[id].id = id
        /\ pc[h] = "idle"
        /\ UNCHANGED <<rows, lastId, lastPre, stored>>
    BY <2>1, <1>0 DEF LoadApprove, LoadReject, LoadRollback, HasStatus, Hold, effects, FiledById
  <2>3. CASE LoadApprove(h, p, id) \/ LoadRollback(h, p, id)
    <3>1. FirstStep(stored[id].change) # "save"
      BY <2>2, <1>0, FirstStepFits
    <3>2. pc'[h] # "save"
      BY <2>3, <3>1, <1>0 DEF LoadApprove, LoadRollback, Hold, TypeOK
    <3>3. \A i \in Ids : Record(h, i)' = Record(h, i)
      BY <2>2, <3>2 DEF Record
    <3>4. QED
      BY <2>2, <3>3, DecisionStays
  <2>4. CASE LoadReject(h, p, id)
    <3> DEFINE d == [stored[id] EXCEPT !.approver = p, !.status = "rejected"]
    <3>1. d.id = id /\ d.status = "rejected" /\ stored[id].status = "pending"
      BY <2>2, <2>4 DEF LoadReject, HasStatus, Proposal
    <3>2. pc'[h] = "save" /\ doc'[h] = d
      BY <2>4, <1>0 DEF LoadReject, Hold, TypeOK
    <3> HIDE DEF d
    <3>3. d # NoProposal
      BY <3>2, MarkersAssumption, <1>0 DEF TypeOK
    <3>4. \A i \in Ids : i # id => Record(h, i)' = Record(h, i)
      BY <2>2, <3>1, <3>2 DEF Record
    <3>5. Decided(h, id) = "pending" /\ Decided(h, id)' = "rejected"
      BY <2>2, <3>1, <3>2, <3>3 DEF Record, Decided
    <3>6. Promise!Moves(id, "pending", "rejected")
      BY <3>4, <3>5, DecisionMoves
    <3>7. Promise!Reject(id)
      BY <2>2, <3>6 DEF Promise!Reject
    <3>8. QED
      BY <3>7 DEF Promise!Next
  <2>5. QED
    BY <2>1, <2>3, <2>4
<1>3. CASE Snapshot(h) \/ Merge(h) \/ Backup(h) \/ Truncate(h) \/ WriteAudit(h)
  <2>1. /\ UNCHANGED <<rows, lastId, lastPre, stored>>
        /\ pc[h] # "save" /\ pc'[h] # "save"
    BY <1>3, <1>0 DEF Snapshot, Merge, Backup, Truncate, WriteAudit, Return, effects, TypeOK
  <2>2. \A i \in Ids : Record(h, i)' = Record(h, i)
    BY <2>1 DEF Record
  <2>3. QED
    BY <2>1, <2>2, DecisionStays
<1>4. CASE Exec(h)
  <2>1. PICK id \in Ids : id = doc[h].id
    BY <1>4, <1>0 DEF Exec
  <2>2. pc[h] = "exec" /\ stored' = stored /\ stored[id] # NoProposal
        /\ stored[id].status = "pending"
    BY <1>4, <2>1, <1>0 DEF Exec, Current
  <2>3. CASE Executes(doc[h].change, rows)
    <3> DEFINE d == [doc[h] EXCEPT !.status = "committed"]
    <3>1. d.id = id /\ d.status = "committed" /\ d # NoProposal
      BY <1>0, <2>1, <2>2, MarkersAssumption DEF Proposal, Status
    <3>2. doc'[h] = d /\ pc'[h] = "save" /\ lastId' = id /\ lastPre' = rows
      BY <1>4, <2>1, <2>3, <1>0 DEF Exec, TypeOK
    <3> HIDE DEF d
    <3>3. \A i \in Ids : i # id => Record(h, i)' = Record(h, i)
      BY <2>2, <3>1, <3>2 DEF Record
    <3>4. Decided(h, id) = "pending" /\ Decided(h, id)' = "committed"
      BY <2>2, <3>1, <3>2 DEF Record, Decided
    <3>5. Promise!Moves(id, "pending", "committed")
      BY <3>3, <3>4, DecisionMoves
    <3>6. Promise!Commit(id)
      BY <3>2, <3>5, <1>0 DEF Promise!Commit
    <3>7. QED
      BY <3>6 DEF Promise!Next
  <2>4. CASE ~Executes(doc[h].change, rows)
    <3>1. UNCHANGED <<rows, lastId, lastPre>> /\ pc'[h] = "idle"
      BY <1>4, <2>4, <1>0 DEF Exec, Return, effects, TypeOK
    <3>2. \A i \in Ids : Record(h, i)' = Record(h, i)
      BY <2>2, <3>1 DEF Record
    <3>3. QED
      BY <3>1, <3>2, DecisionStays
  <2>5. QED
    BY <2>3, <2>4
<1>5. CASE Undo(h)
  <2>1. PICK id \in Ids : id = doc[h].id
    BY <1>5, <1>0 DEF Undo
  <2>2. pc[h] = "undo" /\ stored' = stored /\ stored[id] = doc[h] /\ doc[h] # NoProposal
        /\ doc[h].status = "committed" /\ doc[h].change \in Changes
    BY <1>5, <2>1, <1>0 DEF Undo, Current, LabelsFit
  <2>3. CASE Undoes(doc[h].change, doc[h].before, rows)
    <3> DEFINE d == [doc[h] EXCEPT !.status = "rolled_back"]
    <3>1. d.id = id /\ d.status = "rolled_back" /\ d # NoProposal
      BY <1>0, <2>1, <2>2, MarkersAssumption DEF Proposal, Status
    <3>2. /\ doc'[h] = d /\ pc'[h] = "save" /\ lastId' = NoId /\ lastPre' = rows
          /\ rows' = Undone(doc[h].change, doc[h].before, rows)
      BY <1>5, <2>1, <2>3, <1>0 DEF Undo, TypeOK
    <3> HIDE DEF d
    <3>3. \A i \in Ids : i # id => Record(h, i)' = Record(h, i)
      BY <2>2, <3>1, <3>2 DEF Record
    <3>4. Decided(h, id) = "committed" /\ Decided(h, id)' = "rolled_back"
      BY <2>2, <3>1, <3>2 DEF Record, Decided
    <3>5. Promise!Moves(id, "committed", "rolled_back")
      BY <3>3, <3>4, DecisionMoves
    <3>6. ASSUME lastId = id PROVE rows' = lastPre
      <4> DEFINE c == doc[h].change
      <4>1. Record(h, lastId) = doc[h] /\ lastId # NoId /\ lastPre \in Image
        BY <3>6, <2>2, MarkersAssumption DEF Record, TypeOK
      <4>2. /\ doc[h].before = Captured(c, lastPre) /\ Executes(c, lastPre)
            /\ rows = Executed(c, lastPre) /\ c.op # "model"
        BY <4>1 DEF Exact, Latest
      <4>3. Undone(c, Captured(c, lastPre), Executed(c, lastPre)) = lastPre
        BY <4>1, <4>2, <2>2, RollbackInverts DEF NoRenames
      <4>4. QED
        BY <3>2, <4>2, <4>3
    <3>7. Promise!Rollback(id)
      BY <3>2, <3>5, <3>6, <1>0 DEF Promise!Rollback
    <3>8. QED
      BY <3>7 DEF Promise!Next
  <2>4. CASE ~Undoes(doc[h].change, doc[h].before, rows)
    <3>1. UNCHANGED <<rows, lastId, lastPre>> /\ pc'[h] = "idle"
      BY <1>5, <2>4, <1>0 DEF Undo, Return, effects, TypeOK
    <3>2. \A i \in Ids : Record(h, i)' = Record(h, i)
      BY <2>2, <3>1 DEF Record
    <3>3. QED
      BY <3>1, <3>2, DecisionStays
  <2>5. QED
    BY <2>3, <2>4
<1>6. CASE WriteModel(h)
  <2> DEFINE d == [doc[h] EXCEPT !.status = "committed"]
  <2>1. PICK id \in Ids : id = doc[h].id
    BY <1>6, <1>0 DEF WriteModel
  <2>2. /\ UNCHANGED <<rows, lastId, lastPre, stored>>
        /\ pc[h] = "write" /\ pc'[h] = "save" /\ doc'[h] = d
        /\ stored[id] # NoProposal /\ stored[id].status = "pending"
    BY <1>6, <2>1, <1>0 DEF WriteModel, TypeOK, Current
  <2>3. d.id = id /\ d.status = "committed" /\ d # NoProposal
    BY <1>0, <2>1, <2>2, MarkersAssumption DEF Proposal, Status
  <2> HIDE DEF d
  <2>4. \A i \in Ids : i # id => Record(h, i)' = Record(h, i)
    BY <2>2, <2>3 DEF Record
  <2>5. Decided(h, id) = "pending" /\ Decided(h, id)' = "committed"
    BY <2>2, <2>3 DEF Record, Decided
  <2>6. Promise!Moves(id, "pending", "committed")
    BY <2>4, <2>5, DecisionMoves
  <2>7. Promise!CommitModel(id)
    BY <2>2, <2>6 DEF Promise!CommitModel
  <2>8. QED
    BY <2>7 DEF Promise!Next
<1>7. CASE Save(h)
  <2>1. /\ pc[h] = "save" /\ pc'[h] = "audit" /\ doc' = doc
        /\ stored' = [stored EXCEPT ![doc[h].id] = doc[h]]
        /\ UNCHANGED <<rows, lastId, lastPre>>
        /\ doc[h].id \in Ids
    BY <1>7, <1>0 DEF Save, effects, TypeOK
  <2>2. \A i \in Ids : Record(h, i)' = Record(h, i)
    BY <2>1 DEF Record, TypeOK
  <2>3. QED
    BY <2>1, <2>2, DecisionStays
<1>8. ~Die(h)
  BY DEF Die, TypeOK
<1>9. QED
  BY <1>1, <1>2, <1>3, <1>4, <1>5, <1>6, <1>7, <1>8 DEF Next, Continue

LEMMA InitKeepsPromise ==
  ASSUME OneCall
  PROVE  Init => Promise!Init
<1> SUFFICES ASSUME Init PROVE Promise!Init
  OBVIOUS
<1>1. \A id \in Ids : DecisionOn(id) = "none"
  BY DEF Init, DecisionOn
<1>2. QED
  BY <1>1 DEF Init, Promise!Init

(* One call at a time, none of which dies, keeps the promise of             *)
(* ReviewedChange: each change is decided once, the table moves with the    *)
(* decision and not otherwise, and taking back the latest change gives back *)
(* the very table it found (engine.go:62-94, 165-217).                      *)
THEOREM PromiseIsKept ==
  ASSUME OneCall, MaxFaults = 0, NoRenames
  PROVE  Spec => KeepsPromise
<1>1. IInv /\ SerialInv /\ ExactInv /\ [Next]_vars
        => ExactInv' /\ (IInv' => [Promise!Next]_(Promise!vars))
  <2> SUFFICES ASSUME IInv, SerialInv, ExactInv, [Next]_vars
               PROVE  ExactInv' /\ (IInv' => [Promise!Next]_(Promise!vars))
    OBVIOUS
  <2>1. PICK h : Handlers = {h}
    BY DEF OneCall
  <2>2. Current(h) /\ Exact(h) /\ TypeOK /\ LabelsFit /\ FiledById
    BY <2>1 DEF SerialInv, ExactInv, IInv
  <2>3. IInv' => TypeOK'
    BY DEF IInv
  <2>4. CASE Next
    <3>1. Exact(h)'
      BY <2>1, <2>2, <2>4, NextExact
    <3>2. IInv' => Promise!Next \/ UNCHANGED Promise!vars
      BY <2>1, <2>2, <2>3, <2>4, NextKeepsPromise
    <3>3. QED
      BY <2>1, <3>1, <3>2 DEF ExactInv
  <2>5. CASE UNCHANGED vars
    <3>1. ExactInv'
      BY <2>5 DEF vars, ExactInv, Exact, Latest, Said, Record
    <3>2. UNCHANGED Promise!vars
      BY <2>5 DEF vars, Promise!vars, DecisionOn
    <3>3. QED
      BY <3>1, <3>2
  <2>6. QED
    BY <2>4, <2>5
<1>2. Init => Promise!Init
  BY InitKeepsPromise
<1>3. Spec => [](IInv /\ SerialInv)
  BY SerialInvariance
<1>4. QED
  BY <1>1, <1>2, <1>3, InitSerial, PTL DEF Spec, KeepsPromise, Promise!Spec

=============================================================================
