---------------------------- MODULE RolloutMirror -----------------------------
(***************************************************************************)
(* The registry with a brain attached: after its ledger line, every Sign,  *)
(* Promote and Rollback records a decision in CortexDB, and Resync records *)
(* the lines the brain has missed.                                         *)
(*                                                                         *)
(* The brain is a store of its own and may be down.  A decision points at  *)
(* the signature it rests on and at the decision it supersedes; both are   *)
(* looked up in the ledger as it was read, never in the brain, and what    *)
(* the brain lacks of them is recorded first.  The identity of a decision  *)
(* is that of its ledger line, time included, at a resolution of a second. *)
(* Another process, the operator's, runs Resync beside the calls.  The     *)
(* model files stay as they are: nothing here reads them, and new bytes    *)
(* reach the ledger by way of another file.                                *)
(***************************************************************************)
EXTENDS Rollout

CONSTANTS
  Operator,     \* the process that runs Resync
  SameSecond,   \* whether a ledger line may fall in the second of the last
  MaxResyncs    \* bound: runs of Resync

ASSUME OperatorAssumption == Operator \notin Procs
ASSUME ResyncAssumption == MaxResyncs \in Nat /\ SameSecond \subseteq BOOLEAN

VARIABLES
  stamps,    \* the second of each ledger line
  brain,     \* the decisions it holds
  job,       \* what each process is mirroring
  resyncs,   \* what has happened against the bound
  told,      \* history: the lines OnMirrorError was told about
  orphans,   \* history: the lines whose call died before it mirrored them
  synced     \* history: how many lines the last Resync that succeeded had read

mirrorVars == <<stamps, brain, job, resyncs, told, orphans, synced>>
allVars == <<vars, mirrorVars>>

Workers == Procs \cup {Operator}
Lines   == 1 .. Len(ledger)
NoLine  == 0

Id == [act : {"sign", "promote", "rollback"}, name : Names, hash : Contents, at : Nat]

DecisionIDFor(i) ==
  [act |-> ledger[i].act, name |-> ledger[i].name, hash |-> ledger[i].to, at |-> stamps[i]]

Decision == [id : Id, actor : Signers, premise : Id \cup {None}, supersedes : Id \cup {None}]

Holds(i) == \E d \in brain : d.id = DecisionIDFor(i)

(* A line that is being recorded, with the lines it points at.              *)
Frame == [line : Nat, premise : Nat, supersedes : Nat]

(* A job: the line its call wrote, how many lines it read, the lines it is  *)
(* in the middle of recording, and for Resync the next line to look at.     *)
Job == [stage : {"read", "walk"}, own : Nat, read : Nat, stack : Seq(Frame), next : Nat]
NoJob == [stage |-> "none"]

MirrorTypeOK ==
  /\ TypeOK
  /\ stamps \in Seq(Nat) /\ Len(stamps) = Len(ledger)
  /\ brain \subseteq Decision
  /\ job \in [Workers -> Job \cup {NoJob}]
  /\ {resyncs, synced} \subseteq Nat
  /\ told \subseteq Lines /\ orphans \subseteq Lines

MirrorInit ==
  /\ Init
  /\ stamps = <<>>
  /\ brain = {}
  /\ job = [w \in Workers |-> NoJob]
  /\ resyncs = 0
  /\ told = {} /\ orphans = {}
  /\ synced = 0

-----------------------------------------------------------------------------
(* latest: of some lines the newest; of two in one second, the one that     *)
(* ORDER BY ts happened to put last.                                        *)
Latest(lines) == IF lines = {} THEN {NoLine}
                 ELSE {i \in lines : \A j \in lines : stamps[j] <= stamps[i]}

(* Mutant: newer lines count too.                                           *)
AllRead(i, read) == 1 .. read \ {i}

(* The other lines of those read that are no newer than line i.             *)
UpTo(i, read) == {j \in 1 .. read : j # i /\ stamps[j] <= stamps[i]}

Activation(j) == ledger[j].act \in {"promote", "rollback"}

SignaturesFor(i, read) ==
  {j \in UpTo(i, read) : /\ Activation(i) /\ ledger[j].act = "sign"
                         /\ ledger[j].name = ledger[i].name
                         /\ ledger[j].to = ledger[i].to}

Replaced(i, read) ==
  {j \in UpTo(i, read) : /\ Activation(i) /\ Activation(j)
                         /\ ledger[i].act = "promote" => ledger[j].to = ledger[i].from}

Frames(i, read) ==
  [line       : {i},
   premise    : Latest(SignaturesFor(i, read)),
   supersedes : Latest(Replaced(i, read))]

-----------------------------------------------------------------------------
(* The registry and its calls, without the count of faults.                 *)
registry == <<versions, rank, ledger, disk, control, edits, lost, signatures>>

(* The brain, or the warehouse the ledger is read back from, is down for a  *)
(* moment.                                                                  *)
Outage == faults < MaxFaults /\ faults' = faults + 1

(* The registry's own steps; the one that appends a line goes on to mirror. *)
Act(p) ==
  /\ job[p] = NoJob
  /\ Start(p) \/ Step(p) \/ Die(p)
  /\ IF ledger' = ledger
     THEN UNCHANGED <<stamps, job>>
     ELSE /\ \E same \in IF ledger = <<>> THEN {FALSE} ELSE SameSecond :
               stamps' = Append(stamps,
                           IF ledger = <<>> THEN 1
                           ELSE IF same THEN stamps[Len(stamps)] ELSE stamps[Len(stamps)] + 1)
          /\ job' = [job EXCEPT ![p] = [stage |-> "read", own |-> Len(ledger'),
                                        read |-> 0, stack |-> <<>>, next |-> 0]]
  /\ UNCHANGED <<brain, resyncs, told, orphans, synced>>

(* mirror records the latest line of its act on these bytes.                *)
ReadBack(p) ==
  LET j == job[p]
      mine == {i \in Lines : /\ ledger[i].act = ledger[j.own].act
                             /\ ledger[i].name = ledger[j.own].name
                             /\ ledger[i].to = ledger[j.own].to}
  IN  /\ j.stage = "read"
      /\ \E i \in Latest(mine) : \E f \in Frames(i, Len(ledger)) :
           job' = [job EXCEPT ![p].stage = "walk", ![p].read = Len(ledger), ![p].stack = <<f>>]
      /\ UNCHANGED <<vars, stamps, brain, resyncs, told, orphans, synced>>

(* Mutant: it starts after the newest line the brain holds.                 *)
StartResyncAfterHead ==
  /\ job[Operator] = NoJob /\ resyncs < MaxResyncs
  /\ resyncs' = resyncs + 1
  /\ \E head \in 0 .. Len(ledger) :
       /\ \A i \in Lines : Holds(i) => i <= head
       /\ head > 0 => Holds(head)
       /\ job' = [job EXCEPT ![Operator] = [stage |-> "walk", own |-> NoLine, read |-> Len(ledger),
                                            stack |-> <<>>, next |-> head + 1]]
  /\ UNCHANGED <<vars, stamps, brain, told, orphans, synced>>

(* Resync reads the ledger.                                                 *)
StartResync ==
  /\ job[Operator] = NoJob /\ resyncs < MaxResyncs
  /\ resyncs' = resyncs + 1
  /\ job' = [job EXCEPT ![Operator] = [stage |-> "walk", own |-> NoLine, read |-> Len(ledger),
                                       stack |-> <<>>, next |-> 1]]
  /\ UNCHANGED <<vars, stamps, brain, told, orphans, synced>>

(* A read of the brain that fails says that it does not hold the line.      *)
Misses(i) ==
  \/ ~Holds(i) /\ UNCHANGED faults
  \/ Holds(i) /\ Outage

(* Its next line: the first one from there on that the brain misses.        *)
ResyncPick ==
  LET j == job[Operator] IN
  /\ j.stage = "walk" /\ j.stack = <<>>
  /\ \E i \in j.next .. j.read :
       /\ \A k \in j.next .. (i - 1) : Holds(k)
       /\ Misses(i)
       /\ \E f \in Frames(i, j.read) :
            job' = [job EXCEPT ![Operator].stack = <<f>>, ![Operator].next = i + 1]
  /\ UNCHANGED <<registry, stamps, brain, resyncs, told, orphans, synced>>

ResyncDone ==
  LET j == job[Operator] IN
  /\ j.stage = "walk" /\ j.stack = <<>>
  /\ \A i \in j.next .. j.read : Holds(i)
  /\ job' = [job EXCEPT ![Operator] = NoJob]
  /\ synced' = j.read
  /\ UNCHANGED <<vars, stamps, brain, resyncs, told, orphans>>

-----------------------------------------------------------------------------
(* mirrorEntry.                                                             *)

Visiting(stack) == {stack[k].line : k \in DOMAIN stack}
Top(stack) == stack[Len(stack)]

Deps(f, stack) == {f.premise, f.supersedes} \ ({NoLine} \cup Visiting(stack))

Recording(w) == job[w].stage = "walk" /\ job[w].stack # <<>>

(* A line that the top one points at is recorded first; the premise before  *)
(* the decision that is superseded.                                         *)
Descend(w) ==
  LET j == job[w]
      f == Top(j.stack)
  IN  /\ Recording(w)
      /\ \E i \in Deps(f, j.stack) :
           /\ i # f.premise /\ f.premise \in Deps(f, j.stack) => Holds(f.premise)
           /\ Misses(i)
           /\ \E g \in Frames(i, j.read) :
                job' = [job EXCEPT ![w].stack = Append(@, g)]
      /\ UNCHANGED <<registry, stamps, brain, resyncs, told, orphans, synced>>

Edge(i, stack) == IF i = NoLine \/ i \in Visiting(stack) THEN None ELSE DecisionIDFor(i)

(* RecordDecision upserts.                                                  *)
Upsert(d) == {e \in brain : e.id # d.id} \cup {d}

(* Mutant: it is recorded before what it points at.                         *)
RecordFirst(w) ==
  LET j == job[w]
      f == Top(j.stack)
  IN  /\ Recording(w)
      /\ brain' = Upsert([id         |-> DecisionIDFor(f.line),
                          actor      |-> ledger[f.line].by,
                          premise    |-> Edge(f.premise, j.stack),
                          supersedes |-> Edge(f.supersedes, j.stack)])
      /\ job' = [job EXCEPT ![w] =
                   IF Len(j.stack) > 1 \/ w = Operator
                   THEN [j EXCEPT !.stack = SubSeq(@, 1, Len(@) - 1)]
                   ELSE NoJob]
      /\ UNCHANGED <<vars, stamps, resyncs, told, orphans, synced>>

RecordDecision(w) ==
  LET j == job[w]
      f == Top(j.stack)
  IN  /\ Recording(w)
      /\ \A i \in Deps(f, j.stack) : Holds(i)
      /\ brain' = Upsert([id         |-> DecisionIDFor(f.line),
                          actor      |-> ledger[f.line].by,
                          premise    |-> Edge(f.premise, j.stack),
                          supersedes |-> Edge(f.supersedes, j.stack)])
      /\ job' = [job EXCEPT ![w] =
                   IF Len(j.stack) > 1 \/ w = Operator
                   THEN [j EXCEPT !.stack = SubSeq(@, 1, Len(@) - 1)]
                   ELSE NoJob]
      /\ UNCHANGED <<vars, stamps, resyncs, told, orphans, synced>>

(* The brain, or the ledger that is read back, is down: the failure of a    *)
(* mirror is reported, the call stands; that of Resync is returned.         *)
GiveUp(w) ==
  /\ job[w] # NoJob
  /\ Outage
  /\ told' = IF w = Operator THEN told ELSE told \cup {job[w].own}
  /\ job' = [job EXCEPT ![w] = NoJob]
  /\ UNCHANGED <<registry, stamps, brain, resyncs, orphans, synced>>

(* The process dies before it is done.                                      *)
DieMirroring(p) ==
  /\ faults < MaxFaults
  /\ faults' = faults + 1
  /\ job[p] # NoJob
  /\ orphans' = orphans \cup {job[p].own}
  /\ job' = [job EXCEPT ![p] = NoJob]
  /\ UNCHANGED <<registry, stamps, brain, resyncs, told, synced>>

MirrorNext ==
  \/ \E p \in Procs : Act(p) \/ ReadBack(p) \/ DieMirroring(p)
  \/ StartResync \/ ResyncPick \/ ResyncDone
  \/ \E w \in Workers : Descend(w) \/ RecordDecision(w) \/ GiveUp(w)

MirrorSpec == MirrorInit /\ [][MirrorNext]_allVars

-----------------------------------------------------------------------------
(* Properties.                                                              *)

Before(i, what(_)) ==
  LET found == {k \in 1 .. (i - 1) : what(k)}
  IN  IF found = {} THEN None ELSE DecisionIDFor(CHOOSE k \in found : \A l \in found : l <= k)

(* What the ledger says of line i: an activation rests on the signature     *)
(* last given for its bytes; it supersedes, for a promotion, the activation *)
(* of the bytes it replaced and, for a rollback, the one before it.         *)
Derived(i) ==
  LET e == ledger[i]
      signed(k) == ledger[k].act = "sign" /\ ledger[k].name = e.name /\ ledger[k].to = e.to
      undone(k) == Activation(k) /\ (e.act = "promote" => ledger[k].to = e.from)
      nothing(k) == FALSE
  IN  [id         |-> DecisionIDFor(i),
       actor      |-> e.by,
       premise    |-> IF e.act = "sign" THEN None ELSE Before(i, signed),
       supersedes |-> IF e.act = "sign" THEN None ELSE Before(i, undone)]

Distinct == \A i \in Lines, k \in Lines : i < k => stamps[i] < stamps[k]

(* While no two acts fall in one second, every decision of the brain is     *)
(* what the ledger says of its line, edges included, whichever writes       *)
(* failed before it and whoever recorded it: a call, a later call that      *)
(* needed it, or Resync (mirror.go:28-35, 301-374).                         *)
BrainIsDerived == Distinct => \A d \in brain : \E i \in Lines : d = Derived(i)

(* No decision points at one the brain does not hold, also while a chain    *)
(* is being recorded and when it breaks off (mirror.go:341-365).            *)
NoDanglingEdges ==
  \A d \in brain : {d.premise, d.supersedes} \subseteq {e.id : e \in brain} \cup {None}

(* A call at a time, a line that the brain lacks is being recorded, was     *)
(* reported, or its call died (mirror.go:262-293); and a Resync that        *)
(* returned no error has left no gap among the lines that were in the       *)
(* ledger when it began (mirror.go:237-260).                                *)
GapsAreKnown ==
  \A i \in Lines :
    \/ Holds(i)
    \/ /\ i > synced
       /\ i \in told \cup orphans \/ \E p \in Procs : job[p] # NoJob /\ job[p].own = i

=============================================================================
