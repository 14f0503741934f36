------------------------- MODULE RolloutMirrorProofs -------------------------
(***************************************************************************)
(* Theorems about RolloutMirror for any number of versions, calls, edits,  *)
(* faults and runs of Resync: it is well typed, no decision of the brain   *)
(* points at one it does not hold, as long as no two lines share a second  *)
(* every decision is what the ledger says of its line, and for one call at *)
(* a time every gap is known.                                              *)
(*                                                                         *)
(* A step of the mirror is a step of the registry or leaves all of it but  *)
(* the count of faults, so the invariant of RolloutProofs holds here too.  *)
(* What is added says what a job holds: lines of the ledger it has read,   *)
(* each with the lines that it points at.                                  *)
(***************************************************************************)
EXTENDS RolloutMirror, RolloutProofs, WellFoundedInduction

(* What the job of a worker holds, given the length of the ledger.          *)
FrameFits(f, read) ==
  f \in Frame /\ f.line \in 1 .. read /\ f.premise \in 0 .. read /\ f.supersedes \in 0 .. read

JobFits(w, j, len) ==
  /\ j \in Job
  /\ j.read \in 0 .. len
  /\ w \in Procs => j.own \in 1 .. len
  /\ w \notin Procs => j.next >= 1
  /\ j.stage = "read" => w \in Procs
  /\ j.stage = "walk" /\ w \in Procs => j.stack # <<>>
  /\ \A k \in DOMAIN j.stack : FrameFits(j.stack[k], j.read)

Jobs == \A w \in Workers : job[w] # NoJob => JobFits(w, job[w], Len(ledger))

MInv == IInv /\ MirrorTypeOK /\ Jobs

(* What the ledger alone says of a line: the lines it points at, and its    *)
(* decision.                                                                *)
SignedIn(l, i) == {k \in 1 .. (i - 1) : l[k].act = "sign" /\ l[k].name = l[i].name /\ l[k].to = l[i].to}
UndoneIn(l, i) == {k \in 1 .. (i - 1) : /\ l[k].act \in {"promote", "rollback"}
                                        /\ l[i].act = "promote" => l[k].to = l[i].from}

LastOf(S) == IF S = {} THEN NoLine ELSE CHOOSE k \in S : \A m \in S : m <= k

PremiseIn(l, i)  == IF l[i].act = "sign" THEN NoLine ELSE LastOf(SignedIn(l, i))
ReplacedIn(l, i) == IF l[i].act = "sign" THEN NoLine ELSE LastOf(UndoneIn(l, i))

IdIn(l, s, i)   == [act |-> l[i].act, name |-> l[i].name, hash |-> l[i].to, at |-> s[i]]
EdgeIn(l, s, i) == IF i = NoLine THEN None ELSE IdIn(l, s, i)

DerivedIn(l, s, i) ==
  [id         |-> IdIn(l, s, i),
   actor      |-> l[i].by,
   premise    |-> EdgeIn(l, s, PremiseIn(l, i)),
   supersedes |-> EdgeIn(l, s, ReplacedIn(l, i))]

(* A stack of frames of earlier and earlier lines, each as the ledger says. *)
Descending(stack) == \A a \in DOMAIN stack, b \in DOMAIN stack : a < b => stack[b].line < stack[a].line

FrameDerived(f, l) == f.premise = PremiseIn(l, f.line) /\ f.supersedes = ReplacedIn(l, f.line)

StackDerived(stack, l) == Descending(stack) /\ \A k \in DOMAIN stack : FrameDerived(stack[k], l)

DerivedInv ==
  Distinct => /\ \A d \in brain : \E i \in Lines : d = DerivedIn(ledger, stamps, i)
              /\ \A w \in Workers : job[w] # NoJob => StackDerived(job[w].stack, ledger)

(* Where the gaps are.                                                      *)
Ordered == \A i \in Lines, k \in Lines : i <= k => stamps[i] <= stamps[k]

Owed(i) == i \in told \cup orphans \/ \E p \in Procs : job[p] # NoJob /\ job[p].own = i

CallWalks ==
  \A p \in Procs : job[p] # NoJob =>
    /\ job[p].own = Len(ledger)
    /\ job[p].stack # <<>> => DecisionIDFor(job[p].stack[1].line) = DecisionIDFor(job[p].own)

ResyncWalks ==
  LET j == job[Operator] IN
  j # NoJob =>
    /\ j.next <= j.read + 1
    /\ j.stack # <<>> => j.next = j.stack[1].line + 1
    /\ \A i \in Lines : i < j.next => Holds(i) \/ (j.stack # <<>> /\ i = j.stack[1].line)

Accounted ==
  /\ Ordered
  /\ synced \in 0 .. Len(ledger)
  /\ \A i \in Lines : Holds(i) \/ (i > synced /\ Owed(i))

GapsInv ==
  /\ Accounted
  /\ CallWalks
  /\ ResyncWalks

-----------------------------------------------------------------------------
(* Steps of the mirror as the registry sees them.                           *)

LEMMA CallsStep ==
  ASSUME IInv, NEW p \in Procs, Start(p) \/ Step(p) \/ Die(p)
  PROVE  /\ IInv'
         /\ \/ ledger' = ledger
            \/ \E e \in Entry : ledger' = Append(ledger, e)
<1>1. IInv'
  BY NextIInv DEF Next
<1>2. \/ ledger' = ledger
      \/ Record(p)
  BY DEF Start, Step, Die, Demote, Demoted, GetCanary, PutCanary, PutSign, ReadActive, Retire, CheckActive,
         LoseActive, Activate, Register, StartRollback, LoadPromote, StartCanary, LoadSign, Begin
<1>3. CASE Record(p)
  <2>1. PICK e : ledger' = Append(ledger, e)
    BY <1>3 DEF Record
  <2>2. ledger \in Seq(Entry) /\ ledger' \in Seq(Entry)
    BY <1>1 DEF IInv, TypeOK
  <2>3. ledger'[Len(ledger) + 1] = e /\ Len(ledger) + 1 \in DOMAIN ledger'
    BY <2>1, <2>2
  <2>4. e \in Entry
    BY <2>2, <2>3
  <2>5. QED
    BY <1>1, <2>1, <2>4
<1>4. QED
  BY <1>1, <1>2, <1>3

LEMMA OutageKeeps ==
  ASSUME IInv, UNCHANGED registry, UNCHANGED faults \/ faults' = faults + 1
  PROVE  IInv'
<1>1. faults' \in Nat
  BY DEF IInv, TypeOK
<1>2. QED
  BY <1>1 DEF IInv, TypeOK, DocumentsSound, CallsFit, LedgerTruthful, registry, control

Mirroring(w) == ReadBack(w) \/ StartResync \/ ResyncPick \/ ResyncDone
                \/ Descend(w) \/ RecordDecision(w) \/ GiveUp(w) \/ DieMirroring(w)

LEMMA MirrorSteps ==
  ASSUME IInv, NEW w, Mirroring(w)
  PROVE  IInv' /\ UNCHANGED <<ledger, stamps>>
<1>1. UNCHANGED registry /\ (UNCHANGED faults \/ faults' = faults + 1) /\ UNCHANGED stamps
  BY DEF Mirroring, ReadBack, StartResync, ResyncPick, ResyncDone, Descend, RecordDecision, GiveUp,
         DieMirroring, Misses, Outage, registry, control, vars
<1>2. QED
  BY <1>1, OutageKeeps DEF registry

(* A next step is one of those, or a call's.                                *)
LEMMA NextIs ==
  ASSUME [MirrorNext]_allVars
  PROVE  \/ \E p \in Procs : Act(p)
         \/ \E w \in Workers : Mirroring(w)
         \/ UNCHANGED allVars
  BY DEF MirrorNext, Mirroring, Workers

-----------------------------------------------------------------------------
(* Types, and what the jobs hold.                                           *)

LEMMA JobsFit ==
  ASSUME MInv, NEW w \in Workers, job[w] # NoJob
  PROVE  JobFits(w, job[w], Len(ledger)) /\ Len(ledger) \in Nat
  BY DEF MInv, Jobs, IInv, TypeOK

LEMMA FitsLonger ==
  ASSUME NEW w, NEW j, NEW m \in Nat, NEW n \in Nat, m <= n, JobFits(w, j, m)
  PROVE  JobFits(w, j, n)
  BY DEF JobFits

LEMMA NoJobIsNone ==
  /\ NoJob \notin Job
  /\ \A w \in Workers : job[w].stage \in {"read", "walk"} => job[w] # NoJob
  BY DEF NoJob, Job

LEMMA JobsKept ==
  ASSUME MInv, ledger' \in Seq(Entry), Len(ledger) <= Len(ledger'),
         NEW w \in Workers, NEW j, job' = [job EXCEPT ![w] = j],
         j # NoJob => JobFits(w, j, Len(ledger'))
  PROVE  Jobs' /\ job' \in [Workers -> Job \cup {NoJob}]
<1>1. Len(ledger) \in Nat /\ Len(ledger') \in Nat
  BY DEF MInv, IInv, TypeOK
<1>2. j \in Job \cup {NoJob}
  BY DEF JobFits
<1>3. job' \in [Workers -> Job \cup {NoJob}]
  BY <1>2 DEF MInv, MirrorTypeOK
<1>4. ASSUME NEW v \in Workers, job'[v] # NoJob PROVE JobFits(v, job'[v], Len(ledger'))
  <2>1. CASE v = w
    BY <1>4, <2>1 DEF MInv, MirrorTypeOK
  <2>2. CASE v # w
    <3>1. job'[v] = job[v]
      BY <2>2 DEF MInv, MirrorTypeOK
    <3>2. QED
      BY <1>1, <1>4, <3>1, JobsFit, FitsLonger
  <2>3. QED
    BY <2>1, <2>2
<1>5. QED
  BY <1>3, <1>4 DEF Jobs

LEMMA FramesFit ==
  ASSUME NEW read \in Nat, NEW i \in 1 .. read, NEW f \in Frames(i, read)
  PROVE  FrameFits(f, read) /\ f.line = i
<1>1. ASSUME NEW S, S \subseteq 1 .. read PROVE Latest(S) \subseteq 0 .. read
  <2>1. Latest(S) \subseteq S \cup {0}
    BY DEF Latest, NoLine
  <2>2. S \cup {0} \subseteq 0 .. read
    BY <1>1
  <2>3. QED
    BY <2>1, <2>2
<1>2. SignaturesFor(i, read) \subseteq 1 .. read /\ Replaced(i, read) \subseteq 1 .. read
  BY DEF SignaturesFor, Replaced, UpTo
<1>3. Latest(SignaturesFor(i, read)) \subseteq 0 .. read /\ Latest(Replaced(i, read)) \subseteq 0 .. read
  BY <1>1, <1>2
<1>4. f.line = i /\ f.premise \in 0 .. read /\ f.supersedes \in 0 .. read /\ f \in Frame
  BY <1>3 DEF Frames, Frame
<1>5. QED
  BY <1>4 DEF FrameFits

(* The identity and the decision of a line.                                 *)
LEMMA IdentityType ==
  ASSUME MInv, NEW i \in Lines
  PROVE  DecisionIDFor(i) \in Id /\ ledger[i].by \in Signers
<1>1. i \in DOMAIN ledger /\ i \in DOMAIN stamps /\ ledger[i] \in Entry /\ stamps[i] \in Nat
  BY DEF MInv, MirrorTypeOK, IInv, TypeOK, Lines
<1>2. <<ledger[i].by, ledger[i].to>> \in Signers \X Contents
  BY <1>1 DEF MInv, IInv, TypeOK, LedgerTruthful
<1>3. QED
  BY <1>1, <1>2 DEF DecisionIDFor, Id, Entry

LEMMA TopFits ==
  ASSUME MInv, NEW w \in Workers, Recording(w)
  PROVE  LET j == job[w] f == Top(j.stack) IN
         /\ job[w] # NoJob /\ JobFits(w, j, Len(ledger)) /\ j \in Job
         /\ j.stage = "walk" /\ j.stack \in Seq(Frame) /\ j.stack # <<>>
         /\ Len(j.stack) \in Nat /\ Len(j.stack) >= 1
         /\ j.read \in 0 .. Len(ledger)
         /\ FrameFits(f, j.read) /\ f.line \in Lines
         /\ Visiting(j.stack) \subseteq 1 .. j.read
<1>1. job[w] # NoJob /\ job[w].stage = "walk" /\ job[w].stack # <<>>
  BY NoJobIsNone DEF Recording
<1>2. JobFits(w, job[w], Len(ledger)) /\ Len(ledger) \in Nat
  BY <1>1, JobsFit
<1>3. job[w] \in Job /\ job[w].read \in 0 .. Len(ledger) /\ job[w].stack \in Seq(Frame)
  BY <1>2 DEF JobFits, Job
<1>4. Len(job[w].stack) \in Nat /\ Len(job[w].stack) >= 1 /\ Len(job[w].stack) \in DOMAIN job[w].stack
  BY <1>1, <1>3
<1>5. FrameFits(Top(job[w].stack), job[w].read)
  BY <1>2, <1>4 DEF JobFits, Top
<1>6. \A k \in DOMAIN job[w].stack : job[w].stack[k].line \in 1 .. job[w].read
  BY <1>2 DEF JobFits, FrameFits
<1>7. Top(job[w].stack).line \in Lines
  BY <1>2, <1>3, <1>5 DEF FrameFits, Lines
<1>8. QED
  BY <1>1, <1>2, <1>3, <1>4, <1>5, <1>6, <1>7 DEF Visiting

(* A job that stands as it is, in a ledger that may have grown.             *)
LEMMA MoreLines ==
  ASSUME MInv, IInv', ledger' = ledger \/ \E e \in Entry : ledger' = Append(ledger, e)
  PROVE  /\ ledger \in Seq(Entry) /\ ledger' \in Seq(Entry)
         /\ Len(ledger) \in Nat /\ Len(ledger') \in Nat /\ Len(ledger) <= Len(ledger')
         /\ Lines \subseteq Lines'
         /\ \A i \in Lines : ledger'[i] = ledger[i]
<1>1. ledger \in Seq(Entry) /\ ledger' \in Seq(Entry)
  BY DEF MInv, IInv, TypeOK
<1>2. ASSUME NEW e \in Entry, ledger' = Append(ledger, e)
      PROVE  Len(ledger') = Len(ledger) + 1 /\ \A i \in 1 .. Len(ledger) : ledger'[i] = ledger[i]
  BY <1>1, <1>2
<1>3. QED
  BY <1>1, <1>2 DEF Lines

LEMMA ActTypes ==
  ASSUME MInv, NEW p \in Procs, Act(p)
  PROVE  MInv'
<1>1. IInv' /\ (ledger' = ledger \/ \E e \in Entry : ledger' = Append(ledger, e))
  BY CallsStep DEF MInv, Act
<1>2. /\ Len(ledger) \in Nat /\ Len(ledger') \in Nat /\ Len(ledger) <= Len(ledger')
      /\ ledger \in Seq(Entry) /\ ledger' \in Seq(Entry) /\ Lines \subseteq Lines'
  BY <1>1, MoreLines
<1>3. p \in Workers
  BY DEF Workers
<1>4. TypeOK' /\ brain' \subseteq Decision /\ {resyncs, synced}' \subseteq Nat
      /\ told' \subseteq Lines' /\ orphans' \subseteq Lines'
  BY <1>1, <1>2 DEF Act, MInv, MirrorTypeOK, IInv
<1>5. CASE ledger' = ledger
  <2>1. UNCHANGED <<stamps, job>>
    BY <1>5 DEF Act
  <2>2. stamps' \in Seq(Nat) /\ Len(stamps') = Len(ledger')
    BY <1>5, <2>1 DEF MInv, MirrorTypeOK
  <2>3. Jobs' /\ job' \in [Workers -> Job \cup {NoJob}]
    BY <1>5, <2>1 DEF MInv, MirrorTypeOK, Jobs
  <2>4. QED
    BY <1>1, <1>4, <2>2, <2>3 DEF MInv, MirrorTypeOK
<1>6. CASE ledger' # ledger
  <2>1. PICK e \in Entry : ledger' = Append(ledger, e)
    BY <1>1, <1>6
  <2>2. Len(ledger') = Len(ledger) + 1
    BY <1>2, <2>1
  <2>3. PICK j : j = [stage |-> "read", own |-> Len(ledger'), read |-> 0, stack |-> <<>>, next |-> 0]
    OBVIOUS
  <2>4. job' = [job EXCEPT ![p] = j]
    BY <1>6, <2>3 DEF Act
  <2>5. /\ j.stage = "read" /\ j.own = Len(ledger') /\ j.read = 0 /\ j.stack = <<>> /\ j.next = 0
        /\ j.own \in Nat /\ <<>> \in Seq(Frame)
    BY <1>2, <2>3
  <2>6. j \in Job
    BY <2>3, <2>5 DEF Job
  <2>7. JobFits(p, j, Len(ledger'))
    BY <1>2, <2>2, <2>5, <2>6 DEF JobFits
  <2>8. Jobs' /\ job' \in [Workers -> Job \cup {NoJob}]
    BY <1>2, <1>3, <2>4, <2>7, JobsKept
  <2>9. PICK t : /\ stamps' = Append(stamps, t)
                 /\ \/ t = 1
                    \/ ledger # <<>> /\ t \in {stamps[Len(stamps)], stamps[Len(stamps)] + 1}
    BY <1>6 DEF Act
  <2>10. stamps \in Seq(Nat) /\ Len(stamps) = Len(ledger)
    BY DEF MInv, MirrorTypeOK
  <2>11. t \in Nat
    <3>1. CASE ledger # <<>>
      <4>1. Len(stamps) \in DOMAIN stamps
        BY <1>2, <2>10, <3>1
      <4>2. stamps[Len(stamps)] \in Nat
        BY <2>10, <4>1
      <4>3. QED
        BY <2>9, <3>1, <4>2
    <3>2. QED
      BY <2>9, <3>1
  <2>12. stamps' \in Seq(Nat) /\ Len(stamps') = Len(stamps) + 1
    BY <2>9, <2>10, <2>11
  <2>13. QED
    BY <1>1, <1>4, <2>2, <2>8, <2>10, <2>12 DEF MInv, MirrorTypeOK
<1>7. QED
  BY <1>5, <1>6

(* A mirroring step leaves the ledger; it changes one job.                  *)
LEMMA MirroringTypes ==
  ASSUME MInv, NEW w \in Workers, NEW v, Mirroring(v), NEW j, job' = [job EXCEPT ![w] = j],
         j # NoJob => JobFits(w, j, Len(ledger)),
         brain' \subseteq Decision, {resyncs', synced'} \subseteq Nat,
         told' \subseteq Lines, orphans' \subseteq Lines
  PROVE  MInv'
<1>1. IInv' /\ UNCHANGED <<ledger, stamps>>
  BY MirrorSteps DEF MInv
<1>2. ledger' \in Seq(Entry) /\ Len(ledger') \in Nat
  BY <1>1 DEF IInv, TypeOK
<1>2a. Len(ledger) <= Len(ledger') /\ (j # NoJob => JobFits(w, j, Len(ledger')))
  BY <1>1, <1>2
<1>3. Jobs' /\ job' \in [Workers -> Job \cup {NoJob}]
  BY <1>2, <1>2a, JobsKept
<1>4. Lines' = Lines
  BY <1>1 DEF Lines
<1>5. QED
  BY <1>1, <1>3, <1>4 DEF MInv, MirrorTypeOK, IInv

LEMMA EdgeType ==
  ASSUME MInv, NEW w \in Workers, Recording(w), NEW i \in 0 .. job[w].read
  PROVE  Edge(i, job[w].stack) \in Id \cup {None}
<1>1. job[w].read \in 0 .. Len(ledger) /\ Len(ledger) \in Nat
  BY TopFits DEF MInv, IInv, TypeOK
<1>2. i # NoLine => i \in Lines
  BY <1>1 DEF Lines, NoLine
<1>3. QED
  BY <1>2, IdentityType DEF Edge

(* The decision that RecordDecision records.                                *)
Recorded(w) ==
  LET j == job[w]
      f == Top(j.stack)
  IN  [id         |-> DecisionIDFor(f.line),
       actor      |-> ledger[f.line].by,
       premise    |-> Edge(f.premise, j.stack),
       supersedes |-> Edge(f.supersedes, j.stack)]

LEMMA RecordedIs ==
  ASSUME NEW w, RecordDecision(w)
  PROVE  /\ brain' = Upsert(Recorded(w))
         /\ Recorded(w).id = DecisionIDFor(Top(job[w].stack).line)
         /\ Recorded(w).premise = Edge(Top(job[w].stack).premise, job[w].stack)
         /\ Recorded(w).supersedes = Edge(Top(job[w].stack).supersedes, job[w].stack)
  BY DEF RecordDecision, Recorded

LEMMA PushedFits ==
  ASSUME NEW w, NEW j, NEW len \in Nat, JobFits(w, j, len), j.stage = "walk", NEW g, FrameFits(g, j.read),
         NEW k, k = [j EXCEPT !.stack = Append(@, g)]
  PROVE  JobFits(w, k, len)
<1>1. j \in Job /\ j.stack \in Seq(Frame) /\ g \in Frame
  BY DEF JobFits, Job, FrameFits
<1>2. /\ k.stage = j.stage /\ k.own = j.own /\ k.read = j.read /\ k.next = j.next
      /\ k.stack = Append(j.stack, g)
  BY <1>1 DEF Job
<1>3. Append(j.stack, g) \in Seq(Frame) /\ Append(j.stack, g) # <<>>
  BY <1>1
<1>4. k \in Job
  BY <1>1, <1>3 DEF Job
<1>5. ASSUME NEW i \in DOMAIN Append(j.stack, g) PROVE FrameFits(Append(j.stack, g)[i], j.read)
  <2>1. i = Len(j.stack) + 1 \/ i \in DOMAIN j.stack
    BY <1>1, <1>5
  <2>2. CASE i = Len(j.stack) + 1
    BY <1>1, <2>2
  <2>3. CASE i \in DOMAIN j.stack
    <3>1. Append(j.stack, g)[i] = j.stack[i]
      BY <1>1, <2>3
    <3>2. QED
      BY <2>3, <3>1 DEF JobFits
  <2>4. QED
    BY <2>1, <2>2, <2>3
<1>6. QED
  BY <1>2, <1>3, <1>4, <1>5 DEF JobFits

LEMMA PoppedFits ==
  ASSUME NEW w, NEW j, NEW len \in Nat, JobFits(w, j, len), j.stage = "walk", j.stack # <<>>,
         w \in Procs => Len(j.stack) > 1,
         NEW k, k = [j EXCEPT !.stack = SubSeq(@, 1, Len(@) - 1)]
  PROVE  JobFits(w, k, len)
<1>1. j \in Job /\ j.stack \in Seq(Frame)
  BY DEF JobFits, Job
<1>2. PICK s : s = SubSeq(j.stack, 1, Len(j.stack) - 1)
  OBVIOUS
<1>3. /\ k.stage = j.stage /\ k.own = j.own /\ k.read = j.read /\ k.next = j.next
      /\ k.stack = s
  BY <1>1, <1>2 DEF Job
<1>4. Len(j.stack) \in Nat /\ Len(j.stack) >= 1
  BY <1>1
<1>5. s \in Seq(Frame) /\ Len(s) = Len(j.stack) - 1
  BY <1>1, <1>2, <1>4
<1>6. \A i \in DOMAIN s : i \in DOMAIN j.stack /\ s[i] = j.stack[i]
  BY <1>1, <1>2, <1>4
<1>7. k \in Job
  <2>1. k = [j EXCEPT !.stack = s]
    BY <1>2
  <2>2. QED
    BY <1>1, <1>5, <2>1 DEF Job
<1>8. ASSUME w \in Procs PROVE k.stack # <<>>
  <2>1. Len(s) >= 1
    BY <1>4, <1>5, <1>8
  <2>2. s # <<>>
    BY <2>1
  <2>3. QED
    BY <1>3, <2>2
<1>9. QED
  BY <1>3, <1>6, <1>7, <1>8 DEF JobFits

LEMMA TypesStep == MInv /\ [MirrorNext]_allVars => MInv'
<1> SUFFICES ASSUME MInv, [MirrorNext]_allVars PROVE MInv'
  OBVIOUS
<1>0. /\ ledger \in Seq(Entry) /\ Len(ledger) \in Nat
      /\ job \in [Workers -> Job \cup {NoJob}]
      /\ brain \subseteq Decision /\ {resyncs, synced} \subseteq Nat
      /\ told \subseteq Lines /\ orphans \subseteq Lines
      /\ Procs \subseteq Workers /\ Operator \in Workers /\ Operator \notin Procs
  BY OperatorAssumption DEF MInv, IInv, TypeOK, MirrorTypeOK, Workers
<1>1. ASSUME NEW p \in Procs, Act(p) PROVE MInv'
  BY <1>1, ActTypes
<1>2. ASSUME NEW p \in Procs, ReadBack(p) PROVE MInv'
  <2>0. Mirroring(p)
    BY <1>2 DEF Mirroring
  <2> DEFINE mine == {i \in Lines : /\ ledger[i].act = ledger[job[p].own].act
                                    /\ ledger[i].name = ledger[job[p].own].name
                                    /\ ledger[i].to = ledger[job[p].own].to}
  <2>1. job[p] # NoJob /\ job[p].stage = "read"
    BY <1>0, <1>2, NoJobIsNone DEF ReadBack
  <2>2. JobFits(p, job[p], Len(ledger)) /\ job[p] \in Job /\ job[p].own \in mine
    BY <1>0, <2>1, JobsFit DEF JobFits, Lines
  <2>3. PICK i, f :
          /\ i \in Latest(mine) /\ f \in Frames(i, Len(ledger))
          /\ job' = [job EXCEPT ![p].stage = "walk", ![p].read = Len(ledger), ![p].stack = <<f>>]
    BY <1>2 DEF ReadBack
  <2>4. i \in 1 .. Len(ledger)
    BY <2>2, <2>3 DEF Latest, Lines
  <2>5. FrameFits(f, Len(ledger))
    BY <1>0, <2>3, <2>4, FramesFit
  <2>6. PICK k : k = [job[p] EXCEPT !.stage = "walk", !.read = Len(ledger), !.stack = <<f>>]
    OBVIOUS
  <2>7. job' = [job EXCEPT ![p] = k]
    BY <1>0, <2>3, <2>6
  <2>8. k.stage = "walk" /\ k.own = job[p].own /\ k.read = Len(ledger) /\ k.stack = <<f>> /\ k.next = job[p].next
    BY <2>2, <2>6 DEF Job
  <2>9. <<f>> \in Seq(Frame) /\ DOMAIN <<f>> = {1} /\ <<f>>[1] = f /\ <<f>> # <<>>
    BY <2>5 DEF FrameFits
  <2>10. k \in Job
    BY <1>0, <2>2, <2>6, <2>9 DEF Job
  <2>11. JobFits(p, k, Len(ledger))
    BY <1>0, <2>2, <2>5, <2>8, <2>9, <2>10 DEF JobFits
  <2>12. QED
    BY <1>0, <1>2, <2>0, <2>7, <2>11, MirroringTypes DEF ReadBack
<1>3. ASSUME NEW p \in Procs, DieMirroring(p) PROVE MInv'
  <2>0. Mirroring(p)
    BY <1>3 DEF Mirroring
  <2>1. job[p] # NoJob /\ job' = [job EXCEPT ![p] = NoJob] /\ orphans' = orphans \cup {job[p].own}
        /\ UNCHANGED <<brain, resyncs, told, synced>>
    BY <1>3 DEF DieMirroring
  <2>2. job[p].own \in Lines
    BY <1>0, <2>1, JobsFit DEF JobFits, Lines
  <2>3. QED
    BY <1>0, <2>0, <2>1, <2>2, MirroringTypes
<1>4. CASE StartResync
  <2>0. Mirroring(Operator)
    BY <1>4 DEF Mirroring
  <2>1. PICK k : k = [stage |-> "walk", own |-> NoLine, read |-> Len(ledger), stack |-> <<>>, next |-> 1]
    OBVIOUS
  <2>2. job' = [job EXCEPT ![Operator] = k] /\ resyncs' = resyncs + 1 /\ UNCHANGED <<brain, told, orphans, synced>>
    BY <1>4, <2>1 DEF StartResync
  <2>3. k \in Job
    BY <1>0, <2>1 DEF Job, NoLine
  <2>4. JobFits(Operator, k, Len(ledger))
    BY <1>0, <2>1, <2>3 DEF JobFits
  <2>5. resyncs' \in Nat /\ synced' \in Nat
    BY <1>0, <2>2
  <2>6. QED
    BY <1>0, <2>0, <2>2, <2>4, <2>5, MirroringTypes
<1>5. CASE ResyncPick
  <2>0. Mirroring(Operator)
    BY <1>5 DEF Mirroring
  <2>1. job[Operator] # NoJob /\ job[Operator].stage = "walk" /\ job[Operator].stack = <<>>
    BY <1>0, <1>5, NoJobIsNone DEF ResyncPick
  <2>2. JobFits(Operator, job[Operator], Len(ledger)) /\ job[Operator] \in Job
        /\ job[Operator].read \in Nat /\ job[Operator].next \in Nat
    BY <1>0, <2>1, JobsFit DEF JobFits, Job
  <2>3. PICK i, f :
          /\ i \in job[Operator].next .. job[Operator].read /\ f \in Frames(i, job[Operator].read)
          /\ job' = [job EXCEPT ![Operator].stack = <<f>>, ![Operator].next = i + 1]
    BY <1>5 DEF ResyncPick
  <2>4. CASE i \in 1 .. job[Operator].read
    <3>1. FrameFits(f, job[Operator].read)
      BY <2>2, <2>3, <2>4, FramesFit
    <3>2. PICK k : k = [job[Operator] EXCEPT !.stack = <<f>>, !.next = i + 1]
      OBVIOUS
    <3>3. job' = [job EXCEPT ![Operator] = k]
      BY <1>0, <2>3, <3>2
    <3>4. k.stage = job[Operator].stage /\ k.own = job[Operator].own /\ k.read = job[Operator].read
          /\ k.stack = <<f>> /\ k.next = i + 1
      BY <2>2, <3>2 DEF Job
    <3>5. <<f>> \in Seq(Frame) /\ DOMAIN <<f>> = {1} /\ <<f>>[1] = f
      BY <3>1 DEF FrameFits
    <3>6. i + 1 \in Nat /\ i + 1 >= 1 /\ job[Operator].read \in 0 .. Len(ledger)
      BY <2>2, <2>4 DEF JobFits
    <3>7. k \in Job
      BY <2>2, <3>2, <3>5, <3>6 DEF Job
    <3>8. JobFits(Operator, k, Len(ledger))
      BY <1>0, <2>1, <3>1, <3>4, <3>5, <3>6, <3>7 DEF JobFits
    <3>9. QED
      BY <1>0, <1>5, <2>0, <3>3, <3>8, MirroringTypes DEF ResyncPick
  <2>5. i \in 1 .. job[Operator].read
    BY <1>0, <2>1, <2>2, <2>3 DEF JobFits
  <2>6. QED
    BY <2>4, <2>5
<1>6. CASE ResyncDone
  <2>0. Mirroring(Operator)
    BY <1>6 DEF Mirroring
  <2>1. job[Operator] # NoJob
    BY <1>0, <1>6, NoJobIsNone DEF ResyncDone
  <2>2. job[Operator].read \in Nat
    BY <1>0, <2>1, JobsFit DEF JobFits, Job
  <2>3. job' = [job EXCEPT ![Operator] = NoJob] /\ synced' = job[Operator].read
        /\ UNCHANGED <<brain, resyncs, told, orphans>>
    BY <1>6 DEF ResyncDone
  <2>4. QED
    BY <1>0, <2>0, <2>2, <2>3, MirroringTypes
<1>7. ASSUME NEW w \in Workers, Descend(w) PROVE MInv'
  <2>0. Mirroring(w)
    BY <1>7 DEF Mirroring
  <2>1. Recording(w)
    BY <1>7 DEF Descend
  <2>2. /\ job[w] # NoJob /\ JobFits(w, job[w], Len(ledger)) /\ job[w].stage = "walk"
        /\ job[w].read \in Nat /\ FrameFits(Top(job[w].stack), job[w].read)
    BY <1>0, <2>1, TopFits DEF JobFits, Job
  <2>3. PICK i, g :
          /\ i \in Deps(Top(job[w].stack), job[w].stack) /\ g \in Frames(i, job[w].read)
          /\ job' = [job EXCEPT ![w].stack = Append(@, g)]
    BY <1>7 DEF Descend
  <2>4. i \in 1 .. job[w].read
    BY <2>2, <2>3 DEF Deps, FrameFits, NoLine
  <2>5. FrameFits(g, job[w].read)
    BY <2>2, <2>3, <2>4, FramesFit
  <2>6. PICK k : k = [job[w] EXCEPT !.stack = Append(@, g)]
    OBVIOUS
  <2>7. job' = [job EXCEPT ![w] = k]
    BY <1>0, <2>3, <2>6
  <2>8. JobFits(w, k, Len(ledger))
    BY <1>0, <2>2, <2>5, <2>6, PushedFits
  <2>9. QED
    BY <1>0, <1>7, <2>0, <2>7, <2>8, MirroringTypes DEF Descend
<1>8. ASSUME NEW w \in Workers, RecordDecision(w) PROVE MInv'
  <2>0. Mirroring(w)
    BY <1>8 DEF Mirroring
  <2>1. Recording(w)
    BY <1>8 DEF RecordDecision
  <2>2. /\ job[w] # NoJob /\ JobFits(w, job[w], Len(ledger)) /\ job[w].stage = "walk" /\ job[w].stack # <<>>
        /\ FrameFits(Top(job[w].stack), job[w].read) /\ Top(job[w].stack).line \in Lines
    BY <2>1, TopFits
  <2>3. Recorded(w) \in Decision
    <3>1. /\ Edge(Top(job[w].stack).premise, job[w].stack) \in Id \cup {None}
          /\ Edge(Top(job[w].stack).supersedes, job[w].stack) \in Id \cup {None}
      BY <2>1, <2>2, EdgeType DEF FrameFits
    <3>2. DecisionIDFor(Top(job[w].stack).line) \in Id /\ ledger[Top(job[w].stack).line].by \in Signers
      BY <2>2, IdentityType
    <3>3. QED
      BY <3>1, <3>2 DEF Recorded, Decision
  <2>4. brain' \subseteq Decision
    BY <1>0, <1>8, <2>3, RecordedIs DEF Upsert
  <2>5. UNCHANGED <<resyncs, told, orphans, synced>>
    BY <1>8 DEF RecordDecision
  <2>6. CASE Len(job[w].stack) > 1 \/ w = Operator
    <3>1. PICK k : k = [job[w] EXCEPT !.stack = SubSeq(@, 1, Len(@) - 1)]
      OBVIOUS
    <3>2. job' = [job EXCEPT ![w] = k]
      BY <1>8, <2>6, <3>1 DEF RecordDecision
    <3>3. JobFits(w, k, Len(ledger))
      BY <1>0, <2>2, <2>6, <3>1, PoppedFits
    <3>4. QED
      BY <1>0, <2>0, <2>4, <2>5, <3>2, <3>3, MirroringTypes
  <2>7. CASE ~(Len(job[w].stack) > 1 \/ w = Operator)
    <3>1. job' = [job EXCEPT ![w] = NoJob]
      BY <1>8, <2>7 DEF RecordDecision
    <3>2. QED
      BY <1>0, <2>0, <2>4, <2>5, <3>1, MirroringTypes
  <2>8. QED
    BY <2>6, <2>7
<1>9. ASSUME NEW w \in Workers, GiveUp(w) PROVE MInv'
  <2>0. Mirroring(w)
    BY <1>9 DEF Mirroring
  <2>1. job[w] # NoJob /\ job' = [job EXCEPT ![w] = NoJob] /\ UNCHANGED <<brain, resyncs, orphans, synced>>
        /\ told' = IF w = Operator THEN told ELSE told \cup {job[w].own}
    BY <1>9 DEF GiveUp
  <2>2. w # Operator => job[w].own \in Lines
    BY <1>0, <2>1, JobsFit DEF JobFits, Lines, Workers
  <2>3. QED
    BY <1>0, <2>0, <2>1, <2>2, MirroringTypes
<1>10. CASE UNCHANGED allVars
  <2>1. IInv' /\ MirrorTypeOK'
    BY <1>10, OutageKeeps DEF allVars, vars, mirrorVars, MInv, MirrorTypeOK, registry, control, IInv, Lines
  <2>2. Jobs'
    BY <1>10 DEF allVars, vars, mirrorVars, Jobs, MInv
  <2>3. QED
    BY <2>1, <2>2 DEF MInv
<1>11. QED
  BY <1>1, <1>2, <1>3, <1>4, <1>5, <1>6, <1>7, <1>8, <1>9, <1>10 DEF MirrorNext

LEMMA TypesInit == MirrorInit => MInv
<1> SUFFICES ASSUME MirrorInit PROVE MInv
  OBVIOUS
<1>1. IInv
  BY InitIInv DEF MirrorInit
<1>2. ledger = <<>> /\ TypeOK
  BY <1>1 DEF MirrorInit, Init, IInv
<1>3. MirrorTypeOK
  BY <1>2 DEF MirrorInit, MirrorTypeOK
<1>4. Jobs
  BY DEF MirrorInit, Jobs
<1>5. QED
  BY <1>1, <1>3, <1>4 DEF MInv

LEMMA TypesInvariance == MirrorSpec => []MInv
  BY TypesInit, TypesStep, PTL DEF MirrorSpec

(* Whatever fails between the ledger and the brain, and whoever records     *)
(* beside the calls, every state of the mirror is well typed: a job points  *)
(* at lines it has read, and what was told or orphaned is a line.           *)
THEOREM MirrorTypeCorrect == MirrorSpec => []MirrorTypeOK
<1>1. MInv => MirrorTypeOK
  BY DEF MInv
<1>2. QED
  BY <1>1, TypesInvariance, PTL

-----------------------------------------------------------------------------
(* No dangling edges.                                                       *)

(* No decision that points at another is recorded before that other is in   *)
(* the brain, and a decision is replaced only by one of the same identity:  *)
(* whatever breaks off a chain, and whoever records beside it, the brain    *)
(* holds both ends of every edge.                                           *)
THEOREM EdgesHaveEnds == MirrorSpec => []NoDanglingEdges
<1>1. MirrorInit => NoDanglingEdges
  BY DEF MirrorInit, NoDanglingEdges
<1>2. ASSUME NoDanglingEdges, [MirrorNext]_allVars PROVE NoDanglingEdges'
  <2>1. ASSUME NEW w \in Workers, RecordDecision(w) PROVE NoDanglingEdges'
    <3> DEFINE f     == Top(job[w].stack)
               stack == job[w].stack
               d     == Recorded(w)
               ids   == {e.id : e \in brain}
    <3>1. \A i \in Deps(f, stack) : Holds(i)
      BY <2>1 DEF RecordDecision
    <3>2. ASSUME NEW i \in {f.premise, f.supersedes} PROVE Edge(i, stack) \in ids \cup {None}
      <4>1. CASE i = NoLine \/ i \in Visiting(stack)
        BY <4>1 DEF Edge
      <4>2. CASE i \in Deps(f, stack)
        BY <3>1, <4>2 DEF Edge, Holds
      <4>3. QED
        BY <4>1, <4>2 DEF Deps
    <3>3. brain' = Upsert(d) /\ d.premise \in ids \cup {None} /\ d.supersedes \in ids \cup {None}
      BY <2>1, <3>2, RecordedIs
    <3> HIDE DEF d
    <3>4. \A x \in ids : \E e \in brain' : e.id = x
      BY <3>3 DEF Upsert
    <3>5. ASSUME NEW e \in brain' PROVE {e.premise, e.supersedes} \subseteq ids \cup {None}
      <4>1. e \in brain \/ e = d
        BY <3>3 DEF Upsert
      <4>2. QED
        BY <1>2, <3>3, <4>1 DEF NoDanglingEdges
    <3>6. QED
      BY <3>4, <3>5 DEF NoDanglingEdges
  <2>2. ASSUME UNCHANGED brain PROVE NoDanglingEdges'
    BY <1>2, <2>2 DEF NoDanglingEdges
  <2>3. ASSUME NEW p \in Procs, Act(p) \/ ReadBack(p) \/ DieMirroring(p) PROVE NoDanglingEdges'
    BY <2>2, <2>3 DEF Act, ReadBack, DieMirroring
  <2>4. CASE StartResync \/ ResyncPick \/ ResyncDone
    BY <2>2, <2>4 DEF StartResync, ResyncPick, ResyncDone
  <2>5. ASSUME NEW w \in Workers, Descend(w) \/ GiveUp(w) PROVE NoDanglingEdges'
    BY <2>2, <2>5 DEF Descend, GiveUp
  <2>6. CASE UNCHANGED allVars
    BY <2>2, <2>6 DEF allVars, mirrorVars
  <2>7. QED
    BY <1>2, <2>1, <2>3, <2>4, <2>5, <2>6 DEF MirrorNext
<1>3. QED
  BY <1>1, <1>2, PTL DEF MirrorSpec

-----------------------------------------------------------------------------
(* What the ledger says of a line.                                          *)

(* The last of some lines.                                                  *)
LEMMA LastExists ==
  ASSUME NEW n \in Nat, NEW S, S \subseteq 1 .. n, S # {}
  PROVE  LastOf(S) \in S /\ \A m \in S : m <= LastOf(S)
<1> DEFINE R == OpToRel(<, Nat)
           T == {n - m : m \in S}
<1>1. IsWellFoundedOn(R, Nat)
  BY NatLessThanWellFounded
<1>2. T \subseteq Nat /\ T # {}
  <2> HIDE DEF R
  <2>1. \A k \in S : n - k \in Nat
    OBVIOUS
  <2>2. QED
    BY <2>1
<1> HIDE DEF R, T
<1>3. PICK x \in T : \A y \in T : <<y, x>> \notin R
  BY <1>1, <1>2, WFMin
<1>4. \A y \in T : ~(y < x)
  <2>1. \A y, z \in Nat : y < z => <<y, z>> \in R
    BY DEF R, OpToRel
  <2>2. QED
    BY <1>2, <1>3, <2>1
<1>5. PICK k \in S : x = n - k
  BY <1>3 DEF T
<1>6. ASSUME NEW m \in S PROVE m <= k
  <2>1. n - m \in T
    BY DEF T
  <2>2. ~(n - m < n - k)
    BY <1>4, <1>5, <2>1
  <2>3. m \in Nat /\ k \in Nat
    OBVIOUS
  <2>4. QED
    BY <2>2, <2>3
<1>7. QED
  BY <1>5, <1>6 DEF LastOf

LEMMA LastIs ==
  ASSUME NEW n \in Nat, NEW S, S \subseteq 1 .. n, NEW k \in S, \A m \in S : m <= k
  PROVE  LastOf(S) = k
<1>1. LastOf(S) \in S /\ \A m \in S : m <= LastOf(S)
  BY LastExists
<1>2. k <= LastOf(S) /\ LastOf(S) <= k
  BY <1>1
<1>3. k \in 1 .. n /\ LastOf(S) \in 1 .. n
  BY <1>1
<1>4. QED
  BY <1>2, <1>3

LEMMA PointsBack ==
  ASSUME NEW l, NEW i \in Nat
  PROVE  /\ PremiseIn(l, i) \in 0 .. i /\ (PremiseIn(l, i) # NoLine => PremiseIn(l, i) < i)
         /\ ReplacedIn(l, i) \in 0 .. i /\ (ReplacedIn(l, i) # NoLine => ReplacedIn(l, i) < i)
<1>1. ASSUME NEW S, S \subseteq 1 .. (i - 1) PROVE LastOf(S) \in 0 .. i /\ (LastOf(S) # NoLine => LastOf(S) < i)
  <2>1. CASE S = {}
    BY <2>1 DEF LastOf, NoLine
  <2>2. CASE S # {}
    <3>1. i - 1 \in Nat
      <4>1. PICK m : m \in S
        BY <2>2
      <4>2. m \in 1 .. (i - 1)
        BY <1>1, <4>1
      <4>3. QED
        BY <4>2
    <3>2. LastOf(S) \in 1 .. (i - 1)
      BY <1>1, <2>2, <3>1, LastExists
    <3>3. QED
      BY <3>2
  <2>3. QED
    BY <2>1, <2>2
<1>2. SignedIn(l, i) \subseteq 1 .. (i - 1) /\ UndoneIn(l, i) \subseteq 1 .. (i - 1)
  BY DEF SignedIn, UndoneIn
<1>3. LastOf(SignedIn(l, i)) \in 0 .. i /\ (LastOf(SignedIn(l, i)) # NoLine => LastOf(SignedIn(l, i)) < i)
  BY <1>1, <1>2
<1>4. LastOf(UndoneIn(l, i)) \in 0 .. i /\ (LastOf(UndoneIn(l, i)) # NoLine => LastOf(UndoneIn(l, i)) < i)
  BY <1>1, <1>2
<1>5. NoLine \in 0 .. i
  BY DEF NoLine
<1>6. QED
  BY <1>3, <1>4, <1>5 DEF PremiseIn, ReplacedIn

(* It does not change as the ledger grows.                                  *)
LEMMA OnlyThePast ==
  ASSUME NEW l, NEW m, NEW s, NEW t, NEW i \in Nat \ {0},
         \A k \in 1 .. i : m[k] = l[k] /\ t[k] = s[k]
  PROVE  /\ PremiseIn(m, i) = PremiseIn(l, i)
         /\ ReplacedIn(m, i) = ReplacedIn(l, i)
         /\ DerivedIn(m, t, i) = DerivedIn(l, s, i)
<1>1. i \in 1 .. i /\ \A k \in 1 .. (i - 1) : m[k] = l[k]
  OBVIOUS
<1>2. m[i] = l[i] /\ t[i] = s[i]
  BY <1>1
<1>3. SignedIn(m, i) = SignedIn(l, i)
  BY <1>1, <1>2 DEF SignedIn
<1>4. UndoneIn(m, i) = UndoneIn(l, i)
  BY <1>1, <1>2 DEF UndoneIn
<1>5. PremiseIn(m, i) = PremiseIn(l, i) /\ ReplacedIn(m, i) = ReplacedIn(l, i)
  BY <1>2, <1>3, <1>4 DEF PremiseIn, ReplacedIn
<1>6. ASSUME NEW k \in 0 .. i PROVE EdgeIn(m, t, k) = EdgeIn(l, s, k)
  <2>1. k # NoLine => k \in 1 .. i
    BY DEF NoLine
  <2>2. k # NoLine => m[k] = l[k] /\ t[k] = s[k]
    BY <2>1
  <2>3. QED
    BY <2>2 DEF EdgeIn, IdIn
<1>7. PremiseIn(l, i) \in 0 .. i /\ ReplacedIn(l, i) \in 0 .. i
  BY PointsBack
<1>8. /\ EdgeIn(m, t, PremiseIn(l, i)) = EdgeIn(l, s, PremiseIn(l, i))
      /\ EdgeIn(m, t, ReplacedIn(l, i)) = EdgeIn(l, s, ReplacedIn(l, i))
  BY <1>6, <1>7
<1>9. IdIn(m, t, i) = IdIn(l, s, i) /\ m[i].by = l[i].by
  BY <1>2 DEF IdIn
<1>10. QED
  BY <1>5, <1>8, <1>9 DEF DerivedIn

LEMMA DerivedIs ==
  ASSUME MInv, NEW i \in Lines
  PROVE  Derived(i) = DerivedIn(ledger, stamps, i)
<1>1. ASSUME NEW S, S \subseteq 1 .. (i - 1)
      PROVE  (IF S = {} THEN None ELSE DecisionIDFor(CHOOSE k \in S : \A l \in S : l <= k))
             = EdgeIn(ledger, stamps, LastOf(S))
  <2>1. CASE S = {}
    BY <2>1 DEF LastOf, EdgeIn
  <2>2. CASE S # {}
    <3>1. LastOf(S) = CHOOSE k \in S : \A l \in S : l <= k
      BY <2>2 DEF LastOf
    <3>2. i \in Nat
      BY DEF Lines
    <3>3. PICK x : x \in S
      BY <2>2
    <3>4. x \in 1 .. (i - 1)
      BY <1>1, <3>3
    <3>5. i - 1 \in Nat
      BY <3>2, <3>4
    <3>6. LastOf(S) \in S
      BY <1>1, <2>2, <3>5, LastExists
    <3>7. LastOf(S) # NoLine
      BY <1>1, <3>6 DEF NoLine
    <3>8. QED
      BY <2>2, <3>1, <3>7 DEF EdgeIn, DecisionIDFor, IdIn
  <2>3. QED
    BY <2>1, <2>2
<1> DEFINE S == SignedIn(ledger, i)
           U == UndoneIn(ledger, i)
           Of(X) == IF X = {} THEN None ELSE DecisionIDFor(CHOOSE k \in X : \A l \in X : l <= k)
<1>2. S \subseteq 1 .. (i - 1) /\ U \subseteq 1 .. (i - 1)
  BY DEF SignedIn, UndoneIn
<1>3. Of(S) = EdgeIn(ledger, stamps, LastOf(S)) /\ Of(U) = EdgeIn(ledger, stamps, LastOf(U))
  BY <1>1, <1>2
<1>4. Derived(i) = [id |-> DecisionIDFor(i), actor |-> ledger[i].by,
                    premise    |-> IF ledger[i].act = "sign" THEN None ELSE Of(S),
                    supersedes |-> IF ledger[i].act = "sign" THEN None ELSE Of(U)]
  BY DEF Derived, Before, SignedIn, UndoneIn, Activation
<1> HIDE DEF S, U, Of
<1>5. EdgeIn(ledger, stamps, NoLine) = None
  BY DEF EdgeIn
<1>6. /\ (IF ledger[i].act = "sign" THEN None ELSE Of(S)) = EdgeIn(ledger, stamps, PremiseIn(ledger, i))
      /\ (IF ledger[i].act = "sign" THEN None ELSE Of(U)) = EdgeIn(ledger, stamps, ReplacedIn(ledger, i))
  BY <1>3, <1>5 DEF PremiseIn, ReplacedIn, S, U
<1>7. DecisionIDFor(i) = IdIn(ledger, stamps, i)
  BY DEF DecisionIDFor, IdIn
<1>8. QED
  BY <1>4, <1>6, <1>7 DEF DerivedIn

(* While no two lines share a second, what is looked up for a line is what  *)
(* the ledger says of it, however much of the ledger was read.              *)
LEMMA FramesAreDerived ==
  ASSUME MInv, Distinct, NEW read \in 0 .. Len(ledger), NEW i \in 1 .. read, NEW f \in Frames(i, read)
  PROVE  FrameDerived(f, ledger)
<1>0. /\ Len(ledger) \in Nat /\ Len(stamps) = Len(ledger) /\ stamps \in Seq(Nat)
      /\ Lines = 1 .. Len(ledger) /\ ledger \in Seq(Entry)
  BY DEF MInv, IInv, TypeOK, MirrorTypeOK, Lines
<1>1. \A j \in 1 .. read : j \in Lines /\ stamps[j] \in Nat
  BY <1>0
<1>2. ASSUME NEW j \in 1 .. read, NEW k \in 1 .. read PROVE j < k <=> stamps[j] < stamps[k]
  <2>1. j < k => stamps[j] < stamps[k]
    BY <1>1 DEF Distinct
  <2>2. k < j => stamps[k] < stamps[j]
    BY <1>1 DEF Distinct
  <2>3. j \in Nat /\ k \in Nat /\ stamps[j] \in Nat /\ stamps[k] \in Nat
    BY <1>1
  <2>4. j < k \/ k < j \/ j = k
    BY <2>3
  <2>5. QED
    BY <2>1, <2>2, <2>3, <2>4
<1>3. UpTo(i, read) = 1 .. (i - 1)
  <2>1. ASSUME NEW j \in 1 .. read PROVE (j # i /\ stamps[j] <= stamps[i]) <=> j <= i - 1
    <3>1. /\ j < i <=> stamps[j] < stamps[i]
          /\ i < j <=> stamps[i] < stamps[j]
      BY <1>2
    <3>2. j \in Nat /\ i \in Nat /\ stamps[j] \in Nat /\ stamps[i] \in Nat
      BY <1>1
    <3>3. QED
      BY <3>1, <3>2
  <2>2. \A j \in 1 .. (i - 1) : j \in 1 .. read
    OBVIOUS
  <2>3. QED
    BY <2>1, <2>2 DEF UpTo
<1>4. ASSUME NEW S, S \subseteq 1 .. (i - 1), NEW x \in Latest(S) PROVE x = LastOf(S)
  <2>1. CASE S = {}
    BY <1>4, <2>1 DEF Latest, LastOf
  <2>2. CASE S # {}
    <3>1. x \in S /\ \A j \in S : stamps[j] <= stamps[x]
      BY <1>4, <2>2 DEF Latest
    <3>2. \A j \in S : j \in 1 .. read
      BY <1>4
    <3>3. ASSUME NEW j \in S PROVE j <= x
      <4>1. ~(stamps[x] < stamps[j])
        BY <1>1, <3>1, <3>2, <3>3
      <4>2. ~(x < j)
        BY <1>2, <3>1, <3>2, <4>1
      <4>3. x \in 1 .. read /\ j \in 1 .. read
        BY <3>1, <3>2
      <4>4. QED
        BY <4>2, <4>3
    <3>4. i - 1 \in Nat
      OBVIOUS
    <3>5. QED
      BY <1>4, <3>1, <3>3, <3>4, LastIs
  <2>3. QED
    BY <2>1, <2>2
<1>5. ledger[i] \in Entry
  BY <1>0
<1>6. CASE ledger[i].act = "sign"
  <2>1. SignaturesFor(i, read) = {} /\ Replaced(i, read) = {}
    BY <1>6 DEF SignaturesFor, Replaced, Activation
  <2>2. f.line = i /\ f.premise = NoLine /\ f.supersedes = NoLine
    BY <2>1 DEF Frames, Latest
  <2>3. QED
    BY <1>6, <2>2 DEF FrameDerived, PremiseIn, ReplacedIn
<1>7. CASE ledger[i].act # "sign"
  <2>1. Activation(i)
    BY <1>5, <1>7 DEF Entry, Activation
  <2>2. SignaturesFor(i, read) = SignedIn(ledger, i)
    BY <1>3, <2>1 DEF SignaturesFor, SignedIn
  <2>3. Replaced(i, read) = UndoneIn(ledger, i)
    BY <1>3, <2>1 DEF Replaced, UndoneIn, Activation
  <2>4. f.line = i /\ f.premise \in Latest(SignedIn(ledger, i)) /\ f.supersedes \in Latest(UndoneIn(ledger, i))
    BY <2>2, <2>3 DEF Frames
  <2>5. SignedIn(ledger, i) \subseteq 1 .. (i - 1) /\ UndoneIn(ledger, i) \subseteq 1 .. (i - 1)
    BY DEF SignedIn, UndoneIn
  <2>6. f.premise = LastOf(SignedIn(ledger, i)) /\ f.supersedes = LastOf(UndoneIn(ledger, i))
    BY <1>4, <2>4, <2>5
  <2>7. QED
    BY <1>7, <2>4, <2>6 DEF FrameDerived, PremiseIn, ReplacedIn
<1>8. QED
  BY <1>6, <1>7

(* What a frame points at is not being recorded already.                    *)
LEMMA PointsBelow ==
  ASSUME NEW stack \in Seq(Frame), stack # <<>>, NEW l, StackDerived(stack, l),
         \A k \in DOMAIN stack : stack[k].line \in Nat
  PROVE  LET f == Top(stack) IN
         /\ f \in Frame /\ f.premise = PremiseIn(l, f.line) /\ f.supersedes = ReplacedIn(l, f.line)
         /\ \A i \in {f.premise, f.supersedes} : i # NoLine => i < f.line /\ i \notin Visiting(stack)
         /\ \A v \in Visiting(stack) : f.line <= v
<1> DEFINE n == Len(stack)
           f == Top(stack)
<1>1. n \in Nat /\ n \in DOMAIN stack /\ DOMAIN stack = 1 .. n
  OBVIOUS
<1>2. f = stack[n] /\ f \in Frame /\ f.line \in Nat /\ FrameDerived(f, l)
  BY <1>1 DEF Top, StackDerived
<1>3. ASSUME NEW a \in DOMAIN stack PROVE f.line <= stack[a].line
  <2>1. a = n \/ a < n
    BY <1>1
  <2>2. a < n => f.line < stack[a].line
    BY <1>1, <1>2 DEF StackDerived, Descending
  <2>3. QED
    BY <1>2, <2>1, <2>2
<1>4. \A v \in Visiting(stack) : v \in Nat /\ f.line <= v
  BY <1>3 DEF Visiting
<1>5. \A i \in {f.premise, f.supersedes} : i # NoLine => i \in Nat /\ i < f.line
  BY <1>2, PointsBack DEF FrameDerived
<1>6. ASSUME NEW i \in Nat, i < f.line PROVE i \notin Visiting(stack)
  BY <1>2, <1>4, <1>6
<1>7. QED
  BY <1>2, <1>4, <1>5, <1>6 DEF FrameDerived

(* A call's step adds a line and an empty job, or nothing.                  *)
LEMMA ActIs ==
  ASSUME MInv, NEW p \in Procs, Act(p)
  PROVE  /\ job[p] = NoJob
         /\ UNCHANGED <<brain, resyncs, told, orphans, synced>>
         /\ \/ UNCHANGED <<ledger, stamps, job>>
            \/ \E e \in Entry, t \in Nat, j \in Job :
                 /\ ledger' = Append(ledger, e)
                 /\ stamps' = Append(stamps, t)
                 /\ ledger # <<>> => stamps[Len(stamps)] <= t
                 /\ job' = [job EXCEPT ![p] = j]
                 /\ j.stack = <<>> /\ j.own = Len(ledger')
<1>1. job[p] = NoJob /\ UNCHANGED <<brain, resyncs, told, orphans, synced>>
  BY DEF Act
<1>2. ledger' = ledger \/ \E e \in Entry : ledger' = Append(ledger, e)
  BY CallsStep DEF MInv, Act
<1>3. CASE ledger' = ledger
  BY <1>1, <1>3 DEF Act
<1>4. ASSUME NEW e \in Entry, ledger' = Append(ledger, e), ledger' # ledger
      PROVE  \E t \in Nat, j \in Job :
                 /\ stamps' = Append(stamps, t)
                 /\ ledger # <<>> => stamps[Len(stamps)] <= t
                 /\ job' = [job EXCEPT ![p] = j]
                 /\ j.stack = <<>> /\ j.own = Len(ledger')
  <2>0. /\ ledger \in Seq(Entry) /\ stamps \in Seq(Nat) /\ Len(stamps) = Len(ledger)
        /\ Len(ledger) \in Nat /\ Lines = 1 .. Len(ledger)
    BY DEF MInv, IInv, TypeOK, MirrorTypeOK, Lines
  <2>1. PICK t : /\ stamps' = Append(stamps, t)
                 /\ \/ t = 1 /\ ledger = <<>>
                    \/ ledger # <<>> /\ t \in {stamps[Len(stamps)], stamps[Len(stamps)] + 1}
    BY <1>4 DEF Act
  <2>2. ledger # <<>> => stamps[Len(stamps)] \in Nat
    <3>1. ledger # <<>> => Len(stamps) \in DOMAIN stamps
      BY <2>0
    <3>2. QED
      BY <2>0, <3>1
  <2>3. t \in Nat /\ (ledger # <<>> => stamps[Len(stamps)] <= t)
    BY <2>1, <2>2
  <2>4. PICK j : j = [stage |-> "read", own |-> Len(ledger'), read |-> 0, stack |-> <<>>, next |-> 0]
    OBVIOUS
  <2>5. job' = [job EXCEPT ![p] = j]
    BY <1>4, <2>4 DEF Act
  <2>6. Len(ledger') \in Nat /\ <<>> \in Seq(Frame)
    BY <1>4, <2>0
  <2>7. j \in Job /\ j.stack = <<>> /\ j.own = Len(ledger')
    BY <2>4, <2>6 DEF Job
  <2>8. QED
    BY <2>1, <2>3, <2>5, <2>7
<1>5. QED
  BY <1>1, <1>2, <1>3, <1>4

LEMMA Appending ==
  ASSUME MInv, NEW e \in Entry, NEW t \in Nat, ledger' = Append(ledger, e), stamps' = Append(stamps, t)
  PROVE  /\ Len(ledger) \in Nat /\ Len(stamps) = Len(ledger) /\ Lines = 1 .. Len(ledger)
         /\ Lines' = 1 .. (Len(ledger) + 1)
         /\ Len(ledger') = Len(ledger) + 1
         /\ \A i \in Lines : ledger'[i] = ledger[i] /\ stamps'[i] = stamps[i] /\ stamps[i] \in Nat
         /\ stamps'[Len(ledger) + 1] = t
<1>1. /\ ledger \in Seq(Entry) /\ stamps \in Seq(Nat) /\ Len(stamps) = Len(ledger) /\ Len(ledger) \in Nat
      /\ Lines = 1 .. Len(ledger)
  BY DEF MInv, IInv, TypeOK, MirrorTypeOK, Lines
<1>2. Len(ledger') = Len(ledger) + 1
  BY <1>1
<1>3. Lines' = 1 .. (Len(ledger) + 1)
  BY <1>2 DEF Lines
<1>4. \A i \in 1 .. Len(ledger) : ledger'[i] = ledger[i] /\ stamps'[i] = stamps[i] /\ stamps[i] \in Nat
  BY <1>1
<1>5. stamps'[Len(ledger) + 1] = t
  BY <1>1
<1>6. QED
  BY <1>1, <1>2, <1>3, <1>4, <1>5

LEMMA DerivedAct ==
  ASSUME MInv, DerivedInv, NEW p \in Procs, Act(p)
  PROVE  DerivedInv'
<1>1. CASE UNCHANGED <<ledger, stamps, job>>
  BY <1>1, ActIs DEF DerivedInv, Distinct, Lines
<1>2. ASSUME NEW e \in Entry, NEW t \in Nat, NEW j,
             ledger' = Append(ledger, e), stamps' = Append(stamps, t),
             job' = [job EXCEPT ![p] = j], j.stack = <<>>
      PROVE  DerivedInv'
  <2>1. /\ Lines = 1 .. Len(ledger) /\ Lines' = 1 .. (Len(ledger) + 1) /\ Len(ledger) \in Nat
        /\ \A i \in Lines : ledger'[i] = ledger[i] /\ stamps'[i] = stamps[i]
    BY <1>2, Appending
  <2>2. Lines \subseteq Lines'
    BY <2>1
  <2>3. Distinct' => Distinct
    BY <2>1, <2>2 DEF Distinct
  <2>4. ASSUME NEW i \in Lines
        PROVE  /\ DerivedIn(ledger', stamps', i) = DerivedIn(ledger, stamps, i)
               /\ PremiseIn(ledger', i) = PremiseIn(ledger, i)
               /\ ReplacedIn(ledger', i) = ReplacedIn(ledger, i)
    <3>1. i \in Nat \ {0} /\ \A k \in 1 .. i : k \in Lines
      BY <2>1
    <3>2. QED
      BY <2>1, <3>1, OnlyThePast
  <2>5. brain' = brain
    BY ActIs
  <2>6. ASSUME Distinct', NEW d \in brain' PROVE \E i \in Lines' : d = DerivedIn(ledger', stamps', i)
    <3>1. PICK i \in Lines : d = DerivedIn(ledger, stamps, i)
      BY <2>3, <2>5, <2>6 DEF DerivedInv
    <3>2. QED
      BY <2>2, <2>4, <3>1
  <2>7. ASSUME Distinct', NEW w \in Workers, job'[w] # NoJob PROVE StackDerived(job'[w].stack, ledger')
    <3>1. CASE w = p
      <4>1. job'[w].stack = <<>>
        BY <1>2, <3>1 DEF MInv, MirrorTypeOK
      <4>2. QED
        BY <4>1 DEF StackDerived, Descending
    <3>2. CASE w # p
      <4>1. job'[w] = job[w]
        BY <1>2, <3>2 DEF MInv, MirrorTypeOK
      <4>2. StackDerived(job[w].stack, ledger) /\ JobFits(w, job[w], Len(ledger))
        BY <2>3, <2>7, <4>1, JobsFit DEF DerivedInv
      <4>3. ASSUME NEW k \in DOMAIN job[w].stack PROVE FrameDerived(job[w].stack[k], ledger')
        <5>1. job[w].read \in 0 .. Len(ledger) /\ job[w].stack[k].line \in 1 .. job[w].read
          BY <4>2 DEF JobFits, FrameFits
        <5>2. job[w].stack[k].line \in Lines
          BY <2>1, <5>1
        <5>3. FrameDerived(job[w].stack[k], ledger)
          BY <4>2 DEF StackDerived
        <5>4. QED
          BY <2>4, <5>2, <5>3 DEF FrameDerived
      <4>4. QED
        BY <4>1, <4>2, <4>3 DEF StackDerived
    <3>3. QED
      BY <3>1, <3>2
  <2>8. QED
    BY <2>6, <2>7 DEF DerivedInv
<1>3. QED
  BY <1>1, <1>2, ActIs

LEMMA DerivedMirroring ==
  ASSUME MInv, DerivedInv, NEW v, Mirroring(v), NEW w \in Workers, NEW j, job' = [job EXCEPT ![w] = j],
         Distinct /\ j # NoJob => StackDerived(j.stack, ledger),
         \A d \in brain' : d \in brain \/ (Distinct => \E i \in Lines : d = DerivedIn(ledger, stamps, i))
  PROVE  DerivedInv'
<1>1. UNCHANGED <<ledger, stamps>>
  BY MirrorSteps DEF MInv
<1>2. Distinct' = Distinct /\ Lines' = Lines
  BY <1>1 DEF Distinct, Lines
<1>3. ASSUME Distinct, NEW u \in Workers, job'[u] # NoJob PROVE StackDerived(job'[u].stack, ledger)
  <2>1. job'[u] = IF u = w THEN j ELSE job[u]
    BY DEF MInv, MirrorTypeOK
  <2>2. CASE u = w
    BY <1>3, <2>1, <2>2
  <2>3. CASE u # w
    BY <1>3, <2>1, <2>3 DEF DerivedInv
  <2>4. QED
    BY <2>2, <2>3
<1>4. ASSUME Distinct, NEW d \in brain' PROVE \E i \in Lines : d = DerivedIn(ledger, stamps, i)
  BY <1>4 DEF DerivedInv
<1>5. QED
  BY <1>1, <1>2, <1>3, <1>4 DEF DerivedInv

(* What each step that moves a job makes of its stack.                      *)
LEMMA ReadBackIs ==
  ASSUME MInv, NEW p \in Procs, ReadBack(p)
  PROVE  /\ job[p] # NoJob /\ job[p].own \in Lines /\ UNCHANGED <<brain, told, orphans, synced>>
         /\ \E i \in Lines, f \in Frame, j \in Job :
              /\ f \in Frames(i, Len(ledger)) /\ f.line = i
              /\ ledger[i].act = ledger[job[p].own].act
              /\ ledger[i].name = ledger[job[p].own].name
              /\ ledger[i].to = ledger[job[p].own].to
              /\ stamps[job[p].own] <= stamps[i]
              /\ job' = [job EXCEPT ![p] = j]
              /\ j.stack = <<f>> /\ j.own = job[p].own
<1> DEFINE mine == {i \in Lines : /\ ledger[i].act = ledger[job[p].own].act
                                  /\ ledger[i].name = ledger[job[p].own].name
                                  /\ ledger[i].to = ledger[job[p].own].to}
<1>0. p \in Workers /\ Len(ledger) \in Nat /\ job \in [Workers -> Job \cup {NoJob}]
  BY DEF Workers, MInv, IInv, TypeOK, MirrorTypeOK
<1>1. job[p] # NoJob /\ UNCHANGED <<brain, told, orphans, synced>>
  BY <1>0, NoJobIsNone DEF ReadBack
<1>2. job[p] \in Job /\ job[p].own \in mine
  BY <1>0, <1>1, JobsFit DEF JobFits, Lines
<1>3. PICK i, f :
        /\ i \in Latest(mine) /\ f \in Frames(i, Len(ledger))
        /\ job' = [job EXCEPT ![p].stage = "walk", ![p].read = Len(ledger), ![p].stack = <<f>>]
  BY DEF ReadBack
<1>4. i \in mine /\ stamps[job[p].own] <= stamps[i]
  BY <1>2, <1>3 DEF Latest
<1>5. i \in 1 .. Len(ledger)
  BY <1>4 DEF Lines
<1>6. FrameFits(f, Len(ledger)) /\ f.line = i
  BY <1>0, <1>3, <1>5, FramesFit
<1>7. PICK j : j = [job[p] EXCEPT !.stage = "walk", !.read = Len(ledger), !.stack = <<f>>]
  OBVIOUS
<1>8. <<f>> \in Seq(Frame) /\ f \in Frame
  BY <1>6 DEF FrameFits
<1>9. j \in Job /\ j.stack = <<f>> /\ j.own = job[p].own
  BY <1>0, <1>2, <1>7, <1>8 DEF Job
<1>10. job' = [job EXCEPT ![p] = j]
  BY <1>0, <1>3, <1>7
<1>11. i \in Lines /\ job[p].own \in Lines
  BY <1>2, <1>4
<1>12. /\ ledger[i].act = ledger[job[p].own].act
       /\ ledger[i].name = ledger[job[p].own].name
       /\ ledger[i].to = ledger[job[p].own].to
  BY <1>4
<1> HIDE DEF mine
<1>13. QED
  BY <1>1, <1>3, <1>4, <1>6, <1>8, <1>9, <1>10, <1>11, <1>12

LEMMA ResyncPickIs ==
  ASSUME MInv, ResyncPick
  PROVE  /\ job[Operator] # NoJob /\ job[Operator].stack = <<>> /\ UNCHANGED <<brain, told, orphans, synced>>
         /\ \E i \in 1 .. job[Operator].read, f \in Frame, j \in Job :
              /\ f \in Frames(i, job[Operator].read) /\ f.line = i
              /\ \A k \in job[Operator].next .. (i - 1) : Holds(k)
              /\ job' = [job EXCEPT ![Operator] = j]
              /\ j.stack = <<f>> /\ j.next = i + 1 /\ j.read = job[Operator].read
<1> DEFINE o == job[Operator]
<1>0. Operator \in Workers /\ Operator \notin Procs /\ job \in [Workers -> Job \cup {NoJob}]
  BY OperatorAssumption DEF Workers, MInv, MirrorTypeOK
<1>1. o # NoJob /\ o.stack = <<>> /\ UNCHANGED <<brain, told, orphans, synced>>
  BY <1>0, NoJobIsNone DEF ResyncPick
<1>2. o \in Job /\ o.read \in Nat /\ o.next \in Nat /\ o.next >= 1
  BY <1>0, <1>1, JobsFit DEF JobFits, Job
<1>3. PICK i, f :
        /\ i \in o.next .. o.read /\ f \in Frames(i, o.read)
        /\ \A k \in o.next .. (i - 1) : Holds(k)
        /\ job' = [job EXCEPT ![Operator].stack = <<f>>, ![Operator].next = i + 1]
  BY DEF ResyncPick
<1>4. i \in 1 .. o.read /\ i + 1 \in Nat
  BY <1>2, <1>3
<1>5. FrameFits(f, o.read) /\ f.line = i
  BY <1>2, <1>3, <1>4, FramesFit
<1>6. PICK j : j = [o EXCEPT !.stack = <<f>>, !.next = i + 1]
  OBVIOUS
<1>7. <<f>> \in Seq(Frame) /\ f \in Frame
  BY <1>5 DEF FrameFits
<1>8. j \in Job /\ j.stack = <<f>> /\ j.next = i + 1 /\ j.read = o.read
  BY <1>2, <1>4, <1>6, <1>7 DEF Job
<1>9. job' = [job EXCEPT ![Operator] = j]
  BY <1>0, <1>3, <1>6
<1> HIDE DEF o
<1>10. QED
  BY <1>1, <1>3, <1>4, <1>5, <1>7, <1>8, <1>9 DEF o

LEMMA DescendIs ==
  ASSUME MInv, NEW w \in Workers, Descend(w)
  PROVE  /\ Recording(w) /\ UNCHANGED <<brain, told, orphans, synced>>
         /\ \E i \in Deps(Top(job[w].stack), job[w].stack), g \in Frame, j \in Job :
              /\ i \in 1 .. job[w].read /\ g \in Frames(i, job[w].read) /\ g.line = i
              /\ job' = [job EXCEPT ![w] = j]
              /\ j.stack = Append(job[w].stack, g)
              /\ j.own = job[w].own /\ j.next = job[w].next /\ j.read = job[w].read
<1>1. Recording(w) /\ UNCHANGED <<brain, told, orphans, synced>>
  BY DEF Descend
<1>2. /\ job[w] \in Job /\ job[w].stack \in Seq(Frame)
      /\ job[w].read \in Nat /\ FrameFits(Top(job[w].stack), job[w].read)
      /\ job \in [Workers -> Job \cup {NoJob}]
  BY <1>1, TopFits DEF Job, MInv, MirrorTypeOK
<1>3. PICK i, g :
        /\ i \in Deps(Top(job[w].stack), job[w].stack) /\ g \in Frames(i, job[w].read)
        /\ job' = [job EXCEPT ![w].stack = Append(@, g)]
  BY DEF Descend
<1>4. i \in 1 .. job[w].read
  BY <1>2, <1>3 DEF Deps, FrameFits, NoLine
<1>5. g \in Frame /\ g.line = i
  BY <1>2, <1>3, <1>4, FramesFit DEF FrameFits
<1>6. PICK j : j = [job[w] EXCEPT !.stack = Append(@, g)]
  OBVIOUS
<1>7. Append(job[w].stack, g) \in Seq(Frame)
  BY <1>2, <1>5
<1>8. /\ j \in Job /\ j.stack = Append(job[w].stack, g)
      /\ j.own = job[w].own /\ j.next = job[w].next /\ j.read = job[w].read
  BY <1>2, <1>6, <1>7 DEF Job
<1>9. job' = [job EXCEPT ![w] = j]
  BY <1>2, <1>3, <1>6
<1>10. QED
  BY <1>1, <1>3, <1>4, <1>5, <1>8, <1>9

LEMMA RecordIs ==
  ASSUME MInv, NEW w \in Workers, RecordDecision(w)
  PROVE  /\ Recording(w) /\ UNCHANGED <<told, orphans, synced>>
         /\ \/ /\ w # Operator /\ Len(job[w].stack) = 1
               /\ job' = [job EXCEPT ![w] = NoJob]
            \/ \E j \in Job :
                 /\ w = Operator \/ Len(job[w].stack) > 1
                 /\ job' = [job EXCEPT ![w] = j]
                 /\ j.stack = SubSeq(job[w].stack, 1, Len(job[w].stack) - 1)
                 /\ j.own = job[w].own /\ j.next = job[w].next /\ j.read = job[w].read
<1>1. Recording(w) /\ UNCHANGED <<told, orphans, synced>>
  BY DEF RecordDecision
<1>2. /\ job[w] \in Job /\ job[w].stack \in Seq(Frame) /\ Len(job[w].stack) \in Nat /\ Len(job[w].stack) >= 1
  BY <1>1, TopFits
<1>3. CASE w = Operator \/ Len(job[w].stack) > 1
  <2>1. PICK s : s = SubSeq(job[w].stack, 1, Len(job[w].stack) - 1)
    OBVIOUS
  <2>2. PICK j : j = [job[w] EXCEPT !.stack = s]
    OBVIOUS
  <2>3. job' = [job EXCEPT ![w] = j]
    BY <1>3, <2>1, <2>2 DEF RecordDecision
  <2>4. s \in Seq(Frame)
    BY <1>2, <2>1
  <2>5. j \in Job /\ j.stack = s /\ j.own = job[w].own /\ j.next = job[w].next /\ j.read = job[w].read
    BY <1>2, <2>2, <2>4 DEF Job
  <2>6. j.stack = SubSeq(job[w].stack, 1, Len(job[w].stack) - 1)
    BY <2>1, <2>5
  <2>7. j \in Job /\ j.own = job[w].own /\ j.next = job[w].next /\ j.read = job[w].read
    BY <2>5
  <2>8. QED
    BY <1>1, <1>3, <2>3, <2>6, <2>7
<1>4. CASE ~(w = Operator \/ Len(job[w].stack) > 1)
  <2>1. Len(job[w].stack) = 1
    <3>1. PICK n \in Nat : n = Len(job[w].stack)
      BY <1>2
    <3>2. n >= 1 /\ ~(n > 1)
      BY <1>2, <1>4, <3>1
    <3>3. n = 1
      BY <3>2
    <3>4. QED
      BY <3>1, <3>3, Zenon
  <2>2. job' = [job EXCEPT ![w] = NoJob]
    BY <1>4 DEF RecordDecision
  <2>3. QED
    BY <1>1, <1>4, <2>1, <2>2
<1>5. QED
  BY <1>3, <1>4

LEMMA DerivedStep == MInv /\ DerivedInv /\ [MirrorNext]_allVars => DerivedInv'
<1> SUFFICES ASSUME MInv, DerivedInv, [MirrorNext]_allVars PROVE DerivedInv'
  OBVIOUS
<1>0. /\ Len(ledger) \in Nat /\ Procs \subseteq Workers /\ Operator \in Workers
      /\ Lines = 1 .. Len(ledger)
  BY DEF MInv, IInv, TypeOK, Workers, Lines
<1>1. ASSUME NEW f \in Frame, FrameDerived(f, ledger) PROVE StackDerived(<<f>>, ledger)
  <2>1. DOMAIN <<f>> = {1} /\ <<f>>[1] = f
    OBVIOUS
  <2>2. \A a \in {1}, b \in {1} : ~(a < b)
    OBVIOUS
  <2>3. QED
    BY <1>1, <2>1, <2>2 DEF StackDerived, Descending
<1>2. ASSUME NEW p \in Procs, Act(p) PROVE DerivedInv'
  BY <1>2, DerivedAct
<1>3. ASSUME NEW p \in Procs, ReadBack(p) PROVE DerivedInv'
  <2>0. Mirroring(p) /\ p \in Workers
    BY <1>0, <1>3 DEF Mirroring
  <2>1. PICK i \in Lines, f \in Frame, j \in Job :
          /\ f \in Frames(i, Len(ledger)) /\ f.line = i
          /\ ledger[i].act = ledger[job[p].own].act
          /\ ledger[i].name = ledger[job[p].own].name
          /\ ledger[i].to = ledger[job[p].own].to
          /\ stamps[job[p].own] <= stamps[i]
          /\ job' = [job EXCEPT ![p] = j]
          /\ j.stack = <<f>> /\ j.own = job[p].own
    BY <1>3, ReadBackIs, Zenon
  <2>2. Len(ledger) \in 0 .. Len(ledger) /\ i \in 1 .. Len(ledger)
    BY <1>0
  <2>3. Distinct => StackDerived(j.stack, ledger)
    BY <1>1, <2>1, <2>2, FramesAreDerived
  <2>4. brain' = brain
    BY <1>3, ReadBackIs
  <2>5. QED
    BY <2>0, <2>1, <2>3, <2>4, DerivedMirroring
<1>4. CASE StartResync
  <2>0. Mirroring(Operator)
    BY <1>4 DEF Mirroring
  <2>1. PICK j : j = [stage |-> "walk", own |-> NoLine, read |-> Len(ledger), stack |-> <<>>, next |-> 1]
    OBVIOUS
  <2>2. job' = [job EXCEPT ![Operator] = j] /\ StackDerived(j.stack, ledger) /\ brain' = brain
    BY <1>4, <2>1 DEF StackDerived, Descending, StartResync
  <2>3. QED
    BY <1>0, <2>0, <2>1, <2>2, DerivedMirroring
<1>5. CASE ResyncPick
  <2>0. Mirroring(Operator)
    BY <1>5 DEF Mirroring
  <2>1. PICK i \in 1 .. job[Operator].read, f \in Frame, j \in Job :
          /\ f \in Frames(i, job[Operator].read) /\ job' = [job EXCEPT ![Operator] = j] /\ j.stack = <<f>>
    BY <1>5, ResyncPickIs
  <2>2. job[Operator] # NoJob /\ brain' = brain
    BY <1>5, ResyncPickIs
  <2>3. job[Operator].read \in 0 .. Len(ledger)
    BY <1>0, <2>2, JobsFit DEF JobFits
  <2>4. Distinct => StackDerived(j.stack, ledger)
    BY <1>1, <2>1, <2>3, FramesAreDerived
  <2>5. QED
    BY <1>0, <2>0, <2>1, <2>2, <2>4, DerivedMirroring
<1>6. ASSUME NEW w \in Workers, NEW v, Mirroring(v), job' = [job EXCEPT ![w] = NoJob], brain' = brain
      PROVE  DerivedInv'
  BY <1>6, DerivedMirroring
<1>7. CASE ResyncDone
  BY <1>0, <1>6, <1>7 DEF ResyncDone, Mirroring
<1>8. ASSUME NEW p \in Procs, DieMirroring(p) PROVE DerivedInv'
  BY <1>0, <1>6, <1>8 DEF DieMirroring, Mirroring
<1>9. ASSUME NEW w \in Workers, GiveUp(w) PROVE DerivedInv'
  BY <1>6, <1>9 DEF GiveUp, Mirroring
<1>10. ASSUME NEW w \in Workers, Recording(w), Distinct
       PROVE  /\ StackDerived(job[w].stack, ledger) /\ job[w].stack \in Seq(Frame) /\ job[w].stack # <<>>
              /\ \A k \in DOMAIN job[w].stack : job[w].stack[k].line \in Nat
              /\ Len(job[w].stack) \in Nat /\ Len(job[w].stack) >= 1
              /\ job[w].read \in 0 .. Len(ledger) /\ Top(job[w].stack).line \in Lines
  <2>1. /\ job[w] # NoJob /\ JobFits(w, job[w], Len(ledger)) /\ job[w].stack \in Seq(Frame) /\ job[w].stack # <<>>
        /\ Len(job[w].stack) \in Nat /\ Len(job[w].stack) >= 1
        /\ job[w].read \in 0 .. Len(ledger) /\ Top(job[w].stack).line \in Lines
    BY <1>10, TopFits
  <2>2. StackDerived(job[w].stack, ledger)
    BY <1>10, <2>1 DEF DerivedInv
  <2>3. \A k \in DOMAIN job[w].stack : job[w].stack[k].line \in Nat
    BY <2>1 DEF JobFits, FrameFits, Frame
  <2>4. QED
    BY <2>1, <2>2, <2>3
<1>11. ASSUME NEW w \in Workers, Descend(w) PROVE DerivedInv'
  <2>0. Mirroring(w) /\ Recording(w) /\ brain' = brain
    BY <1>11, DescendIs DEF Mirroring
  <2> DEFINE stack == job[w].stack
             f     == Top(stack)
  <2>1. PICK i \in Deps(f, stack), g \in Frame, j \in Job :
          /\ i \in 1 .. job[w].read /\ g \in Frames(i, job[w].read) /\ g.line = i
          /\ job' = [job EXCEPT ![w] = j]
          /\ j.stack = Append(stack, g)
    BY <1>11, DescendIs
  <2>2. ASSUME Distinct PROVE StackDerived(Append(stack, g), ledger)
    <3>1. /\ StackDerived(stack, ledger) /\ stack \in Seq(Frame) /\ stack # <<>>
          /\ \A k \in DOMAIN stack : stack[k].line \in Nat
          /\ job[w].read \in 0 .. Len(ledger)
      BY <1>10, <2>0, <2>2
    <3>2. i \in {f.premise, f.supersedes} /\ i # NoLine
      BY <2>1 DEF Deps
    <3>3. i < f.line /\ \A v \in Visiting(stack) : f.line <= v
      BY <3>1, <3>2, PointsBelow
    <3>4. FrameDerived(g, ledger)
      BY <2>1, <2>2, <3>1, FramesAreDerived
    <3>5. PICK s : s = stack
      OBVIOUS
    <3>6. s \in Seq(Frame) /\ f.line \in Nat /\ i \in Nat
      <4>1. f = stack[Len(stack)] /\ Len(stack) \in DOMAIN stack
        BY <3>1 DEF Top
      <4>2. QED
        BY <2>1, <3>1, <3>5, <4>1
    <3>7. ASSUME NEW k \in DOMAIN s PROVE s[k].line \in Nat /\ i < s[k].line
      <4>1. s[k].line \in Nat /\ s[k].line \in Visiting(stack)
        BY <3>1, <3>5 DEF Visiting
      <4>2. i < f.line /\ f.line <= s[k].line
        BY <3>3, <4>1
      <4>3. QED
        BY <3>6, <4>1, <4>2
    <3>8. /\ DOMAIN Append(s, g) = 1 .. (Len(s) + 1) /\ DOMAIN s = 1 .. Len(s) /\ Len(s) \in Nat
          /\ \A k \in DOMAIN s : Append(s, g)[k] = s[k]
          /\ Append(s, g)[Len(s) + 1] = g
      BY <3>6
    <3>9. StackDerived(s, ledger)
      BY <3>1, <3>5
    <3>10. Descending(Append(s, g))
      <4>1. SUFFICES ASSUME NEW a \in 1 .. (Len(s) + 1), NEW b \in 1 .. (Len(s) + 1), a < b
                     PROVE  Append(s, g)[b].line < Append(s, g)[a].line
        BY <3>8 DEF Descending
      <4>2. a \in DOMAIN s
        BY <3>8, <4>1
      <4>3. CASE b = Len(s) + 1
        BY <2>1, <3>7, <3>8, <4>2, <4>3
      <4>4. CASE b # Len(s) + 1
        <5>1. b \in DOMAIN s
          BY <3>8, <4>4
        <5>2. QED
          BY <3>8, <3>9, <4>1, <4>2, <5>1 DEF StackDerived, Descending
      <4>5. QED
        BY <4>3, <4>4
    <3>11. ASSUME NEW k \in 1 .. (Len(s) + 1) PROVE FrameDerived(Append(s, g)[k], ledger)
      <4>1. k = Len(s) + 1 \/ k \in DOMAIN s
        BY <3>8
      <4>2. QED
        BY <3>4, <3>8, <3>9, <4>1 DEF StackDerived
    <3>12. QED
      BY <3>5, <3>8, <3>10, <3>11 DEF StackDerived
  <2>3. QED
    BY <2>0, <2>1, <2>2, DerivedMirroring
<1>12. ASSUME NEW w \in Workers, RecordDecision(w) PROVE DerivedInv'
  <2>0. Mirroring(w) /\ Recording(w)
    BY <1>12, RecordIs DEF Mirroring
  <2>1. ASSUME Distinct PROVE Recorded(w) = DerivedIn(ledger, stamps, Top(job[w].stack).line)
    <3> DEFINE stack == job[w].stack
               f     == Top(stack)
    <3>1. /\ StackDerived(stack, ledger) /\ stack \in Seq(Frame) /\ stack # <<>>
          /\ \A k \in DOMAIN stack : stack[k].line \in Nat
      BY <1>10, <2>0, <2>1
    <3>2. /\ f.premise = PremiseIn(ledger, f.line) /\ f.supersedes = ReplacedIn(ledger, f.line)
          /\ \A i \in {f.premise, f.supersedes} : i # NoLine => i \notin Visiting(stack)
      BY <3>1, PointsBelow
    <3>3. \A i \in {f.premise, f.supersedes} : Edge(i, stack) = EdgeIn(ledger, stamps, i)
      BY <3>2 DEF Edge, EdgeIn, DecisionIDFor, IdIn
    <3>4. DecisionIDFor(f.line) = IdIn(ledger, stamps, f.line)
      BY DEF DecisionIDFor, IdIn
    <3>5. QED
      BY <3>2, <3>3, <3>4 DEF Recorded, DerivedIn
  <2>2. \A d \in brain' : d \in brain \/ (Distinct => \E i \in Lines : d = DerivedIn(ledger, stamps, i))
    <3>1. brain' = Upsert(Recorded(w))
      BY <1>12, RecordedIs
    <3>2. Distinct => Top(job[w].stack).line \in Lines
      BY <1>10, <2>0
    <3>3. QED
      BY <2>1, <3>1, <3>2 DEF Upsert
  <2>3. CASE job' = [job EXCEPT ![w] = NoJob]
    BY <2>0, <2>2, <2>3, DerivedMirroring
  <2>4. ASSUME NEW j \in Job, job' = [job EXCEPT ![w] = j],
               j.stack = SubSeq(job[w].stack, 1, Len(job[w].stack) - 1)
        PROVE  DerivedInv'
    <3>1. ASSUME Distinct PROVE StackDerived(j.stack, ledger)
      <4>1. PICK s : s = job[w].stack
        OBVIOUS
      <4>2. s \in Seq(Frame) /\ Len(s) \in Nat /\ Len(s) >= 1 /\ StackDerived(s, ledger)
        BY <1>10, <2>0, <3>1, <4>1
      <4>3. PICK t : t = SubSeq(s, 1, Len(s) - 1)
        OBVIOUS
      <4>4. \A k \in DOMAIN t : k \in DOMAIN s /\ t[k] = s[k]
        BY <4>2, <4>3
      <4>5. StackDerived(t, ledger)
        BY <4>2, <4>4 DEF StackDerived, Descending
      <4>6. QED
        BY <2>4, <4>1, <4>3, <4>5
    <3>2. QED
      BY <2>0, <2>2, <2>4, <3>1, DerivedMirroring
  <2>5. QED
    BY <1>12, <2>3, <2>4, RecordIs
<1>13. CASE UNCHANGED allVars
  BY <1>13 DEF allVars, vars, mirrorVars, DerivedInv, Distinct, Lines
<1>14. QED
  BY <1>2, <1>3, <1>4, <1>5, <1>7, <1>8, <1>9, <1>11, <1>12, <1>13 DEF MirrorNext

(* While no two lines of the ledger share a second, every decision of the   *)
(* brain is the one that the ledger derives for its line, its premise and   *)
(* what it supersedes included, for any number of calls that overlap, die   *)
(* or give up, and of runs of Resync beside them.                           *)
THEOREM DecisionsAreDerived == MirrorSpec => []BrainIsDerived
<1>1. MirrorInit => DerivedInv
  BY DEF MirrorInit, DerivedInv
<1>2. ASSUME MInv, DerivedInv PROVE BrainIsDerived
  BY <1>2, DerivedIs DEF DerivedInv, BrainIsDerived
<1>3. QED
  BY <1>1, <1>2, DerivedStep, TypesInvariance, PTL DEF MirrorSpec

-----------------------------------------------------------------------------
(* Gaps.                                                                    *)

(* No step takes a line, or the decision of a line, away.                   *)
LEMMA HoldingStays ==
  ASSUME MInv, [MirrorNext]_allVars
  PROVE  \A i \in Lines : i \in Lines' /\ DecisionIDFor(i)' = DecisionIDFor(i) /\ (Holds(i) => Holds(i)')
<1> DEFINE Stay == \A i \in Lines : i \in Lines' /\ DecisionIDFor(i)' = DecisionIDFor(i)
<1>1. ASSUME Stay, UNCHANGED brain, NEW i \in Lines, Holds(i) PROVE Holds(i)'
  BY <1>1 DEF Holds
<1>2. ASSUME NEW p \in Procs, Act(p) PROVE Stay /\ UNCHANGED brain
  <2>1. UNCHANGED brain
    BY <1>2, ActIs
  <2>2. CASE UNCHANGED <<ledger, stamps>>
    BY <2>1, <2>2 DEF DecisionIDFor, Lines
  <2>3. ASSUME NEW e \in Entry, NEW t \in Nat, ledger' = Append(ledger, e), stamps' = Append(stamps, t)
        PROVE  Stay
    <3>1. /\ Lines = 1 .. Len(ledger) /\ Lines' = 1 .. (Len(ledger) + 1) /\ Len(ledger) \in Nat
          /\ \A i \in Lines : ledger'[i] = ledger[i] /\ stamps'[i] = stamps[i]
      BY <2>3, Appending
    <3>2. QED
      BY <3>1 DEF DecisionIDFor
  <2>4. QED
    BY <1>2, <2>1, <2>2, <2>3, ActIs
<1>3. ASSUME NEW w \in Workers, Mirroring(w) PROVE Stay
  <2>1. UNCHANGED <<ledger, stamps>>
    BY <1>3, MirrorSteps DEF MInv
  <2>2. QED
    BY <2>1 DEF DecisionIDFor, Lines
<1>4. ASSUME NEW w \in Workers, Mirroring(w), NEW i \in Lines, Holds(i) PROVE Holds(i)'
  <2>1. Stay
    BY <1>3, <1>4
  <2>2. PICK d \in brain : d.id = DecisionIDFor(i)
    BY <1>4 DEF Holds
  <2>3. CASE UNCHANGED brain
    BY <1>1, <1>4, <2>1, <2>3
  <2>4. CASE RecordDecision(w)
    <3>1. brain' = Upsert(Recorded(w))
      BY <2>4, RecordedIs
    <3>2. \E e \in brain' : e.id = d.id
      BY <2>2, <3>1 DEF Upsert
    <3>3. DecisionIDFor(i)' = d.id
      BY <2>1, <2>2
    <3>4. QED
      BY <3>2, <3>3 DEF Holds
  <2>5. QED
    BY <1>4, <2>3, <2>4 DEF Mirroring, ReadBack, StartResync, ResyncPick, ResyncDone, Descend, GiveUp, DieMirroring
<1>5. CASE UNCHANGED allVars
  BY <1>5 DEF allVars, vars, mirrorVars, Holds, DecisionIDFor, Lines
<1> HIDE DEF Stay
<1>6. Stay /\ \A i \in Lines : Holds(i) => Holds(i)'
  BY <1>1, <1>2, <1>3, <1>4, <1>5, NextIs DEF Stay
<1>7. QED
  BY <1>6 DEF Stay

(* A step that forgets no line that was told or orphaned, and the line of   *)
(* the call only where it is recorded or told or orphaned by it.            *)
LEMMA AccountedStays ==
  ASSUME MInv, Accounted, [MirrorNext]_allVars, NEW p, Procs = {p},
         UNCHANGED <<ledger, stamps, synced>>, told \subseteq told', orphans \subseteq orphans',
         \A i \in Lines : job[p] # NoJob /\ job[p].own = i =>
                          \/ Holds(i)'
                          \/ i \in told' \cup orphans'
                          \/ job'[p] # NoJob /\ job'[p].own = i
  PROVE  Accounted'
<1>1. Ordered' /\ Lines' = Lines /\ synced' \in 0 .. Len(ledger')
  BY DEF Accounted, Ordered, Lines
<1>2. ASSUME NEW i \in Lines, ~Holds(i)' PROVE i > synced' /\ Owed(i)'
  <2>1. ~Holds(i)
    BY <1>2, HoldingStays
  <2>2. i > synced /\ Owed(i)
    BY <2>1 DEF Accounted
  <2>3. CASE i \in told \cup orphans
    BY <2>2, <2>3 DEF Owed
  <2>4. CASE job[p] # NoJob /\ job[p].own = i
    BY <1>2, <2>2, <2>4 DEF Owed
  <2>5. QED
    BY <2>2, <2>3, <2>4 DEF Owed
<1>3. QED
  BY <1>1, <1>2 DEF Accounted

LEMMA CallWalksOn ==
  ASSUME MInv, CallWalks, [MirrorNext]_allVars, NEW p, Procs = {p}, UNCHANGED <<ledger, stamps>>,
         job'[p] # NoJob =>
           \/ job'[p] = job[p]
           \/ /\ job[p] # NoJob /\ job'[p].own = job[p].own
              /\ job'[p].stack # <<>> =>
                   DecisionIDFor(job'[p].stack[1].line) = DecisionIDFor(job[p].own)
  PROVE  CallWalks'
<1> SUFFICES ASSUME job'[p] # NoJob
             PROVE  /\ job'[p].own = Len(ledger)
                    /\ job'[p].stack # <<>> =>
                         DecisionIDFor(job'[p].stack[1].line) = DecisionIDFor(job'[p].own)
  BY DEF CallWalks, DecisionIDFor
<1>1. QED
  BY DEF CallWalks

LEMMA ResyncWalksOn ==
  ASSUME MInv, ResyncWalks, [MirrorNext]_allVars, job'[Operator] = job[Operator], Len(ledger) <= Len(ledger')
  PROVE  ResyncWalks'
<1> DEFINE j == job[Operator]
<1>0. Operator \in Workers /\ Operator \notin Procs /\ Len(ledger) \in Nat
  BY OperatorAssumption DEF Workers, MInv, IInv, TypeOK
<1>1. CASE j = NoJob
  BY <1>1 DEF ResyncWalks
<1>2. CASE j # NoJob
  <2>1. /\ j.next \in Nat /\ j.next <= j.read + 1 /\ j.read \in 0 .. Len(ledger)
        /\ j.stack # <<>> => j.next = j.stack[1].line + 1
        /\ \A i \in Lines : i < j.next => Holds(i) \/ (j.stack # <<>> /\ i = j.stack[1].line)
    BY <1>0, <1>2, JobsFit DEF ResyncWalks, JobFits, Job
  <2>2. ASSUME NEW i \in Lines', i < j.next PROVE Holds(i)' \/ (j.stack # <<>> /\ i = j.stack[1].line)
    <3>1. i \in Lines
      BY <1>0, <2>1, <2>2 DEF Lines
    <3>2. QED
      BY <2>1, <2>2, <3>1, HoldingStays
  <2>3. QED
    BY <2>1, <2>2 DEF ResyncWalks
<1>3. QED
  BY <1>1, <1>2

LEMMA GapsAct ==
  ASSUME MInv, GapsInv, NEW p, Procs = {p}, Act(p), [MirrorNext]_allVars
  PROVE  GapsInv'
<1>0. /\ p \in Procs /\ p \in Workers /\ Operator \in Workers /\ Operator # p
      /\ Len(ledger) \in Nat /\ Lines = 1 .. Len(ledger)
      /\ job \in [Workers -> Job \cup {NoJob}] /\ ledger \in Seq(Entry)
  BY OperatorAssumption DEF Workers, MInv, IInv, TypeOK, MirrorTypeOK, Lines
<1>1. job[p] = NoJob /\ UNCHANGED <<brain, told, orphans, synced>>
  BY <1>0, ActIs
<1>2. CASE UNCHANGED <<ledger, stamps, job>>
  <2>1. Accounted'
    BY <1>1, <1>2, AccountedStays DEF GapsInv
  <2>2. CallWalks'
    BY <1>2, CallWalksOn DEF GapsInv
  <2>3. ResyncWalks'
    BY <1>0, <1>2, ResyncWalksOn DEF GapsInv
  <2>4. QED
    BY <2>1, <2>2, <2>3 DEF GapsInv
<1>3. ASSUME NEW e \in Entry, NEW t \in Nat, NEW j \in Job,
             ledger' = Append(ledger, e), stamps' = Append(stamps, t), ledger # <<>> => stamps[Len(stamps)] <= t,
             job' = [job EXCEPT ![p] = j], j.stack = <<>>, j.own = Len(ledger')
      PROVE  GapsInv'
  <2>1. /\ Len(stamps) = Len(ledger) /\ Lines' = 1 .. (Len(ledger) + 1) /\ Len(ledger') = Len(ledger) + 1
        /\ \A i \in Lines : ledger'[i] = ledger[i] /\ stamps'[i] = stamps[i] /\ stamps[i] \in Nat
        /\ stamps'[Len(ledger) + 1] = t
    BY <1>3, Appending
  <2>2. PICK n \in Nat : n = Len(ledger)
    BY <1>0
  <2>3. \A i \in 1 .. n : stamps[i] <= t
    <3>1. ASSUME NEW i \in 1 .. n PROVE stamps[i] <= t
      <4>1. n \in Lines /\ i \in Lines /\ i <= n /\ ledger # <<>>
        BY <1>0, <2>2
      <4>2. stamps[i] <= stamps[n] /\ stamps[n] <= t
        BY <1>3, <2>1, <2>2, <4>1 DEF GapsInv, Accounted, Ordered
      <4>3. stamps[i] \in Nat /\ stamps[n] \in Nat
        BY <2>1, <4>1
      <4>4. QED
        BY <4>2, <4>3
    <3>2. QED
      BY <3>1
  <2>4. Ordered'
    <3>1. SUFFICES ASSUME NEW i \in 1 .. (n + 1), NEW k \in 1 .. (n + 1), i <= k PROVE stamps'[i] <= stamps'[k]
      BY <2>1, <2>2 DEF Ordered
    <3>2. CASE k \in 1 .. n
      <4>1. i \in Lines /\ k \in Lines
        BY <1>0, <2>2, <3>1, <3>2
      <4>2. QED
        BY <2>1, <3>1, <4>1 DEF GapsInv, Accounted, Ordered
    <3>3. CASE k = n + 1
      <4>1. i = n + 1 \/ i \in 1 .. n
        BY <3>1
      <4>2. CASE i = n + 1
        BY <2>1, <2>2, <3>3, <4>2
      <4>3. CASE i \in 1 .. n
        BY <1>0, <2>1, <2>2, <2>3, <3>3, <4>3
      <4>4. QED
        BY <4>1, <4>2, <4>3
    <3>4. QED
      BY <3>1, <3>2, <3>3
  <2>5. synced \in 0 .. n
    BY <2>2 DEF GapsInv, Accounted
  <2>6. job'[p] = j /\ j # NoJob
    BY <1>0, <1>3, NoJobIsNone
  <2>7. ASSUME NEW i \in Lines' PROVE Holds(i)' \/ (i > synced' /\ Owed(i)')
    <3>1. CASE i = n + 1
      <4>1. Owed(i)'
        BY <1>0, <1>3, <2>1, <2>2, <2>6, <3>1 DEF Owed
      <4>2. i > synced'
        BY <1>1, <2>5, <3>1
      <4>3. QED
        BY <4>1, <4>2
    <3>2. CASE i # n + 1
      <4>1. i \in Lines
        BY <1>0, <2>1, <2>2, <3>2
      <4>2. Holds(i) \/ (i > synced /\ i \in told \cup orphans)
        BY <1>1, <4>1 DEF GapsInv, Accounted, Owed
      <4>3. QED
        BY <1>1, <4>1, <4>2, HoldingStays DEF Owed
    <3>3. QED
      BY <3>1, <3>2
  <2>8. Accounted'
    BY <1>1, <2>1, <2>2, <2>4, <2>5, <2>7 DEF Accounted
  <2>9. CallWalks'
    BY <1>3, <2>6 DEF CallWalks
  <2>10. job'[Operator] = job[Operator]
    BY <1>0, <1>3
  <2>11. ResyncWalks'
    BY <1>0, <2>1, <2>10, ResyncWalksOn DEF GapsInv
  <2>12. QED
    BY <2>8, <2>9, <2>11 DEF GapsInv
<1>4. QED
  BY <1>0, <1>2, <1>3, ActIs

LEMMA FirstFrame ==
  ASSUME NEW s \in Seq(Frame), s # <<>>
  PROVE  /\ \A g \in Frame : Append(s, g)[1] = s[1]
         /\ Len(s) > 1 => SubSeq(s, 1, Len(s) - 1)[1] = s[1]
         /\ Len(s) = 1 => Top(s) = s[1] /\ SubSeq(s, 1, Len(s) - 1) = <<>>
<1>1. Len(s) \in Nat /\ Len(s) >= 1 /\ 1 \in DOMAIN s
  OBVIOUS
<1>2. \A g \in Frame : Append(s, g)[1] = s[1]
  BY <1>1
<1>3. Len(s) > 1 => SubSeq(s, 1, Len(s) - 1)[1] = s[1]
  BY <1>1
<1>4. Len(s) = 1 => SubSeq(s, 1, Len(s) - 1) = <<>>
  BY <1>1
<1>5. QED
  BY <1>2, <1>3, <1>4 DEF Top

LEMMA GapsStep ==
  ASSUME MInv, GapsInv, OneAtATime, [MirrorNext]_allVars
  PROVE  GapsInv'
<1>a. PICK p : Procs = {p}
  BY DEF OneAtATime
<1>0. /\ p \in Procs /\ p \in Workers /\ Operator \in Workers /\ Operator # p /\ Workers = {p, Operator}
      /\ Len(ledger) \in Nat /\ Lines = 1 .. Len(ledger)
      /\ job \in [Workers -> Job \cup {NoJob}] /\ ledger \in Seq(Entry) /\ stamps \in Seq(Nat)
      /\ Len(stamps) = Len(ledger)
  BY <1>a, OperatorAssumption DEF Workers, MInv, IInv, TypeOK, MirrorTypeOK, Lines
<1>1. CASE Act(p)
  BY <1>a, <1>1, GapsAct
<1>2. ASSUME Mirroring(p) \/ Mirroring(Operator) PROVE UNCHANGED <<ledger, stamps>> /\ Len(ledger) <= Len(ledger')
  BY <1>0, <1>2, MirrorSteps DEF MInv
<1>3. ASSUME Mirroring(p) \/ Mirroring(Operator),
             job'[p] = job[p], UNCHANGED synced, told \subseteq told', orphans \subseteq orphans'
      PROVE  Accounted' /\ CallWalks'
  <2>1. Accounted'
    BY <1>a, <1>2, <1>3, AccountedStays DEF GapsInv
  <2>2. CallWalks'
    BY <1>a, <1>2, <1>3, CallWalksOn DEF GapsInv
  <2>3. QED
    BY <2>1, <2>2
<1>4. CASE ReadBack(p)
  <2>1. Mirroring(p)
    BY <1>4 DEF Mirroring
  <2>2. job[p] # NoJob /\ job[p].own \in Lines /\ UNCHANGED <<brain, told, orphans, synced>>
    BY <1>0, <1>4, ReadBackIs
  <2>3. PICK i \in Lines, f \in Frame, j \in Job :
          /\ f \in Frames(i, Len(ledger)) /\ f.line = i
          /\ ledger[i].act = ledger[job[p].own].act
          /\ ledger[i].name = ledger[job[p].own].name
          /\ ledger[i].to = ledger[job[p].own].to
          /\ stamps[job[p].own] <= stamps[i]
          /\ job' = [job EXCEPT ![p] = j]
          /\ j.stack = <<f>> /\ j.own = job[p].own
    BY <1>0, <1>4, ReadBackIs, Zenon
  <2>4. job'[p] = j /\ job'[Operator] = job[Operator]
    BY <1>0, <2>3
  <2>5. job[p].own = Len(ledger)
    BY <1>0, <2>2 DEF GapsInv, CallWalks
  <2>6. stamps[i] = stamps[job[p].own]
    <3>1. i <= job[p].own
      BY <1>0, <2>5
    <3>2. stamps[i] <= stamps[job[p].own]
      BY <2>2, <3>1 DEF GapsInv, Accounted, Ordered
    <3>3. stamps[i] \in Nat /\ stamps[job[p].own] \in Nat
      BY <1>0, <2>2
    <3>4. QED
      BY <2>3, <3>2, <3>3
  <2>7. DecisionIDFor(i) = DecisionIDFor(job[p].own)
    BY <2>3, <2>6 DEF DecisionIDFor
  <2>8. j.stack[1].line = i
    BY <2>3
  <2>9. Accounted'
    BY <1>a, <1>2, <2>1, <2>2, <2>3, <2>4, NoJobIsNone, AccountedStays DEF GapsInv
  <2>10. CallWalks'
    BY <1>a, <1>2, <2>1, <2>2, <2>3, <2>4, <2>7, <2>8, CallWalksOn DEF GapsInv
  <2>11. ResyncWalks'
    BY <1>2, <2>1, <2>4, ResyncWalksOn DEF GapsInv
  <2>12. QED
    BY <2>9, <2>10, <2>11 DEF GapsInv
<1>5. ASSUME Mirroring(p), job' = [job EXCEPT ![p] = NoJob], job[p] # NoJob, UNCHANGED synced,
             told \subseteq told', orphans \subseteq orphans',
             \A i \in Lines : job[p].own = i => Holds(i)' \/ i \in told' \cup orphans'
      PROVE  GapsInv'
  <2>1. job'[p] = NoJob /\ job'[Operator] = job[Operator]
    BY <1>0, <1>5
  <2>2. Accounted'
    BY <1>a, <1>2, <1>5, AccountedStays DEF GapsInv
  <2>3. CallWalks'
    BY <1>a, <1>2, <1>5, <2>1, CallWalksOn DEF GapsInv
  <2>4. ResyncWalks'
    BY <1>2, <1>5, <2>1, ResyncWalksOn DEF GapsInv
  <2>5. QED
    BY <2>2, <2>3, <2>4 DEF GapsInv
<1>6. CASE DieMirroring(p)
  <2>1. /\ Mirroring(p) /\ job' = [job EXCEPT ![p] = NoJob] /\ job[p] # NoJob /\ UNCHANGED <<synced, told>>
        /\ orphans' = orphans \cup {job[p].own}
    BY <1>6 DEF Mirroring, DieMirroring
  <2>2. QED
    BY <1>5, <2>1
<1>7. CASE GiveUp(p)
  <2>1. /\ Mirroring(p) /\ job' = [job EXCEPT ![p] = NoJob] /\ job[p] # NoJob /\ UNCHANGED <<synced, orphans>>
        /\ told' = told \cup {job[p].own}
    BY <1>0, <1>7 DEF Mirroring, GiveUp
  <2>2. QED
    BY <1>5, <2>1
<1>8. ASSUME Mirroring(Operator), NEW j, job' = [job EXCEPT ![Operator] = j], UNCHANGED <<told, orphans, synced>>,
             j # NoJob => /\ j.next <= j.read + 1
                          /\ j.stack # <<>> => j.next = j.stack[1].line + 1
                          /\ \A i \in Lines : i < j.next => Holds(i)' \/ (j.stack # <<>> /\ i = j.stack[1].line)
      PROVE  GapsInv'
  <2>1. job'[p] = job[p] /\ job'[Operator] = j
    BY <1>0, <1>8
  <2>2. Accounted' /\ CallWalks'
    BY <1>3, <1>8, <2>1
  <2>3. ResyncWalks'
    BY <1>2, <1>8, <2>1 DEF ResyncWalks, Lines
  <2>4. QED
    BY <2>2, <2>3 DEF GapsInv
<1>9. CASE StartResync
  <2>1. PICK j : j = [stage |-> "walk", own |-> NoLine, read |-> Len(ledger), stack |-> <<>>, next |-> 1]
    OBVIOUS
  <2>2. Mirroring(Operator) /\ job' = [job EXCEPT ![Operator] = j] /\ UNCHANGED <<told, orphans, synced>>
    BY <1>9, <2>1 DEF Mirroring, StartResync
  <2>3. /\ j.next <= j.read + 1 /\ j.stack = <<>>
        /\ \A i \in Lines : ~(i < j.next)
    BY <1>0, <2>1
  <2>4. QED
    BY <1>8, <2>2, <2>3
<1>10. ASSUME job[Operator] # NoJob
       PROVE  LET o == job[Operator] IN
              /\ o.read \in 0 .. Len(ledger) /\ o.next \in Nat /\ o.next >= 1 /\ o.next <= o.read + 1
              /\ o.stack \in Seq(Frame)
              /\ o.stack # <<>> => o.next = o.stack[1].line + 1
              /\ \A i \in Lines : i < o.next => Holds(i) \/ (o.stack # <<>> /\ i = o.stack[1].line)
  <2>1. JobFits(Operator, job[Operator], Len(ledger)) /\ Operator \notin Procs
    BY <1>0, <1>10, JobsFit, OperatorAssumption
  <2>2. QED
    BY <1>10, <2>1 DEF JobFits, Job, GapsInv, ResyncWalks
<1>11. CASE ResyncPick
  <2>1. Mirroring(Operator)
    BY <1>11 DEF Mirroring
  <2>2. job[Operator] # NoJob /\ job[Operator].stack = <<>> /\ UNCHANGED <<brain, told, orphans, synced>>
    BY <1>11, ResyncPickIs
  <2>3. PICK i \in 1 .. job[Operator].read, f \in Frame, j \in Job :
          /\ f \in Frames(i, job[Operator].read) /\ f.line = i
          /\ \A k \in job[Operator].next .. (i - 1) : Holds(k)
          /\ job' = [job EXCEPT ![Operator] = j]
          /\ j.stack = <<f>> /\ j.next = i + 1 /\ j.read = job[Operator].read
    BY <1>11, ResyncPickIs, Zenon
  <2>4. j.stack # <<>> /\ j.stack[1].line = i /\ j.next = j.stack[1].line + 1
    BY <2>3
  <2>5. job[Operator].read \in Nat /\ job[Operator].next \in Nat
    BY <1>10, <2>2
  <2>6. j.next <= j.read + 1
    BY <2>3, <2>5
  <2>7. ASSUME NEW k \in Lines, k < j.next, k # i PROVE Holds(k)'
    <3>1. k < job[Operator].next \/ k \in job[Operator].next .. (i - 1)
      BY <1>0, <2>3, <2>5, <2>7
    <3>2. Holds(k)
      BY <1>10, <2>2, <2>3, <3>1
    <3>3. QED
      BY <3>2, HoldingStays
  <2>8. QED
    BY <1>8, <2>1, <2>2, <2>3, <2>4, <2>6, <2>7
<1>12. CASE ResyncDone
  <2>1. /\ Mirroring(Operator) /\ job[Operator] # NoJob /\ job[Operator].stack = <<>>
        /\ \A i \in job[Operator].next .. job[Operator].read : Holds(i)
        /\ job' = [job EXCEPT ![Operator] = NoJob] /\ synced' = job[Operator].read
        /\ UNCHANGED <<brain, told, orphans>>
    BY <1>0, <1>12, NoJobIsNone DEF Mirroring, ResyncDone
  <2>2. job'[p] = job[p] /\ job'[Operator] = NoJob /\ UNCHANGED <<ledger, stamps>>
    BY <1>0, <1>2, <2>1
  <2>3. job[Operator].read \in 0 .. Len(ledger) /\ job[Operator].next \in Nat
    BY <1>10, <2>1
  <2>4. ASSUME NEW i \in Lines, ~Holds(i)' PROVE i > job[Operator].read /\ Owed(i)'
    <3>1. ~Holds(i)
      BY <2>4, HoldingStays
    <3>2. ~(i < job[Operator].next) /\ i \notin job[Operator].next .. job[Operator].read
      BY <1>10, <2>1, <3>1
    <3>3. i > job[Operator].read
      BY <1>0, <2>3, <3>2
    <3>4. Owed(i)
      BY <3>1 DEF GapsInv, Accounted
    <3>5. Owed(i)'
      BY <1>a, <2>1, <2>2, <3>4 DEF Owed
    <3>6. QED
      BY <3>3, <3>5
  <2>5. Accounted'
    BY <2>1, <2>2, <2>3, <2>4 DEF GapsInv, Accounted, Ordered, Lines
  <2>6. CallWalks'
    BY <1>a, <2>2, CallWalksOn DEF GapsInv
  <2>7. ResyncWalks'
    BY <2>2 DEF ResyncWalks
  <2>8. QED
    BY <2>5, <2>6, <2>7 DEF GapsInv
<1>13. CASE GiveUp(Operator)
  <2>1. /\ Mirroring(Operator) /\ job' = [job EXCEPT ![Operator] = NoJob]
        /\ UNCHANGED <<told, orphans, synced>>
    BY <1>13 DEF Mirroring, GiveUp
  <2>2. QED
    BY <1>8, <2>1
<1>14. CASE Descend(p)
  <2>1. Recording(p) /\ Mirroring(p) /\ UNCHANGED <<brain, told, orphans, synced>>
    BY <1>0, <1>14, DescendIs DEF Mirroring
  <2>2. PICK g \in Frame, j \in Job :
          /\ job' = [job EXCEPT ![p] = j]
          /\ j.stack = Append(job[p].stack, g) /\ j.own = job[p].own
    BY <1>0, <1>14, DescendIs
  <2>3. job'[p] = j /\ job'[Operator] = job[Operator] /\ j # NoJob
    BY <1>0, <2>2, NoJobIsNone
  <2>4. job[p].stack \in Seq(Frame) /\ job[p].stack # <<>> /\ job[p] # NoJob
    BY <1>0, <2>1, TopFits
  <2>5. j.stack[1] = job[p].stack[1]
    BY <2>2, <2>4, FirstFrame
  <2>6. DecisionIDFor(job[p].stack[1].line) = DecisionIDFor(job[p].own)
    BY <1>0, <2>4 DEF GapsInv, CallWalks
  <2>7. Accounted'
    BY <1>a, <1>2, <2>1, <2>2, <2>3, AccountedStays DEF GapsInv
  <2>8. CallWalks'
    BY <1>a, <1>2, <2>1, <2>2, <2>3, <2>4, <2>5, <2>6, CallWalksOn DEF GapsInv
  <2>9. ResyncWalks'
    BY <1>2, <2>1, <2>3, ResyncWalksOn DEF GapsInv
  <2>10. QED
    BY <2>7, <2>8, <2>9 DEF GapsInv
<1>15. CASE Descend(Operator)
  <2>1. Recording(Operator) /\ Mirroring(Operator) /\ UNCHANGED <<brain, told, orphans, synced>>
    BY <1>0, <1>15, DescendIs DEF Mirroring
  <2>2. PICK g \in Frame, j \in Job :
          /\ job' = [job EXCEPT ![Operator] = j]
          /\ j.stack = Append(job[Operator].stack, g) /\ j.next = job[Operator].next /\ j.read = job[Operator].read
    BY <1>0, <1>15, DescendIs
  <2>3. job[Operator].stack \in Seq(Frame) /\ job[Operator].stack # <<>> /\ job[Operator] # NoJob
    BY <1>0, <2>1, TopFits
  <2>4. j.stack[1] = job[Operator].stack[1] /\ j.stack # <<>>
    BY <2>2, <2>3, FirstFrame
  <2>5. \A i \in Lines : i < j.next => Holds(i)' \/ i = j.stack[1].line
    BY <1>10, <2>2, <2>3, <2>4, HoldingStays
  <2>6. j.next <= j.read + 1 /\ j.next = j.stack[1].line + 1
    BY <1>10, <2>2, <2>3, <2>4
  <2>7. QED
    BY <1>8, <2>1, <2>2, <2>4, <2>5, <2>6
<1>16. ASSUME NEW w \in Workers, RecordDecision(w)
       PROVE  /\ Recording(w) /\ Mirroring(w) /\ UNCHANGED <<told, orphans, synced, ledger, stamps>>
              /\ job[w].stack \in Seq(Frame) /\ job[w].stack # <<>> /\ job[w] # NoJob
              /\ Len(job[w].stack) \in Nat /\ Len(job[w].stack) >= 1
              /\ Len(job[w].stack) = 1 =>
                   \A i : DecisionIDFor(i) = DecisionIDFor(job[w].stack[1].line) => Holds(i)'
  <2>1. Recording(w) /\ Mirroring(w) /\ UNCHANGED <<told, orphans, synced>>
    BY <1>16, RecordIs DEF Mirroring
  <2>2. UNCHANGED <<ledger, stamps>>
    BY <2>1, MirrorSteps DEF MInv
  <2>3. /\ job[w].stack \in Seq(Frame) /\ job[w].stack # <<>> /\ job[w] # NoJob
        /\ Len(job[w].stack) \in Nat /\ Len(job[w].stack) >= 1
    BY <2>1, TopFits
  <2>4. Recorded(w) \in brain' /\ Recorded(w).id = DecisionIDFor(Top(job[w].stack).line)
    BY <1>16, RecordedIs DEF Upsert
  <2>5. ASSUME Len(job[w].stack) = 1, NEW i, DecisionIDFor(i) = DecisionIDFor(job[w].stack[1].line)
        PROVE  Holds(i)'
    <3>1. Top(job[w].stack) = job[w].stack[1]
      BY <2>3, <2>5, FirstFrame
    <3>2. Recorded(w).id = DecisionIDFor(i)
      BY <2>4, <2>5, <3>1
    <3>3. DecisionIDFor(i)' = DecisionIDFor(i)
      BY <2>2 DEF DecisionIDFor
    <3>4. \E d \in brain' : d.id = DecisionIDFor(i)'
      BY <2>4, <3>2, <3>3
    <3>5. QED
      BY <3>4 DEF Holds
  <2>6. QED
    BY <2>1, <2>2, <2>3, <2>5
<1>17. CASE RecordDecision(p)
  <2>1. /\ Recording(p) /\ Mirroring(p) /\ UNCHANGED <<told, orphans, synced>>
        /\ job[p].stack \in Seq(Frame) /\ job[p].stack # <<>> /\ job[p] # NoJob
    BY <1>0, <1>16, <1>17
  <2>2. DecisionIDFor(job[p].stack[1].line) = DecisionIDFor(job[p].own)
    BY <1>0, <2>1 DEF GapsInv, CallWalks
  <2>3. CASE Len(job[p].stack) = 1 /\ job' = [job EXCEPT ![p] = NoJob]
    <3>1. \A i \in Lines : job[p].own = i => Holds(i)'
      BY <1>0, <1>16, <1>17, <2>2, <2>3
    <3>2. QED
      BY <1>5, <2>1, <2>3, <3>1
  <2>4. ASSUME NEW j \in Job, Len(job[p].stack) > 1, job' = [job EXCEPT ![p] = j],
               j.stack = SubSeq(job[p].stack, 1, Len(job[p].stack) - 1), j.own = job[p].own
        PROVE  GapsInv'
    <3>1. job'[p] = j /\ job'[Operator] = job[Operator] /\ j # NoJob
      BY <1>0, <2>4, NoJobIsNone
    <3>2. j.stack[1] = job[p].stack[1]
      BY <2>1, <2>4, FirstFrame
    <3>3. Accounted'
      BY <1>a, <1>2, <2>1, <2>4, <3>1, AccountedStays DEF GapsInv
    <3>4. CallWalks'
      BY <1>a, <1>2, <2>1, <2>2, <2>4, <3>1, <3>2, CallWalksOn DEF GapsInv
    <3>5. ResyncWalks'
      BY <1>2, <2>1, <3>1, ResyncWalksOn DEF GapsInv
    <3>6. QED
      BY <3>3, <3>4, <3>5 DEF GapsInv
  <2>5. QED
    BY <1>0, <1>17, <2>3, <2>4, RecordIs
<1>18. CASE RecordDecision(Operator)
  <2> DEFINE s == job[Operator].stack
  <2>1. /\ Recording(Operator) /\ Mirroring(Operator) /\ UNCHANGED <<told, orphans, synced>>
        /\ s \in Seq(Frame) /\ s # <<>> /\ job[Operator] # NoJob /\ Len(s) \in Nat /\ Len(s) >= 1
    BY <1>0, <1>16, <1>18
  <2>2. PICK j \in Job :
          /\ job' = [job EXCEPT ![Operator] = j]
          /\ j.stack = SubSeq(s, 1, Len(s) - 1)
          /\ j.next = job[Operator].next /\ j.read = job[Operator].read
    BY <1>0, <1>18, RecordIs
  <2>3. j.next <= j.read + 1
    BY <1>10, <2>1, <2>2
  <2>4. CASE Len(s) = 1
    <3>1. j.stack = <<>>
      BY <2>1, <2>2, <2>4, FirstFrame
    <3>2. \A i \in Lines : i < j.next => Holds(i)'
      <4>1. ASSUME NEW i \in Lines, i < j.next PROVE Holds(i)'
        <5>1. Holds(i) \/ i = s[1].line
          BY <1>10, <2>1, <2>2, <4>1
        <5>2. CASE i = s[1].line
          BY <1>0, <1>16, <1>18, <2>4, <5>2
        <5>3. QED
          BY <5>1, <5>2, HoldingStays
      <4>2. QED
        BY <4>1
    <3>3. QED
      BY <1>8, <2>1, <2>2, <2>3, <3>1, <3>2
  <2>5. CASE Len(s) > 1
    <3>1. j.stack[1] = s[1]
      BY <2>1, <2>2, <2>5, FirstFrame
    <3>2. j.stack # <<>>
      <4>1. Len(j.stack) = Len(s) - 1
        BY <2>1, <2>2, <2>5
      <4>2. QED
        BY <2>5, <4>1
    <3>3. \A i \in Lines : i < j.next => Holds(i)' \/ i = j.stack[1].line
      BY <1>10, <2>1, <2>2, <3>1, HoldingStays
    <3>4. j.next = j.stack[1].line + 1
      BY <1>10, <2>1, <2>2, <3>1
    <3>5. QED
      BY <1>8, <2>1, <2>2, <2>3, <3>2, <3>3, <3>4
  <2>6. Len(s) = 1 \/ Len(s) > 1
    <3>1. PICK n \in Nat : n = Len(s)
      BY <2>1
    <3>2. n >= 1
      BY <2>1, <3>1
    <3>3. n = 1 \/ n > 1
      BY <3>2
    <3>4. QED
      BY <3>1, <3>3, Zenon
  <2>7. QED
    BY <2>4, <2>5, <2>6
<1>19. CASE UNCHANGED allVars
  BY <1>19 DEF allVars, vars, mirrorVars, GapsInv, Accounted, Ordered, CallWalks, ResyncWalks, Holds, Owed,
               DecisionIDFor, Lines
<1>20. QED
  BY <1>a, <1>0, <1>1, <1>4, <1>6, <1>7, <1>9, <1>11, <1>12, <1>13, <1>14, <1>15, <1>17, <1>18, <1>19 DEF MirrorNext

(* Where the calls run one after another, a line that the brain lacks was   *)
(* reported or orphaned or is being recorded, whatever failed; and a Resync *)
(* that returned no error has left no gap among the lines it had read, with *)
(* calls going on beside it.                                                *)
THEOREM EveryGapIsKnown ==
  ASSUME OneAtATime
  PROVE  MirrorSpec => []GapsAreKnown
<1>1. MirrorInit => GapsInv
  BY DEF MirrorInit, Init, GapsInv, Accounted, Ordered, CallWalks, ResyncWalks, Lines, Workers
<1>2. MInv /\ GapsInv /\ [MirrorNext]_allVars => GapsInv'
  BY GapsStep
<1>3. MInv /\ GapsInv => GapsAreKnown
  BY DEF GapsInv, Accounted, Owed, GapsAreKnown
<1>4. QED
  BY <1>1, <1>2, <1>3, TypesInvariance, PTL DEF MirrorSpec

=============================================================================
