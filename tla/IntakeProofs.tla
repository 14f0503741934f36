----------------------------- MODULE IntakeProofs -----------------------------
(***************************************************************************)
(* Theorems about Intake for any number of processes, plans, databases,    *)
(* columns, tamperings and changes of a catalogue.  Those about signatures *)
(* and the ledger are of a brain that refuses the writes of an overtaken   *)
(* transaction, as the one that the program opens does.                    *)
(***************************************************************************)
EXTENDS Intake, TLAPS

Transacting == {"amend", "previous", "sign"}

(* What each label says of what its call holds; the plans it names are      *)
(* known, and no plan is ever deleted.                                      *)
Fit(label, c, known) ==
  /\ label # "idle" => c.act # "none" /\ c.plan \in Plan
  /\ label = "insert" => c.by \in People /\ c.plan.state = "draft"
  /\ label \in Transacting => c.by \in People /\ c.id \in known /\ c.hash \in Content
  /\ label = "previous" => c.prev = None
  /\ label = "sign" /\ c.prev # None => c.prev \in known /\ c.old \in Content
  /\ label \in {"read", "draft"} => c.seen \in [Columns -> Types \cup {None}]

LabelsFit == \A p \in Procs : Fit(pc[p], call[p], Proposed)

Typed == TypeOK /\ LabelsFit

(* What a transaction has read is still there, unless it was overtaken.     *)
Current(c, label) ==
  /\ label = "amend" => plans[c.id].state = "draft" /\ plans[c.id].hash = c.hash
  /\ label \in {"previous", "sign"} =>
       /\ plans[c.id] = c.plan
       /\ c.plan.state = "draft" /\ c.plan.hash = c.hash
  /\ label = "sign" /\ c.prev # None =>
       /\ plans[c.prev].state = "signed"
       /\ plans[c.prev].source = c.plan.source
       /\ plans[c.prev].hash = c.old

ReadsCurrent == \A p \in Procs \ overtaken : Current(call[p], pc[p])

(* What the ledger has a line of is a plan; what it says was signed is no   *)
(* draft.                                                                   *)
LinesOfPlans ==
  \A k \in DOMAIN ledger :
    /\ ledger[k].plan \in Proposed
    /\ ledger[k].act = "sign" => plans[ledger[k].plan].state # "draft"

(* A call past the gate goes by a plan that was signed for as it is read.   *)
Cleared(c, label) ==
  /\ label \in {"compare", "read", "draft"} =>
       \E sig \in signatures : sig[2] = PlanHash(c.plan)
  /\ label = "read" => Present(c.seen) \subseteq Covered(c.plan)

PastTheGate == \A p \in Procs : Cleared(call[p], pc[p])

-----------------------------------------------------------------------------
(* The records stay what they are.                                          *)

LEMMA NoneIsNothing ==
  /\ \A x \in Plan : x # None
  /\ \A x \in Types : x # None
  /\ \A x \in Treatment : x # None
  /\ \A x \in Content : x # None
  /\ \A x \in Ids : x # None
  /\ \A x \in People : x # None
  BY NoneAssumption

LEMMA TreatmentsType ==
  ASSUME NEW cat \in [Columns -> Types \cup {None}]
  PROVE  TreatmentsFor(cat) \in [Columns -> Treatment \cup {None}]
  BY DEF TreatmentsFor, Treatment, Actions

LEMMA AmendedType ==
  ASSUME NEW p \in Plan, NEW target, NEW action \in Actions
  PROVE  /\ Amended(p, target, action) \in Plan
         /\ Amended(p, target, action).source = p.source
         /\ Amended(p, target, action).state = p.state
         /\ Amended(p, target, action).signer = p.signer
<1> DEFINE cols == [c \in Columns |-> IF c \in target /\ p.cols[c] # None
                                      THEN [p.cols[c] EXCEPT !.action = action]
                                      ELSE p.cols[c]]
<1>1. cols \in [Columns -> Treatment \cup {None}]
  <2>1. ASSUME NEW c \in Columns, p.cols[c] # None
        PROVE  [p.cols[c] EXCEPT !.action = action] \in Treatment
    BY <2>1 DEF Plan, Treatment
  <2>2. QED
    BY <2>1 DEF Plan
<1> HIDE DEF cols
<1>2. [source |-> p.source, cols |-> cols] \in Content
  BY <1>1 DEF Content, Plan
<1>3. Amended(p, target, action)
        = [p EXCEPT !.cols = cols, !.hash = [source |-> p.source, cols |-> cols]]
  BY DEF Amended, cols
<1>4. QED
  BY <1>1, <1>2, <1>3 DEF Plan

LEMMA PlanHashType ==
  ASSUME NEW p \in Plan
  PROVE  PlanHash(p) \in Content
  BY DEF PlanHash, Plan, Content

(* A call goes on or returns: types are kept when what it holds fits.       *)
LEMMA GotoTyped ==
  ASSUME Typed, NEW p \in Procs, NEW label \in Labels, NEW c \in Call,
         label = "idle" <=> c = NoCall, Fit(label, c, Proposed), Goto(p, label, c),
         Proposed \subseteq Proposed'
  PROVE  /\ pc' \in [Procs -> Labels]
         /\ call' \in [Procs -> Call]
         /\ \A q \in Procs : pc'[q] = "idle" <=> call'[q] = NoCall
         /\ LabelsFit'
<1>1. /\ pc' \in [Procs -> Labels]
      /\ call' \in [Procs -> Call]
      /\ \A q \in Procs : pc'[q] = IF q = p THEN label ELSE pc[q]
      /\ \A q \in Procs : call'[q] = IF q = p THEN c ELSE call[q]
  BY DEF Typed, TypeOK, Goto
<1>2. \A q \in Procs : pc'[q] = "idle" <=> call'[q] = NoCall
  BY <1>1 DEF Typed, TypeOK
<1>3. \A q \in Procs : Fit(pc'[q], call'[q], Proposed')
  BY <1>1 DEF Typed, LabelsFit, Fit
<1>4. QED
  BY <1>1, <1>2, <1>3 DEF LabelsFit

LEMMA ReturnTyped ==
  ASSUME Typed, NEW p \in Procs, Return(p), Proposed \subseteq Proposed'
  PROVE  /\ pc' \in [Procs -> Labels]
         /\ call' \in [Procs -> Call]
         /\ \A q \in Procs : pc'[q] = "idle" <=> call'[q] = NoCall
         /\ LabelsFit'
<1>1. NoCall \in Call /\ "idle" \in Labels
  BY DEF NoCall, Call, Labels
<1>2. Fit("idle", NoCall, Proposed)
  BY DEF Fit, NoCall, Transacting
<1>3. QED
  BY <1>1, <1>2, GotoTyped DEF Return

(* A ledger line of an act on a plan.                                       *)
LEMMA LineType ==
  ASSUME NEW act \in {"propose", "amend", "sign", "supersede"}, NEW i \in Ids,
         NEW s \in Sources, NEW hash \in Content, NEW by \in People,
         NEW from \in Content \cup {None}
  PROVE  Record(act, i, s, hash, by, from) \in Entry
  BY DEF Record, Entry

LEMMA AppendedType ==
  ASSUME ledger \in Seq(Entry), NEW e \in Entry
  PROVE  Append(ledger, e) \in Seq(Entry)
  OBVIOUS

-----------------------------------------------------------------------------
(* Type correctness.                                                        *)

LEMMA InitTyped == Init => Typed
<1> SUFFICES ASSUME Init PROVE Typed
  OBVIOUS
<1>1. NoCall \in Call /\ "idle" \in Labels
  BY DEF NoCall, Call, Labels
<1>2. TypeOK
  BY <1>1, CatalogueAssumption DEF Init, TypeOK
<1>3. Fit("idle", NoCall, Proposed)
  BY DEF Fit, NoCall, Transacting
<1>4. LabelsFit
  BY <1>3 DEF Init, LabelsFit
<1>5. QED
  BY <1>2, <1>4 DEF Typed

LEMMA ProposeTyped ==
  ASSUME Typed, NEW p \in Procs, NEW s \in Sources, NEW by \in People, Propose(p, s, by)
  PROVE  Typed'
<1> DEFINE cols == TreatmentsFor(live[s])
           plan == [source |-> s, cols |-> cols, hash |-> [source |-> s, cols |-> cols],
                    state |-> "draft", signer |-> None]
           c    == [NoCall EXCEPT !.act = "propose", !.by = by, !.plan = plan]
<1>1. cols \in [Columns -> Treatment \cup {None}]
  BY TreatmentsType DEF Typed, TypeOK
<1>2. plan \in Plan
  BY <1>1 DEF Plan, Content
<1>3. Goto(p, "insert", c) /\ UNCHANGED <<plans, ledger, live, overtaken, alters, tampers, history>>
  BY DEF Propose
<1> HIDE DEF plan
<1>4. c \in Call /\ c # NoCall /\ "insert" \in Labels
  BY <1>2 DEF Call, NoCall, Labels
<1>5. plan.state = "draft"
  BY DEF plan
<1>6. Fit("insert", c, Proposed)
  BY <1>2, <1>5 DEF Fit, NoCall, Transacting
<1> HIDE DEF c
<1>7. QED
  BY <1>3, <1>4, <1>6, GotoTyped DEF Typed, TypeOK, history, Proposed

LEMMA InsertTyped ==
  ASSUME Typed, NEW p \in Procs, NEW i \in Ids, Insert(p, i)
  PROVE  Typed'
<1> DEFINE c == call[p]
           line == Record("propose", i, c.plan.source, c.plan.hash, c.by, None)
<1>1. c.plan \in Plan /\ c.by \in People
  BY DEF Insert, Typed, LabelsFit, Fit
<1>2. line \in Entry
  BY <1>1, LineType DEF Plan
<1>3. /\ plans' = [plans EXCEPT ![i] = c.plan]
      /\ ledger' = Append(ledger, line)
      /\ Return(p) /\ overtaken' \subseteq Procs
      /\ UNCHANGED <<live, alters, tampers, history>>
  BY DEF Insert, Overtakes
<1> HIDE DEF c, line
<1>4. plans' \in [Ids -> Plan \cup {None}] /\ Proposed \subseteq Proposed'
  BY <1>1, <1>3, NoneIsNothing DEF Typed, TypeOK, Proposed
<1>5. QED
  BY <1>2, <1>3, <1>4, ReturnTyped, AppendedType DEF Typed, TypeOK, history

LEMMA AmendTyped ==
  ASSUME Typed, NEW p \in Procs, NEW i \in Ids, NEW target \in Targets,
         NEW action \in Actions, NEW by \in People, Amend(p, i, target, action, by)
  PROVE  Typed'
<1> DEFINE new == Amended(plans[i], target, action)
           c   == [NoCall EXCEPT !.act = "amend", !.id = i, !.by = by,
                                 !.hash = plans[i].hash, !.plan = new]
<1>1. plans[i] \in Plan
  BY DEF Amend, Proposed, Typed, TypeOK
<1>2. new \in Plan /\ plans[i].hash \in Content
  BY <1>1, AmendedType DEF Plan
<1>3. /\ Goto(p, "amend", c) /\ overtaken' \subseteq overtaken
      /\ UNCHANGED <<plans, ledger, live, alters, tampers, history>>
  BY DEF Amend
<1> HIDE DEF new
<1>4. c \in Call /\ c # NoCall /\ "amend" \in Labels
  BY <1>2 DEF Call, NoCall, Labels
<1>5. Fit("amend", c, Proposed)
  BY <1>2 DEF Amend, Fit, NoCall, Transacting
<1> HIDE DEF c
<1>6. QED
  BY <1>3, <1>4, <1>5, GotoTyped DEF Typed, TypeOK, history, Proposed

LEMMA CommitAmendTyped ==
  ASSUME Typed, NEW p \in Procs, CommitAmend(p)
  PROVE  Typed'
<1> DEFINE c == call[p]
           line == Record("amend", c.id, c.plan.source, c.plan.hash, c.by, c.hash)
<1>1. /\ c.plan \in Plan /\ c.by \in People /\ c.id \in Proposed /\ c.hash \in Content
  BY DEF CommitAmend, Typed, LabelsFit, Fit, Transacting
<1>2. line \in Entry
  BY <1>1, LineType DEF Plan, Proposed
<1>3. /\ plans' = [plans EXCEPT ![c.id].cols = c.plan.cols, ![c.id].hash = c.plan.hash]
      /\ ledger' = Append(ledger, line)
      /\ Return(p) /\ overtaken' \subseteq Procs
      /\ UNCHANGED <<live, alters, tampers, history>>
  BY DEF CommitAmend, Overtakes
<1> HIDE DEF c, line
<1>4. plans' \in [Ids -> Plan \cup {None}] /\ Proposed \subseteq Proposed'
  <2>1. plans[c.id] \in Plan
    BY <1>1 DEF Typed, TypeOK, Proposed
  <2>2. [plans[c.id] EXCEPT !.cols = c.plan.cols, !.hash = c.plan.hash] \in Plan
    BY <1>1, <2>1 DEF Plan
  <2>3. plans' = [plans EXCEPT ![c.id] = [plans[c.id] EXCEPT !.cols = c.plan.cols,
                                                              !.hash = c.plan.hash]]
    BY <1>1, <1>3, <2>1 DEF Typed, TypeOK, Proposed
  <2>4. QED
    BY <1>1, <2>2, <2>3, NoneIsNothing DEF Typed, TypeOK, Proposed
<1>5. QED
  BY <1>2, <1>3, <1>4, ReturnTyped, AppendedType DEF Typed, TypeOK, history

LEMMA SignTyped ==
  ASSUME Typed, NEW p \in Procs, NEW i \in Ids, NEW hash, NEW by \in People,
         Sign(p, i, hash, by)
  PROVE  Typed'
<1> DEFINE c == [NoCall EXCEPT !.act = "sign", !.id = i, !.by = by,
                               !.hash = hash, !.plan = plans[i]]
<1>1. plans[i] \in Plan /\ i \in Proposed /\ hash \in Content
  BY DEF Sign, Proposed, Typed, TypeOK, Plan
<1>2. /\ Goto(p, "previous", c) /\ overtaken' \subseteq overtaken
      /\ UNCHANGED <<plans, ledger, live, alters, tampers, history>>
  BY DEF Sign
<1>3. c \in Call /\ c # NoCall /\ "previous" \in Labels
  BY <1>1 DEF Call, NoCall, Labels
<1>4. Fit("previous", c, Proposed)
  BY <1>1 DEF Fit, NoCall, Transacting
<1> HIDE DEF c
<1>5. QED
  BY <1>2, <1>3, <1>4, GotoTyped DEF Typed, TypeOK, history, Proposed

LEMMA FindPreviousTyped ==
  ASSUME Typed, NEW p \in Procs, FindPrevious(p)
  PROVE  Typed'
<1> DEFINE s == call[p].plan.source
<1>1. /\ call[p] \in Call /\ call[p] # NoCall
      /\ Fit("previous", call[p], Proposed)
  BY DEF FindPrevious, Typed, TypeOK, LabelsFit
<1>2. ASSUME NEW c, Goto(p, "sign", c),
             \/ c = call[p] /\ c.prev = None
             \/ \E i \in InForce(s) : c = [call[p] EXCEPT !.prev = i, !.old = plans[i].hash]
      PROVE  Typed'
  <2>1. c \in Call /\ c # NoCall /\ Fit("sign", c, Proposed)
    <3>1. CASE c = call[p] /\ c.prev = None
      BY <1>1, <3>1 DEF Fit, Transacting
    <3>2. ASSUME NEW i \in InForce(s), c = [call[p] EXCEPT !.prev = i, !.old = plans[i].hash]
          PROVE  c \in Call /\ c # NoCall /\ Fit("sign", c, Proposed)
      <4>1. i \in Ids /\ i \in Proposed /\ plans[i].hash \in Content
        BY DEF InForce, Proposed, Typed, TypeOK, Plan
      <4>2. c \in Call /\ c.act # "none"
        BY <1>1, <3>2, <4>1 DEF Call, Fit
      <4>3. c # NoCall
        BY <4>2 DEF NoCall
      <4>4. Fit("sign", c, Proposed)
        BY <1>1, <3>2, <4>1 DEF Fit, Transacting, Call
      <4>5. QED
        BY <4>2, <4>3, <4>4
    <3>3. QED
      BY <1>2, <3>1, <3>2
  <2>2. "sign" \in Labels
    BY DEF Labels
  <2>3. UNCHANGED <<plans, ledger, live, overtaken, alters, tampers, history>>
    BY DEF FindPrevious
  <2>4. QED
    BY <1>2, <2>1, <2>2, <2>3, GotoTyped DEF Typed, TypeOK, history, Proposed
<1>3. QED
  BY <1>2, <1>1 DEF FindPrevious, Fit

(* What a signature's transaction writes.                                   *)
LEMMA SignedType ==
  ASSUME Typed, NEW i \in Proposed, NEW by \in People, NEW prev \in Proposed \cup {None}
  PROVE  /\ Supersede(SignedBy(i, by), prev) \in [Ids -> Plan \cup {None}]
         /\ \A j \in Proposed : Supersede(SignedBy(i, by), prev)[j] \in Plan
         /\ \A j \in Ids \ Proposed : Supersede(SignedBy(i, by), prev)[j] = None
<1>1. \A j \in Proposed : j \in Ids /\ plans[j] \in Plan
  BY DEF Proposed, Typed, TypeOK
<1> DEFINE signed == SignedBy(i, by)
<1>2. signed = [plans EXCEPT ![i] = [plans[i] EXCEPT !.state = "signed", !.signer = by]]
  BY <1>1 DEF SignedBy, Typed, TypeOK
<1>3. [plans[i] EXCEPT !.state = "signed", !.signer = by] \in Plan
  BY <1>1 DEF Plan
<1>4. /\ signed \in [Ids -> Plan \cup {None}]
      /\ \A j \in Proposed : signed[j] \in Plan
      /\ \A j \in Ids \ Proposed : signed[j] = None
  BY <1>1, <1>2, <1>3 DEF Typed, TypeOK, Proposed
<1> HIDE DEF signed
<1>5. CASE prev = None
  BY <1>4, <1>5 DEF Supersede, signed
<1>6. CASE prev # None
  <2>1. Supersede(signed, prev) = [signed EXCEPT ![prev] = [signed[prev] EXCEPT !.state = "superseded"]]
    BY <1>6, <1>4 DEF Supersede
  <2>2. [signed[prev] EXCEPT !.state = "superseded"] \in Plan
    BY <1>4, <1>6 DEF Plan
  <2>3. QED
    BY <1>1, <1>4, <1>6, <2>1, <2>2 DEF signed
<1>7. QED
  BY <1>5, <1>6

LEMMA CommitSignTyped ==
  ASSUME Typed, NEW p \in Procs, CommitSign(p)
  PROVE  Typed'
<1> DEFINE c == call[p]
           signing == Record("sign", c.id, c.plan.source, c.plan.hash, c.by, None)
           superseding == Record("supersede", c.prev, c.plan.source, c.old, c.by, c.old)
           begun == IF c.prev = None THEN ledger ELSE Append(ledger, superseding)
<1>1. /\ c.plan \in Plan /\ c.by \in People /\ c.id \in Proposed /\ c.hash \in Content
      /\ c.prev # None => c.prev \in Proposed /\ c.old \in Content
  BY DEF CommitSign, Typed, LabelsFit, Fit, Transacting
<1>2. signing \in Entry /\ (c.prev # None => superseding \in Entry)
  BY <1>1, LineType DEF Plan, Proposed
<1>3. /\ plans' = Supersede(SignedBy(c.id, c.by), c.prev)
      /\ ledger' = begun \o <<signing>>
      /\ signatures' = signatures \cup {<<c.id, c.hash>>}
      /\ Return(p) /\ overtaken' \subseteq Procs
      /\ UNCHANGED <<live, alters, tampers, reads>>
  BY DEF CommitSign, Overtakes
<1> HIDE DEF c, signing, superseding
<1>4. begun \in Seq(Entry)
  BY <1>2, AppendedType DEF Typed, TypeOK
<1>5. ledger' \in Seq(Entry)
  BY <1>2, <1>3, <1>4
<1>6. plans' \in [Ids -> Plan \cup {None}] /\ Proposed \subseteq Proposed'
  BY <1>1, <1>3, SignedType, NoneIsNothing DEF Proposed
<1>7. signatures' \subseteq Ids \X Content
  BY <1>1, <1>3 DEF Typed, TypeOK, Proposed
<1>8. QED
  BY <1>3, <1>5, <1>6, <1>7, ReturnTyped DEF Typed, TypeOK

LEMMA OpenTyped ==
  ASSUME Typed, NEW p \in Procs, NEW act \in {"gen", "survey"}, NEW s \in Sources,
         Open(p, act, s)
  PROVE  Typed'
<1>1. PICK i \in InForce(s) :
         Goto(p, "compare", [NoCall EXCEPT !.act = act, !.id = i, !.plan = plans[i]])
  BY DEF Open
<1> DEFINE c == [NoCall EXCEPT !.act = act, !.id = i, !.plan = plans[i]]
<1>2. i \in Ids /\ plans[i] \in Plan
  BY DEF InForce, Proposed, Typed, TypeOK
<1>3. c \in Call /\ c # NoCall /\ "compare" \in Labels
  BY <1>2 DEF Call, NoCall, Labels
<1>4. Fit("compare", c, Proposed)
  BY <1>2 DEF Fit, NoCall, Transacting
<1>5. Goto(p, "compare", c)
      /\ UNCHANGED <<plans, ledger, live, overtaken, alters, tampers, history>>
  BY <1>1 DEF Open
<1> HIDE DEF c
<1>6. QED
  BY <1>3, <1>4, <1>5, GotoTyped DEF Typed, TypeOK, history, Proposed

(* Of a reading call: its plan is one, and so is its database.              *)
LEMMA ReaderTyped ==
  ASSUME Typed, NEW p \in Procs, pc[p] \in {"compare", "read", "draft"}
  PROVE  /\ call[p] \in Call /\ call[p].act # "none" /\ call[p] # NoCall
         /\ call[p].plan \in Plan /\ PlanHash(call[p].plan) \in Content
         /\ live[call[p].plan.source] \in [Columns -> Types \cup {None}]
<1>1. call[p] \in Call /\ call[p].act # "none" /\ call[p].plan \in Plan /\ call[p] # NoCall
  BY DEF Typed, TypeOK, LabelsFit, Fit
<1>2. QED
  BY <1>1, PlanHashType DEF Typed, TypeOK, Plan

LEMMA SeenTyped ==
  ASSUME NEW c \in Call, c.act # "none", c.plan \in Plan,
         NEW cat \in [Columns -> Types \cup {None}], NEW label \in {"read", "draft"}
  PROVE  /\ [c EXCEPT !.seen = cat] \in Call
         /\ [c EXCEPT !.seen = cat] # NoCall
         /\ Fit(label, [c EXCEPT !.seen = cat], Proposed)
<1>1. [c EXCEPT !.seen = cat] \in Call /\ [c EXCEPT !.seen = cat].act # "none"
  BY DEF Call
<1>2. [c EXCEPT !.seen = cat] # NoCall
  BY <1>1 DEF NoCall
<1>3. Fit(label, [c EXCEPT !.seen = cat], Proposed)
  BY DEF Fit, Call, Transacting
<1>4. QED
  BY <1>1, <1>2, <1>3

LEMMA CompareTyped ==
  ASSUME Typed, NEW p \in Procs, Compare(p)
  PROVE  Typed'
<1> DEFINE cat == live[call[p].plan.source]
<1>1. /\ call[p] \in Call /\ call[p].act # "none" /\ call[p].plan \in Plan
      /\ cat \in [Columns -> Types \cup {None}]
  BY ReaderTyped DEF Compare
<1>2. /\ Goto(p, "read", [call[p] EXCEPT !.seen = cat]) \/ Return(p)
      /\ UNCHANGED <<plans, ledger, live, overtaken, alters, tampers, history>>
  BY DEF Compare
<1>3. Proposed \subseteq Proposed' /\ "read" \in Labels
  BY <1>2 DEF Proposed, Labels
<1> HIDE DEF cat
<1>4. CASE Return(p)
  BY <1>2, <1>3, <1>4, ReturnTyped DEF Typed, TypeOK, history
<1>5. CASE Goto(p, "read", [call[p] EXCEPT !.seen = cat])
  <2> DEFINE c == [call[p] EXCEPT !.seen = cat]
  <2>1. c \in Call /\ c # NoCall /\ Fit("read", c, Proposed)
    BY <1>1, SeenTyped
  <2> HIDE DEF c
  <2>2. Goto(p, "read", c)
    BY <1>5 DEF c
  <2>3. QED
    BY <1>2, <1>3, <2>1, <2>2, GotoTyped DEF Typed, TypeOK, history
<1>6. QED
  BY <1>2, <1>4, <1>5

LEMMA IntrospectTyped ==
  ASSUME Typed, NEW p \in Procs, Introspect(p)
  PROVE  Typed'
<1> DEFINE plan == call[p].plan
           cat == live[plan.source]
           listed(c) == c \in Present(call[p].seen)
           new == {[under |-> PlanHash(plan), column |-> c, listed |-> listed(c)]
                    : c \in Present(cat)}
<1>1. /\ call[p] \in Call /\ call[p].act # "none" /\ call[p].plan \in Plan
      /\ cat \in [Columns -> Types \cup {None}]
      /\ PlanHash(plan) \in Content
  BY ReaderTyped DEF Introspect
<1>2. /\ Goto(p, "draft", [call[p] EXCEPT !.seen = cat]) \/ Return(p)
      /\ reads' = reads \cup new
      /\ UNCHANGED <<plans, ledger, live, overtaken, alters, tampers, signatures>>
  BY DEF Introspect
<1>3. Proposed \subseteq Proposed' /\ "draft" \in Labels
  BY <1>2 DEF Proposed, Labels
<1>4. new \subseteq [under : Content, column : Columns, listed : BOOLEAN]
  <2>1. \A c \in Columns : listed(c) \in BOOLEAN
    OBVIOUS
  <2>2. Present(cat) \subseteq Columns
    BY DEF Present
  <2> HIDE DEF listed, plan, cat
  <2>3. QED
    BY <1>1, <2>1, <2>2
<1> HIDE DEF cat, new
<1>5. CASE Return(p)
  BY <1>2, <1>3, <1>4, <1>5, ReturnTyped DEF Typed, TypeOK
<1>6. CASE Goto(p, "draft", [call[p] EXCEPT !.seen = cat])
  <2> DEFINE c == [call[p] EXCEPT !.seen = cat]
  <2>1. c \in Call /\ c # NoCall /\ Fit("draft", c, Proposed)
    BY <1>1, SeenTyped
  <2> HIDE DEF c
  <2>2. Goto(p, "draft", c)
    BY <1>6 DEF c
  <2>3. QED
    BY <1>2, <1>3, <1>4, <2>1, <2>2, GotoTyped DEF Typed, TypeOK
<1>7. QED
  BY <1>2, <1>5, <1>6

(* Whatever is drafted, masking by the plan only adds masks.                *)
LEMMA MaskPlannedType ==
  ASSUME NEW plan \in Plan, NEW model \in SUBSET Mention
  PROVE  /\ MaskPlanned(plan, model) \in SUBSET Mention
         /\ \A m \in MaskPlanned(plan, model) :
              /\ \E n \in model : m.column = n.column /\ m.part = n.part
              /\ MasksDimension(plan, m) => m.masked
<1> DEFINE mask(m) == [m EXCEPT !.masked = m.masked \/ MasksDimension(plan, m)]
<1>1. ASSUME NEW m \in model
      PROVE  /\ mask(m) \in Mention
             /\ mask(m).column = m.column /\ mask(m).part = m.part
             /\ MasksDimension(plan, mask(m)) => mask(m).masked
  <2>1. m \in Mention
    BY <1>1
  <2>2. (m.masked \/ MasksDimension(plan, m)) \in BOOLEAN
    OBVIOUS
  <2>3. /\ mask(m) \in Mention
        /\ mask(m).column = m.column /\ mask(m).part = m.part
        /\ mask(m).masked = (m.masked \/ MasksDimension(plan, m))
    BY <2>1, <2>2 DEF Mention
  <2>4. MasksDimension(plan, mask(m)) => MasksDimension(plan, m)
    BY <2>3 DEF MasksDimension
  <2>5. QED
    BY <2>3, <2>4
<1>2. MaskPlanned(plan, model) = {mask(m) : m \in model}
  BY DEF MaskPlanned
<1> HIDE DEF mask
<1>3. QED
  BY <1>1, <1>2

(* What a draft may name: a column that its plan does not redact, or a key. *)
LEMMA Drafted ==
  ASSUME Typed, NEW p \in Procs, Draft(p)
  PROVE  \E model \in SUBSET Mention :
           /\ Goto(p, "write", [call[p] EXCEPT !.model = MaskPlanned(call[p].plan, model)])
           /\ \A m \in model : m.column \in Kept(call[p].plan, call[p].seen) \cup Keys
<1> DEFINE plan == call[p].plan
           cat  == call[p].seen
<1>1. Named(plan, cat) \subseteq Columns /\ Named(plan, cat) \subseteq Kept(plan, cat) \cup Keys
  BY DEF Named, Kept, Present
<1>2. ASSUME NEW codes \in SUBSET Columns
      PROVE  /\ HeuristicModel(plan, cat, codes) \in SUBSET Mention
             /\ \A m \in HeuristicModel(plan, cat, codes) : m.column \in Named(plan, cat)
  <2> DEFINE mention(c) == [column |-> c, part |-> Part(c, cat, codes),
                            masked |-> Part(c, cat, codes) = "dimension" /\ c \in Personal]
  <2>1. \A c \in Columns : Part(c, cat, codes) \in {"key", "dimension", "metric"}
    BY DEF Part
  <2>2. \A c \in Columns : (Part(c, cat, codes) = "dimension" /\ c \in Personal) \in BOOLEAN
    OBVIOUS
  <2>3. \A c \in Columns : mention(c) \in Mention /\ mention(c).column = c
    BY <2>1, <2>2 DEF Mention
  <2>4. HeuristicModel(plan, cat, codes) = {mention(c) : c \in Named(plan, cat)}
    BY DEF HeuristicModel
  <2> HIDE DEF plan, cat, mention
  <2>5. QED
    BY <1>1, <2>3, <2>4
<1>3. ASSUME NEW model \in RefinedModels(plan, cat)
      PROVE  /\ model \in SUBSET Mention
             /\ \A m \in model : m.column \in Named(plan, cat)
  <2> HIDE DEF plan, cat
  <2>1. PICK m \in [column : Named(plan, cat), part : {"key", "dimension", "metric"},
                    masked : BOOLEAN] : model = {m}
    BY <1>3 DEF RefinedModels
  <2>2. QED
    BY <1>1, <2>1 DEF Mention
<1>4. PICK model \in {HeuristicModel(plan, cat, codes) : codes \in SUBSET Columns}
                       \cup RefinedModels(plan, cat) :
        Goto(p, "write", [call[p] EXCEPT !.model = MaskPlanned(plan, model)])
  BY DEF Draft
<1>5. model \in SUBSET Mention /\ \A m \in model : m.column \in Named(plan, cat)
  <2> HIDE DEF plan, cat
  <2>1. QED
    BY <1>2, <1>3, <1>4
<1>6. QED
  BY <1>1, <1>4, <1>5

LEMMA DraftTyped ==
  ASSUME Typed, NEW p \in Procs, Draft(p)
  PROVE  Typed'
<1>1. PICK model \in SUBSET Mention :
        Goto(p, "write", [call[p] EXCEPT !.model = MaskPlanned(call[p].plan, model)])
  BY Drafted
<1> DEFINE c == [call[p] EXCEPT !.model = MaskPlanned(call[p].plan, model)]
<1>2. /\ call[p] \in Call /\ call[p].act # "none" /\ call[p].plan \in Plan
  BY ReaderTyped DEF Draft
<1>3. MaskPlanned(call[p].plan, model) \in SUBSET Mention
  BY <1>2, MaskPlannedType
<1>4. c \in Call /\ c.act # "none" /\ c.plan \in Plan
  BY <1>2, <1>3 DEF Call
<1>5. c # NoCall /\ "write" \in Labels
  BY <1>4 DEF NoCall, Labels
<1>6. Goto(p, "write", c)
  BY <1>1
<1> HIDE DEF c
<1>7. Fit("write", c, Proposed)
  BY <1>4 DEF Fit, Transacting
<1>8. UNCHANGED <<plans, ledger, live, overtaken, alters, tampers, history>>
  BY DEF Draft
<1>9. Proposed \subseteq Proposed'
  BY <1>8 DEF Proposed
<1>10. QED
  BY <1>4, <1>5, <1>6, <1>7, <1>8, <1>9, GotoTyped DEF Typed, TypeOK, history

LEMMA WriteTyped ==
  ASSUME Typed, NEW p \in Procs, Write(p)
  PROVE  Typed'
<1>1. Return(p) /\ UNCHANGED <<plans, ledger, live, overtaken, alters, tampers, history>>
  BY DEF Write
<1>2. Proposed \subseteq Proposed'
  BY <1>1 DEF Proposed
<1>3. QED
  BY <1>1, <1>2, ReturnTyped DEF Typed, TypeOK, history

LEMMA FailTyped ==
  ASSUME Typed, NEW p \in Procs, Fail(p)
  PROVE  Typed'
<1>1. Return(p) /\ UNCHANGED <<plans, ledger, live, overtaken, alters, tampers, history>>
  BY DEF Fail
<1>2. Proposed \subseteq Proposed'
  BY <1>1 DEF Proposed
<1>3. QED
  BY <1>1, <1>2, ReturnTyped DEF Typed, TypeOK, history

LEMMA AlterTyped ==
  ASSUME Typed, NEW s \in Sources, NEW c \in Columns, NEW t \in Types \cup {None},
         Alter(s, c, t)
  PROVE  Typed'
<1>1. live' \in [Sources -> [Columns -> Types \cup {None}]]
  BY DEF Alter, Typed, TypeOK
<1>2. QED
  BY <1>1 DEF Alter, Typed, TypeOK, LabelsFit, Fit, Proposed, history

(* What a tampering leaves alone.                                           *)
LEMMA TamperedPlan ==
  ASSUME Typed, NEW i \in Ids, NEW c \in Columns, NEW action \in Actions,
         Tamper(i, c, action)
  PROVE  /\ plans' \in [Ids -> Plan \cup {None}]
         /\ Proposed' = Proposed
         /\ \A j \in Proposed : /\ plans'[j].source = plans[j].source
                                /\ plans'[j].hash = plans[j].hash
                                /\ plans'[j].state = plans[j].state
                                /\ plans'[j].signer = plans[j].signer
<1>1. i \in Proposed /\ plans[i] \in Plan /\ plans[i].cols[c] \in Treatment
  BY NoneIsNothing DEF Tamper, Covered, Proposed, Typed, TypeOK, Plan
<1> DEFINE cols == [plans[i].cols EXCEPT ![c] = [plans[i].cols[c] EXCEPT !.action = action]]
           new == [plans[i] EXCEPT !.cols = cols]
<1>2. cols \in [Columns -> Treatment \cup {None}]
  BY <1>1 DEF Treatment, Plan
<1>3. plans' = [plans EXCEPT ![i] = new]
  BY DEF Tamper
<1> HIDE DEF cols
<1>4. /\ new \in Plan
      /\ new.source = plans[i].source /\ new.hash = plans[i].hash
      /\ new.state = plans[i].state /\ new.signer = plans[i].signer
  BY <1>1, <1>2 DEF Plan
<1> HIDE DEF new
<1>5. QED
  BY <1>1, <1>3, <1>4, NoneIsNothing DEF Proposed, Typed, TypeOK

LEMMA TamperTyped ==
  ASSUME Typed, NEW i \in Ids, NEW c \in Columns, NEW action \in Actions,
         Tamper(i, c, action)
  PROVE  Typed'
<1>1. plans' \in [Ids -> Plan \cup {None}] /\ Proposed' = Proposed
  BY TamperedPlan
<1>2. overtaken' \subseteq Procs /\ tampers' \in Nat
      /\ UNCHANGED <<ledger, live, pc, call, alters, history>>
  BY DEF Tamper, Typed, TypeOK
<1>3. QED
  BY <1>1, <1>2 DEF Typed, TypeOK, LabelsFit, history

LEMMA NextTyped == Typed /\ [Next]_vars => Typed'
<1> SUFFICES ASSUME Typed, [Next]_vars PROVE Typed'
  OBVIOUS
<1>1. ASSUME NEW p \in Procs, Act(p) PROVE Typed'
  BY <1>1, ProposeTyped, InsertTyped, AmendTyped, CommitAmendTyped, SignTyped,
     FindPreviousTyped, CommitSignTyped, OpenTyped, CompareTyped, IntrospectTyped,
     DraftTyped, WriteTyped, FailTyped DEF Act
<1>2. CASE UNCHANGED vars
  BY <1>2 DEF vars, history, Typed, TypeOK, LabelsFit, Proposed
<1>3. QED
  BY <1>1, <1>2, AlterTyped, TamperTyped DEF Next

(* Intake is well typed: acts write rows, ledger lines and history of the   *)
(* shapes of store.go, on every interleaving.                               *)
THEOREM TypeCorrect == Spec => []TypeOK
<1>1. Spec => []Typed
  BY InitTyped, NextTyped, PTL DEF Spec
<1>2. Typed => TypeOK
  BY DEF Typed
<1>3. QED
  BY <1>1, <1>2, PTL

-----------------------------------------------------------------------------
(* What the steps do to plans and ledger, on a brain that refuses           *)
(* overtaken writes.                                                        *)

(* The row of plan i stays, its treatments aside.                           *)
Stays(i) == /\ plans'[i].source = plans[i].source
            /\ plans'[i].hash = plans[i].hash
            /\ plans'[i].state = plans[i].state
            /\ plans'[i].signer = plans[i].signer

Writes(p) == (\E i \in Ids : Insert(p, i)) \/ CommitAmend(p) \/ CommitSign(p)

(* Only three steps write a plan's row, its treatments aside, or a line.    *)
LEMMA OthersWriteNothing ==
  ASSUME Typed, [Next]_vars
  PROVE  \/ \E p \in Procs : Writes(p)
         \/ /\ UNCHANGED <<ledger, signatures>>
            /\ Proposed' = Proposed
            /\ \A i \in Proposed : Stays(i)
            /\ plans' = plans \/ tampers' # tampers
<1> DEFINE Nothing == /\ UNCHANGED <<ledger, signatures>>
                      /\ Proposed' = Proposed
                      /\ \A i \in Proposed : Stays(i)
                      /\ plans' = plans \/ tampers' # tampers
<1>1. UNCHANGED <<plans, ledger, signatures>> => Nothing
  BY DEF Proposed, Stays
<1>2. ASSUME NEW i \in Ids, NEW c \in Columns, NEW action \in Actions, Tamper(i, c, action)
      PROVE  Nothing
  <2>1. UNCHANGED <<ledger, signatures>>
    BY <1>2 DEF Tamper, history
  <2>2. tampers' # tampers
    BY <1>2 DEF Tamper, Typed, TypeOK
  <2>3. QED
    BY <1>2, <2>1, <2>2, TamperedPlan DEF Stays
<1>3. ASSUME NEW p \in Procs, Act(p), ~Writes(p)
      PROVE  UNCHANGED <<plans, ledger, signatures>>
  BY <1>3 DEF Act, Writes, Propose, Amend, Sign, FindPrevious, Open, Compare, Introspect,
              Draft, Write, Fail, history
<1>4. ASSUME NEW s \in Sources, NEW c \in Columns, NEW t \in Types \cup {None}, Alter(s, c, t)
      PROVE  UNCHANGED <<plans, ledger, signatures>>
  BY <1>4 DEF Alter, history
<1>5. UNCHANGED vars => UNCHANGED <<plans, ledger, signatures>>
  BY DEF vars
<1> HIDE DEF Nothing
<1>6. (\E p \in Procs : Writes(p)) \/ Nothing
  BY <1>1, <1>2, <1>3, <1>4, <1>5 DEF Next
<1>7. QED
  BY <1>6 DEF Nothing

LEMMA InsertWrites ==
  ASSUME Typed, NEW p \in Procs, NEW i \in Ids, Insert(p, i)
  PROVE  \E line \in Entry :
           /\ ledger' = Append(ledger, line)
           /\ line.act = "propose" /\ line.plan = i /\ line.to = plans'[i].hash
           /\ i \notin Proposed /\ Proposed' = Proposed \cup {i}
           /\ plans'[i].state = "draft"
           /\ \A j \in Ids \ {i} : plans'[j] = plans[j]
           /\ UNCHANGED signatures
<1> DEFINE c == call[p]
           line == Record("propose", i, c.plan.source, c.plan.hash, c.by, None)
<1>1. c.plan \in Plan /\ c.by \in People /\ c.plan.state = "draft"
  BY DEF Insert, Typed, LabelsFit, Fit
<1>2. line \in Entry
  BY <1>1, LineType DEF Plan
<1>3. /\ plans' = [plans EXCEPT ![i] = c.plan] /\ i \notin Proposed
      /\ ledger' = Append(ledger, line)
      /\ UNCHANGED signatures
  BY DEF Insert, history
<1>4. line.act = "propose" /\ line.plan = i /\ line.to = c.plan.hash
  BY DEF Record
<1> HIDE DEF c, line
<1>5. plans'[i] = c.plan /\ \A j \in Ids \ {i} : plans'[j] = plans[j]
  BY <1>3 DEF Typed, TypeOK
<1>6. Proposed' = Proposed \cup {i}
  BY <1>1, <1>5, NoneIsNothing DEF Proposed
<1>7. QED
  BY <1>1, <1>2, <1>3, <1>4, <1>5, <1>6

LEMMA CommitAmendWrites ==
  ASSUME Typed, ReadsCurrent, Serial, NEW p \in Procs, CommitAmend(p)
  PROVE  \E i \in Proposed, line \in Entry :
           /\ ledger' = Append(ledger, line)
           /\ line.act = "amend" /\ line.plan = i
           /\ line.from = plans[i].hash /\ line.to = plans'[i].hash
           /\ plans[i].state = "draft" /\ plans'[i].state = "draft"
           /\ Proposed' = Proposed
           /\ \A j \in Ids \ {i} : plans'[j] = plans[j]
           /\ UNCHANGED signatures
<1> DEFINE c == call[p]
           i == c.id
           line == Record("amend", i, c.plan.source, c.plan.hash, c.by, c.hash)
<1>1. /\ c.plan \in Plan /\ c.by \in People /\ i \in Proposed /\ c.hash \in Content
  BY DEF CommitAmend, Typed, LabelsFit, Fit, Transacting
<1>2. line \in Entry
  BY <1>1, LineType DEF Plan, Proposed
<1>3. /\ plans' = [plans EXCEPT ![i].cols = c.plan.cols, ![i].hash = c.plan.hash]
      /\ ledger' = Append(ledger, line)
      /\ UNCHANGED signatures
  BY DEF CommitAmend, history
<1>4. plans[i].state = "draft" /\ plans[i].hash = c.hash
  BY DEF CommitAmend, Commits, ReadsCurrent, Current
<1>5. line.act = "amend" /\ line.plan = i /\ line.from = c.hash /\ line.to = c.plan.hash
  BY DEF Record
<1>6. i \in Ids /\ plans[i] \in Plan
  BY <1>1 DEF Proposed, Typed, TypeOK
<1> HIDE DEF c, i, line
<1>7. /\ plans'[i] = [plans[i] EXCEPT !.cols = c.plan.cols, !.hash = c.plan.hash]
      /\ \A j \in Ids \ {i} : plans'[j] = plans[j]
  BY <1>3, <1>6 DEF Typed, TypeOK
<1>8. /\ plans'[i] \in Plan
      /\ plans'[i].state = "draft" /\ plans'[i].hash = c.plan.hash
  BY <1>1, <1>4, <1>6, <1>7 DEF Plan
<1>9. Proposed' = Proposed
  BY <1>1, <1>7, <1>8, NoneIsNothing DEF Proposed
<1>10. QED
  BY <1>1, <1>2, <1>3, <1>4, <1>5, <1>7, <1>8, <1>9

(* The lines that a signature appends: of the plan it supersedes, if any,   *)
(* and its own.                                                             *)
Appends(superseding, signing, prev) ==
  ledger' = (IF prev = None THEN ledger ELSE Append(ledger, superseding)) \o <<signing>>

(* Signing plan i, in place of plan prev if there is one.                   *)
Signs(i, prev, superseding, signing) ==
  /\ Appends(superseding, signing, prev)
  /\ signing.act = "sign" /\ signing.plan = i /\ signing.source = plans[i].source
  /\ signing.by = plans'[i].signer /\ signing.to = plans[i].hash
  /\ prev # None =>
       /\ superseding \in Entry
       /\ superseding.act = "supersede" /\ superseding.plan = prev
       /\ superseding.to = plans[prev].hash
       /\ prev # i /\ plans[prev].state = "signed"
       /\ plans[prev].source = plans[i].source
       /\ plans'[prev] = [plans[prev] EXCEPT !.state = "superseded"]
  /\ plans[i].state = "draft"
  /\ plans'[i].source = plans[i].source /\ plans'[i].hash = plans[i].hash
  /\ plans'[i].cols = plans[i].cols /\ plans'[i].state = "signed"
  /\ InForce(plans[i].source) \subseteq {prev}
  /\ Proposed' = Proposed
  /\ \A j \in Ids \ {i, prev} : plans'[j] = plans[j]
  /\ signatures' = signatures \cup {<<i, plans[i].hash>>}

LEMMA CommitSignWrites ==
  ASSUME Typed, ReadsCurrent, Serial, NEW p \in Procs, CommitSign(p)
  PROVE  \E i \in Proposed, prev \in Proposed \cup {None}, signing \in Entry,
            superseding \in Entry \cup {None} :
           Signs(i, prev, superseding, signing)
<1> DEFINE c == call[p]
           i == c.id
           prev == c.prev
           signing == Record("sign", i, c.plan.source, c.plan.hash, c.by, None)
           line == Record("supersede", prev, c.plan.source, c.old, c.by, c.old)
           superseding == IF prev = None THEN None ELSE line
<1>1. /\ c.plan \in Plan /\ c.by \in People /\ i \in Proposed /\ c.hash \in Content
      /\ prev # None => prev \in Proposed /\ c.old \in Content
  BY DEF CommitSign, Typed, LabelsFit, Fit, Transacting
<1>2. /\ signing \in Entry /\ superseding \in Entry \cup {None}
      /\ prev # None => superseding \in Entry
  BY <1>1, LineType DEF Plan, Proposed
<1>3. /\ plans' = Supersede(SignedBy(i, c.by), prev)
      /\ Appends(superseding, signing, prev)
      /\ signatures' = signatures \cup {<<i, c.hash>>}
      /\ InForce(c.plan.source) \subseteq {i, prev}
  BY DEF CommitSign, Appends
<1>4. /\ plans[i] = c.plan /\ c.plan.state = "draft" /\ c.plan.hash = c.hash
      /\ prev # None => /\ plans[prev].state = "signed"
                        /\ plans[prev].source = c.plan.source
                        /\ plans[prev].hash = c.old
  BY DEF CommitSign, Commits, ReadsCurrent, Current
<1>5. /\ signing.act = "sign" /\ signing.plan = i /\ signing.source = c.plan.source
      /\ signing.by = c.by /\ signing.to = c.plan.hash
      /\ prev # None => superseding.act = "supersede" /\ superseding.plan = prev /\ superseding.to = c.old
  BY DEF Record
<1>6. i \in Ids /\ plans[i] \in Plan /\ (prev # None => prev \in Ids /\ plans[prev] \in Plan)
  BY <1>1 DEF Proposed, Typed, TypeOK
<1> HIDE DEF c, i, prev, signing, line, superseding
<1>7. prev # i
  BY <1>4, <1>6, NoneIsNothing
<1> DEFINE new == [plans[i] EXCEPT !.state = "signed", !.signer = c.by]
           old == [plans[prev] EXCEPT !.state = "superseded"]
<1>8. SignedBy(i, c.by) = [plans EXCEPT ![i] = new]
  BY <1>6 DEF SignedBy, Typed, TypeOK
<1>9. plans'[i] = new
  BY <1>3, <1>6, <1>7, <1>8 DEF Supersede, Typed, TypeOK
<1>10. prev # None => plans'[prev] = old
  BY <1>3, <1>6, <1>7, <1>8 DEF Supersede, Typed, TypeOK
<1>11. \A j \in Ids \ {i, prev} : plans'[j] = plans[j]
  BY <1>3, <1>8 DEF Supersede, Typed, TypeOK
<1>12. new \in Plan /\ new.state = "signed" /\ new.signer = c.by
       /\ new.source = plans[i].source /\ new.hash = plans[i].hash /\ new.cols = plans[i].cols
  BY <1>1, <1>6 DEF Plan
<1>13. prev # None => old \in Plan
  BY <1>6 DEF Plan
<1> HIDE DEF new
<1>14. Proposed' = Proposed
  <2>1. \A j \in Ids : plans'[j] # None <=> plans[j] # None
    BY <1>6, <1>9, <1>10, <1>11, <1>12, <1>13, NoneIsNothing
  <2>2. QED
    BY <2>1 DEF Proposed
<1>15. InForce(plans[i].source) \subseteq {prev}
  BY <1>3, <1>4 DEF InForce
<1>16. prev \in Proposed \cup {None}
  BY <1>1
<1>17. Signs(i, prev, superseding, signing)
  BY <1>2, <1>3, <1>4, <1>5, <1>7, <1>9, <1>10, <1>11, <1>12, <1>14, <1>15 DEF Signs
<1>18. QED
  BY <1>1, <1>2, <1>16, <1>17

-----------------------------------------------------------------------------
(* What transactions read stays current until they are overtaken.           *)

LEMMA OthersStayCurrent ==
  ASSUME Typed, ReadsCurrent, NEW p \in Procs, NEW label, NEW c,
         Goto(p, label, c), UNCHANGED plans,
         p \notin overtaken' => Current(c, label),
         overtaken \ {p} \subseteq overtaken'
  PROVE  ReadsCurrent'
<1>1. ASSUME NEW q \in Procs \ overtaken' PROVE Current(call[q], pc[q])'
  <2>1. CASE q = p
    <3>1. pc'[q] = label /\ call'[q] = c
      BY <2>1 DEF Goto, Typed, TypeOK
    <3>2. QED
      BY <1>1, <2>1, <3>1 DEF Current
  <2>2. CASE q # p
    <3>1. pc'[q] = pc[q] /\ call'[q] = call[q]
      BY <2>2 DEF Goto, Typed, TypeOK
    <3>2. QED
      BY <1>1, <2>2, <3>1 DEF ReadsCurrent, Current
  <2>3. QED
    BY <2>1, <2>2
<1>2. QED
  BY <1>1 DEF ReadsCurrent

(* After a commit nobody who has read is current.                           *)
LEMMA CommitsOvertake ==
  ASSUME Typed, NEW p \in Procs, Return(p), Overtakes(p)
  PROVE  ReadsCurrent'
<1>1. ASSUME NEW q \in Procs \ overtaken' PROVE pc'[q] \notin Transacting
  BY <1>1 DEF Overtakes, Return, Goto, Typed, TypeOK, Transacting
<1>2. QED
  BY <1>1 DEF ReadsCurrent, Current, Transacting

LEMMA InitReadsCurrent == Init => ReadsCurrent
  BY DEF Init, ReadsCurrent, Current

LEMMA NextReadsCurrent == Typed /\ ReadsCurrent /\ [Next]_vars => ReadsCurrent'
<1> SUFFICES ASSUME Typed, ReadsCurrent, [Next]_vars PROVE ReadsCurrent'
  OBVIOUS
<1>1. ASSUME NEW p \in Procs, NEW label \in Labels \ Transacting, NEW c, Goto(p, label, c),
             UNCHANGED <<plans, overtaken>>
      PROVE  ReadsCurrent'
  <2>1. Current(c, label)
    BY <1>1 DEF Current, Transacting
  <2>2. QED
    BY <1>1, <2>1, OthersStayCurrent
<1>2. ASSUME NEW p \in Procs, NEW s \in Sources, NEW by \in People, Propose(p, s, by)
      PROVE  ReadsCurrent'
  BY <1>1, <1>2 DEF Propose, Labels, Transacting
<1>3. ASSUME NEW p \in Procs, NEW i \in Ids, Insert(p, i)
      PROVE  ReadsCurrent'
  BY <1>3, CommitsOvertake DEF Insert
<1>4. ASSUME NEW p \in Procs, NEW i \in Ids, NEW target \in Targets, NEW action \in Actions,
             NEW by \in People, Amend(p, i, target, action, by)
      PROVE  ReadsCurrent'
  <2> DEFINE c == [NoCall EXCEPT !.act = "amend", !.id = i, !.by = by,
                                 !.hash = plans[i].hash,
                                 !.plan = Amended(plans[i], target, action)]
  <2>1. /\ Goto(p, "amend", c) /\ UNCHANGED plans /\ overtaken' = overtaken \ {p}
        /\ plans[i].state = "draft"
    BY <1>4 DEF Amend
  <2>2. c.id = i /\ c.hash = plans[i].hash
    BY DEF NoCall
  <2> HIDE DEF c
  <2>3. Current(c, "amend")
    BY <2>1, <2>2 DEF Current
  <2>4. QED
    BY <2>1, <2>3, OthersStayCurrent
<1>5. ASSUME NEW p \in Procs, CommitAmend(p)
      PROVE  ReadsCurrent'
  BY <1>5, CommitsOvertake DEF CommitAmend
<1>6. ASSUME NEW p \in Procs, NEW i \in Ids, NEW hash, NEW by \in People, Sign(p, i, hash, by)
      PROVE  ReadsCurrent'
  <2> DEFINE c == [NoCall EXCEPT !.act = "sign", !.id = i, !.by = by,
                                 !.hash = hash, !.plan = plans[i]]
  <2>1. /\ Goto(p, "previous", c) /\ UNCHANGED plans /\ overtaken' = overtaken \ {p}
        /\ plans[i].state = "draft" /\ plans[i].hash = hash
    BY <1>6 DEF Sign
  <2>2. c.id = i /\ c.hash = hash /\ c.plan = plans[i]
    BY DEF NoCall
  <2> HIDE DEF c
  <2>3. Current(c, "previous")
    BY <2>1, <2>2 DEF Current
  <2>4. QED
    BY <2>1, <2>3, OthersStayCurrent
<1>7. ASSUME NEW p \in Procs, FindPrevious(p)
      PROVE  ReadsCurrent'
  <2>1. /\ call[p] \in Call /\ call[p].prev = None
        /\ UNCHANGED <<plans, overtaken>>
    BY <1>7 DEF FindPrevious, Typed, TypeOK, LabelsFit, Fit
  <2>2. p \notin overtaken => /\ plans[call[p].id] = call[p].plan
                              /\ call[p].plan.state = "draft"
                              /\ call[p].plan.hash = call[p].hash
    BY <1>7 DEF FindPrevious, ReadsCurrent, Current
  <2>3. CASE Goto(p, "sign", call[p])
    <3>1. p \notin overtaken => Current(call[p], "sign")
      BY <2>1, <2>2 DEF Current
    <3>2. QED
      BY <2>1, <2>3, <3>1, OthersStayCurrent
  <2>4. ASSUME NEW i \in InForce(call[p].plan.source),
               Goto(p, "sign", [call[p] EXCEPT !.prev = i, !.old = plans[i].hash])
        PROVE  ReadsCurrent'
    <3> DEFINE c == [call[p] EXCEPT !.prev = i, !.old = plans[i].hash]
    <3>1. /\ plans[i].state = "signed" /\ plans[i].source = call[p].plan.source
      BY DEF InForce
    <3>2. /\ c.id = call[p].id /\ c.plan = call[p].plan /\ c.hash = call[p].hash
          /\ c.prev = i /\ c.old = plans[i].hash
      BY <2>1 DEF Call
    <3> HIDE DEF c
    <3>3. p \notin overtaken => Current(c, "sign")
      BY <2>2, <3>1, <3>2 DEF Current
    <3>4. Goto(p, "sign", c)
      BY <2>4 DEF c
    <3>5. QED
      BY <2>1, <3>3, <3>4, OthersStayCurrent
  <2>5. QED
    BY <1>7, <2>3, <2>4 DEF FindPrevious
<1>8. ASSUME NEW p \in Procs, CommitSign(p)
      PROVE  ReadsCurrent'
  BY <1>8, CommitsOvertake DEF CommitSign
<1>9. ASSUME NEW p \in Procs, NEW act \in {"gen", "survey"}, NEW s \in Sources, Open(p, act, s)
      PROVE  ReadsCurrent'
  BY <1>1, <1>9 DEF Open, Labels, Transacting
<1>10. ASSUME NEW p \in Procs, Compare(p) \/ Introspect(p) \/ Draft(p) \/ Write(p) \/ Fail(p)
       PROVE  ReadsCurrent'
  BY <1>1, <1>10 DEF Compare, Introspect, Draft, Write, Fail, Return, Labels, Transacting
<1>11. ASSUME NEW s \in Sources, NEW c \in Columns, NEW t \in Types \cup {None}, Alter(s, c, t)
       PROVE  ReadsCurrent'
  BY <1>11 DEF Alter, ReadsCurrent, Current
<1>12. ASSUME NEW i \in Ids, NEW c \in Columns, NEW action \in Actions, Tamper(i, c, action)
       PROVE  ReadsCurrent'
  BY <1>12 DEF Tamper, ReadsCurrent, Current
<1>13. CASE UNCHANGED vars
  BY <1>13 DEF vars, ReadsCurrent, Current
<1>14. QED
  BY <1>2, <1>3, <1>4, <1>5, <1>6, <1>7, <1>8, <1>9, <1>10, <1>11, <1>12, <1>13
     DEF Next, Act

-----------------------------------------------------------------------------
(* Signatures.                                                              *)

LEMMA NextSignedAsRead ==
  ASSUME Serial
  PROVE  Typed /\ ReadsCurrent /\ SignedAsRead /\ [Next]_vars => SignedAsRead'
<1> SUFFICES ASSUME Typed, ReadsCurrent, SignedAsRead, [Next]_vars PROVE SignedAsRead'
  OBVIOUS
<1> USE DEF SignedAsRead
<1>1. ASSUME NEW p \in Procs, NEW i \in Ids, Insert(p, i) PROVE SignedAsRead'
  BY <1>1, InsertWrites DEF Proposed
<1>2. ASSUME NEW p \in Procs, CommitAmend(p) PROVE SignedAsRead'
  BY <1>2, CommitAmendWrites DEF Proposed
<1>3. ASSUME NEW p \in Procs, CommitSign(p) PROVE SignedAsRead'
  <2>0. PICK i \in Proposed, prev \in Proposed \cup {None}, signing \in Entry,
             superseding \in Entry \cup {None} :
          Signs(i, prev, superseding, signing)
    BY <1>3, CommitSignWrites
  <2>1. /\ prev # None => /\ plans[prev].state = "signed"
                          /\ plans'[prev] = [plans[prev] EXCEPT !.state = "superseded"]
        /\ plans'[i].hash = plans[i].hash
        /\ Proposed' = Proposed
        /\ \A j \in Ids \ {i, prev} : plans'[j] = plans[j]
        /\ signatures' = signatures \cup {<<i, plans[i].hash>>}
    BY <2>0 DEF Signs
  <2>2. prev # None => plans[prev] \in Plan
    BY DEF Proposed, Typed, TypeOK
  <2>3. prev # None => plans'[prev].hash = plans[prev].hash
    BY <2>1, <2>2 DEF Plan
  <2>4. ASSUME NEW j \in Proposed, plans'[j].state # "draft"
        PROVE  <<j, plans'[j].hash>> \in signatures'
    <3>1. CASE j = i
      BY <2>1, <3>1
    <3>2. CASE j # i /\ j = prev
      <4>1. prev # None
        BY <3>2, NoneIsNothing DEF Proposed
      <4>2. <<prev, plans[prev].hash>> \in signatures
        BY <2>1, <3>2, <4>1
      <4>3. QED
        BY <2>1, <2>3, <3>2, <4>1, <4>2
    <3>3. CASE j # i /\ j # prev
      BY <2>1, <2>4, <3>3 DEF Proposed
    <3>4. QED
      BY <3>1, <3>2, <3>3
  <2>5. QED
    BY <2>1, <2>4
<1>4. QED
  BY <1>1, <1>2, <1>3, OthersWriteNothing DEF Writes, Stays

(* No plan is signed for but the one whose hash its signer named, and no    *)
(* amendment that was under way changes it afterwards: Sign and Amend of    *)
(* store.go, overlapping as they may.                                       *)
THEOREM SignaturesBind == ASSUME Serial PROVE Spec => []SignedAsRead
<1>1. Init => Typed /\ ReadsCurrent /\ SignedAsRead
  BY InitTyped, InitReadsCurrent DEF Init, SignedAsRead, Proposed
<1>2. Typed /\ ReadsCurrent /\ SignedAsRead /\ [Next]_vars
        => (Typed /\ ReadsCurrent /\ SignedAsRead)'
  BY NextTyped, NextReadsCurrent, NextSignedAsRead
<1>3. QED
  BY <1>1, <1>2, PTL DEF Spec

-----------------------------------------------------------------------------
(* The gate.                                                                *)

LEMMA SignaturesStay == Typed /\ [Next]_vars => signatures \subseteq signatures'
<1> SUFFICES ASSUME Typed, [Next]_vars PROVE signatures \subseteq signatures'
  OBVIOUS
<1>1. ASSUME NEW p \in Procs, Writes(p) PROVE signatures \subseteq signatures'
  BY <1>1 DEF Writes, Insert, CommitAmend, CommitSign, history
<1>2. QED
  BY <1>1, OthersWriteNothing

(* A call that goes on stays cleared, and so do the others.                 *)
LEMMA GotoCleared ==
  ASSUME Typed, PastTheGate, NEW p \in Procs, NEW label, NEW c, Goto(p, label, c),
         signatures \subseteq signatures', Cleared(c, label)
  PROVE  PastTheGate'
<1>1. ASSUME NEW q \in Procs PROVE Cleared(call[q], pc[q])'
  <2>1. \/ q = p /\ pc'[q] = label /\ call'[q] = c
        \/ pc'[q] = pc[q] /\ call'[q] = call[q]
    BY DEF Goto, Typed, TypeOK
  <2>2. QED
    BY <2>1 DEF PastTheGate, Cleared
<1>2. QED
  BY <1>1 DEF PastTheGate

LEMMA NextPastTheGate ==
  Typed /\ SignedAsRead /\ PastTheGate /\ [Next]_vars => PastTheGate'
<1> SUFFICES ASSUME Typed, SignedAsRead, PastTheGate, [Next]_vars PROVE PastTheGate'
  OBVIOUS
<1>1. signatures \subseteq signatures'
  BY SignaturesStay
<1>2. ASSUME NEW p \in Procs, NEW label, NEW c, Goto(p, label, c),
             label \notin {"compare", "read", "draft"}
      PROVE  PastTheGate'
  BY <1>1, <1>2, GotoCleared DEF Cleared
<1>3. ASSUME NEW p \in Procs, Return(p) PROVE PastTheGate'
  BY <1>2, <1>3 DEF Return
<1>4. ASSUME NEW p \in Procs,
             \/ \E s \in Sources, by \in People : Propose(p, s, by)
             \/ \E i \in Ids : Insert(p, i)
             \/ \E i \in Ids, target \in Targets, action \in Actions, by \in People :
                  Amend(p, i, target, action, by)
             \/ CommitAmend(p)
             \/ \E i \in Ids, hash \in Printed, by \in People : Sign(p, i, hash, by)
             \/ FindPrevious(p) \/ CommitSign(p) \/ Draft(p) \/ Write(p) \/ Fail(p)
      PROVE  PastTheGate'
  <2>1. ASSUME NEW s \in Sources, NEW by \in People, Propose(p, s, by) PROVE PastTheGate'
    BY <1>2, <2>1 DEF Propose
  <2>2. ASSUME NEW i \in Ids, NEW target \in Targets, NEW action \in Actions, NEW by \in People,
               Amend(p, i, target, action, by)
        PROVE  PastTheGate'
    BY <1>2, <2>2 DEF Amend
  <2>3. ASSUME NEW i \in Ids, NEW hash, NEW by \in People, Sign(p, i, hash, by)
        PROVE  PastTheGate'
    BY <1>2, <2>3 DEF Sign
  <2>4. ASSUME FindPrevious(p) PROVE PastTheGate'
    <3>1. \E c : Goto(p, "sign", c)
      BY <2>4 DEF FindPrevious
    <3>2. QED
      BY <1>2, <3>1
  <2>5. ASSUME NEW i \in Ids, Insert(p, i) PROVE PastTheGate'
    BY <1>3, <2>5 DEF Insert
  <2>6. CommitAmend(p) \/ CommitSign(p) \/ Write(p) \/ Fail(p) => PastTheGate'
    BY <1>3 DEF CommitAmend, CommitSign, Write, Fail
  <2>7. Draft(p) => PastTheGate'
    <3>1. Draft(p) => \E c : Goto(p, "write", c)
      BY Drafted DEF Typed
    <3>2. QED
      BY <1>2, <3>1
  <2>8. QED
    BY <1>4, <2>1, <2>2, <2>3, <2>4, <2>5, <2>6, <2>7
<1>5. ASSUME NEW p \in Procs, NEW act \in {"gen", "survey"}, NEW s \in Sources, Open(p, act, s)
      PROVE  PastTheGate'
  <2>1. PICK i \in InForce(s) :
          /\ Verified(plans[i])
          /\ Goto(p, "compare", [NoCall EXCEPT !.act = act, !.id = i, !.plan = plans[i]])
    BY <1>5 DEF Open
  <2> DEFINE c == [NoCall EXCEPT !.act = act, !.id = i, !.plan = plans[i]]
  <2>2. <<i, plans[i].hash>> \in signatures
    BY DEF InForce, SignedAsRead
  <2>3. c.plan = plans[i]
    BY DEF NoCall
  <2>4. Goto(p, "compare", c)
    BY <2>1
  <2> HIDE DEF c
  <2>5. \E sig \in signatures : sig[2] = PlanHash(c.plan)
    BY <2>1, <2>2, <2>3 DEF Verified
  <2>6. QED
    BY <1>1, <2>4, <2>5, GotoCleared DEF Cleared
<1>6. ASSUME NEW p \in Procs, Compare(p) PROVE PastTheGate'
  <2> DEFINE cat == live[call[p].plan.source]
             c == [call[p] EXCEPT !.seen = cat]
  <2>1. /\ call[p] \in Call
        /\ \E sig \in signatures : sig[2] = PlanHash(call[p].plan)
    BY <1>6 DEF Compare, Typed, TypeOK, PastTheGate, Cleared
  <2>2. c.plan = call[p].plan /\ c.seen = cat
    BY <2>1 DEF Call
  <2>3. \/ Return(p)
        \/ Present(cat) \subseteq Covered(call[p].plan) /\ Goto(p, "read", c)
    BY <1>6 DEF Compare, Unclassified
  <2> HIDE DEF c, cat
  <2>4. Present(cat) \subseteq Covered(call[p].plan) => Cleared(c, "read")
    BY <2>1, <2>2 DEF Cleared
  <2>5. QED
    BY <1>1, <1>3, <2>3, <2>4, GotoCleared
<1>7. ASSUME NEW p \in Procs, Introspect(p) PROVE PastTheGate'
  <2> DEFINE c == [call[p] EXCEPT !.seen = live[call[p].plan.source]]
  <2>1. /\ call[p] \in Call
        /\ \E sig \in signatures : sig[2] = PlanHash(call[p].plan)
    BY <1>7 DEF Introspect, Typed, TypeOK, PastTheGate, Cleared
  <2>2. c.plan = call[p].plan
    BY <2>1 DEF Call
  <2>3. Return(p) \/ Goto(p, "draft", c)
    BY <1>7 DEF Introspect
  <2> HIDE DEF c
  <2>4. Cleared(c, "draft")
    BY <2>1, <2>2 DEF Cleared
  <2>5. QED
    BY <1>1, <1>3, <2>3, <2>4, GotoCleared
<1>8. UNCHANGED <<pc, call>> => PastTheGate'
  BY <1>1 DEF PastTheGate, Cleared
<1>9. ASSUME NEW p \in Procs, Act(p) PROVE PastTheGate'
  BY <1>4, <1>5, <1>6, <1>7, <1>9 DEF Act
<1>10. QED
  BY <1>8, <1>9 DEF Next, Alter, Tamper, vars

LEMMA NextGateHolds ==
  Typed /\ PastTheGate /\ GateHolds /\ [Next]_vars => GateHolds'
<1> SUFFICES ASSUME Typed, PastTheGate, GateHolds, [Next]_vars PROVE GateHolds'
  OBVIOUS
<1>1. signatures \subseteq signatures'
  BY SignaturesStay
<1>2. reads' = reads => GateHolds'
  BY <1>1 DEF GateHolds
<1>3. ASSUME NEW p \in Procs, Introspect(p) PROVE GateHolds'
  <2> DEFINE plan == call[p].plan
             cat == live[plan.source]
             listed(c) == c \in Present(call[p].seen)
             new == {[under |-> PlanHash(plan), column |-> c, listed |-> listed(c)]
                      : c \in Present(cat)}
  <2>1. reads' = reads \cup new
    BY <1>3 DEF Introspect
  <2>2. PICK sig \in signatures : sig[2] = PlanHash(plan)
    BY <1>3 DEF Introspect, PastTheGate, Cleared
  <2>3. Present(call[p].seen) \subseteq Covered(plan)
    BY <1>3 DEF Introspect, PastTheGate, Cleared
  <2>4. PlanHash(plan).cols = plan.cols
    BY DEF PlanHash
  <2> HIDE DEF plan, cat
  <2>5. \A r \in new : r.under = PlanHash(plan) /\ r.listed = listed(r.column)
    OBVIOUS
  <2> HIDE DEF new
  <2>6. \A r \in new : r.listed => r.under.cols[r.column] # None
    BY <2>3, <2>4, <2>5 DEF Covered
  <2>7. QED
    BY <1>1, <2>1, <2>2, <2>5, <2>6 DEF GateHolds
<1>4. ASSUME NEW p \in Procs, Act(p), ~Introspect(p) PROVE reads' = reads
  BY <1>4 DEF Act, Propose, Insert, Amend, CommitAmend, Sign, FindPrevious, CommitSign, Open,
              Compare, Draft, Write, Fail, history
<1>5. QED
  BY <1>2, <1>3, <1>4 DEF Next, Alter, Tamper, vars, history

(* The gate of intake.Require holds for whatever reads behind it: values    *)
(* are read only under decisions somebody signed for by their hash, and a   *)
(* column that the gate saw is one of those decided about, whatever is      *)
(* amended, superseded, tampered with or altered meanwhile.                 *)
THEOREM GateIsKept == ASSUME Serial PROVE Spec => []GateHolds
<1> DEFINE Inv == Typed /\ ReadsCurrent /\ SignedAsRead /\ PastTheGate /\ GateHolds
<1>1. Init => Inv
  BY InitTyped, InitReadsCurrent
     DEF Init, SignedAsRead, Proposed, PastTheGate, Cleared, GateHolds
<1>2. Inv /\ [Next]_vars => Inv'
  BY NextTyped, NextReadsCurrent, NextSignedAsRead, NextPastTheGate, NextGateHolds
<1>3. Inv => GateHolds
  OBVIOUS
<1> HIDE DEF Inv
<1>4. QED
  BY <1>1, <1>2, <1>3, PTL DEF Spec

-----------------------------------------------------------------------------
(* What is drafted.                                                         *)

(* Every step but the drafting forgets what a call drafted, or keeps it and *)
(* the plan it goes by.                                                     *)
LEMMA DraftOrPlanStays ==
  ASSUME Typed, NEW p \in Procs, Act(p), ~Draft(p)
  PROVE  /\ \A q \in Procs \ {p} : call'[q] = call[q]
         /\ \/ call'[p].model = {}
            \/ call'[p].model = call[p].model /\ call'[p].plan = call[p].plan
<1> DEFINE Keeps(c) == c.model = {} \/ (c.model = call[p].model /\ c.plan = call[p].plan)
           DraftStays == /\ \A q \in Procs \ {p} : call'[q] = call[q]
                        /\ Keeps(call'[p])
<1>1. call \in [Procs -> Call] /\ call[p] \in Call
  BY DEF Typed, TypeOK
<1>2. NoCall.model = {}
  BY DEF NoCall
<1>3. ASSUME NEW label, NEW c, Goto(p, label, c), Keeps(c) PROVE DraftStays
  BY <1>1, <1>3 DEF Goto
<1>4. Return(p) => DraftStays
  BY <1>2, <1>3 DEF Return
<1>5. ASSUME NEW s \in Sources, NEW by \in People, Propose(p, s, by) PROVE DraftStays
  <2> DEFINE cols == TreatmentsFor(live[s])
             c == [NoCall EXCEPT !.act = "propose", !.by = by,
                     !.plan = [source |-> s, cols |-> cols,
                               hash |-> [source |-> s, cols |-> cols],
                               state |-> "draft", signer |-> None]]
  <2>1. c.model = {}
    BY DEF NoCall
  <2>2. Goto(p, "insert", c)
    BY <1>5 DEF Propose
  <2> HIDE DEF c
  <2>3. QED
    BY <1>3, <2>1, <2>2
<1>6. ASSUME NEW i \in Ids, NEW target \in Targets, NEW action \in Actions, NEW by \in People,
             Amend(p, i, target, action, by)
      PROVE  DraftStays
  <2> DEFINE c == [NoCall EXCEPT !.act = "amend", !.id = i, !.by = by,
                     !.hash = plans[i].hash, !.plan = Amended(plans[i], target, action)]
  <2>1. c.model = {}
    BY DEF NoCall
  <2>2. Goto(p, "amend", c)
    BY <1>6 DEF Amend
  <2> HIDE DEF c
  <2>3. QED
    BY <1>3, <2>1, <2>2
<1>7. ASSUME NEW i \in Ids, NEW hash \in Printed, NEW by \in People, Sign(p, i, hash, by)
      PROVE  DraftStays
  <2> DEFINE c == [NoCall EXCEPT !.act = "sign", !.id = i, !.by = by,
                     !.hash = hash, !.plan = plans[i]]
  <2>1. c.model = {}
    BY DEF NoCall
  <2>2. Goto(p, "previous", c)
    BY <1>7 DEF Sign
  <2> HIDE DEF c
  <2>3. QED
    BY <1>3, <2>1, <2>2
<1>8. ASSUME NEW act, NEW s, Open(p, act, s) PROVE DraftStays
  <2>1. PICK i \in InForce(s) :
          Goto(p, "compare", [NoCall EXCEPT !.act = act, !.id = i, !.plan = plans[i]])
    BY <1>8 DEF Open
  <2>2. [NoCall EXCEPT !.act = act, !.id = i, !.plan = plans[i]].model = {}
    BY DEF NoCall
  <2>3. QED
    BY <1>3, <2>1, <2>2
<1>9. ASSUME FindPrevious(p) PROVE DraftStays
  <2>1. ASSUME Goto(p, "sign", call[p]) PROVE DraftStays
    BY <1>3, <2>1
  <2>2. ASSUME NEW i, Goto(p, "sign", [call[p] EXCEPT !.prev = i, !.old = plans[i].hash])
        PROVE  DraftStays
    <3>1. /\ [call[p] EXCEPT !.prev = i, !.old = plans[i].hash].model = call[p].model
          /\ [call[p] EXCEPT !.prev = i, !.old = plans[i].hash].plan = call[p].plan
      BY <1>1 DEF Call
    <3>2. QED
      BY <1>3, <2>2, <3>1
  <2>3. QED
    BY <1>9, <2>1, <2>2 DEF FindPrevious
<1>10. ASSUME NEW label, NEW cat, Goto(p, label, [call[p] EXCEPT !.seen = cat]) PROVE DraftStays
  <2>1. /\ [call[p] EXCEPT !.seen = cat].model = call[p].model
        /\ [call[p] EXCEPT !.seen = cat].plan = call[p].plan
    BY <1>1 DEF Call
  <2>2. QED
    BY <1>3, <1>10, <2>1
<1>11. Compare(p) => DraftStays
  BY <1>4, <1>10 DEF Compare
<1>12. Introspect(p) => DraftStays
  BY <1>4, <1>10 DEF Introspect
<1>13. ASSUME NEW i \in Ids, Insert(p, i) PROVE DraftStays
  BY <1>4, <1>13 DEF Insert
<1>14. CommitAmend(p) \/ CommitSign(p) \/ Write(p) \/ Fail(p) => DraftStays
  BY <1>4 DEF CommitAmend, CommitSign, Write, Fail
<1> HIDE DEF DraftStays, Keeps
<1>15. DraftStays
  <2>1. CASE \E act \in {"gen", "survey"}, s \in Sources : Open(p, act, s)
    BY <1>8, <2>1
  <2>2. CASE FindPrevious(p) \/ Compare(p) \/ Introspect(p)
    BY <1>9, <1>11, <1>12, <2>2
  <2>3. CASE CommitAmend(p) \/ CommitSign(p) \/ Write(p) \/ Fail(p)
    BY <1>14, <2>3
  <2>4. CASE \E i \in Ids, hash \in Printed, by \in People : Sign(p, i, hash, by)
    BY <1>7, <2>4
  <2>5. CASE \E i \in Ids, target \in Targets, action \in Actions, by \in People :
               Amend(p, i, target, action, by)
    BY <1>6, <2>5
  <2>6. CASE (\E s \in Sources, by \in People : Propose(p, s, by)) \/ (\E i \in Ids : Insert(p, i))
    BY <1>5, <1>13, <2>6
  <2>7. QED
    BY <2>1, <2>2, <2>3, <2>4, <2>5, <2>6 DEF Act
<1>16. QED
  BY <1>15 DEF DraftStays, Keeps

LEMMA NextDraftKeepsPlan == Typed /\ DraftKeepsPlan /\ [Next]_vars => DraftKeepsPlan'
<1> SUFFICES ASSUME Typed, DraftKeepsPlan, [Next]_vars PROVE DraftKeepsPlan'
  OBVIOUS
<1>1. call' = call => DraftKeepsPlan'
  BY DEF DraftKeepsPlan
<1>2. ASSUME NEW p \in Procs, Draft(p) PROVE DraftKeepsPlan'
  <2> DEFINE plan == call[p].plan
  <2>1. PICK model \in SUBSET Mention :
          /\ Goto(p, "write", [call[p] EXCEPT !.model = MaskPlanned(plan, model)])
          /\ \A m \in model : m.column \in Kept(plan, call[p].seen) \cup Keys
    BY <1>2, Drafted
  <2>2. plan \in Plan /\ call \in [Procs -> Call]
    BY <1>2, ReaderTyped DEF Draft, Typed, TypeOK
  <2>3. /\ \A q \in Procs \ {p} : call'[q] = call[q]
        /\ call'[p].model = MaskPlanned(plan, model) /\ call'[p].plan = plan
    BY <2>1, <2>2 DEF Goto, Call
  <2>4. ASSUME NEW m \in MaskPlanned(plan, model), plan.cols[m.column] # None
        PROVE  /\ plan.cols[m.column].action = "redact" => m.column \in Keys
               /\ plan.cols[m.column].action = "mask" /\ m.part = "dimension" => m.masked
    <3>1. /\ \E n \in model : m.column = n.column
          /\ MasksDimension(plan, m) => m.masked
      BY <2>2, MaskPlannedType
    <3>2. m.column \in Kept(plan, call[p].seen) \cup Keys
      BY <2>1, <3>1
    <3>3. QED
      BY <2>4, <3>1, <3>2 DEF Kept, MasksDimension
  <2> HIDE DEF plan
  <2>5. QED
    BY <2>3, <2>4 DEF DraftKeepsPlan
<1>3. ASSUME NEW p \in Procs, Act(p), ~Draft(p) PROVE DraftKeepsPlan'
  BY <1>3, DraftOrPlanStays DEF DraftKeepsPlan
<1>4. QED
  BY <1>1, <1>2, <1>3 DEF Next, Alter, Tamper, vars

(* What `di model gen` drafts (cmd/di/intake.go, withholdRedacted and       *)
(* maskPlanned) keeps the plan it goes by: a redacted column is named only  *)
(* where a key is declared on it, and a masked one has no dimension without *)
(* a mask, though the catalogue is read anew after the gate and a language  *)
(* model may have rewritten the draft; on any brain.                        *)
THEOREM DraftsKeepThePlan == Spec => []DraftKeepsPlan
<1>1. Init => Typed /\ DraftKeepsPlan
  BY InitTyped DEF Init, DraftKeepsPlan, NoCall
<1>2. Typed /\ DraftKeepsPlan /\ [Next]_vars => (Typed /\ DraftKeepsPlan)'
  BY NextTyped, NextDraftKeepsPlan
<1>3. QED
  BY <1>1, <1>2, PTL DEF Spec

-----------------------------------------------------------------------------
(* The ledger.                                                              *)

LEMMA AppendedLine ==
  ASSUME NEW S, NEW seq \in Seq(S), NEW e \in S
  PROVE  LET new == Append(seq, e) IN
         /\ new \in Seq(S)
         /\ Len(new) = Len(seq) + 1
         /\ DOMAIN new = DOMAIN seq \cup {Len(seq) + 1}
         /\ new[Len(seq) + 1] = e
         /\ \A k \in DOMAIN seq : new[k] = seq[k] /\ k < Len(seq) + 1
  OBVIOUS

(* Some lines more, each of a plan.                                         *)
LEMMA AppendedTwo ==
  ASSUME NEW S, NEW seq \in Seq(S), NEW e \in S, NEW f \in S
  PROVE  Append(seq, e) \o <<f>> = Append(Append(seq, e), f)
  OBVIOUS

(* Nothing becomes a draft again.                                           *)
LEMMA DraftsAreNew ==
  ASSUME Serial, Typed, ReadsCurrent, [Next]_vars
  PROVE  /\ Proposed \subseteq Proposed'
         /\ \A i \in Proposed : plans[i].state # "draft" => plans'[i].state # "draft"
<1>1. ASSUME NEW p \in Procs, NEW i \in Ids, Insert(p, i)
      PROVE  /\ Proposed \subseteq Proposed'
             /\ \A j \in Proposed : plans'[j] = plans[j]
  BY <1>1, InsertWrites DEF Proposed
<1>2. ASSUME NEW p \in Procs, CommitAmend(p)
      PROVE  /\ Proposed \subseteq Proposed'
             /\ \A j \in Proposed : plans[j].state # "draft" => plans'[j] = plans[j]
  BY <1>2, CommitAmendWrites DEF Proposed
<1>3. ASSUME NEW p \in Procs, CommitSign(p)
      PROVE  /\ Proposed \subseteq Proposed'
             /\ \A j \in Proposed : plans[j].state # "draft" => plans'[j].state # "draft"
  <2>0. PICK i \in Proposed, prev \in Proposed \cup {None}, signing \in Entry,
             superseding \in Entry \cup {None} :
          Signs(i, prev, superseding, signing)
    BY <1>3, CommitSignWrites
  <2>1. prev # None => plans[prev] \in Plan
    BY DEF Proposed, Typed, TypeOK
  <2>2. prev # None => plans'[prev].state = "superseded"
    BY <2>0, <2>1 DEF Signs, Plan
  <2>3. Proposed' = Proposed
    BY <2>0 DEF Signs
  <2>4. ASSUME NEW j \in Proposed, plans[j].state # "draft" PROVE plans'[j].state # "draft"
    <3>1. j # i /\ j \in Ids /\ j # None
      BY <2>0, <2>4, NoneIsNothing DEF Signs, Proposed
    <3>2. j # prev => plans'[j] = plans[j]
      BY <2>0, <3>1 DEF Signs
    <3>3. QED
      BY <2>2, <2>4, <3>1, <3>2
  <2>5. QED
    BY <2>3, <2>4
<1>4. QED
  BY <1>1, <1>2, <1>3, OthersWriteNothing DEF Writes, Stays

LEMMA NextLinesOfPlans ==
  ASSUME Serial
  PROVE  Typed /\ ReadsCurrent /\ LinesOfPlans /\ [Next]_vars => LinesOfPlans'
<1> SUFFICES ASSUME Typed, ReadsCurrent, LinesOfPlans, [Next]_vars PROVE LinesOfPlans'
  OBVIOUS
<1> DEFINE Fine(line) == /\ line.plan \in Proposed'
                         /\ line.act = "sign" => plans'[line.plan].state # "draft"
<1>1. ledger \in Seq(Entry) /\ \A k \in DOMAIN ledger : Fine(ledger[k])
  BY DraftsAreNew DEF Typed, TypeOK, LinesOfPlans
<1>2. ASSUME NEW lines \in Seq(Entry), \A k \in DOMAIN lines : Fine(lines[k]),
             NEW line \in Entry, Fine(line)
      PROVE  \A k \in DOMAIN Append(lines, line) : Fine(Append(lines, line)[k])
  <2> HIDE DEF Fine
  <2>1. QED
    BY <1>2, AppendedLine
<1>3. (\A k \in DOMAIN ledger' : Fine(ledger'[k])) => LinesOfPlans'
  BY DEF LinesOfPlans
<1>4. ASSUME NEW p \in Procs, NEW i \in Ids, Insert(p, i) PROVE LinesOfPlans'
  <2>1. PICK line \in Entry : /\ ledger' = Append(ledger, line)
                              /\ line.act = "propose" /\ line.plan \in Proposed'
    BY <1>4, InsertWrites
  <2>2. QED
    BY <1>1, <1>2, <1>3, <2>1
<1>5. ASSUME NEW p \in Procs, CommitAmend(p) PROVE LinesOfPlans'
  <2>1. PICK line \in Entry : /\ ledger' = Append(ledger, line)
                              /\ line.act = "amend" /\ line.plan \in Proposed'
    BY <1>5, CommitAmendWrites
  <2>2. QED
    BY <1>1, <1>2, <1>3, <2>1
<1>6. ASSUME NEW p \in Procs, CommitSign(p) PROVE LinesOfPlans'
  <2>0. PICK i \in Proposed, prev \in Proposed \cup {None}, signing \in Entry,
             superseding \in Entry \cup {None} :
          Signs(i, prev, superseding, signing)
    BY <1>6, CommitSignWrites
  <2>1. /\ Appends(superseding, signing, prev) /\ Fine(signing)
        /\ prev # None => superseding \in Entry /\ Fine(superseding)
    BY <2>0 DEF Signs
  <2> HIDE DEF Fine
  <2>2. CASE prev = None
    BY <1>1, <1>2, <1>3, <2>1, <2>2 DEF Appends
  <2>3. CASE prev # None
    <3> DEFINE begun == Append(ledger, superseding)
    <3>1. ledger' = Append(begun, signing) /\ begun \in Seq(Entry)
      BY <1>1, <2>1, <2>3, AppendedTwo, AppendedLine DEF Appends
    <3>2. \A k \in DOMAIN begun : Fine(begun[k])
      BY <1>1, <1>2, <2>1, <2>3
    <3> HIDE DEF begun
    <3>3. QED
      BY <1>2, <1>3, <2>1, <3>1, <3>2
  <2>4. QED
    BY <2>2, <2>3
<1>7. QED
  BY <1>1, <1>3, <1>4, <1>5, <1>6, OthersWriteNothing DEF Writes

-----------------------------------------------------------------------------
(* The ledger replays to the plans.  ReplaysIn says it of some lines and a  *)
(* plan of a given state and hash.                                          *)

LinesIn(lines, i) == {k \in DOMAIN lines : lines[k].plan = i}

(* The amendment in line k goes on from the line of its plan before it.     *)
GoesOn(lines, i, k) ==
  lines[k].act = "amend" =>
    \E l \in LinesIn(lines, i) : /\ l < k /\ lines[l].to = lines[k].from
                                 /\ \A m \in LinesIn(lines, i) : ~(l < m /\ m < k)

ReplaysIn(lines, i, state, hash) ==
  \E last \in LinesIn(lines, i) :
    /\ \A k \in LinesIn(lines, i) : k <= last
    /\ state = StateAfter[lines[last].act]
    /\ hash = lines[last].to
    /\ \A k \in LinesIn(lines, i) : GoesOn(lines, i, k)

LEMMA LedgerReplaysIn ==
  LedgerReplays <=> \A i \in Proposed : ReplaysIn(ledger, i, plans[i].state, plans[i].hash)
  BY DEF LedgerReplays, ReplaysIn, GoesOn, LinesIn

(* A line of another plan changes nothing.                                  *)
LEMMA AnothersLine ==
  ASSUME NEW lines \in Seq(Entry), NEW e \in Entry, NEW i, e.plan # i, NEW state, NEW hash,
         ReplaysIn(lines, i, state, hash)
  PROVE  ReplaysIn(Append(lines, e), i, state, hash)
<1> DEFINE new == Append(lines, e)
<1>1. /\ DOMAIN new = DOMAIN lines \cup {Len(lines) + 1} /\ new[Len(lines) + 1] = e
      /\ \A k \in DOMAIN lines : new[k] = lines[k] /\ k < Len(lines) + 1
  BY AppendedLine
<1> HIDE DEF new
<1>2. LinesIn(new, i) = LinesIn(lines, i) /\ \A k \in LinesIn(lines, i) : new[k] = lines[k]
  BY <1>1 DEF LinesIn
<1>3. \A k \in LinesIn(lines, i) : GoesOn(lines, i, k) => GoesOn(new, i, k)
  BY <1>2 DEF GoesOn
<1>4. ReplaysIn(new, i, state, hash)
  BY <1>2, <1>3 DEF ReplaysIn
<1>5. QED
  BY <1>4 DEF new

(* The plan's own next line is its last.                                    *)
LEMMA OwnLine ==
  ASSUME NEW lines \in Seq(Entry), NEW e \in Entry, NEW state, NEW hash,
         ReplaysIn(lines, e.plan, state, hash), e.act = "amend" => e.from = hash
  PROVE  ReplaysIn(Append(lines, e), e.plan, StateAfter[e.act], e.to)
<1> DEFINE new == Append(lines, e)
           i == e.plan
           n == Len(lines) + 1
<1>1. /\ DOMAIN new = DOMAIN lines \cup {n} /\ new[n] = e
      /\ \A k \in DOMAIN lines : new[k] = lines[k] /\ k < n
      /\ n \in Nat /\ DOMAIN lines \subseteq Nat
  BY AppendedLine
<1> HIDE DEF new, n
<1>2. /\ LinesIn(new, i) = LinesIn(lines, i) \cup {n}
      /\ \A k \in LinesIn(lines, i) : new[k] = lines[k] /\ k < n /\ k \in Nat
  BY <1>1 DEF LinesIn
<1>3. PICK last \in LinesIn(lines, i) :
         /\ \A k \in LinesIn(lines, i) : k <= last
         /\ hash = lines[last].to
         /\ \A k \in LinesIn(lines, i) : GoesOn(lines, i, k)
  BY DEF ReplaysIn
<1>4. \A k \in LinesIn(lines, i) : GoesOn(new, i, k)
  <2>1. ASSUME NEW k \in LinesIn(lines, i), new[k].act = "amend"
        PROVE  \E l \in LinesIn(new, i) : /\ l < k /\ new[l].to = new[k].from
                                          /\ \A m \in LinesIn(new, i) : ~(l < m /\ m < k)
    <3>1. PICK l \in LinesIn(lines, i) : /\ l < k /\ lines[l].to = lines[k].from
                                         /\ \A m \in LinesIn(lines, i) : ~(l < m /\ m < k)
      BY <1>2, <1>3, <2>1 DEF GoesOn
    <3>2. ~(n < k)
      BY <1>1, <1>2
    <3>3. QED
      BY <1>2, <3>1, <3>2
  <2>2. QED
    BY <2>1 DEF GoesOn
<1>5. GoesOn(new, i, n)
  <2>1. SUFFICES ASSUME new[n].act = "amend"
        PROVE  \E l \in LinesIn(new, i) : /\ l < n /\ new[l].to = new[n].from
                                          /\ \A m \in LinesIn(new, i) : ~(l < m /\ m < n)
    BY DEF GoesOn
  <2>2. /\ last \in LinesIn(new, i) /\ last < n /\ new[last].to = new[n].from
    BY <1>1, <1>2, <1>3, <2>1
  <2>3. \A m \in LinesIn(new, i) : ~(last < m /\ m < n)
    BY <1>1, <1>2, <1>3
  <2>4. QED
    BY <2>2, <2>3
<1>6. \A k \in LinesIn(new, i) : k <= n
  BY <1>1, <1>2
<1>7. ReplaysIn(new, i, StateAfter[e.act], e.to)
  BY <1>1, <1>2, <1>4, <1>5, <1>6 DEF ReplaysIn
<1>8. QED
  BY <1>7 DEF new

(* A plan's proposal is its first line.                                     *)
LEMMA FirstLine ==
  ASSUME NEW lines \in Seq(Entry), NEW e \in Entry, e.act = "propose", LinesIn(lines, e.plan) = {}
  PROVE  ReplaysIn(Append(lines, e), e.plan, "draft", e.to)
<1> DEFINE new == Append(lines, e)
           n == Len(lines) + 1
<1>1. /\ DOMAIN new = DOMAIN lines \cup {n} /\ new[n] = e /\ n \in Nat
      /\ \A k \in DOMAIN lines : new[k] = lines[k]
  BY AppendedLine
<1> HIDE DEF new, n
<1>2. LinesIn(new, e.plan) = {n}
  BY <1>1 DEF LinesIn
<1>3. ReplaysIn(new, e.plan, "draft", e.to)
  BY <1>1, <1>2 DEF ReplaysIn, GoesOn, StateAfter
<1>4. QED
  BY <1>3 DEF new

LEMMA NextLedgerReplays ==
  ASSUME Serial
  PROVE  Typed /\ ReadsCurrent /\ LinesOfPlans /\ LedgerReplays /\ [Next]_vars => LedgerReplays'
<1> SUFFICES ASSUME Typed, ReadsCurrent, LinesOfPlans, LedgerReplays, [Next]_vars
             PROVE  LedgerReplays'
  OBVIOUS
<1> DEFINE Replays(lines, ps) == \A i \in Proposed : ReplaysIn(lines, i, ps[i].state, ps[i].hash)
<1>1. ledger \in Seq(Entry) /\ Replays(ledger, plans)
  BY LedgerReplaysIn DEF Typed, TypeOK
<1>2. Proposed' = Proposed /\ Replays(ledger', plans') => LedgerReplays'
  BY DEF LedgerReplays, ReplaysIn, GoesOn, LinesIn
<1>3. ASSUME NEW p \in Procs, NEW i \in Ids, Insert(p, i) PROVE LedgerReplays'
  <2>1. PICK line \in Entry :
           /\ ledger' = Append(ledger, line)
           /\ line.act = "propose" /\ line.plan = i /\ line.to = plans'[i].hash
           /\ i \notin Proposed /\ Proposed' = Proposed \cup {i}
           /\ plans'[i].state = "draft"
           /\ \A j \in Ids \ {i} : plans'[j] = plans[j]
    BY <1>3, InsertWrites
  <2>2. LinesIn(ledger, i) = {}
    BY <2>1 DEF LinesIn, LinesOfPlans
  <2>3. ReplaysIn(ledger', i, plans'[i].state, plans'[i].hash)
    BY <1>1, <2>1, <2>2, FirstLine
  <2>4. ASSUME NEW j \in Proposed PROVE ReplaysIn(ledger', j, plans'[j].state, plans'[j].hash)
    <3>1. j # i /\ plans'[j] = plans[j]
      BY <2>1 DEF Proposed
    <3>2. QED
      BY <1>1, <2>1, <3>1, AnothersLine
  <2>5. \A j \in Proposed' : ReplaysIn(ledger', j, plans'[j].state, plans'[j].hash)
    BY <2>1, <2>3, <2>4
  <2>6. QED
    BY <2>5 DEF LedgerReplays, ReplaysIn, GoesOn, LinesIn
<1>4. ASSUME NEW p \in Procs, CommitAmend(p) PROVE LedgerReplays'
  <2>1. PICK i \in Proposed, line \in Entry :
           /\ ledger' = Append(ledger, line)
           /\ line.act = "amend" /\ line.plan = i
           /\ line.from = plans[i].hash /\ line.to = plans'[i].hash
           /\ plans[i].state = "draft" /\ plans'[i].state = "draft"
           /\ Proposed' = Proposed
           /\ \A j \in Ids \ {i} : plans'[j] = plans[j]
    BY <1>4, CommitAmendWrites
  <2>2. StateAfter["amend"] = "draft"
    BY DEF StateAfter
  <2>3. ReplaysIn(ledger', i, plans'[i].state, plans'[i].hash)
    <3>1. ReplaysIn(ledger, line.plan, plans[i].state, plans[i].hash)
      BY <1>1, <2>1
    <3>2. ReplaysIn(Append(ledger, line), line.plan, StateAfter[line.act], line.to)
      BY <1>1, <2>1, <3>1, OwnLine
    <3>3. QED
      BY <2>1, <2>2, <3>2
  <2>4. ASSUME NEW j \in Proposed, j # i
        PROVE  ReplaysIn(ledger', j, plans'[j].state, plans'[j].hash)
    <3>1. plans'[j] = plans[j]
      BY <2>1, <2>4 DEF Proposed
    <3>2. QED
      BY <1>1, <2>1, <2>4, <3>1, AnothersLine
  <2>5. QED
    BY <1>2, <2>1, <2>3, <2>4
<1>5. ASSUME NEW p \in Procs, CommitSign(p) PROVE LedgerReplays'
  <2>0. PICK i \in Proposed, prev \in Proposed \cup {None}, signing \in Entry,
             superseding \in Entry \cup {None} :
          Signs(i, prev, superseding, signing)
    BY <1>5, CommitSignWrites
  <2>1. /\ signing.act = "sign" /\ signing.plan = i /\ signing.to = plans[i].hash
        /\ plans'[i].hash = plans[i].hash /\ plans'[i].state = "signed"
        /\ Proposed' = Proposed
        /\ \A j \in Ids \ {i, prev} : plans'[j] = plans[j]
    BY <2>0 DEF Signs
  <2>2. prev # None => /\ prev # i
                      /\ superseding \in Entry
                      /\ superseding.act = "supersede" /\ superseding.plan = prev
                      /\ superseding.to = plans[prev].hash
                      /\ plans'[prev] = [plans[prev] EXCEPT !.state = "superseded"]
    BY <2>0 DEF Signs
  <2>3. StateAfter["sign"] = "signed" /\ StateAfter["supersede"] = "superseded"
    BY DEF StateAfter
  <2> DEFINE begun == IF prev = None THEN ledger ELSE Append(ledger, superseding)
  <2>4. ledger' = Append(begun, signing)
    BY <1>1, <2>0, <2>2, AppendedTwo DEF Signs, Appends
  <2>5. begun \in Seq(Entry)
    BY <1>1, <2>2
  <2>6. ReplaysIn(begun, i, plans[i].state, plans[i].hash)
    BY <1>1, <2>2, AnothersLine
  <2>7. ASSUME NEW j \in Proposed, j # i
        PROVE  ReplaysIn(begun, j, plans'[j].state, plans'[j].hash)
    <3>1. CASE j # prev
      <4>1. plans'[j] = plans[j]
        BY <2>1, <2>7, <3>1 DEF Proposed
      <4>2. ReplaysIn(ledger, j, plans'[j].state, plans'[j].hash)
        BY <1>1, <4>1
      <4>3. CASE prev = None
        BY <4>2, <4>3
      <4>4. CASE prev # None
        BY <1>1, <2>2, <3>1, <4>2, <4>4, AnothersLine
      <4>5. QED
        BY <4>3, <4>4
    <3>2. CASE j = prev
      <4>1. prev # None /\ plans[prev] \in Plan
        BY <3>2, NoneIsNothing DEF Proposed, Typed, TypeOK
      <4>2. plans'[prev].state = "superseded" /\ plans'[prev].hash = plans[prev].hash
        BY <2>2, <4>1 DEF Plan
      <4>3. ReplaysIn(ledger, superseding.plan, plans[prev].state, plans[prev].hash)
        BY <1>1, <2>2, <3>2, <4>1
      <4>4. ReplaysIn(Append(ledger, superseding), prev, "superseded", plans[prev].hash)
        BY <1>1, <2>2, <2>3, <4>1, <4>3, OwnLine
      <4>5. QED
        BY <3>2, <4>1, <4>2, <4>4
    <3>3. QED
      BY <3>1, <3>2
  <2> HIDE DEF begun
  <2>8. ReplaysIn(ledger', i, plans'[i].state, plans'[i].hash)
    <3>1. ReplaysIn(begun, signing.plan, plans[i].state, plans[i].hash)
      BY <2>1, <2>6
    <3>2. ReplaysIn(Append(begun, signing), signing.plan, StateAfter[signing.act], signing.to)
      BY <2>1, <2>5, <3>1, OwnLine
    <3>3. QED
      BY <2>1, <2>3, <2>4, <3>2
  <2>9. ASSUME NEW j \in Proposed, j # i
        PROVE  ReplaysIn(ledger', j, plans'[j].state, plans'[j].hash)
    BY <2>1, <2>4, <2>5, <2>7, <2>9, AnothersLine
  <2>10. QED
    BY <1>2, <2>1, <2>8, <2>9
<1>6. ASSUME UNCHANGED ledger, Proposed' = Proposed, \A i \in Proposed : Stays(i)
      PROVE  LedgerReplays'
  BY <1>1, <1>2, <1>6 DEF Stays
<1>7. QED
  BY <1>3, <1>4, <1>5, <1>6, OthersWriteNothing DEF Writes

(* "Every act, in order, with the hash before and after it" (store.go): on  *)
(* every interleaving the lines of a plan lead from its proposal to its     *)
(* present state and hash, each amendment from where the line before it     *)
(* left off.                                                                *)
THEOREM LedgerTellsAll == ASSUME Serial PROVE Spec => []LedgerReplays
<1> DEFINE Inv == Typed /\ ReadsCurrent /\ LinesOfPlans /\ LedgerReplays
<1>1. Init => Inv
  BY InitTyped, InitReadsCurrent DEF Init, LinesOfPlans, LedgerReplays, Proposed
<1>2. Inv /\ [Next]_vars => Inv'
  BY NextTyped, NextReadsCurrent, NextLinesOfPlans, NextLedgerReplays
<1>3. Inv => LedgerReplays
  OBVIOUS
<1> HIDE DEF Inv
<1>4. QED
  BY <1>1, <1>2, <1>3, PTL DEF Spec

-----------------------------------------------------------------------------
(* The plan in force.                                                       *)

SignsIn(lines, s) == {k \in DOMAIN lines : lines[k].act = "sign" /\ lines[k].source = s}

(* Plan i is the one signed last for database s, by the one it says.        *)
SignedLast(lines, s, i, signer) ==
  \E k \in SignsIn(lines, s) : /\ lines[k].plan = i /\ lines[k].by = signer
                               /\ \A l \in SignsIn(lines, s) : l <= k

LEMMA InForceIsSignedLast ==
  InForceIsLastSigned <=>
    \A s \in Sources, i \in Proposed :
      i \in InForce(s) <=> SignedLast(ledger, s, i, plans[i].signer)
<1>1. \A s \in Sources : InForce(s) \subseteq Proposed
  BY DEF InForce
<1>2. QED
  BY <1>1 DEF InForceIsLastSigned, SignedLast, SignsIn

LEMMA OtherLinesSignNothing ==
  ASSUME NEW lines \in Seq(Entry), NEW e \in Entry, NEW s, e.act # "sign" \/ e.source # s,
         NEW i, NEW signer
  PROVE  SignedLast(Append(lines, e), s, i, signer) <=> SignedLast(lines, s, i, signer)
<1> DEFINE new == Append(lines, e)
<1>1. /\ DOMAIN new = DOMAIN lines \cup {Len(lines) + 1} /\ new[Len(lines) + 1] = e
      /\ \A k \in DOMAIN lines : new[k] = lines[k]
  BY AppendedLine
<1> HIDE DEF new
<1>2. SignsIn(new, s) = SignsIn(lines, s) /\ \A k \in SignsIn(lines, s) : new[k] = lines[k]
  BY <1>1 DEF SignsIn
<1>3. SignedLast(new, s, i, signer) <=> SignedLast(lines, s, i, signer)
  BY <1>2 DEF SignedLast
<1>4. QED
  BY <1>3 DEF new

LEMMA SigningSignsLast ==
  ASSUME NEW lines \in Seq(Entry), NEW e \in Entry, e.act = "sign", NEW i, NEW signer
  PROVE  SignedLast(Append(lines, e), e.source, i, signer) <=> i = e.plan /\ signer = e.by
<1> DEFINE new == Append(lines, e)
           n == Len(lines) + 1
<1>1. /\ DOMAIN new = DOMAIN lines \cup {n} /\ new[n] = e /\ n \in Nat
      /\ \A k \in DOMAIN lines : new[k] = lines[k] /\ k < n /\ k \in Nat
  BY AppendedLine
<1> HIDE DEF new, n
<1>2. /\ n \in SignsIn(new, e.source)
      /\ \A k \in SignsIn(new, e.source) : k <= n /\ (n <= k => k = n)
  BY <1>1 DEF SignsIn
<1>3. SignedLast(new, e.source, i, signer) <=> i = e.plan /\ signer = e.by
  BY <1>1, <1>2 DEF SignedLast
<1>4. QED
  BY <1>3 DEF new

(* A draft was never signed for anything.                                   *)
LEMMA DraftsAreUnsigned ==
  ASSUME Typed, LinesOfPlans, NEW i, i \in Proposed => plans[i].state = "draft", NEW s, NEW signer
  PROVE  ~SignedLast(ledger, s, i, signer)
  BY DEF LinesOfPlans, SignedLast, SignsIn

LEMMA NextInForce ==
  ASSUME Serial
  PROVE  Typed /\ ReadsCurrent /\ LinesOfPlans /\ InForceIsLastSigned /\ [Next]_vars
           => InForceIsLastSigned'
<1> SUFFICES ASSUME Typed, ReadsCurrent, LinesOfPlans, InForceIsLastSigned, [Next]_vars
             PROVE  InForceIsLastSigned'
  OBVIOUS
<1> DEFINE Live(i, s) == plans[i].source = s /\ plans[i].state = "signed"
           Goes(i, s) == plans'[i].source = s /\ plans'[i].state = "signed"
<1>1. ledger \in Seq(Entry) /\ Proposed \subseteq Ids /\ \A i \in Proposed : plans[i] \in Plan
  BY DEF Typed, TypeOK, Proposed
<1>2. \A s \in Sources, i \in Proposed : Live(i, s) <=> SignedLast(ledger, s, i, plans[i].signer)
  BY InForceIsSignedLast DEF InForce
<1>3. SUFFICES ASSUME NEW s \in Sources, NEW i \in Proposed'
               PROVE  Goes(i, s) <=> SignedLast(ledger', s, i, plans'[i].signer)
  <2>1. \A s \in Sources, i \in Proposed' : i \in InForce(s)' <=> Goes(i, s)
    BY DEF InForce
  <2>2. \A s \in Sources : InForce(s)' \subseteq Proposed'
    BY DEF InForce
  <2>3. QED
    BY <1>3, <2>1, <2>2 DEF InForceIsLastSigned, SignedLast, SignsIn
<1> HIDE DEF Live, Goes
<1>4. ASSUME NEW p \in Procs, NEW j \in Ids, Insert(p, j)
      PROVE  Goes(i, s) <=> SignedLast(ledger', s, i, plans'[i].signer)
  <2>1. PICK line \in Entry :
           /\ ledger' = Append(ledger, line) /\ line.act = "propose"
           /\ j \notin Proposed /\ Proposed' = Proposed \cup {j}
           /\ plans'[j].state = "draft"
           /\ \A k \in Ids \ {j} : plans'[k] = plans[k]
    BY <1>4, InsertWrites
  <2>2. CASE i = j
    BY <1>1, <2>1, <2>2, OtherLinesSignNothing, DraftsAreUnsigned DEF Goes
  <2>3. CASE i # j
    <3>1. i \in Proposed /\ plans'[i] = plans[i]
      BY <1>1, <2>1, <2>3
    <3>2. QED
      BY <1>1, <1>2, <2>1, <3>1, OtherLinesSignNothing DEF Goes, Live
  <2>4. QED
    BY <2>2, <2>3
<1>5. ASSUME NEW p \in Procs, CommitAmend(p)
      PROVE  Goes(i, s) <=> SignedLast(ledger', s, i, plans'[i].signer)
  <2>1. PICK j \in Proposed, line \in Entry :
           /\ ledger' = Append(ledger, line) /\ line.act = "amend"
           /\ plans[j].state = "draft" /\ plans'[j].state = "draft"
           /\ Proposed' = Proposed
           /\ \A k \in Ids \ {j} : plans'[k] = plans[k]
    BY <1>5, CommitAmendWrites
  <2>2. CASE i = j
    BY <1>1, <2>1, <2>2, OtherLinesSignNothing, DraftsAreUnsigned DEF Goes
  <2>3. CASE i # j
    <3>1. i \in Proposed /\ plans'[i] = plans[i]
      BY <1>1, <2>1, <2>3
    <3>2. QED
      BY <1>1, <1>2, <2>1, <3>1, OtherLinesSignNothing DEF Goes, Live
  <2>4. QED
    BY <2>2, <2>3
<1>6. ASSUME NEW p \in Procs, CommitSign(p)
      PROVE  Goes(i, s) <=> SignedLast(ledger', s, i, plans'[i].signer)
  <2>0. PICK j \in Proposed, prev \in Proposed \cup {None}, signing \in Entry,
             superseding \in Entry \cup {None} :
          Signs(j, prev, superseding, signing)
    BY <1>6, CommitSignWrites
  <2>1. /\ signing.act = "sign" /\ signing.plan = j /\ signing.source = plans[j].source
        /\ signing.by = plans'[j].signer
        /\ plans[j].state = "draft"
        /\ plans'[j].source = plans[j].source /\ plans'[j].state = "signed"
        /\ InForce(plans[j].source) \subseteq {prev}
        /\ Proposed' = Proposed
        /\ \A k \in Ids \ {j, prev} : plans'[k] = plans[k]
    BY <2>0 DEF Signs
  <2>2. prev # None => /\ prev # j
                      /\ superseding \in Entry /\ superseding.act = "supersede"
                      /\ plans[prev].source = plans[j].source
                      /\ plans'[prev] = [plans[prev] EXCEPT !.state = "superseded"]
    BY <2>0 DEF Signs
  <2>3. prev # None => /\ plans'[prev].state = "superseded"
                      /\ plans'[prev].source = plans[prev].source
                      /\ plans'[prev].signer = plans[prev].signer
    BY <1>1, <2>2 DEF Plan
  <2> DEFINE begun == IF prev = None THEN ledger ELSE Append(ledger, superseding)
  <2>4. ledger' = Append(begun, signing) /\ begun \in Seq(Entry)
    BY <1>1, <2>0, <2>2, AppendedTwo DEF Signs, Appends
  <2>5. \A signer : SignedLast(begun, s, i, signer) <=> SignedLast(ledger, s, i, signer)
    BY <1>1, <2>2, OtherLinesSignNothing
  <2> HIDE DEF begun
  <2>6. CASE s = plans[j].source
    <3>1. SignedLast(ledger', s, i, plans'[i].signer) <=> i = j
      BY <2>1, <2>4, <2>6, SigningSignsLast
    <3>2. Goes(i, s) => i = j
      <4>1. ASSUME i # j, i # prev, Goes(i, s) PROVE FALSE
        <5>1. plans'[i] = plans[i]
          BY <1>1, <2>1, <4>1
        <5>2. i \in InForce(s)
          BY <2>1, <4>1, <5>1 DEF Goes, InForce
        <5>3. QED
          BY <2>1, <2>6, <4>1, <5>2
      <4>2. ASSUME i = prev, Goes(i, s) PROVE FALSE
        BY <1>1, <2>1, <2>3, <4>2, NoneIsNothing DEF Goes
      <4>3. QED
        BY <4>1, <4>2
    <3>3. Goes(j, s)
      BY <2>1, <2>6 DEF Goes
    <3>4. QED
      BY <3>1, <3>2, <3>3
  <2>7. CASE s # plans[j].source
    <3>1. \A signer : SignedLast(ledger', s, i, signer) <=> SignedLast(ledger, s, i, signer)
      BY <2>1, <2>4, <2>5, <2>7, OtherLinesSignNothing
    <3>2. CASE i = j
      BY <2>1, <2>7, <3>1, <3>2, DraftsAreUnsigned DEF Goes
    <3>3. CASE i # j /\ i = prev
      <4>1. prev # None
        BY <1>1, <2>1, <3>3, NoneIsNothing
      <4>2. ~Live(i, s) /\ ~Goes(i, s)
        BY <2>2, <2>3, <2>7, <3>3, <4>1 DEF Live, Goes
      <4>3. QED
        BY <1>2, <2>1, <2>3, <3>1, <3>3, <4>1, <4>2
    <3>4. CASE i # j /\ i # prev
      <4>1. plans'[i] = plans[i]
        BY <1>1, <2>1, <3>4
      <4>2. QED
        BY <1>2, <2>1, <3>1, <4>1 DEF Goes, Live
    <3>5. QED
      BY <3>2, <3>3, <3>4
  <2>8. QED
    BY <2>6, <2>7
<1>7. ASSUME UNCHANGED ledger, Proposed' = Proposed, \A j \in Proposed : Stays(j)
      PROVE  Goes(i, s) <=> SignedLast(ledger', s, i, plans'[i].signer)
  BY <1>2, <1>7 DEF Stays, Goes, Live
<1>8. QED
  BY <1>4, <1>5, <1>6, <1>7, OthersWriteNothing DEF Writes

(* At most one plan of a database is in force, and it is the one the ledger *)
(* says was signed last and by whom, however many signatures overlap (Sign  *)
(* of store.go and its unique index).                                       *)
THEOREM LastSignedIsInForce == ASSUME Serial PROVE Spec => []InForceIsLastSigned
<1> DEFINE Inv == Typed /\ ReadsCurrent /\ LinesOfPlans /\ InForceIsLastSigned
<1>1. Init => Inv
  BY InitTyped, InitReadsCurrent DEF Init, LinesOfPlans, InForceIsLastSigned, InForce, Proposed
<1>2. Inv /\ [Next]_vars => Inv'
  BY NextTyped, NextReadsCurrent, NextLinesOfPlans, NextInForce
<1>3. Inv => InForceIsLastSigned
  OBVIOUS
<1> HIDE DEF Inv
<1>4. QED
  BY <1>1, <1>2, <1>3, PTL DEF Spec

-----------------------------------------------------------------------------
(* A signed plan is never edited.                                           *)

LEMMA NextSignedStepwise ==
  ASSUME Serial
  PROVE  Typed /\ ReadsCurrent /\ [Next]_vars => SignedStepwise
<1> SUFFICES ASSUME Typed, ReadsCurrent, [Next]_vars, NEW i \in Proposed, plans[i].state # "draft"
             PROVE  /\ plans'[i] # None
                    /\ plans'[i].hash = plans[i].hash
                    /\ plans'[i].cols = plans[i].cols \/ tampers' # tampers
                    /\ plans'[i].state \in {plans[i].state, "superseded"}
  BY DEF SignedStepwise
<1>1. i \in Ids /\ i # None /\ plans[i] \in Plan /\ i \in Proposed'
  BY DraftsAreNew, NoneIsNothing DEF Proposed, Typed, TypeOK
<1>2. plans'[i] # None
  BY <1>1 DEF Proposed
<1>3. ASSUME NEW p \in Procs, NEW j \in Ids, Insert(p, j) PROVE plans'[i] = plans[i]
  BY <1>1, <1>3, InsertWrites
<1>4. ASSUME NEW p \in Procs, CommitAmend(p) PROVE plans'[i] = plans[i]
  BY <1>1, <1>4, CommitAmendWrites
<1>5. ASSUME NEW p \in Procs, CommitSign(p)
      PROVE  /\ plans'[i].hash = plans[i].hash
             /\ plans'[i].cols = plans[i].cols
             /\ plans'[i].state \in {plans[i].state, "superseded"}
  <2>0. PICK j \in Proposed, prev \in Proposed \cup {None}, signing \in Entry,
             superseding \in Entry \cup {None} :
          Signs(j, prev, superseding, signing)
    BY <1>5, CommitSignWrites
  <2>1. i # j
    BY <2>0 DEF Signs
  <2>2. CASE i = prev
    <3>1. plans'[i] = [plans[i] EXCEPT !.state = "superseded"]
      BY <1>1, <2>0, <2>2 DEF Signs
    <3>2. QED
      BY <1>1, <3>1 DEF Plan
  <2>3. CASE i # prev
    <3>1. plans'[i] = plans[i]
      BY <1>1, <2>0, <2>1, <2>3 DEF Signs
    <3>2. QED
      BY <3>1
  <2>4. QED
    BY <2>2, <2>3
<1>6. QED
  BY <1>2, <1>3, <1>4, <1>5, OthersWriteNothing DEF Writes, Stays

(* "A signed plan is never edited; a new one supersedes it" (plan.go), as a *)
(* property of every step, tampering with the row aside.                    *)
THEOREM SignedPlansStay == ASSUME Serial PROVE Spec => SignedNeverEdited
<1>1. Init => Typed /\ ReadsCurrent
  BY InitTyped, InitReadsCurrent
<1>2. Typed /\ ReadsCurrent /\ [Next]_vars => (Typed /\ ReadsCurrent)'
  BY NextTyped, NextReadsCurrent
<1>3. Typed /\ ReadsCurrent /\ [Next]_vars => [SignedStepwise]_vars
  BY NextSignedStepwise
<1>4. QED
  BY <1>1, <1>2, <1>3, PTL DEF Spec, SignedNeverEdited

=============================================================================
