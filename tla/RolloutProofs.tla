--------------------------- MODULE RolloutProofs ----------------------------
(***************************************************************************)
(* Theorems about Rollout for any number of versions, files, overlapping   *)
(* calls, edits, deaths and failed reads: it is well typed, nothing        *)
(* unsigned is made active, a signature stays with the bytes it was given  *)
(* for and the ledger credits activations to those who signed them.  For   *)
(* one process that finds the active version whenever it looks for it, at  *)
(* most one version is active and the ledger accounts for it.              *)
(*                                                                         *)
(* The documents alone are not inductive: a call saves what it holds in    *)
(* memory, so the invariant also says what it holds at each label.         *)
(***************************************************************************)
EXTENDS Rollout, FiniteSetTheorems, TLAPS

(* A document whose status and signature agree, given the signatures s.     *)
Sound(v, s) ==
  /\ v \in Version
  /\ v.status \in Live => v.signed # None
  /\ v.signed # None => v.signed = v.hash /\ <<v.by, v.signed>> \in s

(* A document that may be made active.                                      *)
Approved(v, s) == Sound(v, s) /\ v.signed # None

(* A document whose signature is not saved yet.                             *)
BeingSigned(v) == v \in Version /\ v.signed = v.hash /\ v.by \in Signers

(* What a call at a label holds.                                            *)
HeldFits(label, c, s) ==
  /\ c \in Call
  /\ label = "idle" <=> c = NoCall
  /\ \A v \in c.todo : Sound(v, s)
  /\ label = "demote" => /\ c.act \in {"canary", "rollback"}
                         /\ c.act = "canary" => c.name \in Names
                         /\ c.doc # None => Approved(c.doc, s)
  /\ label = "get" => c.act = "canary" /\ c.name \in Names
  /\ label = "put" => /\ c.act \in {"canary", "sign"}
                      /\ c.act = "canary" => Sound(c.doc, s)
                      /\ c.act = "sign" => BeingSigned(c.doc)
  /\ label = "active" => /\ c.act \in {"promote", "rollback"}
                         /\ c.act = "promote" => c.doc # None
                         /\ c.doc # None => Approved(c.doc, s)
  /\ label = "retire" => c.act = "promote" /\ Approved(c.doc, s) /\ Approved(c.prev, s)
  /\ label = "activate" => c.act \in {"promote", "rollback"} /\ Approved(c.doc, s)
  /\ label = "record" => /\ c.act \in {"sign", "promote", "rollback"}
                         /\ c.doc \in Version
                         /\ <<c.doc.by, c.doc.signed>> \in s

DocumentsSound == \A n \in Names : versions[n] # None => Sound(versions[n], signatures)

CallsFit == \A p \in Procs : HeldFits(pc[p], call[p], signatures)

IInv == TypeOK /\ DocumentsSound /\ CallsFit /\ LedgerTruthful

-----------------------------------------------------------------------------
(* A later set of signatures keeps what was sound sound.                    *)
LEMMA SoundGrows ==
  ASSUME NEW v, NEW s, NEW t, s \subseteq t, Sound(v, s)
  PROVE  Sound(v, t)
  BY DEF Sound

LEMMA HeldGrows ==
  ASSUME NEW label, NEW c, NEW s, NEW t, s \subseteq t, HeldFits(label, c, s)
  PROVE  HeldFits(label, c, t)
  BY SoundGrows DEF HeldFits, Approved

(* What the registry hands out is sound.                                    *)
LEMMA InStatusSound ==
  ASSUME IInv, NEW status, NEW v \in InStatus(status)
  PROVE  Sound(v, signatures) /\ v.status = status
  BY DEF IInv, DocumentsSound, InStatus, Documents, Registered

LEMMA RegisteredSound ==
  ASSUME IInv, NEW n \in Registered
  PROVE  Sound(versions[n], signatures)
  BY DEF IInv, DocumentsSound, Registered

(* The ranks of the names are numbers again.                                *)
LEMMA DenseType ==
  ASSUME NEW r
  PROVE  Dense(r) \in [Names -> Nat]
<1>1. ASSUME NEW n \in Names
      PROVE  Cardinality({r[m] : m \in {k \in Names : r[k] < r[n]}}) \in Nat
  <2>1. IsFiniteSet({k \in Names : r[k] < r[n]})
    BY NamesAssumption, FS_Subset
  <2>2. IsFiniteSet({r[m] : m \in {k \in Names : r[k] < r[n]}})
    <3> DEFINE S == {k \in Names : r[k] < r[n]}
               f == [m \in S |-> r[m]]
    <3>1. {r[m] : m \in S} = {f[m] : m \in S}
      OBVIOUS
    <3>2. f \in Surjection(S, {r[m] : m \in S})
      BY DEF Surjection
    <3>3. QED
      BY <2>1, <3>2, FS_Surjection
  <2>3. QED
    BY <2>2, FS_CardinalityType
<1>2. QED
  BY <1>1 DEF Dense

-----------------------------------------------------------------------------
(* Every step is of one shape: it may save one sound document, moves one    *)
(* call to a label it fits, and forgets no signature.                       *)
SavesSound ==
  \/ UNCHANGED <<versions, rank>>
  \/ \E v \in Version : Sound(v, signatures') /\ Save(v)

Moves ==
  \/ UNCHANGED <<pc, call>>
  \/ \E p \in Procs, label \in Labels, c \in Call :
       HeldFits(label, c, signatures') /\ Goto(p, label, c)

Signs == signatures \subseteq signatures' /\ signatures' \subseteq Signers \X Contents

Writes ==
  \/ UNCHANGED ledger
  \/ \E e \in Entry : <<e.by, e.to>> \in signatures' /\ ledger' = Append(ledger, e)

Bounds == /\ disk' \in [Paths -> Contents]
          /\ {edits', faults', lost'} \subseteq Nat

LEMMA ShapeKeepsIInv ==
  ASSUME IInv, SavesSound, Moves, Signs, Writes, Bounds
  PROVE  IInv'
<1> USE DEF Signs
<1>1. versions' \in [Names -> Version \cup {None}] /\ rank' \in [Names -> Nat]
  <2>1. CASE UNCHANGED <<versions, rank>>
    BY <2>1 DEF IInv, TypeOK
  <2>2. ASSUME NEW v \in Version, Save(v)
        PROVE  versions' \in [Names -> Version \cup {None}] /\ rank' \in [Names -> Nat]
    <3>1. rank' \in [Names -> Nat]
      BY <2>2, DenseType DEF Save, Saved
    <3>2. QED
      BY <2>2, <3>1 DEF Save, IInv, TypeOK
  <2>3. QED
    BY <2>1, <2>2 DEF SavesSound
<1>2. DocumentsSound'
  <2>1. \A n \in Names : versions[n] # None => Sound(versions[n], signatures')
    BY SoundGrows DEF IInv, DocumentsSound
  <2>2. CASE UNCHANGED <<versions, rank>>
    BY <2>1, <2>2 DEF DocumentsSound
  <2>3. ASSUME NEW v \in Version, Sound(v, signatures'), Save(v)
        PROVE  DocumentsSound'
    BY <2>1, <2>3 DEF DocumentsSound, Save, IInv, TypeOK
  <2>4. QED
    BY <2>2, <2>3 DEF SavesSound
<1>3. CallsFit' /\ pc' \in [Procs -> Labels] /\ call' \in [Procs -> Call]
  <2>1. \A q \in Procs : HeldFits(pc[q], call[q], signatures')
    BY HeldGrows DEF IInv, CallsFit
  <2>2. CASE UNCHANGED <<pc, call>>
    BY <2>1, <2>2 DEF CallsFit, IInv, TypeOK
  <2>3. ASSUME NEW p \in Procs, NEW label \in Labels, NEW c \in Call,
               HeldFits(label, c, signatures'), Goto(p, label, c)
        PROVE  CallsFit' /\ pc' \in [Procs -> Labels] /\ call' \in [Procs -> Call]
    BY <2>1, <2>3 DEF CallsFit, Goto, IInv, TypeOK
  <2>4. QED
    BY <2>2, <2>3 DEF Moves
<1>4. LedgerTruthful' /\ ledger' \in Seq(Entry)
  <2>1. CASE UNCHANGED ledger
    BY <2>1 DEF LedgerTruthful, IInv, TypeOK
  <2>2. ASSUME NEW e \in Entry, <<e.by, e.to>> \in signatures', ledger' = Append(ledger, e)
        PROVE  LedgerTruthful' /\ ledger' \in Seq(Entry)
    <3>1. ledger \in Seq(Entry)
      BY DEF IInv, TypeOK
    <3>2. ledger' \in Seq(Entry) /\ DOMAIN ledger' = 1 .. Len(ledger) + 1
      BY <2>2, <3>1
    <3>3. ASSUME NEW i \in 1 .. Len(ledger) + 1
          PROVE  <<ledger'[i].by, ledger'[i].to>> \in signatures'
      <4>1. CASE i = Len(ledger) + 1
        BY <2>2, <3>1, <4>1
      <4>2. CASE i \in 1 .. Len(ledger)
        <5>1. ledger'[i] = ledger[i]
          BY <2>2, <3>1, <4>2
        <5>2. i \in DOMAIN ledger
          BY <3>1, <4>2
        <5>3. QED
          BY <5>1, <5>2 DEF LedgerTruthful, IInv
      <4>3. QED
        BY <4>1, <4>2, <3>1
    <3>4. QED
      BY <3>2, <3>3 DEF LedgerTruthful
  <2>3. QED
    BY <2>1, <2>2 DEF Writes
<1>5. \A q \in Procs : pc'[q] = "idle" <=> call'[q] = NoCall
  BY <1>3 DEF CallsFit, HeldFits
<1>6. QED
  BY <1>1, <1>2, <1>3, <1>4, <1>5 DEF IInv, TypeOK, Bounds

-----------------------------------------------------------------------------
(* A call that is not idle holds what its label says.                       *)
LEMMA Holding ==
  ASSUME IInv, NEW p \in Procs
  PROVE  HeldFits(pc[p], call[p], signatures) /\ call[p] \in Call
  BY DEF IInv, CallsFit, TypeOK

LEMMA NoCallFits ==
  ASSUME NEW s
  PROVE  NoCall \in Call /\ HeldFits("idle", NoCall, s)
  BY DEF NoCall, Call, HeldFits

(* A call that returns moves to a label it fits.                            *)
LEMMA ReturnMoves ==
  ASSUME NEW p \in Procs, Return(p)
  PROVE  Moves
  BY NoCallFits DEF Return, Moves, Labels

(* Each step has that shape.                                                *)
Shape == SavesSound /\ Moves /\ Signs /\ Writes /\ Bounds

Unsigned == UNCHANGED signatures

LEMMA RegisterShape ==
  ASSUME IInv, NEW p \in Procs, NEW n \in Names, NEW f \in Files[n], Register(p, n, f)
  PROVE  Shape
<1>1. Sound(Fresh(n, f), signatures)
  BY FilesAssumption, NoneAssumption DEF Sound, Fresh, Version, Statuses, Live, IInv, TypeOK
<1>2. Fresh(n, f) \in Version
  BY <1>1 DEF Sound
<1>3. SavesSound
  BY <1>1, <1>2 DEF Register, SavesSound
<1>4. QED
  BY <1>3 DEF Shape, Register, control, Moves, Signs, Writes, Bounds, IInv, TypeOK

LEMMA EditShape ==
  ASSUME IInv, NEW f \in Paths, NEW c \in Contents, Edit(f, c)
  PROVE  Shape
  BY DEF Shape, Edit, control, SavesSound, Moves, Signs, Writes, Bounds, IInv, TypeOK

(* A call that begins with what fits its label.                             *)
LEMMA BeginShape ==
  ASSUME IInv, NEW p \in Procs, NEW label \in Labels, NEW c,
         HeldFits(label, c, signatures), Begin(p, label, c)
  PROVE  Shape
<1>1. c \in Call
  BY DEF HeldFits
<1>2. QED
  BY <1>1 DEF Begin, Shape, SavesSound, Moves, Signs, Writes, Bounds, IInv, TypeOK

LEMMA StartShape ==
  ASSUME IInv, NEW p \in Procs, Start(p)
  PROVE  Shape
<1>1. ASSUME StartRollback(p)
      PROVE  Shape
  <2>1. PICK spare \in IF InStatus("retired") = {} THEN {None} ELSE Newest(InStatus("retired")) :
          Begin(p, "demote", [NoCall EXCEPT !.act = "rollback", !.doc = spare,
                                !.todo = InStatus("canary")])
    BY <1>1 DEF StartRollback
  <2> DEFINE c == [NoCall EXCEPT !.act = "rollback", !.doc = spare, !.todo = InStatus("canary")]
  <2>2. spare # None => Approved(spare, signatures)
    BY InStatusSound DEF Newest, Approved, Sound, Live
  <2>3. \A v \in InStatus("canary") : Sound(v, signatures)
    BY InStatusSound
  <2>4. HeldFits("demote", c, signatures)
    BY <2>2, <2>3 DEF HeldFits, NoCall, Call, Approved, Sound
  <2>5. QED
    BY <2>1, <2>4, BeginShape DEF Labels
<1>2. ASSUME NEW n \in Names, LoadPromote(p, n)
      PROVE  Shape
  <2> DEFINE c == [NoCall EXCEPT !.act = "promote", !.name = n, !.doc = versions[n]]
  <2>1. Approved(versions[n], signatures)
    BY <1>2, RegisteredSound DEF LoadPromote, SignatureHolds, Approved
  <2>2. HeldFits("active", c, signatures)
    BY <1>2, <2>1 DEF HeldFits, NoCall, Call, Approved, Sound, LoadPromote, Registered
  <2>3. QED
    BY <1>2, <2>2, BeginShape DEF LoadPromote, Labels
<1>3. ASSUME NEW n \in Names, NEW pct \in Pcts, StartCanary(p, n, pct)
      PROVE  Shape
  <2> DEFINE c == [NoCall EXCEPT !.act = "canary", !.name = n, !.pct = pct,
                     !.todo = {v \in InStatus("canary") : v.name # n}]
  <2>1. \A v \in InStatus("canary") : Sound(v, signatures)
    BY InStatusSound
  <2>2. HeldFits("demote", c, signatures)
    BY <2>1 DEF HeldFits, NoCall, Call, Sound
  <2>3. QED
    BY <1>3, <2>2, BeginShape DEF StartCanary, Labels
<1>4. ASSUME NEW n \in Names, NEW by \in Signers, NEW read, LoadSign(p, n, by, read)
      PROVE  Shape
  <2> DEFINE v == [versions[n] EXCEPT !.signed = versions[n].hash, !.by = by]
             c == [NoCall EXCEPT !.act = "sign", !.name = n, !.doc = v]
  <2>1. BeingSigned(v)
    BY <1>4, RegisteredSound DEF LoadSign, BeingSigned, Sound, Version
  <2>2. HeldFits("put", c, signatures)
    BY <2>1 DEF HeldFits, NoCall, Call, BeingSigned
  <2>3. QED
    BY <1>4, <2>2, BeginShape DEF LoadSign, Labels
<1>5. QED
  BY <1>1, <1>2, <1>3, <1>4, RegisterShape DEF Start

-----------------------------------------------------------------------------
LEMMA DemoteShape ==
  ASSUME IInv, NEW p \in Procs, Demote(p)
  PROVE  Shape
<1>1. PICK v \in call[p].todo :
        /\ Save([v EXCEPT !.status = "candidate", !.pct = 0])
        /\ Goto(p, "demote", [call[p] EXCEPT !.todo = @ \ {v}])
  BY DEF Demote
<1> DEFINE w == [v EXCEPT !.status = "candidate", !.pct = 0]
           c == [call[p] EXCEPT !.todo = @ \ {v}]
<1>2. HeldFits("demote", call[p], signatures)
  BY Holding DEF Demote
<1>3. Sound(w, signatures)
  <2>1. Sound(v, signatures)
    BY <1>2 DEF HeldFits
  <2>2. QED
    BY <2>1 DEF Sound, Version, Statuses, Live
<1>4. c \in Call /\ c.todo \subseteq call[p].todo /\ c.act = call[p].act
      /\ c.name = call[p].name /\ c.doc = call[p].doc
  BY <1>2 DEF HeldFits, Call
<1>5. c # NoCall
  BY <1>2, <1>4 DEF HeldFits, NoCall
<1>6. HeldFits("demote", c, signatures)
  BY <1>2, <1>4, <1>5 DEF HeldFits
<1>7. SavesSound
  BY <1>1, <1>3 DEF SavesSound, Sound, Demote
<1>8. Moves
  BY <1>1, <1>4, <1>6 DEF Moves, Labels, Demote
<1>9. QED
  BY <1>7, <1>8 DEF Shape, Demote, Signs, Writes, Bounds, IInv, TypeOK

LEMMA DemotedShape ==
  ASSUME IInv, NEW p \in Procs, Demoted(p)
  PROVE  Shape
<1> DEFINE label == IF call[p].act = "canary" THEN "get" ELSE "active"
<1>1. HeldFits(label, call[p], signatures)
  BY Holding DEF Demoted, HeldFits
<1>2. Moves
  BY <1>1, Holding DEF Demoted, Moves, Labels
<1>3. QED
  BY <1>2 DEF Shape, Demoted, SavesSound, Signs, Writes, Bounds, IInv, TypeOK

LEMMA GetCanaryShape ==
  ASSUME IInv, NEW p \in Procs, GetCanary(p)
  PROVE  Shape
<1>1. Moves
  <2>1. CASE call[p].name \notin Registered
    BY <2>1, ReturnMoves DEF GetCanary
  <2>2. CASE call[p].name \in Registered
    <3> DEFINE v == versions[call[p].name]
               w == [v EXCEPT !.status = "canary", !.pct = call[p].pct]
               c == [call[p] EXCEPT !.doc = w]
    <3>1. call[p] \in Call /\ call[p].act = "canary"
          /\ \A d \in call[p].todo : Sound(d, signatures)
      BY Holding DEF GetCanary, HeldFits
    <3>2. Sound(w, signatures)
      BY <2>2, <3>1, RegisteredSound DEF Sound, Version, Statuses, Live, Call
    <3>3. c \in Call /\ c.act = "canary" /\ c.doc = w /\ c.todo = call[p].todo
      BY <3>1, <3>2 DEF Call, Sound
    <3>4. /\ c # NoCall
          /\ c.prev = call[p].prev
      BY <3>1, <3>3 DEF NoCall, Call
    <3>5. HeldFits("put", c, signatures)
      BY <3>1, <3>2, <3>3, <3>4 DEF HeldFits
    <3>6. QED
      BY <2>2, <3>3, <3>5 DEF GetCanary, Moves, Labels
  <2>3. QED
    BY <2>1, <2>2
<1>2. QED
  BY <1>1 DEF Shape, GetCanary, SavesSound, Signs, Writes, Bounds, IInv, TypeOK

LEMMA PutCanaryShape ==
  ASSUME IInv, NEW p \in Procs, PutCanary(p)
  PROVE  Shape
<1>1. Sound(call[p].doc, signatures)
  BY Holding DEF PutCanary, HeldFits
<1>2. SavesSound
  BY <1>1 DEF PutCanary, SavesSound, Sound
<1>3. Moves
  BY ReturnMoves DEF PutCanary
<1>4. QED
  BY <1>2, <1>3 DEF Shape, PutCanary, Signs, Writes, Bounds, IInv, TypeOK

(* The signature becomes one that was given as the version is saved.        *)
LEMMA PutSignShape ==
  ASSUME IInv, NEW p \in Procs, PutSign(p)
  PROVE  Shape
<1> DEFINE v == call[p].doc
<1>1. BeingSigned(v) /\ HeldFits("put", call[p], signatures)
  BY Holding DEF PutSign, HeldFits
<1>2. signatures' = signatures \cup {<<v.by, v.signed>>}
  BY DEF PutSign
<1>3. Sound(v, signatures') /\ v.signed \in Contents
  BY <1>1, <1>2, NoneAssumption DEF BeingSigned, Sound, Version
<1>4. Signs
  BY <1>1, <1>2, <1>3 DEF Signs, BeingSigned, IInv, TypeOK
<1>5. SavesSound
  BY <1>3 DEF PutSign, SavesSound, Sound
<1>6. HeldFits("put", call[p], signatures')
  BY <1>1, <1>4, HeldGrows DEF Signs
<1>7. HeldFits("record", call[p], signatures')
  BY <1>2, <1>3, <1>6 DEF HeldFits, PutSign, Sound
<1>8. Moves
  BY <1>7, Holding DEF PutSign, Moves, Labels
<1>9. QED
  BY <1>4, <1>5, <1>8 DEF Shape, PutSign, Writes, Bounds, IInv, TypeOK

LEMMA ReadActiveShape ==
  ASSUME IInv, NEW p \in Procs, ReadActive(p)
  PROVE  Shape
<1>1. HeldFits("active", call[p], signatures) /\ call[p].act = "promote"
  BY Holding DEF ReadActive
<1>2. CASE Goto(p, "activate", call[p])
  <2>1. HeldFits("activate", call[p], signatures)
    BY <1>1 DEF HeldFits
  <2>2. Moves
    BY <1>2, <2>1, Holding DEF Moves, Labels, ReadActive
  <2>3. QED
    BY <2>2 DEF Shape, ReadActive, SavesSound, Signs, Writes, Bounds, IInv, TypeOK
<1>3. ASSUME NEW prev \in Newest(InStatus("active")),
             Goto(p, "retire", [call[p] EXCEPT !.prev = prev,
               !.changed = ChangedMetrics(disk[prev.path], disk[call[p].doc.path])])
      PROVE  Shape
  <2> DEFINE d == ChangedMetrics(disk[prev.path], disk[call[p].doc.path])
             c == [call[p] EXCEPT !.prev = prev, !.changed = d]
  <2>1. d \subseteq Metrics
    BY DEF ChangedMetrics
  <2>2. Approved(prev, signatures)
    BY InStatusSound DEF Newest, Approved, Sound, Live
  <2>3. /\ c \in Call
        /\ c.act = "promote" /\ c.doc = call[p].doc
        /\ c.prev = prev /\ c.todo = call[p].todo
    BY <1>1, <2>1, <2>2 DEF HeldFits, Call, Approved, Sound
  <2>4. c # NoCall
    BY <2>3 DEF NoCall
  <2>5. HeldFits("retire", c, signatures)
    BY <1>1, <2>2, <2>3, <2>4 DEF HeldFits
  <2>6. Moves
    BY <1>3, <2>3, <2>5 DEF Moves, Labels, ReadActive
  <2>7. QED
    BY <2>6 DEF Shape, ReadActive, SavesSound, Signs, Writes, Bounds, IInv, TypeOK
<1>4. QED
  BY <1>2, <1>3 DEF ReadActive

LEMMA RetireShape ==
  ASSUME IInv, NEW p \in Procs, Retire(p)
  PROVE  Shape
<1> DEFINE w == [call[p].prev EXCEPT !.status = "retired"]
<1>1. HeldFits("retire", call[p], signatures)
  BY Holding DEF Retire
<1>2. Sound(w, signatures)
  BY <1>1 DEF HeldFits, Approved, Sound, Version, Statuses, Live
<1>3. SavesSound
  BY <1>2 DEF Retire, SavesSound, Sound
<1>4. HeldFits("activate", call[p], signatures)
  BY <1>1 DEF HeldFits
<1>5. Moves
  BY <1>4, Holding DEF Retire, Moves, Labels
<1>6. QED
  BY <1>3, <1>5 DEF Shape, Retire, Signs, Writes, Bounds, IInv, TypeOK

LEMMA CheckActiveShape ==
  ASSUME IInv, NEW p \in Procs, CheckActive(p) \/ LoseActive(p)
  PROVE  Shape
<1>1. HeldFits("active", call[p], signatures)
  BY Holding DEF CheckActive, LoseActive
<1>2. Moves
  <2>1. CASE Return(p)
    BY <2>1, ReturnMoves
  <2>2. CASE call[p].doc # None /\ Goto(p, "activate", call[p])
    <3>1. HeldFits("activate", call[p], signatures)
      BY <1>1, <2>2 DEF HeldFits
    <3>2. QED
      BY <2>2, <3>1, Holding DEF Moves, Labels, CheckActive, LoseActive
  <2>3. QED
    BY <2>1, <2>2 DEF CheckActive, LoseActive
<1>3. QED
  BY <1>2 DEF Shape, CheckActive, LoseActive, SavesSound, Signs, Writes, Bounds, IInv, TypeOK

LEMMA ActivateShape ==
  ASSUME IInv, NEW p \in Procs, Activate(p)
  PROVE  Shape
<1> DEFINE v == call[p].doc
           pct == IF call[p].act = "promote" THEN 0 ELSE v.pct
           w == [v EXCEPT !.status = "active", !.pct = pct]
<1>1. HeldFits("activate", call[p], signatures)
  BY Holding DEF Activate
<1>2. Approved(v, signatures)
  BY <1>1 DEF HeldFits
<1>3. Sound(w, signatures) /\ Save(w)
  BY <1>2 DEF Activate, Approved, Sound, Version, Statuses, Live
<1>4. SavesSound
  BY <1>3 DEF Activate, SavesSound, Sound
<1>5. HeldFits("record", call[p], signatures)
  BY <1>1, <1>2 DEF HeldFits, Approved, Sound
<1>6. Moves
  BY <1>5, Holding DEF Activate, Moves, Labels
<1>7. QED
  BY <1>4, <1>6 DEF Shape, Activate, Signs, Writes, Bounds, IInv, TypeOK

LEMMA RecordShape ==
  ASSUME IInv, NEW p \in Procs, Record(p)
  PROVE  Shape
<1> DEFINE c == call[p]
           e == [act |-> c.act, name |-> c.doc.name, by |-> c.doc.by,
                 from |-> IF c.prev = None THEN None ELSE c.prev.hash,
                 to |-> c.doc.signed, changed |-> c.changed]
<1>1. HeldFits("record", c, signatures)
  BY Holding DEF Record
<1>2. e \in Entry /\ <<e.by, e.to>> \in signatures
  BY <1>1 DEF HeldFits, Entry, Call, Version
<1>3. Writes
  BY <1>2 DEF Record, Writes
<1>4. Moves
  BY ReturnMoves DEF Record
<1>5. QED
  BY <1>3, <1>4 DEF Shape, Record, SavesSound, Signs, Bounds, IInv, TypeOK

LEMMA DieShape ==
  ASSUME IInv, NEW p \in Procs, Die(p)
  PROVE  Shape
<1>1. Moves
  BY ReturnMoves DEF Die
<1>2. QED
  BY <1>1 DEF Shape, Die, SavesSound, Signs, Writes, Bounds, IInv, TypeOK

-----------------------------------------------------------------------------
LEMMA InitIInv == Init => IInv
<1> SUFFICES ASSUME Init PROVE IInv
  OBVIOUS
<1>1. TypeOK
  BY DiskAssumption, NoCallFits DEF Init, TypeOK, Labels
<1>2. CallsFit
  BY NoCallFits DEF Init, CallsFit
<1>3. DocumentsSound /\ LedgerTruthful
  BY DEF Init, DocumentsSound, LedgerTruthful
<1>4. QED
  BY <1>1, <1>2, <1>3 DEF IInv

LEMMA NextIInv == IInv /\ [Next]_vars => IInv'
<1> SUFFICES ASSUME IInv, [Next]_vars PROVE IInv'
  OBVIOUS
<1>1. CASE UNCHANGED vars
  BY <1>1 DEF vars, IInv, TypeOK, DocumentsSound, CallsFit, LedgerTruthful
<1>2. ASSUME NEW f \in Paths, NEW c \in Contents, Edit(f, c)
      PROVE  Shape
  BY <1>2, EditShape
<1>3. ASSUME NEW p \in Procs, Start(p) \/ Step(p) \/ Die(p)
      PROVE  Shape
  BY <1>3, StartShape, DemoteShape, DemotedShape, GetCanaryShape, PutCanaryShape,
     PutSignShape, ReadActiveShape, RetireShape, CheckActiveShape, ActivateShape,
     RecordShape, DieShape
     DEF Step
<1>4. ASSUME Shape PROVE IInv'
  BY <1>4, ShapeKeepsIInv DEF Shape
<1>5. QED
  BY <1>1, <1>2, <1>3, <1>4 DEF Next

LEMMA Invariance == Spec => []IInv
  BY InitIInv, NextIInv, PTL DEF Spec

-----------------------------------------------------------------------------
(* Every state of the registry, of its files and of its calls in progress   *)
(* is well typed.                                                           *)
THEOREM TypeCorrect == Spec => []TypeOK
<1>1. IInv => TypeOK
  BY DEF IInv
<1>2. QED
  BY <1>1, Invariance, PTL

(* Whatever calls overlap, die or miss a read, Promote and Rollback make    *)
(* nothing active that carries no signature.                                *)
THEOREM NothingLiveUnsigned == Spec => []LiveIsSigned
<1>1. IInv => LiveIsSigned
  BY DEF IInv, DocumentsSound, LiveIsSigned, Documents, Registered, Sound
<1>2. QED
  BY <1>1, Invariance, PTL

(* Whatever files are edited and whatever saves overwrite each other, the   *)
(* signature of a version was given for the bytes it is registered with.    *)
THEOREM SignaturesStayPut == Spec => []SignaturesHold
<1>1. IInv => SignaturesHold
  BY DEF IInv, DocumentsSound, SignaturesHold, Documents, Registered, Sound
<1>2. QED
  BY <1>1, Invariance, PTL

(* Every line of the ledger names somebody who signed the bytes it names.   *)
THEOREM LedgerTellsTruth == Spec => []LedgerTruthful
<1>1. IInv => LedgerTruthful
  BY DEF IInv
<1>2. QED
  BY <1>1, Invariance, PTL
-----------------------------------------------------------------------------
(* One call at a time.  Of the versions at most one is active, and a call   *)
(* that is about to activate another has retired it; what a call signs is   *)
(* the version as it is.                                                    *)
IsActive(n) == versions[n] # None /\ versions[n].status = "active"

Sole(label, c) ==
  /\ \A n \in Names : versions[n] # None => versions[n].name = n
  /\ \A n, m \in Names : IsActive(n) /\ IsActive(m) => n = m
  /\ label = "put" /\ c.act = "canary" => c.doc.status = "canary"
  /\ label = "put" /\ c.act = "sign" =>
       LET v == versions[c.doc.name] IN v # None /\ c.doc.status = v.status /\ c.doc.hash = v.hash
  /\ label = "retire" => \A n \in Names : IsActive(n) => n = c.prev.name
  /\ label = "activate" => \A n \in Names : ~IsActive(n)

(* As long as none dies, every signature is in the ledger before anything   *)
(* rests on it, and what is active was last activated there.                *)
SignLine(l, i, v) == l[i].act = "sign" /\ l[i].name = v.name /\ l[i].to = v.signed

OnLedger(l, v) == v.signed # None => \E i \in DOMAIN l : SignLine(l, i, v)

Activates(l, k) == k \in DOMAIN l /\ l[k].act # "sign"

Credited(l, v) ==
  \E k \in DOMAIN l :
    /\ Activates(l, k)
    /\ \A j \in DOMAIN l : Activates(l, j) => j <= k
    /\ l[k].name = v.name /\ l[k].to = v.signed
    /\ \E i \in DOMAIN l : i < k /\ SignLine(l, i, v)

Signing(label, c)    == label = "record" /\ c.act = "sign"
Activating(label, c) == label = "record" /\ c.act # "sign"

Told(label, c) ==
  /\ \A n \in Names : versions[n] # None /\ ~(Signing(label, c) /\ c.doc.name = n)
                       => OnLedger(ledger, versions[n])
  /\ \A v \in c.todo : OnLedger(ledger, v)
  /\ c.prev # None => OnLedger(ledger, c.prev)
  /\ c.doc # None /\ c.act # "sign" => OnLedger(ledger, c.doc)
  /\ label = "record" => versions[c.doc.name] # None /\ versions[c.doc.name].signed = c.doc.signed
  /\ Activating(label, c) => \A n \in Names : IsActive(n) => n = c.doc.name
  /\ ~Activating(label, c) => \A n \in Names : IsActive(n) => Credited(ledger, versions[n])

SoleInv == \A p \in Procs : Sole(pc[p], call[p])
ToldInv == \A p \in Procs : faults = 0 => Told(pc[p], call[p])

OneAtATime == \E p : Procs = {p}

(* A save, and a move of the only call.                                     *)
LEMMA SaveIs ==
  ASSUME IInv, NEW v \in Version, Save(v)
  PROVE  /\ versions'[v.name] = v /\ v # None /\ v.name \in Names
         /\ \A n \in Names : n # v.name => versions'[n] = versions[n]
  BY NoneAssumption DEF Save, IInv, TypeOK, Version

LEMMA GotoIs ==
  ASSUME IInv, NEW p \in Procs, NEW label, NEW c, Goto(p, label, c)
  PROVE  pc'[p] = label /\ call'[p] = c
  BY DEF Goto, IInv, TypeOK

LEMMA ActiveIs ==
  ASSUME IInv, \A n \in Names : versions[n] # None => versions[n].name = n
  PROVE  /\ \A v \in InStatus("active") : v.name \in Names /\ v = versions[v.name] /\ IsActive(v.name)
         /\ InStatus("active") = {} => \A n \in Names : ~IsActive(n)
  BY DEF InStatus, Documents, Registered, IsActive

(* A document of another status is saved, or one as active as it was.       *)
LEMMA SoleSaves ==
  ASSUME IInv, NEW label, NEW c, Sole(label, c), NEW v \in Version, Save(v),
         v.status = "active" => IsActive(v.name)
  PROVE  /\ \A n \in Names : versions'[n] # None => versions'[n].name = n
         /\ \A n, m \in Names : IsActive(n)' /\ IsActive(m)' => n = m
         /\ \A n \in Names : IsActive(n)' => IsActive(n)
<1>1. /\ versions'[v.name] = v /\ v # None /\ v.name \in Names
      /\ \A n \in Names : n # v.name => versions'[n] = versions[n]
  BY SaveIs
<1>2. \A n \in Names : IsActive(n)' => IsActive(n)
  BY <1>1 DEF IsActive
<1>3. QED
  BY <1>1, <1>2 DEF Sole

AtRest(label) == label \in {"idle", "demote", "get", "active", "record"}

LEMMA SoleMoves ==
  ASSUME IInv, NEW p \in Procs, Sole(pc[p], call[p]), NEW label, NEW c, Goto(p, label, c),
         UNCHANGED versions, AtRest(label)
  PROVE  Sole(pc[p], call[p])'
<1>1. pc'[p] = label /\ call'[p] = c
  BY GotoIs
<1>2. QED
  BY <1>1 DEF Sole, AtRest, IsActive

LEMMA SoleSavesAndMoves ==
  ASSUME IInv, NEW p \in Procs, Sole(pc[p], call[p]), NEW v \in Version, Save(v),
         v.status = "active" => IsActive(v.name), AtRest(pc'[p])
  PROVE  Sole(pc[p], call[p])'
<1>1. /\ \A n \in Names : versions'[n] # None => versions'[n].name = n
      /\ \A n, m \in Names : IsActive(n)' /\ IsActive(m)' => n = m
  BY SoleSaves
<1>2. QED
  BY <1>1 DEF Sole, AtRest

LEMMA SoleStart ==
  ASSUME IInv, NEW p \in Procs, Sole(pc[p], call[p]), Start(p)
  PROVE  Sole(pc[p], call[p])'
<1>1. ASSUME NEW n \in Names, NEW f \in Files[n], Register(p, n, f) PROVE Sole(pc[p], call[p])'
  <2>1. Fresh(n, f) \in Version /\ Fresh(n, f).status = "candidate"
    BY FilesAssumption DEF Fresh, Version, Statuses, IInv, TypeOK
  <2>2. AtRest(pc'[p])
    BY <1>1 DEF Register, AtRest, control
  <2>3. QED
    BY <1>1, <2>1, <2>2, SoleSavesAndMoves DEF Register
<1>2. ASSUME StartRollback(p) PROVE Sole(pc[p], call[p])'
  BY <1>2, SoleMoves DEF StartRollback, Begin, AtRest
<1>3. ASSUME NEW n \in Names, LoadPromote(p, n) PROVE Sole(pc[p], call[p])'
  BY <1>3, SoleMoves DEF LoadPromote, Begin, AtRest
<1>4. ASSUME NEW n \in Names, NEW pct \in Pcts, StartCanary(p, n, pct) PROVE Sole(pc[p], call[p])'
  BY <1>4, SoleMoves DEF StartCanary, Begin, AtRest
<1>5. ASSUME NEW n \in Names, NEW by \in Signers, NEW read \in Contents \cup {None}, LoadSign(p, n, by, read)
      PROVE  Sole(pc[p], call[p])'
  <2> DEFINE d == [versions[n] EXCEPT !.signed = versions[n].hash, !.by = by]
             c == [NoCall EXCEPT !.act = "sign", !.name = n, !.doc = d]
  <2>1. versions[n] \in Version /\ versions[n] # None /\ versions[n].name = n
    BY <1>5 DEF LoadSign, Registered, IInv, TypeOK, Sole
  <2>2. d.name = n /\ d.status = versions[n].status /\ d.hash = versions[n].hash
    BY <2>1 DEF Version
  <2>3. c.act = "sign" /\ c.doc = d
    BY DEF NoCall
  <2>4. Goto(p, "put", c) /\ UNCHANGED versions
    BY <1>5 DEF LoadSign, Begin
  <2> HIDE DEF c
  <2>5. pc'[p] = "put" /\ call'[p] = c
    BY <2>4, GotoIs
  <2> HIDE DEF d
  <2>6. QED
    BY <2>1, <2>2, <2>3, <2>4, <2>5 DEF Sole, IsActive
<1>6. QED
  BY <1>1, <1>2, <1>3, <1>4, <1>5 DEF Start

LEMMA SoleStep ==
  ASSUME IInv, NEW p \in Procs, Sole(pc[p], call[p]), Step(p), MaxLost = 0
  PROVE  Sole(pc[p], call[p])'
<1> DEFINE c == call[p]
<1>0. HeldFits(pc[p], c, signatures) /\ c \in Call
  BY DEF IInv, CallsFit, HeldFits
<1>1. CASE Demote(p)
  <2>1. PICK v \in c.todo : /\ Save([v EXCEPT !.status = "candidate", !.pct = 0])
                            /\ Goto(p, "demote", [c EXCEPT !.todo = @ \ {v}])
    BY <1>1 DEF Demote
  <2>2. v \in Version
    BY <1>0 DEF Call
  <2> DEFINE d == [v EXCEPT !.status = "candidate", !.pct = 0]
  <2>3. d \in Version /\ d.status = "candidate"
    BY <2>2 DEF Version, Statuses
  <2>4. AtRest(pc'[p])
    BY <2>1, GotoIs DEF AtRest
  <2> HIDE DEF d
  <2>5. QED
    BY <2>1, <2>3, <2>4, SoleSavesAndMoves DEF d
<1>2. CASE Demoted(p)
  BY <1>2, SoleMoves DEF Demoted, AtRest
<1>3. CASE GetCanary(p)
  <2>1. CASE Return(p)
    BY <1>3, <2>1, SoleMoves DEF GetCanary, Return, AtRest
  <2>2. CASE /\ c.name \in Registered
             /\ Goto(p, "put", [c EXCEPT !.doc = [versions[c.name] EXCEPT !.status = "canary", !.pct = c.pct]])
    <3> DEFINE d == [versions[c.name] EXCEPT !.status = "canary", !.pct = c.pct]
               k == [c EXCEPT !.doc = d]
    <3>1. d.status = "canary"
      BY <2>2 DEF Registered, IInv, TypeOK, Version
    <3>2. k.act = "canary" /\ k.doc = d
      BY <1>0, <1>3 DEF GetCanary, HeldFits, Call
    <3>3. Goto(p, "put", k) /\ UNCHANGED versions
      BY <1>3, <2>2 DEF GetCanary
    <3> HIDE DEF k
    <3>4. pc'[p] = "put" /\ call'[p] = k
      BY <3>3, GotoIs
    <3> HIDE DEF d
    <3>5. QED
      BY <3>1, <3>2, <3>3, <3>4 DEF Sole, IsActive
  <2>3. QED
    BY <1>3, <2>1, <2>2 DEF GetCanary
<1>4. CASE PutCanary(p)
  <2>1. c.doc \in Version /\ c.doc.status = "canary"
    BY <1>0, <1>4 DEF PutCanary, HeldFits, Sound, Sole
  <2>2. Save(c.doc) /\ AtRest(pc'[p])
    BY <1>4, GotoIs DEF PutCanary, Return, AtRest
  <2>3. QED
    BY <2>1, <2>2, SoleSavesAndMoves
<1>5. CASE PutSign(p)
  <2>1. c.doc \in Version /\ versions[c.doc.name] # None /\ c.doc.status = versions[c.doc.name].status
    BY <1>0, <1>5 DEF PutSign, HeldFits, BeingSigned, Sole
  <2>2. Save(c.doc) /\ AtRest(pc'[p])
    BY <1>5, GotoIs DEF PutSign, AtRest
  <2>3. c.doc.status = "active" => IsActive(c.doc.name)
    BY <2>1 DEF IsActive
  <2>4. QED
    BY <2>1, <2>2, <2>3, SoleSavesAndMoves
<1>6. CASE ReadActive(p)
  <2>1. UNCHANGED versions
    BY <1>6 DEF ReadActive
  <2>2. CASE InStatus("active") = {} /\ Goto(p, "activate", c)
    <3>1. pc'[p] = "activate" /\ call'[p] = c
      BY <2>2, GotoIs
    <3>2. \A n \in Names : ~IsActive(n)
      BY <2>2, ActiveIs DEF Sole
    <3>3. QED
      BY <2>1, <3>1, <3>2 DEF Sole, IsActive
  <2>3. CASE \E prev \in Newest(InStatus("active")) :
               Goto(p, "retire", [c EXCEPT !.prev = prev,
                      !.changed = ChangedMetrics(disk[prev.path], disk[c.doc.path])])
    <3>1. PICK prev \in InStatus("active") :
               Goto(p, "retire", [c EXCEPT !.prev = prev,
                      !.changed = ChangedMetrics(disk[prev.path], disk[c.doc.path])])
      BY <2>3 DEF Newest
    <3> DEFINE k == [c EXCEPT !.prev = prev, !.changed = ChangedMetrics(disk[prev.path], disk[c.doc.path])]
    <3>2. k.prev = prev
      BY <1>0 DEF Call
    <3>3. Goto(p, "retire", k)
      BY <3>1
    <3> HIDE DEF k
    <3>4. pc'[p] = "retire" /\ call'[p] = k
      BY <3>3, GotoIs
    <3>5. \A n \in Names : IsActive(n) => n = prev.name
      BY ActiveIs DEF Sole
    <3>6. QED
      BY <2>1, <3>2, <3>4, <3>5 DEF Sole, IsActive
  <2>4. QED
    BY <1>6, <2>2, <2>3 DEF ReadActive
<1>7. CASE Retire(p)
  <2> DEFINE d == [c.prev EXCEPT !.status = "retired"]
  <2>1. c.prev \in Version
    BY <1>0, <1>7 DEF Retire, HeldFits, Approved, Sound
  <2>2. d \in Version /\ d.status = "retired" /\ d.name = c.prev.name
    BY <2>1 DEF Version, Statuses
  <2>3. Save(d) /\ pc'[p] = "activate" /\ \A n \in Names : IsActive(n) => n = c.prev.name
    BY <1>7, GotoIs DEF Retire, Sole
  <2> HIDE DEF d
  <2>4. /\ \A n \in Names : versions'[n] # None => versions'[n].name = n
        /\ \A n, m \in Names : IsActive(n)' /\ IsActive(m)' => n = m
        /\ \A n \in Names : IsActive(n)' => IsActive(n)
    BY <2>2, <2>3, SoleSaves
  <2>5. \A n \in Names : ~IsActive(n)'
    BY <2>2, <2>3, <2>4, SaveIs DEF IsActive
  <2>6. QED
    BY <2>3, <2>4, <2>5 DEF Sole
<1>8. CASE CheckActive(p)
  <2>1. CASE Return(p)
    BY <1>8, <2>1, SoleMoves DEF CheckActive, Return, AtRest
  <2>2. CASE InStatus("active") = {} /\ Goto(p, "activate", c)
    <3>1. pc'[p] = "activate" /\ call'[p] = c /\ UNCHANGED versions
      BY <1>8, <2>2, GotoIs DEF CheckActive
    <3>2. \A n \in Names : ~IsActive(n)
      BY <2>2, ActiveIs DEF Sole
    <3>3. QED
      BY <3>1, <3>2 DEF Sole, IsActive
  <2>3. QED
    BY <1>8, <2>1, <2>2 DEF CheckActive
<1>9. CASE LoseActive(p)
  BY <1>9 DEF LoseActive, IInv, TypeOK
<1>10. CASE Activate(p)
  <2> DEFINE d == [c.doc EXCEPT !.status = "active", !.pct = IF c.act = "promote" THEN 0 ELSE @]
  <2>1. c.doc \in Version /\ \A n \in Names : ~IsActive(n)
    BY <1>0, <1>10 DEF Activate, HeldFits, Approved, Sound, Sole
  <2>2. d \in Version
    BY <2>1 DEF Version, Statuses
  <2>3. Save(d) /\ pc'[p] = "record"
    BY <1>10, GotoIs DEF Activate
  <2> HIDE DEF d
  <2>4. /\ versions'[d.name] = d /\ d.name \in Names
        /\ \A n \in Names : n # d.name => versions'[n] = versions[n]
    BY <2>2, <2>3, SaveIs
  <2>5. QED
    BY <2>1, <2>3, <2>4 DEF Sole, IsActive
<1>11. CASE Record(p)
  BY <1>11, SoleMoves DEF Record, Return, AtRest
<1>12. QED
  BY <1>1, <1>2, <1>3, <1>4, <1>5, <1>6, <1>7, <1>8, <1>9, <1>10, <1>11 DEF Step

LEMMA InitSole == Init => SoleInv
  BY DEF Init, SoleInv, Sole, IsActive

LEMMA NextSole ==
  ASSUME IInv, SoleInv, OneAtATime, MaxLost = 0, [Next]_vars
  PROVE  SoleInv'
<1> SUFFICES ASSUME NEW p \in Procs PROVE Sole(pc[p], call[p])'
  BY DEF SoleInv
<1>0. Sole(pc[p], call[p]) /\ \A q \in Procs : q = p
  BY DEF SoleInv, OneAtATime
<1>1. CASE UNCHANGED <<versions, control>>
  BY <1>0, <1>1 DEF Sole, IsActive, control
<1>2. ASSUME NEW f \in Paths, NEW c \in Contents, Edit(f, c) PROVE Sole(pc[p], call[p])'
  BY <1>1, <1>2 DEF Edit
<1>3. CASE Start(p)
  BY <1>0, <1>3, SoleStart
<1>4. CASE Step(p)
  BY <1>0, <1>4, SoleStep
<1>5. CASE Die(p)
  BY <1>0, <1>5, SoleMoves DEF Die, Return, AtRest
<1>6. QED
  BY <1>0, <1>1, <1>2, <1>3, <1>4, <1>5 DEF Next, vars, control

LEMMA OneCallInvariance ==
  ASSUME OneAtATime, MaxLost = 0
  PROVE  Spec => [](IInv /\ SoleInv)
<1>1. Init => IInv /\ SoleInv
  BY InitIInv, InitSole
<1>2. IInv /\ SoleInv /\ [Next]_vars => (IInv /\ SoleInv)'
  BY NextIInv, NextSole
<1>3. QED
  BY <1>1, <1>2, PTL DEF Spec

(* Where the calls run one after another, Promote and Rollback never leave  *)
(* two versions active, whoever dies and wherever: Promote retires the one  *)
(* it finds before it activates its candidate, and Rollback stops at one.   *)
(* (A failed look-up of the active version is left out by MaxLost = 0.)     *)
THEOREM OneIsActive ==
  ASSUME OneAtATime, MaxLost = 0
  PROVE  Spec => []AtMostOneActive
<1>1. ASSUME IInv, SoleInv PROVE AtMostOneActive
  <2>1. PICK p : p \in Procs
    BY DEF OneAtATime
  <2>2. Sole(pc[p], call[p])
    BY <1>1, <2>1 DEF SoleInv
  <2>3. \A v \in InStatus("active") : v.name \in Names /\ v = versions[v.name] /\ IsActive(v.name)
    BY <1>1, <2>2, ActiveIs DEF Sole
  <2>4. \A v, w \in InStatus("active") : v = w
    BY <2>2, <2>3 DEF Sole
  <2>5. CASE InStatus("active") = {}
    BY <2>5, FS_EmptySet DEF AtMostOneActive
  <2>6. CASE InStatus("active") # {}
    <3>1. PICK v : v \in InStatus("active")
      BY <2>6
    <3>2. InStatus("active") = {v}
      BY <2>4, <3>1
    <3>3. Cardinality(InStatus("active")) = 1
      BY <3>2, FS_Singleton
    <3>4. QED
      BY <3>3 DEF AtMostOneActive
  <2>7. QED
    BY <2>5, <2>6
<1>2. QED
  BY <1>1, OneCallInvariance, PTL

-----------------------------------------------------------------------------
(* The ledger accounts for what is active.                                  *)

(* Being on the ledger is a matter of name and signature.                   *)
LEMMA SameSignature ==
  ASSUME NEW l, NEW v, NEW w, v.name = w.name, v.signed = w.signed
  PROVE  /\ OnLedger(l, v) => OnLedger(l, w)
         /\ Credited(l, v) => Credited(l, w)
  BY DEF OnLedger, Credited, SignLine

LEMMA LinesStay ==
  ASSUME NEW l \in Seq(Entry), NEW e \in Entry
  PROVE  LET m == Append(l, e) IN
         /\ Len(m) = Len(l) + 1 /\ DOMAIN m = 1 .. Len(m) /\ DOMAIN l = 1 .. Len(l) /\ Len(l) \in Nat
         /\ m[Len(m)] = e
         /\ \A i \in DOMAIN l : m[i] = l[i]
  OBVIOUS

LEMMA OnLedgerStays ==
  ASSUME NEW l \in Seq(Entry), NEW e \in Entry, NEW v, OnLedger(l, v)
  PROVE  OnLedger(Append(l, e), v)
<1>1. /\ DOMAIN Append(l, e) = 1 .. (Len(l) + 1) /\ DOMAIN l = 1 .. Len(l) /\ Len(l) \in Nat
      /\ \A i \in DOMAIN l : Append(l, e)[i] = l[i]
  BY LinesStay
<1>2. QED
  BY <1>1 DEF OnLedger, SignLine

LEMMA CreditedStays ==
  ASSUME NEW l \in Seq(Entry), NEW e \in Entry, e.act = "sign", NEW v, Credited(l, v)
  PROVE  Credited(Append(l, e), v)
<1> DEFINE m == Append(l, e)
<1>1. /\ DOMAIN m = 1 .. (Len(l) + 1) /\ DOMAIN l = 1 .. Len(l) /\ Len(l) \in Nat
      /\ \A i \in DOMAIN l : m[i] = l[i]
      /\ m[Len(l) + 1] = e
  BY LinesStay
<1> HIDE DEF m
<1>2. PICK k \in DOMAIN l : /\ Activates(l, k)
                            /\ \A j \in DOMAIN l : Activates(l, j) => j <= k
                            /\ l[k].name = v.name /\ l[k].to = v.signed
                            /\ \E i \in DOMAIN l : i < k /\ SignLine(l, i, v)
  BY DEF Credited
<1>3. \A j \in DOMAIN m : Activates(m, j) => j \in DOMAIN l /\ Activates(l, j)
  BY <1>1 DEF Activates
<1>4. k \in DOMAIN m /\ Activates(m, k) /\ m[k].name = v.name /\ m[k].to = v.signed
  BY <1>1, <1>2 DEF Activates
<1>5. \E i \in DOMAIN m : i < k /\ SignLine(m, i, v)
  BY <1>1, <1>2 DEF SignLine
<1>6. Credited(m, v)
  BY <1>2, <1>3, <1>4, <1>5 DEF Credited
<1>7. QED
  BY <1>6 DEF m

(* The line of an activation is the latest.                                 *)
LEMMA CreditedBy ==
  ASSUME NEW l \in Seq(Entry), NEW e \in Entry, e.act # "sign", NEW v,
         e.name = v.name, e.to = v.signed, v.signed # None, OnLedger(l, v)
  PROVE  Credited(Append(l, e), v)
<1> DEFINE m == Append(l, e)
           k == Len(l) + 1
<1>1. /\ DOMAIN m = 1 .. k /\ DOMAIN l = 1 .. Len(l) /\ Len(l) \in Nat
      /\ \A i \in DOMAIN l : m[i] = l[i]
      /\ m[k] = e
  BY LinesStay
<1> HIDE DEF m
<1>2. PICK i \in DOMAIN l : SignLine(l, i, v)
  BY DEF OnLedger
<1>3. i \in DOMAIN m /\ i < k /\ SignLine(m, i, v)
  BY <1>1, <1>2 DEF SignLine
<1>4. k \in DOMAIN m /\ Activates(m, k) /\ \A j \in DOMAIN m : j <= k
  BY <1>1 DEF Activates
<1>5. Credited(m, v)
  BY <1>1, <1>3, <1>4 DEF Credited
<1>6. QED
  BY <1>5 DEF m

(* A move of the only call that is not to or from its ledger line.          *)
LEMMA ToldMoves ==
  ASSUME IInv, NEW p \in Procs, Told(pc[p], call[p]), pc[p] # "record",
         NEW label, label # "record", NEW c, Goto(p, label, c), UNCHANGED <<versions, ledger>>,
         \A v \in c.todo : OnLedger(ledger, v),
         c.prev # None => OnLedger(ledger, c.prev),
         c.doc # None /\ c.act # "sign" => OnLedger(ledger, c.doc)
  PROVE  Told(pc[p], call[p])'
<1>1. pc'[p] = label /\ call'[p] = c
  BY GotoIs
<1>2. QED
  BY <1>1 DEF Told, Signing, Activating, IsActive

(* So is a save of a document whose signature is on the ledger and which is *)
(* not made active.                                                         *)
LEMMA ToldSaves ==
  ASSUME IInv, NEW p \in Procs, Sole(pc[p], call[p]), Told(pc[p], call[p]), pc[p] # "record",
         NEW v \in Version, Save(v), v.status # "active", OnLedger(ledger, v),
         UNCHANGED ledger, pc'[p] # "record",
         NEW c, call'[p] = c,
         \A w \in c.todo : OnLedger(ledger, w),
         c.prev # None => OnLedger(ledger, c.prev),
         c.doc # None /\ c.act # "sign" => OnLedger(ledger, c.doc)
  PROVE  Told(pc[p], call[p])'
<1>1. /\ versions'[v.name] = v /\ v # None /\ v.name \in Names
      /\ \A n \in Names : n # v.name => versions'[n] = versions[n]
  BY SaveIs
<1>2. \A n \in Names : IsActive(n)' => n # v.name /\ IsActive(n)
  BY <1>1 DEF IsActive
<1>3. ASSUME NEW n \in Names, versions'[n] # None PROVE OnLedger(ledger, versions'[n])
  <2>1. CASE n = v.name
    BY <1>1, <2>1
  <2>2. CASE n # v.name
    BY <1>1, <1>3, <2>2 DEF Told, Signing
  <2>3. QED
    BY <2>1, <2>2
<1>4. ASSUME NEW n \in Names, IsActive(n)' PROVE Credited(ledger, versions'[n])
  BY <1>1, <1>2, <1>4 DEF Told, Activating
<1>5. QED
  BY <1>3, <1>4 DEF Told, Signing, Activating

LEMMA ToldStart ==
  ASSUME IInv, NEW p \in Procs, Sole(pc[p], call[p]), Told(pc[p], call[p]), Start(p)
  PROVE  Told(pc[p], call[p])'
<1>0. /\ NoCall.todo = {} /\ NoCall.prev = None /\ NoCall.doc = None
      /\ NoCall \in Call
  BY NoCallFits DEF HeldFits, NoCall
<1>1. ASSUME pc[p] = "idle", NEW n \in Names, versions[n] # None PROVE OnLedger(ledger, versions[n])
  BY <1>1 DEF Told, Signing
<1>2. ASSUME pc[p] = "idle" PROVE \A v \in Documents : OnLedger(ledger, v)
  BY <1>1, <1>2 DEF Documents, Registered
<1>3. ASSUME NEW n \in Names, NEW f \in Files[n], Register(p, n, f) PROVE Told(pc[p], call[p])'
  <2> DEFINE d == Fresh(n, f)
  <2>1. d \in Version /\ d.status # "active" /\ d.signed = None
    BY FilesAssumption DEF Fresh, Version, Statuses, IInv, TypeOK
  <2>2. OnLedger(ledger, d)
    BY <2>1 DEF OnLedger
  <2>3. Save(d) /\ pc[p] = "idle" /\ UNCHANGED <<ledger, pc, call>>
    BY <1>3 DEF Register, control
  <2>4. call[p] = NoCall
    BY <2>3 DEF IInv, TypeOK
  <2> HIDE DEF d
  <2>5. QED
    BY <1>0, <2>1, <2>2, <2>3, <2>4, ToldSaves
<1>4. ASSUME StartRollback(p) PROVE Told(pc[p], call[p])'
  <2>1. PICK spare \in IF InStatus("retired") = {} THEN {None} ELSE Newest(InStatus("retired")) :
          Begin(p, "demote", [NoCall EXCEPT !.act = "rollback", !.doc = spare, !.todo = InStatus("canary")])
    BY <1>4 DEF StartRollback
  <2>2. PICK k : k = [NoCall EXCEPT !.act = "rollback", !.doc = spare, !.todo = InStatus("canary")]
    OBVIOUS
  <2>3. k.doc = spare /\ k.todo = InStatus("canary") /\ k.prev = None
    BY <1>0, <2>2 DEF Call, NoCall
  <2>4. pc[p] = "idle" /\ Goto(p, "demote", k) /\ UNCHANGED <<versions, ledger>>
    BY <2>1, <2>2 DEF Begin
  <2>5. spare # None => spare \in Documents
    BY <2>1 DEF Newest, InStatus
  <2>6. InStatus("canary") \subseteq Documents
    BY DEF InStatus
  <2>7. QED
    BY <1>2, <2>3, <2>4, <2>5, <2>6, ToldMoves
<1>5. ASSUME NEW n \in Names, LoadPromote(p, n) PROVE Told(pc[p], call[p])'
  <2>1. PICK k : k = [NoCall EXCEPT !.act = "promote", !.name = n, !.doc = versions[n]]
    OBVIOUS
  <2>2. k.doc = versions[n] /\ k.todo = {} /\ k.prev = None
    BY <1>0, <2>1 DEF Call, NoCall
  <2>3. pc[p] = "idle" /\ Goto(p, "active", k) /\ UNCHANGED <<versions, ledger>> /\ versions[n] # None
    BY <1>5, <2>1 DEF LoadPromote, Begin, Registered
  <2>4. QED
    BY <1>1, <2>2, <2>3, ToldMoves
<1>6. ASSUME NEW n \in Names, NEW pct \in Pcts, StartCanary(p, n, pct) PROVE Told(pc[p], call[p])'
  <2>1. PICK k : k = [NoCall EXCEPT !.act = "canary", !.name = n, !.pct = pct,
                        !.todo = {v \in InStatus("canary") : v.name # n}]
    OBVIOUS
  <2>2. k.doc = None /\ k.todo = {v \in InStatus("canary") : v.name # n} /\ k.prev = None
    BY <1>0, <2>1 DEF Call, NoCall
  <2>3. pc[p] = "idle" /\ Goto(p, "demote", k) /\ UNCHANGED <<versions, ledger>>
    BY <1>6, <2>1 DEF StartCanary, Begin
  <2>4. k.todo \subseteq Documents
    BY <2>2 DEF InStatus
  <2>5. QED
    BY <1>2, <2>2, <2>3, <2>4, ToldMoves
<1>7. ASSUME NEW n \in Names, NEW by \in Signers, NEW read \in Contents \cup {None}, LoadSign(p, n, by, read)
      PROVE  Told(pc[p], call[p])'
  <2>1. PICK k : k = [NoCall EXCEPT !.act = "sign", !.name = n,
                        !.doc = [versions[n] EXCEPT !.signed = versions[n].hash, !.by = by]]
    OBVIOUS
  <2>2. k.act = "sign" /\ k.todo = {} /\ k.prev = None
    BY <1>0, <2>1 DEF Call, NoCall
  <2>3. pc[p] = "idle" /\ Goto(p, "put", k) /\ UNCHANGED <<versions, ledger>>
    BY <1>7, <2>1 DEF LoadSign, Begin
  <2>4. QED
    BY <2>2, <2>3, ToldMoves
<1>8. QED
  BY <1>3, <1>4, <1>5, <1>6, <1>7 DEF Start

LEMMA ToldStep ==
  ASSUME IInv, NEW p \in Procs, Sole(pc[p], call[p]), Told(pc[p], call[p]), Step(p), MaxLost = 0
  PROVE  Told(pc[p], call[p])'
<1> DEFINE c == call[p]
<1>0. HeldFits(pc[p], c, signatures) /\ c \in Call /\ ledger \in Seq(Entry) /\ versions \in [Names -> Version \cup {None}]
  BY DEF IInv, CallsFit, HeldFits, TypeOK
<1>a. /\ \A v \in c.todo : OnLedger(ledger, v)
      /\ c.prev # None => OnLedger(ledger, c.prev)
      /\ c.doc # None /\ c.act # "sign" => OnLedger(ledger, c.doc)
  BY DEF Told
<1>b. ASSUME pc[p] # "record", NEW n \in Names, versions[n] # None PROVE OnLedger(ledger, versions[n])
  BY <1>b DEF Told, Signing
<1>c. NoCall.todo = {} /\ NoCall.prev = None /\ NoCall.doc = None
  BY DEF NoCall
<1>d. ASSUME Return(p), UNCHANGED <<versions, ledger>>, pc[p] # "record" PROVE Told(pc[p], call[p])'
  BY <1>d, <1>c, ToldMoves DEF Return
<1>1. CASE Demote(p)
  <2>1. PICK v \in c.todo : /\ Save([v EXCEPT !.status = "candidate", !.pct = 0])
                            /\ Goto(p, "demote", [c EXCEPT !.todo = @ \ {v}])
    BY <1>1 DEF Demote
  <2>2. v \in Version
    BY <1>0 DEF Call
  <2>3. PICK d : d = [v EXCEPT !.status = "candidate", !.pct = 0]
    OBVIOUS
  <2>4. d \in Version /\ d.status # "active" /\ d.name = v.name /\ d.signed = v.signed
    BY <2>2, <2>3 DEF Version, Statuses
  <2>5. OnLedger(ledger, d)
    BY <1>a, <2>4, SameSignature
  <2>6. PICK k : k = [c EXCEPT !.todo = @ \ {v}]
    OBVIOUS
  <2>7. k.todo = c.todo \ {v} /\ k.prev = c.prev /\ k.doc = c.doc /\ k.act = c.act
    BY <1>0, <2>6 DEF Call
  <2>8. pc'[p] = "demote" /\ call'[p] = k
    BY <2>1, <2>6, GotoIs
  <2>9. Save(d) /\ pc[p] = "demote" /\ UNCHANGED ledger
    BY <1>1, <2>1, <2>3 DEF Demote
  <2>10. /\ \A w \in k.todo : OnLedger(ledger, w)
         /\ k.prev # None => OnLedger(ledger, k.prev)
         /\ k.doc # None /\ k.act # "sign" => OnLedger(ledger, k.doc)
    BY <1>a, <2>7
  <2>11. QED
    BY <2>4, <2>5, <2>8, <2>9, <2>10, ToldSaves
<1>2. CASE Demoted(p)
  BY <1>2, <1>a, ToldMoves DEF Demoted
<1>3. CASE GetCanary(p)
  <2>1. CASE Return(p)
    BY <1>3, <1>d, <2>1 DEF GetCanary
  <2>2. CASE /\ c.name \in Registered
             /\ Goto(p, "put", [c EXCEPT !.doc = [versions[c.name] EXCEPT !.status = "canary", !.pct = c.pct]])
    <3>1. PICK d : d = [versions[c.name] EXCEPT !.status = "canary", !.pct = c.pct]
      OBVIOUS
    <3>2. PICK k : k = [c EXCEPT !.doc = d]
      OBVIOUS
    <3>3. c.name \in Names /\ versions[c.name] # None /\ versions[c.name] \in Version
      BY <1>0, <2>2 DEF Registered
    <3>4. d.name = versions[c.name].name /\ d.signed = versions[c.name].signed
      BY <3>1, <3>3 DEF Version
    <3>5. pc[p] = "get" /\ UNCHANGED <<versions, ledger>>
      BY <1>3 DEF GetCanary
    <3>6. OnLedger(ledger, d)
      BY <1>b, <3>3, <3>4, <3>5, SameSignature
    <3>7. k.doc = d /\ k.todo = c.todo /\ k.prev = c.prev
      BY <1>0, <3>2 DEF Call
    <3>8. Goto(p, "put", k)
      BY <2>2, <3>1, <3>2
    <3>9. QED
      BY <1>a, <3>5, <3>6, <3>7, <3>8, ToldMoves
  <2>3. QED
    BY <1>3, <2>1, <2>2 DEF GetCanary
<1>4. CASE PutCanary(p)
  <2>1. c.doc \in Version /\ c.doc.status = "canary" /\ c.act = "canary" /\ pc[p] = "put"
    BY <1>0, <1>4 DEF PutCanary, HeldFits, Sound, Sole
  <2>2. OnLedger(ledger, c.doc)
    BY <1>a, <2>1, NoneAssumption
  <2>3. PICK v : v = c.doc
    OBVIOUS
  <2>4. Save(v) /\ Goto(p, "idle", NoCall) /\ UNCHANGED ledger
    BY <1>4, <2>3 DEF PutCanary, Return
  <2>5. pc'[p] = "idle" /\ call'[p] = NoCall
    BY <2>4, GotoIs
  <2>6. QED
    BY <1>c, <2>1, <2>2, <2>3, <2>4, <2>5, ToldSaves
<1>5. CASE PutSign(p)
  <2>1. /\ c.doc \in Version /\ c.doc.name \in Names /\ c.act = "sign" /\ c.doc.signed = c.doc.hash
        /\ versions[c.doc.name] # None
        /\ c.doc.status = versions[c.doc.name].status
        /\ c.doc.hash = versions[c.doc.name].hash
        /\ pc[p] = "put"
    BY <1>0, <1>5 DEF PutSign, HeldFits, BeingSigned, Sole, Version
  <2>2. Save(c.doc) /\ pc'[p] = "record" /\ call'[p] = c /\ UNCHANGED ledger
    BY <1>5, GotoIs DEF PutSign
  <2>3. /\ versions'[c.doc.name] = c.doc /\ c.doc # None
        /\ \A n \in Names : n # c.doc.name => versions'[n] = versions[n]
    BY <2>1, <2>2, SaveIs
  <2>4. ASSUME NEW n \in Names, IsActive(n)' PROVE Credited(ledger, versions'[n])
    <3>1. CASE n # c.doc.name
      BY <2>1, <2>3, <2>4, <3>1 DEF Told, Activating, IsActive
    <3>2. CASE n = c.doc.name
      <4>1. IsActive(n)
        BY <2>1, <2>3, <2>4, <3>2 DEF IsActive
      <4>2. Sound(versions[n], signatures)
        BY <4>1 DEF IInv, DocumentsSound, IsActive
      <4>3. versions[n].signed = c.doc.signed
        BY <2>1, <3>2, <4>1, <4>2 DEF Sound, Live, IsActive
      <4>4. versions[n].name = c.doc.name
        BY <2>1, <3>2 DEF Sole
      <4>5. Credited(ledger, versions[n])
        BY <2>1, <4>1 DEF Told, Activating
      <4>6. QED
        BY <2>3, <3>2, <4>3, <4>4, <4>5, SameSignature
    <3>3. QED
      BY <3>1, <3>2
  <2>5. ASSUME NEW n \in Names, versions'[n] # None, c.doc.name # n PROVE OnLedger(ledger, versions'[n])
    BY <1>b, <2>1, <2>3, <2>5
  <2>6. QED
    BY <1>a, <2>1, <2>2, <2>3, <2>4, <2>5 DEF Told, Signing, Activating
<1>6. CASE ReadActive(p)
  <2>1. UNCHANGED <<versions, ledger>> /\ pc[p] = "active"
    BY <1>6 DEF ReadActive
  <2>2. CASE Goto(p, "activate", c)
    BY <1>a, <2>1, <2>2, ToldMoves
  <2>3. CASE \E prev \in Newest(InStatus("active")) :
               Goto(p, "retire", [c EXCEPT !.prev = prev,
                      !.changed = ChangedMetrics(disk[prev.path], disk[c.doc.path])])
    <3>1. PICK prev \in Documents :
               Goto(p, "retire", [c EXCEPT !.prev = prev,
                      !.changed = ChangedMetrics(disk[prev.path], disk[c.doc.path])])
      BY <2>3 DEF Newest, InStatus
    <3>2. PICK k : k = [c EXCEPT !.prev = prev, !.changed = ChangedMetrics(disk[prev.path], disk[c.doc.path])]
      OBVIOUS
    <3>3. k.prev = prev /\ k.doc = c.doc /\ k.todo = c.todo /\ k.act = c.act
      BY <1>0, <3>2 DEF Call
    <3>4. Goto(p, "retire", k)
      BY <3>1, <3>2
    <3>5. OnLedger(ledger, prev)
      BY <1>b, <2>1 DEF Documents, Registered
    <3>6. QED
      BY <1>a, <2>1, <3>3, <3>4, <3>5, ToldMoves
  <2>4. QED
    BY <1>6, <2>2, <2>3 DEF ReadActive
<1>7. CASE Retire(p)
  <2>1. c.prev \in Version /\ c.prev # None /\ pc[p] = "retire"
    BY <1>0, <1>7, NoneAssumption DEF Retire, HeldFits, Approved, Sound
  <2>2. PICK d : d = [c.prev EXCEPT !.status = "retired"]
    OBVIOUS
  <2>3. d \in Version /\ d.status # "active" /\ d.name = c.prev.name /\ d.signed = c.prev.signed
    BY <2>1, <2>2 DEF Version, Statuses
  <2>4. OnLedger(ledger, d)
    BY <1>a, <2>1, <2>3, SameSignature
  <2>5. Save(d) /\ UNCHANGED ledger /\ pc'[p] = "activate" /\ call'[p] = c
    BY <1>7, <2>2, GotoIs DEF Retire
  <2>6. PICK k : k = c
    OBVIOUS
  <2>7. QED
    BY <1>a, <2>1, <2>3, <2>4, <2>5, <2>6, ToldSaves
<1>8. CASE CheckActive(p)
  <2>1. CASE Return(p)
    BY <1>8, <1>d, <2>1 DEF CheckActive
  <2>2. CASE Goto(p, "activate", c)
    BY <1>a, <1>8, <2>2, ToldMoves DEF CheckActive
  <2>3. QED
    BY <1>8, <2>1, <2>2 DEF CheckActive
<1>9. CASE LoseActive(p)
  BY <1>9 DEF LoseActive, IInv, TypeOK
<1>10. CASE Activate(p)
  <2>1. /\ c.doc \in Version /\ c.doc # None /\ c.act # "sign" /\ pc[p] = "activate"
        /\ \A n \in Names : ~IsActive(n)
    BY <1>0, <1>10, NoneAssumption DEF Activate, HeldFits, Approved, Sound, Sole
  <2>2. PICK d : d = [c.doc EXCEPT !.status = "active", !.pct = IF c.act = "promote" THEN 0 ELSE @]
    OBVIOUS
  <2>3. d \in Version /\ d.name = c.doc.name /\ d.signed = c.doc.signed
    BY <2>1, <2>2 DEF Version, Statuses
  <2>4. Save(d) /\ pc'[p] = "record" /\ call'[p] = c /\ UNCHANGED ledger
    BY <1>10, <2>2, GotoIs DEF Activate
  <2>5. /\ versions'[d.name] = d /\ d # None /\ d.name \in Names
        /\ \A n \in Names : n # d.name => versions'[n] = versions[n]
    BY <2>3, <2>4, SaveIs
  <2>6. OnLedger(ledger, d)
    BY <1>a, <2>1, <2>3, SameSignature
  <2>7. ASSUME NEW n \in Names, versions'[n] # None PROVE OnLedger(ledger, versions'[n])
    BY <1>b, <2>1, <2>5, <2>6, <2>7
  <2>8. \A n \in Names : IsActive(n)' => n = c.doc.name
    BY <2>1, <2>3, <2>5 DEF IsActive
  <2>9. versions'[c.doc.name] # None /\ versions'[c.doc.name].signed = c.doc.signed
    BY <2>3, <2>5
  <2>10. QED
    BY <1>a, <2>1, <2>4, <2>7, <2>8, <2>9 DEF Told, Signing, Activating
<1>11. CASE Record(p)
  <2>1. PICK e : e = [act |-> c.act, name |-> c.doc.name, by |-> c.doc.by,
                      from |-> IF c.prev = None THEN None ELSE c.prev.hash,
                      to |-> c.doc.signed, changed |-> c.changed]
    OBVIOUS
  <2>2. /\ pc[p] = "record" /\ ledger' = Append(ledger, e) /\ UNCHANGED versions
        /\ pc'[p] = "idle" /\ call'[p] = NoCall
    BY <1>11, <2>1, GotoIs DEF Record, Return
  <2>3. ledger' \in Seq(Entry)
    BY <1>11, NextIInv DEF Next, Step, IInv, TypeOK
  <2>4. e \in Entry
    <3>1. LET m == Append(ledger, e) IN m[Len(m)] = e /\ Len(m) = Len(ledger) + 1 /\ Len(ledger) \in Nat
      BY <1>0
    <3>2. QED
      BY <2>2, <2>3, <3>1
  <2>5. e.act = c.act /\ e.name = c.doc.name /\ e.to = c.doc.signed
    BY <2>1
  <2>6. /\ versions[c.doc.name] # None /\ versions[c.doc.name].signed = c.doc.signed
    BY <2>2 DEF Told
  <2>7. \A n \in Names : versions[n] # None => versions[n].name = n
    BY DEF Sole
  <2>8. CASE c.act = "sign"
    <3>1. ASSUME NEW n \in Names, versions[n] # None PROVE OnLedger(ledger', versions[n])
      <4>1. CASE c.doc.name # n
        BY <1>0, <2>2, <2>4, <3>1, <4>1, OnLedgerStays DEF Told, Signing
      <4>2. CASE c.doc.name = n
        <5>1. /\ Len(ledger) + 1 \in DOMAIN ledger' /\ ledger'[Len(ledger) + 1] = e
          BY <1>0, <2>2, <2>4, LinesStay
        <5>2. SignLine(ledger', Len(ledger) + 1, versions[n])
          BY <2>5, <2>6, <2>7, <2>8, <3>1, <4>2, <5>1 DEF SignLine
        <5>3. QED
          BY <5>1, <5>2 DEF OnLedger
      <4>3. QED
        BY <4>1, <4>2
    <3>2. ASSUME NEW n \in Names, IsActive(n) PROVE Credited(ledger', versions[n])
      BY <1>0, <2>2, <2>4, <2>5, <2>8, <3>2, CreditedStays DEF Told, Activating
    <3>3. QED
      BY <1>c, <2>2, <3>1, <3>2 DEF Told, Signing, Activating, IsActive
  <2>9. CASE c.act # "sign"
    <3>1. ASSUME NEW n \in Names, versions[n] # None PROVE OnLedger(ledger', versions[n])
      BY <1>0, <2>2, <2>4, <2>9, <3>1, OnLedgerStays DEF Told, Signing
    <3>2. ASSUME NEW n \in Names, IsActive(n) PROVE Credited(ledger', versions[n])
      <4>1. n = c.doc.name /\ OnLedger(ledger, versions[n])
        BY <2>2, <2>9, <3>2 DEF Told, Signing, Activating, IsActive
      <4>2. versions[n].signed # None
        BY <3>2 DEF IInv, DocumentsSound, Sound, Live, IsActive
      <4>3. e.act # "sign" /\ e.name = versions[n].name /\ e.to = versions[n].signed
        BY <2>5, <2>6, <2>7, <2>9, <3>2, <4>1 DEF IsActive
      <4>4. QED
        BY <1>0, <2>2, <2>4, <4>1, <4>2, <4>3, CreditedBy
    <3>3. QED
      BY <1>c, <2>2, <3>1, <3>2 DEF Told, Signing, Activating, IsActive
  <2>10. QED
    BY <2>8, <2>9
<1>12. QED
  BY <1>1, <1>2, <1>3, <1>4, <1>5, <1>6, <1>7, <1>8, <1>9, <1>10, <1>11 DEF Step

LEMMA InitTold == Init => ToldInv
  BY DEF Init, ToldInv, Told, Signing, Activating, IsActive, NoCall

LEMMA NextTold ==
  ASSUME IInv, SoleInv, ToldInv, OneAtATime, MaxLost = 0, [Next]_vars
  PROVE  ToldInv'
<1> SUFFICES ASSUME NEW p \in Procs, faults' = 0 PROVE Told(pc[p], call[p])'
  BY DEF ToldInv
<1>0. Sole(pc[p], call[p]) /\ \A q \in Procs : q = p
  BY DEF SoleInv, OneAtATime
<1>1. CASE faults = 0 /\ UNCHANGED <<versions, ledger, control>>
  <2>1. Told(pc[p], call[p])
    BY <1>1 DEF ToldInv
  <2>2. QED
    BY <1>1, <2>1 DEF Told, Signing, Activating, IsActive, control
<1>2. ASSUME NEW f \in Paths, NEW c \in Contents, Edit(f, c) PROVE Told(pc[p], call[p])'
  BY <1>1, <1>2 DEF Edit
<1>3. CASE Start(p)
  <2>1. UNCHANGED faults
    BY <1>3 DEF Start, Register, StartRollback, LoadPromote, StartCanary, LoadSign, Begin
  <2>2. Told(pc[p], call[p])
    BY <2>1 DEF ToldInv
  <2>3. QED
    BY <1>0, <1>3, <2>2, ToldStart
<1>4. CASE Step(p)
  <2>1. UNCHANGED faults
    BY <1>4 DEF Step, Demote, Demoted, GetCanary, PutCanary, PutSign, ReadActive, Retire, CheckActive,
                LoseActive, Activate, Record
  <2>2. Told(pc[p], call[p])
    BY <2>1 DEF ToldInv
  <2>3. QED
    BY <1>0, <1>4, <2>2, ToldStep
<1>5. CASE Die(p)
  BY <1>5 DEF Die, IInv, TypeOK
<1>6. QED
  BY <1>0, <1>1, <1>2, <1>3, <1>4, <1>5 DEF Next, vars, control

(* The latest activation of a ledger is the one that credits a version.     *)
LEMMA LatestIs ==
  ASSUME ledger \in Seq(Entry), NEW v, Credited(ledger, v)
  PROVE  /\ Activations # {}
         /\ ledger[LatestActivation].name = v.name
         /\ ledger[LatestActivation].to = v.signed
         /\ \E i \in DOMAIN ledger : /\ i < LatestActivation
                                     /\ ledger[i].act = "sign"
                                     /\ ledger[i].name = v.name
                                     /\ ledger[i].to = v.signed
<1>1. PICK k \in DOMAIN ledger :
             /\ Activates(ledger, k)
             /\ \A j \in DOMAIN ledger : Activates(ledger, j) => j <= k
             /\ ledger[k].name = v.name /\ ledger[k].to = v.signed
             /\ \E i \in DOMAIN ledger : i < k /\ SignLine(ledger, i, v)
  BY DEF Credited
<1>2. k \in Activations /\ \A j \in Activations : j <= k
  BY <1>1 DEF Activations, Activates
<1>3. LatestActivation \in Activations /\ \A j \in Activations : j <= LatestActivation
  BY <1>2 DEF LatestActivation
<1>4. Activations \subseteq Nat
  BY DEF Activations
<1>5. LatestActivation = k
  BY <1>2, <1>3, <1>4
<1>6. QED
  BY <1>1, <1>2, <1>5 DEF SignLine

(* Where the calls run one after another and none dies, the ledger accounts *)
(* for what is live whenever no call is in progress: the active version is  *)
(* the one of the last promotion or rollback, at the hash that went live,   *)
(* and an earlier line is the signature it stands on.                       *)
THEOREM ActiveIsAccountedFor ==
  ASSUME OneAtATime, MaxLost = 0
  PROVE  Spec => []ActiveIsLedgered
<1>1. Init => IInv /\ SoleInv /\ ToldInv
  BY InitIInv, InitSole, InitTold
<1>2. IInv /\ SoleInv /\ ToldInv /\ [Next]_vars => (IInv /\ SoleInv /\ ToldInv)'
  BY NextIInv, NextSole, NextTold
<1>3. ASSUME IInv, SoleInv, ToldInv PROVE ActiveIsLedgered
  <2> SUFFICES ASSUME Quiet, faults = 0, NEW v \in InStatus("active") PROVE Credited(ledger, v)
    BY <1>3, LatestIs DEF ActiveIsLedgered, IInv, TypeOK
  <2>1. PICK p : p \in Procs
    BY DEF OneAtATime
  <2>2. Sole(pc[p], call[p]) /\ Told(pc[p], call[p]) /\ pc[p] = "idle"
    BY <1>3, <2>1 DEF SoleInv, ToldInv, Quiet
  <2>3. v.name \in Names /\ v = versions[v.name] /\ IsActive(v.name)
    BY <1>3, <2>2, ActiveIs DEF Sole
  <2>4. QED
    BY <2>2, <2>3 DEF Told, Activating
<1>4. QED
  BY <1>1, <1>2, <1>3, PTL DEF Spec

=============================================================================
