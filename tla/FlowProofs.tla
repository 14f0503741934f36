------------------------------ MODULE FlowProofs ------------------------------
(***************************************************************************)
(* Theorems about Flow for any flow, runs, calls and failures.  That it is *)
(* well typed, that no gate is passed and that journals tell no lies holds *)
(* however calls overlap.  What a status says, what a rollback restores and*)
(* that a journal is complete is shown of calls that overlap on different  *)
(* runs only, as nothing in the code keeps two calls on one run apart.     *)
(***************************************************************************)
EXTENDS Flow, FiniteSetTheorems, TLAPS

(* Up to a step, what every `mutate` changed had been read before.          *)
Snapshotted(doc, n) ==
  \A k \in 1 .. n : Steps[k].kind = "mutate" =>
    \A c \in Touched(k) : doc.before[k][c] # None

(* What each label says of what its call holds.                             *)
Fit(label, c) ==
  /\ label # "idle" => c.run \in Runs /\ Snapshotted(c.doc, c.doc.cursor - 1)
  /\ label \in {"save", "step", "apply"} => c.doc.status = "running"
  /\ label = "apply" =>
       /\ c.doc.cursor \in Positions /\ Steps[c.doc.cursor].kind = "mutate"
       /\ Snapshotted(c.doc, c.doc.cursor)
  /\ label = "undo" => c.ends \in {"rejected", "rolled_back", "failed"} /\ c.at < c.doc.cursor

LabelsFit == \A p \in Procs : Fit(pc[p], call[p])

(* What the status of a stored document says of the rest of it.             *)
Sound(doc) ==
  /\ Snapshotted(doc, doc.cursor - 1)
  /\ doc.status = "awaiting_approval" =>
       doc.cursor \in Positions /\ Steps[doc.cursor].kind = "human"
  /\ doc.status = "completed" => doc.cursor = Len(Steps) + 1

DocsSound == \A r \in Runs : docs[r] # None => Sound(docs[r])

Typed == TypeOK /\ LabelsFit /\ DocsSound

(* Behind the cursor of every document, stored or held, the human steps     *)
(* were approved.                                                           *)
Approved(doc, entries) ==
  \A k \in 1 .. doc.cursor - 1 :
    Steps[k].kind = "human" => \E j \in DOMAIN entries : entries[j] = Entry(k, "approved")

CursorsApproved ==
  /\ \A r \in Runs : docs[r] # None => Approved(docs[r], log[r])
  /\ \A p \in Procs : pc[p] # "idle" => Approved(call[p].doc, log[call[p].run])

(* One call at a time works on a run; a run that was never saved has not    *)
(* begun.                                                                   *)
Alone ==
  \A p, q \in Procs : pc[p] # "idle" /\ pc[q] # "idle" /\ call[p].run = call[q].run => p = q

Unsaved ==
  \A r \in Runs : docs[r] = None =>
    /\ log[r] = <<>>
    /\ \A p \in Working(r) : pc[p] = "save" /\ call[p].doc = NewRun

(* The steps whose effects stand, while a call works on the run.            *)
Midway(r, p) ==
  IF pc[p] = "undo" THEN Standing(r) \subseteq Automatic(call[p].at)
  ELSE Standing(r) = Automatic(call[p].doc.cursor - 1)

Told(r) ==
  Standing(r) = CASE docs[r].status = "completed" -> Automatic(Len(Steps))
                  [] docs[r].status = "awaiting_approval" -> Automatic(docs[r].cursor - 1)
                  [] OTHER -> {}

EffectsOf(r) ==
  r \notin broken =>
    /\ Resting(r) => Told(r)
    /\ \A p \in Working(r) : Midway(r, p)

EffectsKnown == \A r \in Runs : EffectsOf(r)

-----------------------------------------------------------------------------
(* The constants.                                                           *)

LEMMA StepsType ==
  /\ Len(Steps) \in Nat /\ Positions = 1 .. Len(Steps)
  /\ \A k \in Positions :
       /\ Steps[k] \in Step
       /\ Steps[k].kind \in Kinds
       /\ Steps[k].do \in Seq(Statement)
       /\ Steps[k].undo \in Seq(Statement)
       /\ \A j \in DOMAIN Steps[k].do :
            /\ Steps[k].do[j][1] \in Cells
            /\ Steps[k].do[j][2] \in Values \cup {Null}
            /\ Steps[k].do[j][1] \in Touched(k)
       /\ Touched(k) \subseteq Cells
<1>1. Len(Steps) \in Nat /\ Positions = 1 .. Len(Steps)
  BY StepsAssumption DEF Positions
<1>2. ASSUME NEW k \in Positions
      PROVE  Steps[k] \in Step
  BY StepsAssumption, <1>2 DEF Positions
<1>3. ASSUME NEW k \in Positions
      PROVE  Steps[k].do \in Seq(Statement) /\ Steps[k].undo \in Seq(Statement)
             /\ Steps[k].kind \in Kinds
  BY <1>2 DEF Step
<1>4. ASSUME NEW k \in Positions, NEW j \in DOMAIN Steps[k].do
      PROVE  Steps[k].do[j] \in Statement
  BY <1>3
<1>5. ASSUME NEW k \in Positions, NEW j \in DOMAIN Steps[k].do
      PROVE  /\ Steps[k].do[j][1] \in Cells
             /\ Steps[k].do[j][2] \in Values \cup {Null}
             /\ Steps[k].do[j][1] \in Touched(k)
  BY <1>4 DEF Statement, Touched
<1>6. ASSUME NEW k \in Positions
      PROVE  Touched(k) \subseteq Cells
  BY <1>5 DEF Touched
<1>7. QED
  BY <1>1, <1>2, <1>3, <1>5, <1>6

LEMMA NewRunType == NewRun \in Run /\ NoCall \in Call /\ NewRun.status = "running"
<1>1. 1 \in 1 .. Len(Steps) + 1 /\ 0 \in 0 .. Len(Steps)
  BY StepsType
<1>2. [k \in Positions |-> NoImage] \in [Positions -> Image]
  BY DEF NoImage, Image
<1>3. <<>> \in Seq(JournalEntry)
  OBVIOUS
<1>4. NewRun \in Run
  BY <1>1, <1>2, <1>3 DEF NewRun, Run, Statuses
<1>5. NoCall \in Call
  BY <1>1, <1>4 DEF NoCall, Call, Statuses
<1>6. QED
  BY <1>4, <1>5 DEF NewRun

LEMMA NoneIsNoRun ==
  /\ \A d \in Run : d # None
  /\ \A r \in Runs : r # None
  /\ \A v \in Values \cup {Null} : v # None
  BY RunsAssumption, ValuesAssumption

(* Of some positions there is a last one.                                   *)
LEMMA LastOf ==
  ASSUME NEW n \in Nat, NEW S, S \subseteq 1 .. n, S # {}
  PROVE  \E k \in S : \A j \in S : j <= k
<1> DEFINE R == OpToRel(<, Nat)
           T == {n - k : k \in S}
<1>1. IsWellFoundedOn(R, Nat)
  BY NatLessThanWellFounded
<1>2. T \subseteq Nat /\ T # {}
  <2> HIDE DEF R
  <2>1. \A k \in S : n - k \in Nat
    OBVIOUS
  <2>2. QED
    BY <2>1
<1>3. PICK m \in T : \A x \in T : ~(<<x, m>> \in R)
  <2> HIDE DEF R, T
  <2>1. PICK x : x \in T
    BY <1>2
  <2>2. QED
    BY <1>1, <1>2, <2>1, WFMin
<1>4. \A x, y \in Nat : <<x, y>> \in R <=> x < y
  BY DEF OpToRel
<1>5. PICK k \in S : m = n - k
  BY <1>3
<1>6. ASSUME NEW j \in S PROVE j <= k
  <2>1. n - j \in T
    OBVIOUS
  <2>2. ~(<<n - j, m>> \in R)
    BY <2>1, <1>3
  <2>3. n - j \in Nat /\ m \in Nat
    BY <2>1, <1>2, <1>3
  <2> HIDE DEF R, T
  <2>4. ~(n - j < m)
    BY <2>2, <2>3, <1>4
  <2>5. QED
    BY <2>4, <1>5
<1>7. QED
  BY <1>6

(* Statements leave the cells they do not name, and set the others to what  *)
(* one of them says.                                                        *)
LEMMA WrittenCells ==
  ASSUME NEW w, NEW statements, NEW n \in Nat, NEW c \in Cells
  PROVE  \/ /\ \A k \in 1 .. n : statements[k][1] # c
            /\ Written(w, statements, n)[c] = w[c]
         \/ \E k \in 1 .. n :
              statements[k][1] = c /\ Written(w, statements, n)[c] = statements[k][2]
<1> DEFINE sets == {k \in 1 .. n : statements[k][1] = c}
<1>1. Written(w, statements, n)[c]
        = IF sets = {} THEN w[c]
          ELSE statements[CHOOSE k \in sets : \A j \in sets : j <= k][2]
  BY DEF Written
<1>2. CASE sets = {}
  BY <1>1, <1>2
<1>3. CASE sets # {}
  <2>1. \E k \in sets : \A j \in sets : j <= k
    BY <1>3, LastOf
  <2>2. (CHOOSE k \in sets : \A j \in sets : j <= k) \in sets
    BY <2>1
  <2>3. QED
    BY <1>1, <1>3, <2>2
<1>4. QED
  BY <1>2, <1>3

LEMMA WrittenType ==
  ASSUME NEW w \in [Cells -> Values \cup {Null}], NEW statements, NEW n \in Nat,
         \A k \in 1 .. n : statements[k][2] \in Values \cup {Null}
  PROVE  Written(w, statements, n) \in [Cells -> Values \cup {Null}]
<1>1. \A c \in Cells : Written(w, statements, n)[c] \in Values \cup {Null}
  BY WrittenCells
<1>2. Written(w, statements, n) = [c \in Cells |-> Written(w, statements, n)[c]]
  BY DEF Written
<1>3. QED
  BY <1>1, <1>2

(* What a step does, some of it, and what undoes it.                        *)
LEMMA DoneType ==
  ASSUME NEW w \in [Cells -> Values \cup {Null}], NEW k \in Positions, NEW n \in 0 .. Len(Steps[k].do)
  PROVE  Written(w, Steps[k].do, n) \in [Cells -> Values \cup {Null}]
<1>1. n \in Nat /\ \A j \in 1 .. n : j \in DOMAIN Steps[k].do
  BY StepsType
<1>2. \A j \in 1 .. n : Steps[k].do[j][2] \in Values \cup {Null}
  BY <1>1, StepsType
<1>3. QED
  BY <1>1, <1>2, WrittenType

LEMMA UndoingType ==
  ASSUME NEW doc \in Run, NEW k \in Positions, NEW m \in Nat, k <= m, Snapshotted(doc, m)
  PROVE  /\ Len(Undoing(doc, k)) \in Nat
         /\ DOMAIN Undoing(doc, k) = 1 .. Len(Undoing(doc, k))
         /\ \A j \in DOMAIN Undoing(doc, k) :
              Undoing(doc, k)[j][1] \in Cells /\ Undoing(doc, k)[j][2] \in Values \cup {Null}
<1>1. CASE Steps[k].kind = "mutate"
  <2>1. Undoing(doc, k)
          = [j \in DOMAIN Steps[k].do |-> <<Steps[k].do[j][1], doc.before[k][Steps[k].do[j][1]]>>]
    BY <1>1 DEF Undoing
  <2>2. DOMAIN Steps[k].do = 1 .. Len(Steps[k].do) /\ Len(Steps[k].do) \in Nat
    BY StepsType
  <2>3. DOMAIN Undoing(doc, k) = 1 .. Len(Steps[k].do)
    BY <2>1, <2>2
  <2>4. Undoing(doc, k) \in Seq(Cells \X (Values \cup {Null, None}))
    <3>1. doc.before[k] \in [Cells -> Values \cup {None}]
      BY DEF Run, Image
    <3>2. \A j \in DOMAIN Steps[k].do :
            <<Steps[k].do[j][1], doc.before[k][Steps[k].do[j][1]]>>
              \in Cells \X (Values \cup {Null, None})
      BY <3>1, StepsType
    <3>3. QED
      BY <2>1, <2>2, <3>2
  <2>5. Len(Undoing(doc, k)) \in Nat /\ DOMAIN Undoing(doc, k) = 1 .. Len(Undoing(doc, k))
    BY <2>4
  <2>6. k \in 1 .. m
    BY StepsType
  <2>7. ASSUME NEW j \in DOMAIN Undoing(doc, k)
        PROVE  Undoing(doc, k)[j][1] \in Cells /\ Undoing(doc, k)[j][2] \in Values \cup {Null}
    <3>1. j \in DOMAIN Steps[k].do
      BY <2>2, <2>3
    <3>2. Steps[k].do[j][1] \in Touched(k) /\ Steps[k].do[j][1] \in Cells
      BY <3>1, StepsType
    <3>3. doc.before[k][Steps[k].do[j][1]] # None
      BY <3>2, <2>6, <1>1 DEF Snapshotted
    <3>4. doc.before[k][Steps[k].do[j][1]] \in Values \cup {Null, None}
      BY <3>2 DEF Run, Image
    <3>5. Undoing(doc, k)[j] = <<Steps[k].do[j][1], doc.before[k][Steps[k].do[j][1]]>>
      BY <2>1, <3>1
    <3>6. QED
      BY <3>2, <3>3, <3>4, <3>5
  <2>8. QED
    BY <2>5, <2>7
<1>2. CASE Steps[k].kind # "mutate"
  <2>1. Undoing(doc, k) = Steps[k].undo /\ Steps[k].undo \in Seq(Statement)
    BY <1>2, StepsType DEF Undoing
  <2>2. \A j \in DOMAIN Undoing(doc, k) : Undoing(doc, k)[j] \in Statement
    BY <2>1
  <2>3. QED
    BY <2>1, <2>2 DEF Statement
<1>3. QED
  BY <1>1, <1>2

-----------------------------------------------------------------------------
(* The records stay what they are.                                          *)

Whats == {"done", "compensated", "failed", "approved", "rejected"}

LEMMA EntryType ==
  ASSUME NEW k \in Positions, NEW what \in Whats
  PROVE  Entry(k, what) \in JournalEntry
  BY DEF Entry, JournalEntry, Whats

LEMMA RecordedType ==
  ASSUME NEW doc \in Run, NEW k \in Positions, NEW what \in Whats
  PROVE  /\ Recorded(doc, k, what) \in Run
         /\ Recorded(doc, k, what).status = doc.status
         /\ Recorded(doc, k, what).cursor = doc.cursor
         /\ Recorded(doc, k, what).before = doc.before
         /\ Recorded(doc, k, what).journal = Append(doc.journal, Entry(k, what))
<1>1. Append(doc.journal, Entry(k, what)) \in Seq(JournalEntry)
  BY EntryType DEF Run
<1>2. QED
  BY <1>1 DEF Recorded, Run

LEMMA AdvancedType ==
  ASSUME NEW doc \in Run, NEW k \in Positions, NEW what \in Whats
  PROVE  /\ Advanced(doc, k, what) \in Run
         /\ Advanced(doc, k, what).status = doc.status
         /\ Advanced(doc, k, what).cursor = k + 1
         /\ Advanced(doc, k, what).before = doc.before
         /\ Advanced(doc, k, what).journal = Append(doc.journal, Entry(k, what))
<1>1. k + 1 \in 1 .. Len(Steps) + 1
  BY StepsType
<1>2. QED
  BY <1>1, RecordedType DEF Advanced, Run

LEMMA StatusType ==
  ASSUME NEW doc \in Run, NEW status \in Statuses
  PROVE  /\ [doc EXCEPT !.status = status] \in Run
         /\ [doc EXCEPT !.status = status].status = status
         /\ [doc EXCEPT !.status = status].cursor = doc.cursor
         /\ [doc EXCEPT !.status = status].before = doc.before
         /\ [doc EXCEPT !.status = status].journal = doc.journal
  BY DEF Run

LEMMA CallType ==
  ASSUME NEW c \in Call
  PROVE  /\ c.run \in Runs \cup {None} /\ c.doc \in Run /\ c.ends \in Statuses
         /\ c.at \in 0 .. Len(Steps) /\ c.doc.cursor \in 1 .. Len(Steps) + 1
         /\ \A d \in Run : /\ [c EXCEPT !.doc = d] \in Call
                           /\ [c EXCEPT !.doc = d].run = c.run
                           /\ [c EXCEPT !.doc = d].doc = d
                           /\ [c EXCEPT !.doc = d].at = c.at
                           /\ [c EXCEPT !.doc = d].ends = c.ends
  BY DEF Call, Run

LEMMA HappensType ==
  ASSUME Typed, NEW r \in Runs, NEW k \in Positions, NEW what \in Whats, Happens(r, k, what)
  PROVE  /\ log' \in [Runs -> Seq(JournalEntry)]
         /\ log'[r] = Append(log[r], Entry(k, what))
         /\ \A s \in Runs \ {r} : log'[s] = log[s]
<1>1. log \in [Runs -> Seq(JournalEntry)]
  BY DEF Typed, TypeOK
<1>2. Append(log[r], Entry(k, what)) \in Seq(JournalEntry)
  BY <1>1, EntryType
<1>3. QED
  BY <1>1, <1>2 DEF Happens

(* A call goes on or returns.                                               *)
LEMMA GotoTyped ==
  ASSUME Typed, NEW p \in Procs, NEW label \in Labels \ {"idle"}, NEW c \in Call,
         Fit(label, c), Goto(p, label, c)
  PROVE  /\ pc' \in [Procs -> Labels]
         /\ call' \in [Procs -> Call]
         /\ \A q \in Procs : pc'[q] = "idle" <=> call'[q] = NoCall
         /\ LabelsFit'
         /\ \A q \in Procs : pc'[q] = IF q = p THEN label ELSE pc[q]
         /\ \A q \in Procs : call'[q] = IF q = p THEN c ELSE call[q]
<1>1. /\ pc' \in [Procs -> Labels]
      /\ call' \in [Procs -> Call]
      /\ \A q \in Procs : pc'[q] = IF q = p THEN label ELSE pc[q]
      /\ \A q \in Procs : call'[q] = IF q = p THEN c ELSE call[q]
  BY DEF Typed, TypeOK, Goto
<1>2. c # NoCall
  BY NoneIsNoRun DEF Fit, NoCall
<1>3. \A q \in Procs : pc'[q] = "idle" <=> call'[q] = NoCall
  BY <1>1, <1>2 DEF Typed, TypeOK
<1>4. \A q \in Procs : Fit(pc'[q], call'[q])
  BY <1>1 DEF Typed, LabelsFit
<1>5. QED
  BY <1>1, <1>3, <1>4 DEF LabelsFit

LEMMA ReturnTyped ==
  ASSUME Typed, NEW p \in Procs, Return(p)
  PROVE  /\ pc' \in [Procs -> Labels]
         /\ call' \in [Procs -> Call]
         /\ \A q \in Procs : pc'[q] = "idle" <=> call'[q] = NoCall
         /\ LabelsFit'
         /\ \A q \in Procs : pc'[q] = IF q = p THEN "idle" ELSE pc[q]
         /\ \A q \in Procs : call'[q] = IF q = p THEN NoCall ELSE call[q]
<1>1. NoCall \in Call /\ "idle" \in Labels
  BY NewRunType DEF Labels
<1>2. /\ pc' \in [Procs -> Labels]
      /\ call' \in [Procs -> Call]
      /\ \A q \in Procs : pc'[q] = IF q = p THEN "idle" ELSE pc[q]
      /\ \A q \in Procs : call'[q] = IF q = p THEN NoCall ELSE call[q]
  BY <1>1 DEF Typed, TypeOK, Goto, Return
<1>3. \A q \in Procs : pc'[q] = "idle" <=> call'[q] = NoCall
  BY <1>2 DEF Typed, TypeOK
<1>4. Fit("idle", NoCall)
  BY DEF Fit
<1>5. \A q \in Procs : Fit(pc'[q], call'[q])
  BY <1>2, <1>4 DEF Typed, LabelsFit
<1>6. QED
  BY <1>2, <1>3, <1>5 DEF LabelsFit

LEMMA GotoIs ==
  ASSUME Typed, NEW p \in Procs, NEW label, NEW c, Goto(p, label, c)
  PROVE  /\ pc'[p] = label /\ call'[p] = c
         /\ \A q \in Procs \ {p} : pc'[q] = pc[q] /\ call'[q] = call[q]
  BY DEF Typed, TypeOK, Goto

(* A document is stored.                                                    *)
LEMMA StoreIs ==
  ASSUME Typed, NEW r \in Runs, NEW d, docs' = [docs EXCEPT ![r] = d]
  PROVE  docs'[r] = d /\ \A s \in Runs \ {r} : docs'[s] = docs[s]
  BY DEF Typed, TypeOK

LEMMA StoreTyped ==
  ASSUME Typed, NEW r \in Runs, NEW d \in Run, Sound(d), docs' = [docs EXCEPT ![r] = d]
  PROVE  docs' \in [Runs -> Run \cup {None}] /\ DocsSound'
<1>1. docs' \in [Runs -> Run \cup {None}]
  BY DEF Typed, TypeOK
<1>2. \A s \in Runs : docs'[s] = IF s = r THEN d ELSE docs[s]
  BY DEF Typed, TypeOK
<1>3. \A s \in Runs : docs'[s] # None => Sound(docs'[s])
  BY <1>2 DEF Typed, DocsSound
<1>4. QED
  BY <1>1, <1>3 DEF DocsSound

(* Who works holds a run and its document.                                  *)
LEMMA AtWorkHolds ==
  ASSUME Typed, NEW p \in Procs, pc[p] # "idle"
  PROVE  /\ call[p] \in Call /\ call[p].run \in Runs /\ call[p].doc \in Run
         /\ call[p].doc.cursor \in 1 .. Len(Steps) + 1 /\ call[p].at \in 0 .. Len(Steps)
         /\ Fit(pc[p], call[p]) /\ Snapshotted(call[p].doc, call[p].doc.cursor - 1)
<1>1. call[p] \in Call /\ Fit(pc[p], call[p])
  BY DEF Typed, TypeOK, LabelsFit
<1>2. QED
  BY <1>1, CallType DEF Fit

-----------------------------------------------------------------------------
(* Type correctness.                                                        *)

LEMMA InitTyped == Init => Typed
<1> SUFFICES ASSUME Init PROVE Typed
  OBVIOUS
<1>1. NoCall \in Call /\ "idle" \in Labels
  BY NewRunType DEF Labels
<1>2. TypeOK
  BY <1>1, WorldAssumption DEF Init, TypeOK
<1>3. Fit("idle", NoCall)
  BY DEF Fit
<1>4. LabelsFit
  BY <1>3 DEF Init, LabelsFit
<1>5. DocsSound
  BY DEF Init, DocsSound
<1>6. QED
  BY <1>2, <1>4, <1>5 DEF Typed

LEMMA StartTyped ==
  ASSUME Typed, NEW p \in Procs, NEW r \in Runs, Start(p, r)
  PROVE  Typed'
<1> DEFINE c == [NoCall EXCEPT !.run = r]
<1>1. c \in Call /\ c.run = r /\ c.doc = NewRun
  BY NewRunType DEF Call, NoCall
<1>2. NewRun.cursor - 1 = 0 /\ NewRun.status = "running"
  BY DEF NewRun
<1>3. Fit("save", c)
  BY <1>1, <1>2 DEF Fit, Snapshotted
<1>4. Goto(p, "save", c) /\ calls' \in Nat
  BY BoundsAssumption DEF Start, Begin, Typed, TypeOK
<1>5. "save" \in Labels \ {"idle"}
  BY DEF Labels
<1>6. origin' \in [Runs -> [Cells -> Values \cup {Null}]]
  BY DEF Start, Typed, TypeOK
<1> HIDE DEF c
<1>7. QED
  BY <1>1, <1>3, <1>4, <1>5, <1>6, GotoTyped DEF Start, Typed, TypeOK, DocsSound

(* The document of a run that waits, and the calls that decide on it.       *)
LEMMA WaitingType ==
  ASSUME Typed, NEW r \in Runs, docs[r] # None, docs[r].status = "awaiting_approval"
  PROVE  /\ docs[r] \in Run /\ docs[r].cursor \in Positions
         /\ Steps[docs[r].cursor].kind = "human"
         /\ Snapshotted(docs[r], docs[r].cursor - 1)
         /\ Snapshotted(docs[r], docs[r].cursor)
<1>1. docs[r] \in Run /\ Sound(docs[r])
  BY DEF Typed, TypeOK, DocsSound
<1>2. docs[r].cursor \in Positions /\ Steps[docs[r].cursor].kind = "human"
  BY <1>1 DEF Sound
<1>3. \A k \in 1 .. docs[r].cursor : k \in 1 .. docs[r].cursor - 1 \/ k = docs[r].cursor
  BY <1>2, StepsType
<1>4. QED
  BY <1>1, <1>2, <1>3 DEF Sound, Snapshotted

ApprovedCall(r) ==
  [NoCall EXCEPT !.run = r,
     !.doc = [Advanced(docs[r], docs[r].cursor, "approved") EXCEPT !.status = "running"]]

LEMMA ApproveHolds ==
  ASSUME Typed, NEW p \in Procs, NEW r \in Runs, Approve(p, r)
  PROVE  /\ ApprovedCall(r) \in Call /\ ApprovedCall(r).run = r
         /\ ApprovedCall(r).doc.cursor = docs[r].cursor + 1
         /\ ApprovedCall(r).doc.before = docs[r].before
         /\ ApprovedCall(r).doc.status = "running"
         /\ ApprovedCall(r).doc.journal
              = Append(docs[r].journal, Entry(docs[r].cursor, "approved"))
         /\ Fit("save", ApprovedCall(r))
         /\ Goto(p, "save", ApprovedCall(r))
<1> DEFINE a == Advanced(docs[r], docs[r].cursor, "approved")
           d == [a EXCEPT !.status = "running"]
<1>1. docs[r] # None /\ docs[r].status = "awaiting_approval"
  BY DEF Approve
<1>2. a \in Run /\ a.cursor = docs[r].cursor + 1 /\ a.before = docs[r].before
      /\ a.journal = Append(docs[r].journal, Entry(docs[r].cursor, "approved"))
  BY <1>1, WaitingType, AdvancedType DEF Whats
<1>3. ApprovedCall(r) = [NoCall EXCEPT !.run = r, !.doc = d]
  BY DEF ApprovedCall
<1>9. Goto(p, "save", ApprovedCall(r))
  BY DEF Approve, Begin, ApprovedCall
<1> HIDE DEF a
<1>4. d \in Run /\ d.status = "running" /\ d.cursor = a.cursor /\ d.before = a.before
      /\ d.journal = a.journal
  BY <1>2, StatusType DEF Statuses
<1> HIDE DEF d
<1>5. ApprovedCall(r) \in Call /\ ApprovedCall(r).run = r /\ ApprovedCall(r).doc = d
  BY <1>3, <1>4, NewRunType DEF Call, NoCall
<1>6. d.cursor - 1 = docs[r].cursor
  BY <1>1, <1>2, <1>4, WaitingType, StepsType
<1>7. Snapshotted(d, d.cursor - 1)
  BY <1>1, <1>2, <1>4, <1>6, WaitingType DEF Snapshotted
<1>8. QED
  BY <1>2, <1>4, <1>5, <1>7, <1>9 DEF Fit

LEMMA ApproveTyped ==
  ASSUME Typed, NEW p \in Procs, NEW r \in Runs, Approve(p, r)
  PROVE  Typed'
<1>1. docs[r] # None /\ docs[r].status = "awaiting_approval" /\ calls' \in Nat
  BY BoundsAssumption DEF Approve, Begin, Typed, TypeOK
<1>2. Happens(r, docs[r].cursor, "approved") /\ docs[r].cursor \in Positions
  BY <1>1, WaitingType DEF Approve
<1>3. log' \in [Runs -> Seq(JournalEntry)]
  BY <1>2, HappensType DEF Whats
<1>4. "save" \in Labels \ {"idle"}
  BY DEF Labels
<1>5. /\ pc' \in [Procs -> Labels] /\ call' \in [Procs -> Call]
      /\ \A q \in Procs : pc'[q] = "idle" <=> call'[q] = NoCall
      /\ LabelsFit'
  BY <1>4, ApproveHolds, GotoTyped
<1>6. UNCHANGED <<docs, world, fails, faults, origin, mixed, broken>>
  BY DEF Approve
<1>7. TypeOK'
  BY <1>1, <1>3, <1>5, <1>6 DEF Typed, TypeOK
<1>8. DocsSound'
  BY <1>6 DEF Typed, DocsSound
<1>9. QED
  BY <1>5, <1>7, <1>8 DEF Typed

RejectedCall(r) ==
  [run |-> r, doc |-> Recorded(docs[r], docs[r].cursor, "rejected"),
   ends |-> "rejected", at |-> docs[r].cursor - 1]

LEMMA RejectHolds ==
  ASSUME Typed, NEW p \in Procs, NEW r \in Runs, Reject(p, r)
  PROVE  /\ RejectedCall(r) \in Call /\ RejectedCall(r).run = r
         /\ RejectedCall(r).doc.cursor = docs[r].cursor
         /\ RejectedCall(r).doc.before = docs[r].before
         /\ RejectedCall(r).doc.journal
              = Append(docs[r].journal, Entry(docs[r].cursor, "rejected"))
         /\ RejectedCall(r).at = docs[r].cursor - 1
         /\ RejectedCall(r).ends = "rejected"
         /\ Fit("undo", RejectedCall(r))
         /\ Goto(p, "undo", RejectedCall(r))
<1> DEFINE d == Recorded(docs[r], docs[r].cursor, "rejected")
<1>1. docs[r] # None /\ docs[r].status = "awaiting_approval"
  BY DEF Reject
<1>2. d \in Run /\ d.cursor = docs[r].cursor /\ d.before = docs[r].before
      /\ d.journal = Append(docs[r].journal, Entry(docs[r].cursor, "rejected"))
  BY <1>1, WaitingType, RecordedType DEF Whats
<1>3. RejectedCall(r) = [run |-> r, doc |-> d, ends |-> "rejected", at |-> docs[r].cursor - 1]
  BY DEF RejectedCall
<1>4. Goto(p, "undo", RejectedCall(r))
  BY DEF Reject, Begin, RejectedCall
<1> HIDE DEF d
<1>5. docs[r].cursor - 1 \in 0 .. Len(Steps) /\ docs[r].cursor - 1 < docs[r].cursor
  BY <1>1, WaitingType, StepsType
<1>6. RejectedCall(r) \in Call
  BY <1>2, <1>3, <1>5 DEF Call, Statuses
<1>7. Snapshotted(d, d.cursor - 1)
  BY <1>1, <1>2, WaitingType DEF Snapshotted
<1>8. Fit("undo", RejectedCall(r))
  BY <1>2, <1>3, <1>5, <1>7 DEF Fit
<1>9. QED
  BY <1>2, <1>3, <1>4, <1>6, <1>8

LEMMA RejectTyped ==
  ASSUME Typed, NEW p \in Procs, NEW r \in Runs, Reject(p, r)
  PROVE  Typed'
<1>1. docs[r] # None /\ docs[r].status = "awaiting_approval" /\ calls' \in Nat
  BY BoundsAssumption DEF Reject, Begin, Typed, TypeOK
<1>2. Happens(r, docs[r].cursor, "rejected") /\ docs[r].cursor \in Positions
  BY <1>1, WaitingType DEF Reject
<1>3. log' \in [Runs -> Seq(JournalEntry)]
  BY <1>2, HappensType DEF Whats
<1>4. "undo" \in Labels \ {"idle"}
  BY DEF Labels
<1>5. /\ pc' \in [Procs -> Labels] /\ call' \in [Procs -> Call]
      /\ \A q \in Procs : pc'[q] = "idle" <=> call'[q] = NoCall
      /\ LabelsFit'
  BY <1>4, RejectHolds, GotoTyped
<1>6. UNCHANGED <<docs, world, fails, faults, origin, mixed, broken>>
  BY DEF Reject
<1>7. TypeOK'
  BY <1>1, <1>3, <1>5, <1>6 DEF Typed, TypeOK
<1>8. DocsSound'
  BY <1>6 DEF Typed, DocsSound
<1>9. QED
  BY <1>5, <1>7, <1>8 DEF Typed

RolledBackCall(r) ==
  [run |-> r, doc |-> docs[r], ends |-> "rolled_back", at |-> docs[r].cursor - 1]

LEMMA RollbackHolds ==
  ASSUME Typed, NEW p \in Procs, NEW r \in Runs, Rollback(p, r)
  PROVE  /\ RolledBackCall(r) \in Call
         /\ Fit("undo", RolledBackCall(r))
         /\ Goto(p, "undo", RolledBackCall(r))
<1>1. docs[r] \in Run /\ Sound(docs[r]) /\ Goto(p, "undo", RolledBackCall(r))
  BY DEF Rollback, Begin, RolledBackCall, Typed, TypeOK, DocsSound
<1>2. docs[r].cursor - 1 \in 0 .. Len(Steps) /\ docs[r].cursor - 1 < docs[r].cursor
  BY <1>1, StepsType DEF Run
<1>3. QED
  BY <1>1, <1>2 DEF RolledBackCall, Call, Statuses, Fit, Sound

LEMMA RollbackTyped ==
  ASSUME Typed, NEW p \in Procs, NEW r \in Runs, Rollback(p, r)
  PROVE  Typed'
<1>1. calls' \in Nat
  BY BoundsAssumption DEF Rollback, Begin, Typed, TypeOK
<1>2. "undo" \in Labels \ {"idle"}
  BY DEF Labels
<1>3. QED
  BY <1>1, <1>2, RollbackHolds, GotoTyped DEF Rollback, Typed, TypeOK, DocsSound, history

LEMMA SaveTyped ==
  ASSUME Typed, NEW p \in Procs, Save(p)
  PROVE  Typed'
<1>1. pc[p] = "save" /\ Goto(p, "step", call[p])
  BY DEF Save
<1>2. Fit("step", call[p]) /\ Sound(call[p].doc)
  BY <1>1, AtWorkHolds DEF Fit, Sound
<1>3. docs' \in [Runs -> Run \cup {None}] /\ DocsSound'
  BY <1>1, <1>2, AtWorkHolds, StoreTyped DEF Save
<1>4. "step" \in Labels \ {"idle"}
  BY DEF Labels
<1>5. /\ pc' \in [Procs -> Labels] /\ call' \in [Procs -> Call]
      /\ \A q \in Procs : pc'[q] = "idle" <=> call'[q] = NoCall
      /\ LabelsFit'
  BY <1>1, <1>2, <1>4, AtWorkHolds, GotoTyped
<1>6. UNCHANGED <<world, counts, history>>
  BY DEF Save
<1>7. QED
  BY <1>3, <1>5, <1>6 DEF Typed, TypeOK, counts, history

(* A call stores its document with another status and returns.              *)
LEMMA LeaveTyped ==
  ASSUME Typed, NEW p \in Procs, pc[p] # "idle", NEW status \in Statuses,
         docs' = [docs EXCEPT ![call[p].run] = [call[p].doc EXCEPT !.status = status]],
         status = "awaiting_approval" =>
           call[p].doc.cursor \in Positions /\ Steps[call[p].doc.cursor].kind = "human",
         status = "completed" => call[p].doc.cursor = Len(Steps) + 1,
         Return(p), UNCHANGED <<world, counts, history>>
  PROVE  Typed'
<1> DEFINE d == [call[p].doc EXCEPT !.status = status]
<1>1. d \in Run /\ d.status = status /\ d.cursor = call[p].doc.cursor
      /\ d.before = call[p].doc.before
  BY AtWorkHolds, StatusType
<1> HIDE DEF d
<1>2. Sound(d)
  BY <1>1, AtWorkHolds DEF Sound, Snapshotted
<1>3. docs' = [docs EXCEPT ![call[p].run] = d]
  BY DEF d
<1>4. docs' \in [Runs -> Run \cup {None}] /\ DocsSound'
  BY <1>1, <1>2, <1>3, AtWorkHolds, StoreTyped
<1>5. /\ pc' \in [Procs -> Labels] /\ call' \in [Procs -> Call]
      /\ \A q \in Procs : pc'[q] = "idle" <=> call'[q] = NoCall
      /\ LabelsFit'
  BY ReturnTyped
<1>6. QED
  BY <1>4, <1>5 DEF Typed, TypeOK, counts, history

LEMMA PauseTyped ==
  ASSUME Typed, NEW p \in Procs, Pause(p)
  PROVE  Typed'
  BY LeaveTyped DEF Pause, Statuses

LEMMA CompleteTyped ==
  ASSUME Typed, NEW p \in Procs, Complete(p)
  PROVE  Typed'
  BY LeaveTyped DEF Complete, Statuses

LEMMA EndTyped ==
  ASSUME Typed, NEW p \in Procs, End(p)
  PROVE  Typed'
<1>1. pc[p] = "undo"
  BY DEF End
<1>2. call[p].ends \in {"rejected", "rolled_back", "failed"}
  BY <1>1, AtWorkHolds DEF Fit
<1>3. QED
  BY <1>1, <1>2, LeaveTyped DEF End, Statuses

LEMMA SnapshotType ==
  ASSUME Typed, NEW k \in Positions
  PROVE  /\ Snapshot(k, world) \in Image
         /\ \A c \in Touched(k) : Snapshot(k, world)[c] = Rendered(world[c])
         /\ \A c \in Touched(k) : Snapshot(k, world)[c] # None
<1>1. \A c \in Cells : Rendered(world[c]) \in Values
  BY ValuesAssumption DEF Rendered, Typed, TypeOK
<1>2. QED
  BY <1>1, NoneIsNoRun, StepsType DEF Snapshot, Image

SnapshotCall(p) ==
  [call[p] EXCEPT !.doc.before[call[p].doc.cursor] = Snapshot(call[p].doc.cursor, world)]

LEMMA TakeSnapshotHolds ==
  ASSUME Typed, NEW p \in Procs, TakeSnapshot(p)
  PROVE  /\ SnapshotCall(p) \in Call /\ SnapshotCall(p).run = call[p].run
         /\ SnapshotCall(p).at = call[p].at
         /\ SnapshotCall(p).doc.cursor = call[p].doc.cursor
         /\ SnapshotCall(p).doc.journal = call[p].doc.journal
         /\ SnapshotCall(p).doc.before
              = [call[p].doc.before EXCEPT ![call[p].doc.cursor] = Snapshot(call[p].doc.cursor, world)]
         /\ Fit("apply", SnapshotCall(p))
         /\ Goto(p, "apply", SnapshotCall(p))
<1> DEFINE k == call[p].doc.cursor
           c == SnapshotCall(p)
           b == [call[p].doc.before EXCEPT ![k] = Snapshot(k, world)]
<1>1. pc[p] = "step" /\ k \in Positions /\ Steps[k].kind = "mutate" /\ Goto(p, "apply", c)
  BY DEF TakeSnapshot, SnapshotCall
<1>2. call[p] \in Call /\ call[p].run \in Runs /\ call[p].doc \in Run
      /\ Snapshotted(call[p].doc, k - 1) /\ call[p].doc.status = "running"
  BY <1>1, AtWorkHolds DEF Fit
<1>3. b \in [Positions -> Image] /\ \A j \in Positions \ {k} : b[j] = call[p].doc.before[j]
  BY <1>1, <1>2, SnapshotType DEF Run
<1>4. b[k] = Snapshot(k, world)
  BY <1>1, <1>2 DEF Run
<1>5. c = [call[p] EXCEPT !.doc = [call[p].doc EXCEPT !.before = b]]
  BY <1>2 DEF SnapshotCall, Call, Run
<1> HIDE DEF b, c
<1> DEFINE d == [call[p].doc EXCEPT !.before = b]
<1>6. d \in Run /\ d.before = b /\ d.cursor = k /\ d.status = "running"
      /\ d.journal = call[p].doc.journal
  BY <1>2, <1>3 DEF Run
<1> HIDE DEF d
<1>7. c \in Call /\ c.doc = d /\ c.run = call[p].run /\ c.at = call[p].at
  BY <1>2, <1>5, <1>6, CallType DEF d
<1>8. Snapshotted(d, k - 1)
  <2>1. \A j \in 1 .. k - 1 : j \in Positions \ {k}
    BY <1>1, StepsType
  <2>2. QED
    BY <1>2, <1>3, <1>6, <2>1 DEF Snapshotted
<1>9. Snapshotted(d, k)
  <2>1. \A j \in 1 .. k : j \in 1 .. k - 1 \/ j = k
    BY <1>1, StepsType
  <2>2. \A x \in Touched(k) : d.before[k][x] # None
    BY <1>1, <1>4, <1>6, SnapshotType
  <2>3. QED
    BY <1>8, <2>1, <2>2 DEF Snapshotted
<1>10. Fit("apply", c)
  BY <1>1, <1>2, <1>6, <1>7, <1>8, <1>9 DEF Fit
<1>11. QED
  BY <1>1, <1>6, <1>7, <1>10 DEF c, b

LEMMA TakeSnapshotTyped ==
  ASSUME Typed, NEW p \in Procs, TakeSnapshot(p)
  PROVE  Typed'
<1>1. "apply" \in Labels \ {"idle"}
  BY DEF Labels
<1>2. /\ pc' \in [Procs -> Labels] /\ call' \in [Procs -> Call]
      /\ \A q \in Procs : pc'[q] = "idle" <=> call'[q] = NoCall
      /\ LabelsFit'
  BY <1>1, TakeSnapshotHolds, GotoTyped
<1>3. UNCHANGED <<docs, world, counts, history>>
  BY DEF TakeSnapshot
<1>4. QED
  BY <1>2, <1>3 DEF Typed, TypeOK, DocsSound, counts, history

(* A call about to run a step's statements, or to fail in it.               *)
LEMMA StepAtHand ==
  ASSUME Typed, NEW p \in Procs, MayFail(p)
  PROVE  /\ pc[p] \in {"step", "apply"} /\ call[p].doc.status = "running"
         /\ call[p].doc.cursor \in Positions
         /\ Steps[call[p].doc.cursor].kind # "human"
         /\ call[p].doc.cursor \in Nat \ {0}
<1>1. pc[p] \in {"step", "apply"}
  BY DEF MayFail
<1>2. CASE pc[p] = "apply"
  BY <1>2, AtWorkHolds, StepsType DEF Fit
<1>3. CASE pc[p] = "step"
  BY <1>3, AtWorkHolds, StepsType DEF Fit, MayFail
<1>4. QED
  BY <1>1, <1>2, <1>3

LEMMA StepToDo ==
  ASSUME Typed, NEW p \in Procs, AtWork(p)
  PROVE  MayFail(p) /\ Snapshotted(call[p].doc, call[p].doc.cursor)
<1>1. CASE pc[p] = "apply"
  BY <1>1, AtWorkHolds DEF Fit, MayFail
<1>2. CASE pc[p] = "step" /\ call[p].doc.cursor \in Positions
           /\ Steps[call[p].doc.cursor].kind \in {"ingest", "sql"}
  <2>1. Snapshotted(call[p].doc, call[p].doc.cursor - 1)
    BY <1>2, AtWorkHolds
  <2>2. \A j \in 1 .. call[p].doc.cursor : j \in 1 .. call[p].doc.cursor - 1 \/ j = call[p].doc.cursor
    BY <1>2, StepsType
  <2>3. QED
    BY <1>2, <2>1, <2>2 DEF Snapshotted, MayFail
<1>3. QED
  BY <1>1, <1>2 DEF AtWork

DoneCall(p) == [call[p] EXCEPT !.doc = Advanced(@, call[p].doc.cursor, "done")]

LEMMA DoHolds ==
  ASSUME Typed, NEW p \in Procs, Do(p)
  PROVE  /\ DoneCall(p) \in Call /\ DoneCall(p).run = call[p].run
         /\ DoneCall(p).at = call[p].at
         /\ DoneCall(p).doc.cursor = call[p].doc.cursor + 1
         /\ DoneCall(p).doc.before = call[p].doc.before
         /\ DoneCall(p).doc.journal
              = Append(call[p].doc.journal, Entry(call[p].doc.cursor, "done"))
         /\ Fit("save", DoneCall(p))
         /\ Goto(p, "save", DoneCall(p))
<1> DEFINE k == call[p].doc.cursor
           d == Advanced(call[p].doc, k, "done")
<1>1. AtWork(p) /\ Goto(p, "save", DoneCall(p))
  BY DEF Do, DoneCall
<1>2. pc[p] # "idle" /\ k \in Positions /\ Snapshotted(call[p].doc, k) /\ k \in Nat
      /\ call[p].doc.status = "running"
  BY <1>1, StepToDo, StepAtHand
<1>3. call[p] \in Call /\ call[p].run \in Runs /\ call[p].doc \in Run
  BY <1>2, AtWorkHolds
<1>4. d \in Run /\ d.cursor = k + 1 /\ d.before = call[p].doc.before /\ d.status = "running"
      /\ d.journal = Append(call[p].doc.journal, Entry(k, "done"))
  BY <1>2, <1>3, AdvancedType DEF Whats
<1>5. DoneCall(p) = [call[p] EXCEPT !.doc = d]
  BY <1>3 DEF DoneCall, Call
<1> HIDE DEF d
<1>6. DoneCall(p) \in Call /\ DoneCall(p).doc = d /\ DoneCall(p).run = call[p].run
      /\ DoneCall(p).at = call[p].at
  BY <1>3, <1>4, <1>5, CallType
<1>7. Snapshotted(d, d.cursor - 1)
  BY <1>2, <1>4 DEF Snapshotted
<1>8. QED
  BY <1>1, <1>3, <1>4, <1>6, <1>7 DEF Fit

LEMMA DoTyped ==
  ASSUME Typed, NEW p \in Procs, Do(p)
  PROVE  Typed'
<1> DEFINE k == call[p].doc.cursor
<1>1. AtWork(p) /\ "save" \in Labels \ {"idle"}
  BY DEF Do, Labels
<1>2. pc[p] # "idle" /\ k \in Positions /\ call[p].run \in Runs
  BY <1>1, StepToDo, StepAtHand, AtWorkHolds
<1>3. Happens(call[p].run, k, "done")
  BY DEF Do
<1>4. log' \in [Runs -> Seq(JournalEntry)]
  BY <1>2, <1>3, HappensType DEF Whats
<1>5. /\ pc' \in [Procs -> Labels] /\ call' \in [Procs -> Call]
      /\ \A q \in Procs : pc'[q] = "idle" <=> call'[q] = NoCall
      /\ LabelsFit'
  BY <1>1, DoHolds, GotoTyped
<1>6. Len(Steps[k].do) \in 0 .. Len(Steps[k].do)
  BY <1>2, StepsType
<1>7. world' \in [Cells -> Values \cup {Null}]
  BY <1>2, <1>6, DoneType DEF Do, Typed, TypeOK
<1>8. mixed' \subseteq Runs
  BY DEF Do, Beside, Typed, TypeOK
<1>9. UNCHANGED <<docs, counts, origin, broken>>
  BY DEF Do
<1>10. QED
  BY <1>4, <1>5, <1>7, <1>8, <1>9 DEF Typed, TypeOK, DocsSound, counts

(* Before a call compensates it may note that its step failed.              *)
NotedCall(p, k, at) ==
  [call[p] EXCEPT !.doc = Recorded(@, k, "failed"), !.ends = "failed", !.at = at]

LEMMA NotedHolds ==
  ASSUME Typed, NEW p \in Procs, pc[p] # "idle", NEW k \in Positions,
         NEW at \in 0 .. Len(Steps), at < call[p].doc.cursor
  PROVE  /\ NotedCall(p, k, at) \in Call /\ NotedCall(p, k, at).run = call[p].run
         /\ NotedCall(p, k, at).at = at
         /\ NotedCall(p, k, at).ends = "failed"
         /\ NotedCall(p, k, at).doc.cursor = call[p].doc.cursor
         /\ NotedCall(p, k, at).doc.before = call[p].doc.before
         /\ NotedCall(p, k, at).doc.journal = Append(call[p].doc.journal, Entry(k, "failed"))
         /\ Fit("undo", NotedCall(p, k, at))
<1> DEFINE d == Recorded(call[p].doc, k, "failed")
<1>1. call[p] \in Call /\ call[p].run \in Runs /\ call[p].doc \in Run
      /\ Snapshotted(call[p].doc, call[p].doc.cursor - 1)
  BY AtWorkHolds
<1>2. d \in Run /\ d.cursor = call[p].doc.cursor /\ d.before = call[p].doc.before
      /\ d.journal = Append(call[p].doc.journal, Entry(k, "failed"))
  BY <1>1, RecordedType DEF Whats
<1>3. NotedCall(p, k, at) = [call[p] EXCEPT !.doc = d, !.ends = "failed", !.at = at]
  BY <1>1 DEF NotedCall, Call
<1> HIDE DEF d
<1>4. NotedCall(p, k, at) \in Call /\ NotedCall(p, k, at).doc = d
      /\ NotedCall(p, k, at).run = call[p].run /\ NotedCall(p, k, at).at = at
      /\ NotedCall(p, k, at).ends = "failed"
  BY <1>1, <1>2, <1>3 DEF Call, Statuses
<1>5. Snapshotted(d, d.cursor - 1)
  BY <1>1, <1>2 DEF Snapshotted
<1>6. QED
  BY <1>1, <1>2, <1>4, <1>5 DEF Fit

LEMMA FailTyped ==
  ASSUME Typed, NEW p \in Procs, Fail(p)
  PROVE  Typed'
<1> DEFINE k == call[p].doc.cursor
<1>1. MayFail(p) /\ "undo" \in Labels \ {"idle"} /\ Goto(p, "undo", NotedCall(p, k, k - 1))
  BY DEF Fail, Labels, NotedCall
<1>2. pc[p] # "idle" /\ k \in Positions /\ call[p].run \in Runs /\ k \in Nat
  BY <1>1, StepAtHand, AtWorkHolds
<1>3. k - 1 \in 0 .. Len(Steps) /\ k - 1 < k
  BY <1>2, StepsType
<1>4. /\ pc' \in [Procs -> Labels] /\ call' \in [Procs -> Call]
      /\ \A q \in Procs : pc'[q] = "idle" <=> call'[q] = NoCall
      /\ LabelsFit'
  BY <1>1, <1>2, <1>3, NotedHolds, GotoTyped
<1>5. PICK n \in IF Steps[k].kind = "mutate" THEN {0} ELSE 0 .. Len(Steps[k].do) - 1 :
        /\ world' = Written(world, Steps[k].do, n)
        /\ mixed' = IF n = 0 THEN mixed ELSE mixed \cup Beside(call[p].run)
  BY DEF Fail
<1>6. n \in 0 .. Len(Steps[k].do)
  BY <1>2, <1>5, StepsType
<1>7. world' \in [Cells -> Values \cup {Null}]
  BY <1>2, <1>5, <1>6, DoneType DEF Typed, TypeOK
<1>8. mixed' \subseteq Runs
  BY <1>5 DEF Beside, Typed, TypeOK
<1>9. fails' \in Nat /\ UNCHANGED <<docs, calls, faults, log, origin, broken>>
  BY BoundsAssumption DEF Fail, Typed, TypeOK
<1>10. QED
  BY <1>4, <1>7, <1>8, <1>9 DEF Typed, TypeOK, DocsSound

(* A call about to compensate a step.                                       *)
LEMMA StepToUndo ==
  ASSUME Typed, NEW p \in Procs, pc[p] = "undo", ~Unwound(p)
  PROVE  /\ call[p].at \in Positions /\ call[p].at - 1 \in 0 .. Len(Steps)
         /\ call[p].at - 1 < call[p].doc.cursor /\ call[p].at < call[p].doc.cursor
         /\ call[p].at <= call[p].doc.cursor - 1 /\ call[p].doc.cursor - 1 \in Nat
         /\ call[p].doc.cursor \in Nat /\ call[p].at \in Nat
  BY AtWorkHolds, StepsType DEF Unwound, Fit

PassedCall(p) == [call[p] EXCEPT !.at = call[p].at - 1]
UndoneCall(p) ==
  [call[p] EXCEPT !.doc = Recorded(@, call[p].at, "compensated"), !.at = call[p].at - 1]

LEMMA UndoHolds ==
  ASSUME Typed, NEW p \in Procs, Undo(p)
  PROVE  /\ Steps[call[p].at].kind = "human" =>
              Goto(p, "undo", PassedCall(p)) /\ UNCHANGED <<world, log, mixed>>
         /\ Steps[call[p].at].kind # "human" =>
              /\ Goto(p, "undo", UndoneCall(p))
              /\ world' = Written(world, Undoing(call[p].doc, call[p].at),
                                  Len(Undoing(call[p].doc, call[p].at)))
              /\ Happens(call[p].run, call[p].at, "compensated")
              /\ mixed' = mixed \cup Beside(call[p].run)
         /\ PassedCall(p) \in Call /\ PassedCall(p).run = call[p].run
         /\ PassedCall(p).at = call[p].at - 1 /\ PassedCall(p).doc = call[p].doc
         /\ Fit("undo", PassedCall(p))
         /\ UndoneCall(p) \in Call /\ UndoneCall(p).run = call[p].run
         /\ UndoneCall(p).at = call[p].at - 1
         /\ UndoneCall(p).doc.cursor = call[p].doc.cursor
         /\ UndoneCall(p).doc.before = call[p].doc.before
         /\ UndoneCall(p).doc.journal
              = Append(call[p].doc.journal, Entry(call[p].at, "compensated"))
         /\ Fit("undo", UndoneCall(p))
<1> DEFINE k == call[p].at
           d == Recorded(call[p].doc, k, "compensated")
<1>1. pc[p] = "undo" /\ ~Unwound(p)
  BY DEF Undo
<1>2. call[p] \in Call /\ call[p].run \in Runs /\ call[p].doc \in Run
      /\ Snapshotted(call[p].doc, call[p].doc.cursor - 1)
      /\ call[p].ends \in {"rejected", "rolled_back", "failed"}
  BY <1>1, AtWorkHolds DEF Fit
<1>3. k \in Positions /\ k - 1 \in 0 .. Len(Steps) /\ k - 1 < call[p].doc.cursor
  BY <1>1, StepToUndo
<1>4. d \in Run /\ d.cursor = call[p].doc.cursor /\ d.before = call[p].doc.before
      /\ d.journal = Append(call[p].doc.journal, Entry(k, "compensated"))
  BY <1>2, <1>3, RecordedType DEF Whats
<1>5. UndoneCall(p) = [call[p] EXCEPT !.doc = d, !.at = k - 1]
  BY <1>2 DEF UndoneCall, Call
<1>6. /\ Steps[k].kind = "human" =>
           Goto(p, "undo", PassedCall(p)) /\ UNCHANGED <<world, log, mixed>>
      /\ Steps[k].kind # "human" =>
           /\ Goto(p, "undo", UndoneCall(p))
           /\ world' = Written(world, Undoing(call[p].doc, k), Len(Undoing(call[p].doc, k)))
           /\ Happens(call[p].run, k, "compensated")
           /\ mixed' = mixed \cup Beside(call[p].run)
  BY DEF Undo, PassedCall, UndoneCall
<1> HIDE DEF d
<1>7. /\ UndoneCall(p) \in Call /\ UndoneCall(p).doc = d /\ UndoneCall(p).run = call[p].run
      /\ UndoneCall(p).at = k - 1 /\ UndoneCall(p).ends = call[p].ends
  BY <1>2, <1>3, <1>4, <1>5 DEF Call
<1>8. /\ PassedCall(p) \in Call /\ PassedCall(p).doc = call[p].doc
      /\ PassedCall(p).run = call[p].run
      /\ PassedCall(p).at = k - 1 /\ PassedCall(p).ends = call[p].ends
  BY <1>2, <1>3 DEF PassedCall, Call
<1>9. Snapshotted(d, d.cursor - 1)
  BY <1>2, <1>4 DEF Snapshotted
<1>10. Fit("undo", UndoneCall(p))
  BY <1>2, <1>3, <1>4, <1>7, <1>9 DEF Fit
<1>11. Fit("undo", PassedCall(p))
  BY <1>2, <1>3, <1>8 DEF Fit
<1>12. QED
  BY <1>4, <1>6, <1>7, <1>8, <1>10, <1>11

LEMMA UndoTyped ==
  ASSUME Typed, NEW p \in Procs, Undo(p)
  PROVE  Typed'
<1> DEFINE k == call[p].at
           undoing == Undoing(call[p].doc, k)
<1>1. pc[p] = "undo" /\ ~Unwound(p) /\ "undo" \in Labels \ {"idle"}
      /\ UNCHANGED <<docs, counts, origin, broken>>
  BY DEF Undo, Labels
<1>2. k \in Positions /\ call[p].run \in Runs /\ call[p].doc \in Run
      /\ Snapshotted(call[p].doc, call[p].doc.cursor - 1)
      /\ k <= call[p].doc.cursor - 1 /\ call[p].doc.cursor - 1 \in Nat
  BY <1>1, StepToUndo, AtWorkHolds
<1>3. /\ pc' \in [Procs -> Labels] /\ call' \in [Procs -> Call]
      /\ \A q \in Procs : pc'[q] = "idle" <=> call'[q] = NoCall
      /\ LabelsFit'
  BY <1>1, UndoHolds, GotoTyped
<1>4. log' \in [Runs -> Seq(JournalEntry)]
  BY <1>2, UndoHolds, HappensType DEF Whats, Typed, TypeOK
<1>5. Written(world, undoing, Len(undoing)) \in [Cells -> Values \cup {Null}]
  <2>1. Len(undoing) \in Nat
        /\ \A j \in 1 .. Len(undoing) : undoing[j][2] \in Values \cup {Null}
    BY <1>2, UndoingType
  <2>2. world \in [Cells -> Values \cup {Null}]
    BY DEF Typed, TypeOK
  <2> HIDE DEF undoing
  <2>3. QED
    BY <2>1, <2>2, WrittenType
<1> HIDE DEF undoing
<1>6. world' \in [Cells -> Values \cup {Null}]
  BY <1>5, UndoHolds DEF Typed, TypeOK, undoing
<1>7. mixed' \subseteq Runs
  BY UndoHolds DEF Beside, Typed, TypeOK
<1>8. QED
  BY <1>1, <1>3, <1>4, <1>6, <1>7 DEF Typed, TypeOK, DocsSound, counts

LEMMA NotesFailure ==
  ASSUME NEW p \in Procs, call[p] \in Call, call[p].ends = "failed", NEW k, NEW at
  PROVE  [call[p] EXCEPT !.doc = Recorded(@, k, "failed"), !.at = at] = NotedCall(p, k, at)
  BY DEF NotedCall, Call

LEMMA UndoFailsTyped ==
  ASSUME Typed, NEW p \in Procs, UndoFails(p)
  PROVE  Typed'
<1> DEFINE k == call[p].at
           undoing == Undoing(call[p].doc, k)
<1>1. pc[p] = "undo" /\ ~Unwound(p) /\ "undo" \in Labels \ {"idle"}
      /\ UNCHANGED <<docs, calls, faults, log, origin>>
      /\ mixed' = mixed \cup Beside(call[p].run)
      /\ broken' = broken \cup {call[p].run}
  BY DEF UndoFails, Labels
<1>2. k \in Positions /\ call[p].run \in Runs /\ call[p].doc \in Run
      /\ Snapshotted(call[p].doc, call[p].doc.cursor - 1)
      /\ k <= call[p].doc.cursor - 1 /\ call[p].doc.cursor - 1 \in Nat
      /\ 0 \in 0 .. Len(Steps) /\ 0 < call[p].doc.cursor
  BY <1>1, StepToUndo, AtWorkHolds, StepsType
<1>3. /\ pc' \in [Procs -> Labels] /\ call' \in [Procs -> Call]
      /\ \A q \in Procs : pc'[q] = "idle" <=> call'[q] = NoCall
      /\ LabelsFit'
  <2>1. CASE call[p].ends = "failed"
    <3>1. Goto(p, "undo", [call[p] EXCEPT !.doc = Recorded(@, k, "failed"), !.at = 0])
      BY <2>1 DEF UndoFails
    <3>2. call[p] \in Call
      BY <1>1, AtWorkHolds
    <3>3. Goto(p, "undo", NotedCall(p, k, 0))
      BY <2>1, <3>1, <3>2, NotesFailure
    <3>4. QED
      BY <1>1, <1>2, <3>3, NotedHolds, GotoTyped
  <2>2. QED
    BY <2>1, ReturnTyped DEF UndoFails
<1>4. PICK n \in 0 .. Len(undoing) - 1 : world' = Written(world, undoing, n)
  BY DEF UndoFails
<1>5. \A j \in 1 .. n : undoing[j][2] \in Values \cup {Null}
  BY <1>2, <1>4, UndoingType
<1> HIDE DEF undoing
<1>6. n \in Nat
  BY <1>4
<1>7. world' \in [Cells -> Values \cup {Null}]
  BY <1>4, <1>5, <1>6, WrittenType DEF Typed, TypeOK
<1>8. mixed' \subseteq Runs /\ broken' \subseteq Runs /\ fails' \in Nat
  BY <1>1, <1>2, BoundsAssumption DEF UndoFails, Beside, Typed, TypeOK
<1>9. QED
  BY <1>1, <1>3, <1>7, <1>8 DEF Typed, TypeOK, DocsSound

LEMMA DieTyped ==
  ASSUME Typed, NEW p \in Procs, Die(p)
  PROVE  Typed'
<1>1. pc[p] # "idle" /\ Return(p) /\ broken' = broken \cup {call[p].run} /\ faults' \in Nat
      /\ UNCHANGED <<docs, world, calls, fails, log, origin, mixed>>
  BY BoundsAssumption DEF Die, Typed, TypeOK
<1>2. broken' \subseteq Runs
  BY <1>1, AtWorkHolds DEF Typed, TypeOK
<1>3. /\ pc' \in [Procs -> Labels] /\ call' \in [Procs -> Call]
      /\ \A q \in Procs : pc'[q] = "idle" <=> call'[q] = NoCall
      /\ LabelsFit'
  BY <1>1, ReturnTyped
<1>4. QED
  BY <1>1, <1>2, <1>3 DEF Typed, TypeOK, DocsSound

LEMMA StepTyped == Typed /\ [Next]_vars => Typed'
<1> SUFFICES ASSUME Typed, [Next]_vars PROVE Typed'
  OBVIOUS
<1>1. ASSUME NEW p \in Procs, NEW r \in Runs,
             Start(p, r) \/ Approve(p, r) \/ Reject(p, r) \/ Rollback(p, r)
      PROVE  Typed'
  BY <1>1, StartTyped, ApproveTyped, RejectTyped, RollbackTyped
<1>2. ASSUME NEW p \in Procs, Save(p) \/ Pause(p) \/ Complete(p) \/ TakeSnapshot(p)
      PROVE  Typed'
  BY <1>2, SaveTyped, PauseTyped, CompleteTyped, TakeSnapshotTyped
<1>3. ASSUME NEW p \in Procs,
             Do(p) \/ Fail(p) \/ Undo(p) \/ UndoFails(p) \/ End(p) \/ Die(p)
      PROVE  Typed'
  BY <1>3, DoTyped, FailTyped, UndoTyped, UndoFailsTyped, EndTyped, DieTyped
<1>4. CASE UNCHANGED vars
  <2>1. TypeOK'
    BY <1>4 DEF vars, Typed, TypeOK
  <2>2. LabelsFit' /\ DocsSound'
    BY <1>4 DEF vars, Typed, LabelsFit, DocsSound
  <2>3. QED
    BY <2>1, <2>2 DEF Typed
<1>5. QED
  BY <1>1, <1>2, <1>3, <1>4 DEF Next, Act

(* Every state of the runs, the warehouse and the calls in progress is well *)
(* typed; in particular an undo only writes what its snapshot has read      *)
(* (engine.go:42-167, manifest.go:96-170).                                  *)
THEOREM TypeCorrect == Spec => []TypeOK
<1>1. Typed => TypeOK
  BY DEF Typed
<1>2. QED
  BY InitTyped, StepTyped, <1>1, PTL DEF Spec

-----------------------------------------------------------------------------
(* Gates.                                                                   *)

GateInv == Typed /\ GateKeeps /\ CursorsApproved

LEMMA ApprovedLater ==
  ASSUME NEW doc, NEW doc2, doc2.cursor = doc.cursor,
         NEW entries \in Seq(JournalEntry), NEW e \in JournalEntry, Approved(doc, entries)
  PROVE  Approved(doc2, entries) /\ Approved(doc2, Append(entries, e))
<1>1. \A j \in DOMAIN entries : j \in DOMAIN Append(entries, e) /\ Append(entries, e)[j] = entries[j]
  OBVIOUS
<1>2. QED
  BY <1>1 DEF Approved

(* What a step may do to the documents, the calls and what happened, so     *)
(* that gates are kept.                                                     *)
LEMMA GatesKept ==
  ASSUME GateInv,
         \A r \in Runs : \/ log'[r] = log[r]
                         \/ \E e \in JournalEntry :
                              /\ log'[r] = Append(log[r], e)
                              /\ e.what = "done" =>
                                   \A k \in 1 .. e.step - 1 : Steps[k].kind = "human" =>
                                     \E j \in DOMAIN log[r] : log[r][j] = Entry(k, "approved"),
         \A r \in Runs : docs'[r] # None => docs'[r] = docs[r] \/ Approved(docs'[r], log'[r]),
         \A q \in Procs : pc'[q] # "idle" =>
           \/ pc[q] # "idle" /\ call'[q] = call[q]
           \/ Approved(call'[q].doc, log'[call'[q].run])
  PROVE  GateKeeps' /\ CursorsApproved'
<1>1. log \in [Runs -> Seq(JournalEntry)]
  BY DEF GateInv, Typed, TypeOK
<1>2. ASSUME NEW r \in Runs
      PROVE  /\ \A doc : Approved(doc, log[r]) => Approved(doc, log'[r])
             /\ \A i \in DOMAIN log'[r] : log'[r][i].what = "done" =>
                  \A k \in 1 .. log'[r][i].step - 1 :
                    Steps[k].kind = "human" =>
                      \E j \in 1 .. i - 1 : log'[r][j] = Entry(k, "approved")
  <2>1. \A i \in DOMAIN log[r] : log[r][i].what = "done" =>
          \A k \in 1 .. log[r][i].step - 1 :
            Steps[k].kind = "human" => \E j \in 1 .. i - 1 : log[r][j] = Entry(k, "approved")
    BY DEF GateInv, GateKeeps
  <2>2. CASE log'[r] = log[r]
    BY <2>1, <2>2
  <2>3. CASE log'[r] # log[r]
    <3>1. PICK e \in JournalEntry :
            /\ log'[r] = Append(log[r], e)
            /\ e.what = "done" =>
                 \A k \in 1 .. e.step - 1 : Steps[k].kind = "human" =>
                   \E j \in DOMAIN log[r] : log[r][j] = Entry(k, "approved")
      BY <2>3
    <3>2. /\ DOMAIN log[r] = 1 .. Len(log[r]) /\ Len(log[r]) \in Nat
          /\ DOMAIN log'[r] = 1 .. Len(log[r]) + 1
          /\ \A j \in 1 .. Len(log[r]) : log'[r][j] = log[r][j]
          /\ log'[r][Len(log[r]) + 1] = e
      BY <1>1, <3>1
    <3>3. ASSUME NEW doc, Approved(doc, log[r]) PROVE Approved(doc, log'[r])
      <4>1. log[r] \in Seq(JournalEntry)
        BY <1>1
      <4>2. Approved(doc, Append(log[r], e))
        BY ONLY <3>3, <4>1, e \in JournalEntry, ApprovedLater
      <4>3. log'[r] = Append(log[r], e)
        BY <3>1
      <4>4. QED
        BY ONLY <4>2, <4>3
    <3>4. ASSUME NEW i \in DOMAIN log'[r], log'[r][i].what = "done",
                 NEW k \in 1 .. log'[r][i].step - 1, Steps[k].kind = "human"
          PROVE  \E j \in 1 .. i - 1 : log'[r][j] = Entry(k, "approved")
      <4>1. CASE i = Len(log[r]) + 1
        BY <3>1, <3>2, <3>4, <4>1
      <4>2. CASE i \in 1 .. Len(log[r])
        <5>1. PICK j \in 1 .. i - 1 : log[r][j] = Entry(k, "approved")
          BY <2>1, <3>2, <3>4, <4>2
        <5>2. QED
          BY <3>2, <4>2, <5>1
      <4>3. QED
        BY <3>2, <4>1, <4>2
    <3>5. QED
      BY <3>3, <3>4
  <2>4. QED
    BY <2>2, <2>3
<1>3. GateKeeps'
  BY <1>2 DEF GateKeeps
<1>4. \A r \in Runs : docs'[r] # None => Approved(docs'[r], log'[r])
  BY <1>2 DEF GateInv, CursorsApproved
<1>5. ASSUME NEW q \in Procs, pc'[q] # "idle"
      PROVE  Approved(call'[q].doc, log'[call'[q].run])
  <2>1. CASE pc[q] # "idle" /\ call'[q] = call[q]
    <3>1. call[q].run \in Runs
      BY <2>1, AtWorkHolds DEF GateInv
    <3>2. Approved(call[q].doc, log[call[q].run])
      BY <2>1 DEF GateInv, CursorsApproved
    <3>3. QED
      BY <2>1, <3>1, <3>2, <1>2
  <2>2. QED
    BY <1>5, <2>1
<1>6. QED
  BY <1>3, <1>4, <1>5 DEF CursorsApproved

(* A call begins with nothing happening but its decision.                   *)
LEMMA StartKeepsGates ==
  ASSUME GateInv, NEW p \in Procs, NEW r \in Runs, Start(p, r)
  PROVE  GateKeeps' /\ CursorsApproved'
<1> DEFINE c == [NoCall EXCEPT !.run = r]
<1>1. Goto(p, "save", c) /\ UNCHANGED <<docs, log>>
  BY DEF Start, Begin
<1>2. call'[p] = c /\ \A q \in Procs \ {p} : pc'[q] = pc[q] /\ call'[q] = call[q]
  BY <1>1, GotoIs DEF GateInv
<1>3. c.doc.cursor = 1 /\ Approved(c.doc, log'[c.run])
  BY DEF NoCall, NewRun, Approved
<1> HIDE DEF c
<1>4. QED
  BY <1>1, <1>2, <1>3, GatesKept

LEMMA ApproveKeepsGates ==
  ASSUME GateInv, NEW p \in Procs, NEW r \in Runs, Approve(p, r)
  PROVE  GateKeeps' /\ CursorsApproved'
<1> DEFINE c == ApprovedCall(r)
           k == docs[r].cursor
           e == Entry(k, "approved")
<1>1. Goto(p, "save", c) /\ c.run = r /\ c.doc.cursor = k + 1
  BY ApproveHolds DEF GateInv
<1>2. k \in Positions /\ docs[r] # None /\ docs' = docs /\ Happens(r, k, "approved")
  BY WaitingType DEF GateInv, Approve
<1>3. e \in JournalEntry /\ e.what # "done"
  BY <1>2, EntryType DEF Entry, Whats
<1>4. log'[r] = Append(log[r], e) /\ \A s \in Runs \ {r} : log'[s] = log[s]
  BY <1>2, HappensType DEF GateInv, Whats
<1>5. log[r] \in Seq(JournalEntry) /\ k \in Nat
  BY <1>2, StepsType DEF GateInv, Typed, TypeOK
<1>6. call'[p] = c /\ \A q \in Procs \ {p} : pc'[q] = pc[q] /\ call'[q] = call[q]
  BY <1>1, GotoIs DEF GateInv
<1>7. Approved(c.doc, log'[r])
  <2>1. Approved(docs[r], log'[r])
    BY <1>2, <1>3, <1>4, <1>5, ApprovedLater DEF GateInv, CursorsApproved
  <2>2. Len(log[r]) + 1 \in DOMAIN log'[r] /\ log'[r][Len(log[r]) + 1] = e
    BY <1>3, <1>4, <1>5
  <2>3. \A j \in 1 .. c.doc.cursor - 1 : j \in 1 .. docs[r].cursor - 1 \/ j = k
    BY <1>1, <1>5
  <2>4. QED
    BY <2>1, <2>2, <2>3 DEF Approved
<1> HIDE DEF c, e
<1>8. QED
  BY <1>1, <1>2, <1>3, <1>4, <1>6, <1>7, GatesKept

LEMMA RejectKeepsGates ==
  ASSUME GateInv, NEW p \in Procs, NEW r \in Runs, Reject(p, r)
  PROVE  GateKeeps' /\ CursorsApproved'
<1> DEFINE c == RejectedCall(r)
           k == docs[r].cursor
           e == Entry(k, "rejected")
<1>1. Goto(p, "undo", c) /\ c.run = r /\ c.doc.cursor = k
  BY RejectHolds DEF GateInv
<1>2. k \in Positions /\ docs[r] # None /\ docs' = docs /\ Happens(r, k, "rejected")
  BY WaitingType DEF GateInv, Reject
<1>3. e \in JournalEntry /\ e.what # "done"
  BY <1>2, EntryType DEF Entry, Whats
<1>4. log'[r] = Append(log[r], e) /\ \A s \in Runs \ {r} : log'[s] = log[s]
  BY <1>2, HappensType DEF GateInv, Whats
<1>5. log[r] \in Seq(JournalEntry)
  BY DEF GateInv, Typed, TypeOK
<1>6. call'[p] = c /\ \A q \in Procs \ {p} : pc'[q] = pc[q] /\ call'[q] = call[q]
  BY <1>1, GotoIs DEF GateInv
<1>7. Approved(c.doc, log'[r])
  BY <1>1, <1>2, <1>3, <1>4, <1>5, ApprovedLater DEF GateInv, CursorsApproved
<1> HIDE DEF c, e
<1>8. QED
  BY <1>1, <1>2, <1>3, <1>4, <1>6, <1>7, GatesKept

LEMMA RollbackKeepsGates ==
  ASSUME GateInv, NEW p \in Procs, NEW r \in Runs, Rollback(p, r)
  PROVE  GateKeeps' /\ CursorsApproved'
<1> DEFINE c == RolledBackCall(r)
<1>1. Goto(p, "undo", c) /\ c.run = r /\ c.doc = docs[r]
  BY RollbackHolds DEF GateInv, RolledBackCall
<1>2. docs[r] # None /\ docs' = docs /\ log' = log
  BY DEF Rollback, history
<1>3. call'[p] = c /\ \A q \in Procs \ {p} : pc'[q] = pc[q] /\ call'[q] = call[q]
  BY <1>1, GotoIs DEF GateInv
<1>4. Approved(c.doc, log'[r])
  BY <1>1, <1>2 DEF GateInv, CursorsApproved
<1> HIDE DEF c
<1>5. QED
  BY <1>1, <1>2, <1>3, <1>4, GatesKept

(* A call goes on, nothing happens, and its document's cursor stays; or it  *)
(* stores such a document and goes on or returns.                           *)
OthersStay(p) == \A q \in Procs \ {p} : pc'[q] = pc[q] /\ call'[q] = call[q]

StaysOrLeaves(p) ==
  pc'[p] # "idle" => call'[p].run = call[p].run /\ call'[p].doc.cursor = call[p].doc.cursor

StoresOwn(p) ==
  \A r \in Runs :
    \/ docs'[r] = docs[r]
    \/ r = call[p].run /\ docs'[r].cursor = call[p].doc.cursor

LEMMA QuietKeepsGates ==
  ASSUME GateInv, NEW p \in Procs, pc[p] # "idle", log' = log,
         OthersStay(p), StaysOrLeaves(p), StoresOwn(p)
  PROVE  GateKeeps' /\ CursorsApproved'
<1>1. call[p].run \in Runs /\ Approved(call[p].doc, log[call[p].run])
  BY AtWorkHolds DEF GateInv, CursorsApproved
<1>2. \A doc : doc.cursor = call[p].doc.cursor => Approved(doc, log[call[p].run])
  BY <1>1 DEF Approved
<1>3. QED
  BY <1>1, <1>2, GatesKept DEF OthersStay, StaysOrLeaves, StoresOwn

LEMMA GoesOn ==
  ASSUME Typed, NEW p \in Procs, NEW label, NEW c, Goto(p, label, c), c.run = call[p].run,
         c.doc.cursor = call[p].doc.cursor
  PROVE  OthersStay(p) /\ StaysOrLeaves(p)
  BY GotoIs DEF OthersStay, StaysOrLeaves

LEMMA Leaves ==
  ASSUME Typed, NEW p \in Procs, Return(p)
  PROVE  OthersStay(p) /\ StaysOrLeaves(p)
  BY GotoIs DEF OthersStay, StaysOrLeaves, Return

LEMMA StoresNothing ==
  ASSUME NEW p \in Procs, docs' = docs
  PROVE  StoresOwn(p)
  BY DEF StoresOwn

LEMMA Stores ==
  ASSUME Typed, NEW p \in Procs, pc[p] # "idle", NEW d, d.cursor = call[p].doc.cursor,
         docs' = [docs EXCEPT ![call[p].run] = d]
  PROVE  StoresOwn(p)
<1>1. call[p].run \in Runs /\ docs \in [Runs -> Run \cup {None}]
  BY AtWorkHolds DEF Typed, TypeOK
<1>2. \A r \in Runs : docs'[r] = IF r = call[p].run THEN d ELSE docs[r]
  BY <1>1
<1>3. QED
  BY <1>2 DEF StoresOwn

LEMMA SaveKeepsGates ==
  ASSUME GateInv, NEW p \in Procs, Save(p)
  PROVE  GateKeeps' /\ CursorsApproved'
<1>1. pc[p] # "idle" /\ log' = log /\ Goto(p, "step", call[p]) /\ Typed
      /\ docs' = [docs EXCEPT ![call[p].run] = call[p].doc]
  BY DEF Save, history, GateInv
<1>2. OthersStay(p) /\ StaysOrLeaves(p)
  BY <1>1, GoesOn
<1>3. StoresOwn(p)
  BY <1>1, Stores
<1>4. QED
  BY <1>1, <1>2, <1>3, QuietKeepsGates

LEMMA LeaveKeepsGates ==
  ASSUME GateInv, NEW p \in Procs, pc[p] # "idle", NEW status \in Statuses,
         docs' = [docs EXCEPT ![call[p].run] = [call[p].doc EXCEPT !.status = status]],
         Return(p), log' = log
  PROVE  GateKeeps' /\ CursorsApproved'
<1>1. OthersStay(p) /\ StaysOrLeaves(p)
  BY Leaves DEF GateInv
<1>2. call[p].doc \in Run
  BY AtWorkHolds DEF GateInv
<1>3. [call[p].doc EXCEPT !.status = status].cursor = call[p].doc.cursor
  BY <1>2, StatusType
<1>4. StoresOwn(p)
  BY <1>3, Stores DEF GateInv
<1>5. QED
  BY <1>1, <1>4, QuietKeepsGates

LEMMA EndsKeepGates ==
  ASSUME GateInv, NEW p \in Procs, Pause(p) \/ Complete(p) \/ End(p) \/ Die(p)
  PROVE  GateKeeps' /\ CursorsApproved'
<1>1. CASE Pause(p)
  BY <1>1, LeaveKeepsGates DEF Pause, Statuses, history
<1>2. CASE Complete(p)
  BY <1>2, LeaveKeepsGates DEF Complete, Statuses, history
<1>3. CASE End(p)
  <2>1. call[p].ends \in Statuses
    BY <1>3, AtWorkHolds, CallType DEF End, GateInv
  <2>2. QED
    BY <1>3, <2>1, LeaveKeepsGates DEF End, history
<1>4. CASE Die(p)
  <2>1. pc[p] # "idle" /\ log' = log /\ docs' = docs /\ Return(p) /\ Typed
    BY <1>4 DEF Die, GateInv
  <2>2. OthersStay(p) /\ StaysOrLeaves(p)
    BY <2>1, Leaves
  <2>3. QED
    BY <2>1, <2>2, StoresNothing, QuietKeepsGates
<1>5. QED
  BY <1>1, <1>2, <1>3, <1>4

LEMMA GoingOnKeepsGates ==
  ASSUME GateInv, NEW p \in Procs, pc[p] # "idle", log' = log, docs' = docs,
         NEW label \in Labels, NEW c, Goto(p, label, c), c.run = call[p].run,
         c.doc.cursor = call[p].doc.cursor
  PROVE  GateKeeps' /\ CursorsApproved'
<1>1. OthersStay(p) /\ StaysOrLeaves(p)
  BY GoesOn DEF GateInv
<1>2. QED
  BY <1>1, StoresNothing, QuietKeepsGates

LEMMA TakeSnapshotKeepsGates ==
  ASSUME GateInv, NEW p \in Procs, TakeSnapshot(p)
  PROVE  GateKeeps' /\ CursorsApproved'
<1>1. pc[p] # "idle" /\ log' = log /\ docs' = docs /\ "apply" \in Labels
  BY DEF TakeSnapshot, history, Labels
<1> DEFINE c == SnapshotCall(p)
<1>2. Goto(p, "apply", c) /\ c.run = call[p].run /\ c.doc.cursor = call[p].doc.cursor
  BY TakeSnapshotHolds DEF GateInv
<1> HIDE DEF c
<1>3. QED
  BY <1>1, <1>2, GoingOnKeepsGates

LEMMA FailKeepsGates ==
  ASSUME GateInv, NEW p \in Procs, Fail(p)
  PROVE  GateKeeps' /\ CursorsApproved'
<1> DEFINE k == call[p].doc.cursor
           c == NotedCall(p, k, k - 1)
<1>1. MayFail(p) /\ Goto(p, "undo", c) /\ log' = log /\ docs' = docs /\ "undo" \in Labels
  BY DEF Fail, NotedCall, Labels
<1>2. pc[p] # "idle" /\ k \in Positions /\ k - 1 \in 0 .. Len(Steps) /\ k - 1 < k
  BY <1>1, StepAtHand, StepsType DEF GateInv
<1>3. c.run = call[p].run /\ c.doc.cursor = call[p].doc.cursor
  BY <1>2, NotedHolds DEF GateInv
<1> HIDE DEF c
<1>4. QED
  BY <1>1, <1>2, <1>3, GoingOnKeepsGates

LEMMA UndoFailsKeepsGates ==
  ASSUME GateInv, NEW p \in Procs, UndoFails(p)
  PROVE  GateKeeps' /\ CursorsApproved'
<1> DEFINE k == call[p].at
           c == NotedCall(p, k, 0)
<1>1. pc[p] = "undo" /\ ~Unwound(p) /\ log' = log /\ docs' = docs /\ "undo" \in Labels
  BY DEF UndoFails, Labels
<1>2. k \in Positions /\ 0 \in 0 .. Len(Steps) /\ 0 < call[p].doc.cursor /\ call[p] \in Call
  BY <1>1, StepToUndo, AtWorkHolds, StepsType DEF GateInv
<1>3. c.run = call[p].run /\ c.doc.cursor = call[p].doc.cursor
  BY <1>1, <1>2, NotedHolds DEF GateInv
<1>4. CASE call[p].ends = "failed"
  <2>1. Goto(p, "undo", [call[p] EXCEPT !.doc = Recorded(@, k, "failed"), !.at = 0])
    BY <1>4 DEF UndoFails
  <2>2. Goto(p, "undo", c)
    BY <1>2, <1>4, <2>1, NotesFailure
  <2> HIDE DEF c
  <2>3. QED
    BY <1>1, <1>3, <2>2, GoingOnKeepsGates
<1>5. CASE call[p].ends # "failed"
  <2>1. Return(p)
    BY <1>5 DEF UndoFails
  <2>2. OthersStay(p) /\ StaysOrLeaves(p)
    BY <2>1, Leaves DEF GateInv
  <2>3. QED
    BY <1>1, <2>2, StoresNothing, QuietKeepsGates
<1>6. QED
  BY <1>4, <1>5

LEMMA DoKeepsGates ==
  ASSUME GateInv, NEW p \in Procs, Do(p)
  PROVE  GateKeeps' /\ CursorsApproved'
<1> DEFINE k == call[p].doc.cursor
           r == call[p].run
           e == Entry(k, "done")
           c == DoneCall(p)
<1>1. AtWork(p) /\ Happens(r, k, "done") /\ docs' = docs /\ Typed
  BY DEF Do, GateInv
<1>2. pc[p] # "idle" /\ k \in Positions /\ k \in Nat /\ Steps[k].kind # "human"
  BY <1>1, StepToDo, StepAtHand
<1>3. r \in Runs /\ Approved(call[p].doc, log[r]) /\ log[r] \in Seq(JournalEntry)
  BY <1>1, <1>2, AtWorkHolds DEF GateInv, CursorsApproved, Typed, TypeOK
<1>4. e \in JournalEntry /\ e.step = k
  BY <1>2, EntryType DEF Entry, Whats
<1>5. log'[r] = Append(log[r], e) /\ \A s \in Runs \ {r} : log'[s] = log[s]
  BY <1>1, <1>2, <1>3, HappensType DEF Whats
<1>6. \A j \in 1 .. e.step - 1 : Steps[j].kind = "human" =>
        \E i \in DOMAIN log[r] : log[r][i] = Entry(j, "approved")
  BY <1>3, <1>4 DEF Approved
<1>7. Goto(p, "save", c) /\ c.run = r /\ c.doc.cursor = k + 1
  BY <1>1, DoHolds
<1>8. Approved(c.doc, log'[r])
  <2>1. Approved(call[p].doc, log'[r])
    BY <1>3, <1>4, <1>5, ApprovedLater
  <2>2. \A j \in 1 .. c.doc.cursor - 1 : j \in 1 .. call[p].doc.cursor - 1 \/ j = k
    BY <1>2, <1>7
  <2>3. QED
    BY <1>2, <2>1, <2>2 DEF Approved
<1>9. call'[p] = c /\ \A q \in Procs \ {p} : pc'[q] = pc[q] /\ call'[q] = call[q]
  BY <1>1, <1>7, GotoIs
<1> HIDE DEF c, e, k
<1>10. ASSUME NEW s \in Runs, s # r PROVE log'[s] = log[s]
  BY <1>5, <1>10
<1>11. \A s \in Runs : \/ log'[s] = log[s]
                       \/ \E x \in JournalEntry :
                            /\ log'[s] = Append(log[s], x)
                            /\ x.what = "done" =>
                                 \A j \in 1 .. x.step - 1 : Steps[j].kind = "human" =>
                                   \E i \in DOMAIN log[s] : log[s][i] = Entry(j, "approved")
  BY <1>4, <1>5, <1>6, <1>10
<1>12. \A q \in Procs : pc'[q] # "idle" =>
         \/ pc[q] # "idle" /\ call'[q] = call[q]
         \/ Approved(call'[q].doc, log'[call'[q].run])
  BY <1>7, <1>8, <1>9
<1>13. \A s \in Runs : docs'[s] = docs[s]
  BY <1>1
<1>14. QED
  BY <1>11, <1>12, <1>13, GatesKept

LEMMA UndoKeepsGates ==
  ASSUME GateInv, NEW p \in Procs, Undo(p)
  PROVE  GateKeeps' /\ CursorsApproved'
<1> DEFINE k == call[p].at
           r == call[p].run
           e == Entry(k, "compensated")
           c == UndoneCall(p)
           d == PassedCall(p)
<1>1. pc[p] = "undo" /\ ~Unwound(p) /\ docs' = docs /\ Typed /\ "undo" \in Labels
  BY DEF Undo, GateInv, Labels
<1>2. k \in Positions /\ r \in Runs /\ Approved(call[p].doc, log[r]) /\ log[r] \in Seq(JournalEntry)
  BY <1>1, StepToUndo, AtWorkHolds DEF GateInv, CursorsApproved, Typed, TypeOK
<1>3. CASE Steps[k].kind = "human"
  <2>1. Goto(p, "undo", d) /\ log' = log /\ d.run = r /\ d.doc.cursor = call[p].doc.cursor
    BY <1>1, <1>3, UndoHolds
  <2> HIDE DEF d
  <2>2. QED
    BY <1>1, <2>1, GoingOnKeepsGates
<1>4. CASE Steps[k].kind # "human"
  <2>1. Goto(p, "undo", c) /\ Happens(r, k, "compensated") /\ c.run = r
        /\ c.doc.cursor = call[p].doc.cursor
    BY <1>1, <1>4, UndoHolds
  <2>2. e \in JournalEntry /\ e.what # "done"
    BY <1>2, EntryType DEF Entry, Whats
  <2>3. log'[r] = Append(log[r], e) /\ \A s \in Runs \ {r} : log'[s] = log[s]
    BY <1>1, <1>2, <2>1, HappensType DEF Whats
  <2>4. Approved(c.doc, log'[r])
    BY <1>2, <2>1, <2>2, <2>3, ApprovedLater
  <2>5. call'[p] = c /\ \A q \in Procs \ {p} : pc'[q] = pc[q] /\ call'[q] = call[q]
    BY <1>1, <2>1, GotoIs
  <2> HIDE DEF c, e, k, r
  <2>6. QED
    BY <1>1, <2>1, <2>2, <2>3, <2>4, <2>5, GatesKept
<1>5. QED
  BY <1>3, <1>4

LEMMA InitGates == Init => GateInv
<1> SUFFICES ASSUME Init PROVE GateInv
  OBVIOUS
<1>1. Typed
  BY InitTyped
<1>2. GateKeeps
  BY DEF Init, GateKeeps
<1>3. CursorsApproved
  BY DEF Init, CursorsApproved
<1>4. QED
  BY <1>1, <1>2, <1>3 DEF GateInv

LEMMA StepGates == GateInv /\ [Next]_vars => GateInv'
<1> SUFFICES ASSUME GateInv, [Next]_vars PROVE GateKeeps' /\ CursorsApproved'
  BY StepTyped DEF GateInv
<1>1. ASSUME NEW p \in Procs, NEW r \in Runs,
             Start(p, r) \/ Approve(p, r) \/ Reject(p, r) \/ Rollback(p, r)
      PROVE  GateKeeps' /\ CursorsApproved'
  BY <1>1, StartKeepsGates, ApproveKeepsGates, RejectKeepsGates, RollbackKeepsGates
<1>2. ASSUME NEW p \in Procs, Save(p) \/ Pause(p) \/ Complete(p) \/ End(p) \/ Die(p)
      PROVE  GateKeeps' /\ CursorsApproved'
  BY <1>2, SaveKeepsGates, EndsKeepGates
<1>3. ASSUME NEW p \in Procs,
             TakeSnapshot(p) \/ Do(p) \/ Fail(p) \/ Undo(p) \/ UndoFails(p)
      PROVE  GateKeeps' /\ CursorsApproved'
  BY <1>3, TakeSnapshotKeepsGates, DoKeepsGates, FailKeepsGates, UndoKeepsGates,
     UndoFailsKeepsGates
<1>4. CASE UNCHANGED vars
  BY <1>4 DEF vars, GateInv, GateKeeps, CursorsApproved
<1>5. QED
  BY <1>1, <1>2, <1>3, <1>4 DEF Next, Act

(* However many calls work on a run, and even on one run at once, no step   *)
(* of a flow runs before the human steps ahead of it were approved          *)
(* (engine.go:117-134, 166-191).                                            *)
THEOREM NoGateIsPassed == Spec => []GateKeeps
<1>1. GateInv => GateKeeps
  BY DEF GateInv
<1>2. QED
  BY InitGates, StepGates, <1>1, PTL DEF Spec

-----------------------------------------------------------------------------
(* Effects, where calls overlap on different runs only.                     *)

StandingIn(entries) ==
  {k \in Positions :
     \E i \in DOMAIN entries :
       /\ entries[i] = Entry(k, "done")
       /\ \A j \in DOMAIN entries : j > i => entries[j] # Entry(k, "compensated")}

LEMMA StandingIs ==
  \A r : Standing(r) = StandingIn(log[r])
  BY DEF Standing, StandingIn

LEMMA StandingLater ==
  ASSUME NEW entries \in Seq(JournalEntry), NEW k \in Positions, NEW what \in Whats
  PROVE  StandingIn(Append(entries, Entry(k, what)))
           = CASE what = "done" -> StandingIn(entries) \cup {k}
               [] what = "compensated" -> StandingIn(entries) \ {k}
               [] OTHER -> StandingIn(entries)
<1> DEFINE n     == Len(entries)
           later == Append(entries, Entry(k, what))
<1>1. n \in Nat /\ DOMAIN entries = 1 .. n /\ DOMAIN later = 1 .. n + 1
      /\ later[n + 1] = Entry(k, what) /\ \A j \in 1 .. n : later[j] = entries[j]
  BY EntryType
<1>2. \A j, m \in Positions, w, v \in Whats : Entry(j, w) = Entry(m, v) <=> j = m /\ w = v
  BY DEF Entry
<1> HIDE DEF later
<1>3. ASSUME NEW m \in Positions
      PROVE  m \in StandingIn(later) <=>
               \/ m = k /\ what = "done"
               \/ m \in StandingIn(entries) /\ ~(m = k /\ what = "compensated")
  <2>1. m \in StandingIn(later) <=>
          \E i \in 1 .. n + 1 :
            /\ later[i] = Entry(m, "done")
            /\ \A j \in 1 .. n + 1 : j > i => later[j] # Entry(m, "compensated")
    BY <1>1 DEF StandingIn
  <2>2. m \in StandingIn(entries) <=>
          \E i \in 1 .. n :
            /\ entries[i] = Entry(m, "done")
            /\ \A j \in 1 .. n : j > i => entries[j] # Entry(m, "compensated")
    BY <1>1 DEF StandingIn
  <2>3. "done" \in Whats /\ "compensated" \in Whats
    BY DEF Whats
  <2>4. (later[n + 1] = Entry(m, "done") <=> m = k /\ what = "done")
        /\ (later[n + 1] = Entry(m, "compensated") <=> m = k /\ what = "compensated")
    BY <1>1, <1>2, <2>3
  <2>5. CASE m = k /\ what = "done"
    <3>1. n + 1 \in 1 .. n + 1 /\ \A j \in 1 .. n + 1 : ~(j > n + 1)
      BY <1>1
    <3>2. QED
      BY <2>1, <2>4, <2>5, <3>1
  <2>6. CASE ~(m = k /\ what = "done") /\ m \in StandingIn(later)
    <3>1. PICK i \in 1 .. n + 1 :
            /\ later[i] = Entry(m, "done")
            /\ \A j \in 1 .. n + 1 : j > i => later[j] # Entry(m, "compensated")
      BY <2>1, <2>6
    <3>2. i \in 1 .. n
      BY <1>1, <2>4, <2>6, <3>1
    <3>3. later[n + 1] # Entry(m, "compensated")
      BY <1>1, <3>1, <3>2
    <3>4. entries[i] = Entry(m, "done")
          /\ \A j \in 1 .. n : j > i => entries[j] # Entry(m, "compensated")
      BY <1>1, <3>1, <3>2
    <3>5. m \in StandingIn(entries)
      BY <2>2, <3>2, <3>4
    <3>6. QED
      BY <2>4, <2>6, <3>3, <3>5
  <2>7. CASE m \in StandingIn(entries) /\ ~(m = k /\ what = "compensated")
    <3>1. PICK i \in 1 .. n :
            /\ entries[i] = Entry(m, "done")
            /\ \A j \in 1 .. n : j > i => entries[j] # Entry(m, "compensated")
      BY <2>2, <2>7
    <3>2. \A j \in 1 .. n + 1 : j \in 1 .. n \/ j = n + 1
      BY <1>1
    <3>3. \A j \in 1 .. n + 1 : j > i => later[j] # Entry(m, "compensated")
      BY <1>1, <2>4, <2>7, <3>1, <3>2
    <3>4. i \in 1 .. n + 1 /\ later[i] = Entry(m, "done")
      BY <1>1, <3>1
    <3>5. m \in StandingIn(later)
      BY <2>1, <3>3, <3>4
    <3>6. QED
      BY <2>7, <3>5
  <2>8. QED
    BY <2>5, <2>6, <2>7
<1>4. StandingIn(later) \subseteq Positions /\ StandingIn(entries) \subseteq Positions
  BY DEF StandingIn
<1>5. CASE what = "done"
  BY <1>3, <1>4, <1>5 DEF later
<1>6. CASE what = "compensated"
  BY <1>3, <1>4, <1>6 DEF later
<1>7. CASE what \notin {"done", "compensated"}
  BY <1>3, <1>4, <1>7 DEF later
<1>8. QED
  BY <1>5, <1>6, <1>7

LEMMA AutomaticSteps ==
  /\ Automatic(0) = {}
  /\ \A k \in Positions :
       Automatic(k) = IF Steps[k].kind = "human" THEN Automatic(k - 1) ELSE Automatic(k - 1) \cup {k}
<1>1. Automatic(0) = {}
  BY DEF Automatic
<1>2. ASSUME NEW k \in Positions
      PROVE  Automatic(k) = IF Steps[k].kind = "human" THEN Automatic(k - 1)
                            ELSE Automatic(k - 1) \cup {k}
  <2>1. \A j : j \in 1 .. k <=> j \in 1 .. k - 1 \/ j = k
    BY StepsType
  <2>2. QED
    BY <2>1 DEF Automatic
<1>3. QED
  BY <1>1, <1>2

EffInv == Typed /\ Alone /\ Unsaved /\ EffectsKnown

(* A run that a step leaves alone.                                          *)
RunStays(s) ==
  /\ docs'[s] = docs[s] /\ log'[s] = log[s]
  /\ s \in broken => s \in broken'
  /\ Working(s)' = Working(s)
  /\ \A q \in Working(s) : pc'[q] = pc[q] /\ call'[q] = call[q]

LEMMA StaysInEffect ==
  ASSUME NEW s, RunStays(s), EffectsOf(s)
  PROVE  EffectsOf(s)'
<1>1. Standing(s)' = Standing(s)
  BY DEF RunStays, Standing
<1>2. Resting(s)' <=> Resting(s)
  BY DEF RunStays, Resting
<1>3. Told(s)' <=> Told(s)
  BY <1>1 DEF RunStays, Told
<1>4. \A q \in Working(s) : Midway(s, q)' <=> Midway(s, q)
  BY <1>1 DEF RunStays, Midway
<1>5. QED
  BY <1>2, <1>3, <1>4 DEF RunStays, EffectsOf

(* A step of a call on a run.                                               *)
OnRun(p, r, label, c) ==
  /\ IF pc[p] = "idle" THEN Working(r) = {} ELSE call[p].run = r
  /\ Goto(p, label, c)
  /\ IF label = "idle" THEN c = NoCall ELSE c.run = r
  /\ broken \subseteq broken'
  /\ \A s \in Runs \ {r} : docs'[s] = docs[s] /\ log'[s] = log[s]

LEMMA WorkersWork ==
  ASSUME Typed, NEW p \in Procs, NEW r \in Runs
  PROVE  p \in Working(r) <=> pc[p] # "idle" /\ call[p].run = r
<1>1. NoCall.run = None /\ r # None
  BY NoneIsNoRun DEF NoCall
<1>2. QED
  BY <1>1 DEF Typed, TypeOK, Working

LEMMA OneMoves ==
  ASSUME Typed, Alone, NEW p \in Procs, NEW r \in Runs, NEW label, NEW c, OnRun(p, r, label, c)
  PROVE  /\ Alone'
         /\ \A s \in Runs \ {r} : RunStays(s)
         /\ Working(r)' = IF label = "idle" THEN {} ELSE {p}
         /\ pc'[p] = label /\ call'[p] = c
<1>1. pc'[p] = label /\ call'[p] = c
      /\ \A q \in Procs \ {p} : pc'[q] = pc[q] /\ call'[q] = call[q]
  BY GotoIs DEF OnRun
<1>2. NoCall.run = None /\ \A s \in Runs : s # None
  BY NoneIsNoRun DEF NoCall
<1>3. pc[p] # "idle" => call[p].run = r
  BY DEF OnRun
<1>4. pc[p] = "idle" => call[p] = NoCall
  BY DEF Typed, TypeOK
<1>5. \A q \in Procs \ {p} : ~(pc[q] # "idle" /\ call[q].run = r)
  <2> SUFFICES ASSUME NEW q \in Procs \ {p}, pc[q] # "idle", call[q].run = r PROVE FALSE
    OBVIOUS
  <2>1. CASE pc[p] = "idle"
    BY <2>1, WorkersWork DEF OnRun
  <2>2. CASE pc[p] # "idle"
    BY <1>3, <2>2 DEF Alone
  <2>3. QED
    BY <2>1, <2>2
<1>6. label # "idle" => c.run = r
  BY DEF OnRun
<1>7. label = "idle" => c = NoCall
  BY DEF OnRun
<1>8. Alone'
  <2> SUFFICES ASSUME NEW q1 \in Procs, NEW q2 \in Procs, pc'[q1] # "idle", pc'[q2] # "idle",
                      call'[q1].run = call'[q2].run
               PROVE  q1 = q2
    BY DEF Alone
  <2>1. CASE q1 = p
    BY <1>1, <1>5, <1>6, <2>1
  <2>2. CASE q2 = p
    BY <1>1, <1>5, <1>6, <2>2
  <2>3. CASE q1 # p /\ q2 # p
    BY <1>1, <2>3 DEF Alone
  <2>4. QED
    BY <2>1, <2>2, <2>3
<1>9. ASSUME NEW s \in Runs \ {r}
      PROVE  RunStays(s)
  <2>1. call[p].run # s /\ call'[p].run # s
    BY <1>1, <1>2, <1>3, <1>4, <1>6, <1>7
  <2>2. Working(s)' = Working(s)
    BY <1>1, <2>1 DEF Working
  <2>3. \A q \in Working(s) : q \in Procs \ {p}
    BY <2>1 DEF Working
  <2>4. QED
    BY <1>1, <2>2, <2>3 DEF OnRun, RunStays
<1>10. Working(r)' = IF label = "idle" THEN {} ELSE {p}
  <2>1. \A q \in Procs \ {p} : call'[q].run # r
    <3>1. \A q \in Procs : pc[q] = "idle" => call[q] = NoCall
      BY DEF Typed, TypeOK
    <3>2. QED
      BY <1>1, <1>2, <1>5, <3>1
  <2>2. call'[p].run = r <=> label # "idle"
    BY <1>1, <1>2, <1>6, <1>7
  <2>3. QED
    BY <2>1, <2>2 DEF Working
<1>11. QED
  BY <1>1, <1>8, <1>9, <1>10

(* What is left to show of such a step.                                     *)
LEMMA EffectsStep ==
  ASSUME EffInv, NEW p \in Procs, NEW r \in Runs, NEW label, NEW c, OnRun(p, r, label, c),
         docs'[r] = None => label \in {"idle", "save"} /\ log'[r] = <<>> /\ c.doc = NewRun,
         r \notin broken' =>
           IF label = "idle" THEN Told(r)' ELSE Midway(r, p)'
  PROVE  Alone' /\ Unsaved' /\ EffectsKnown'
<1>1. /\ Alone'
      /\ \A s \in Runs \ {r} : RunStays(s)
      /\ Working(r)' = IF label = "idle" THEN {} ELSE {p}
      /\ pc'[p] = label /\ call'[p] = c
  BY OneMoves DEF EffInv
<1>2. ASSUME NEW s \in Runs, docs'[s] = None
      PROVE  log'[s] = <<>> /\ \A q \in Working(s)' : pc'[q] = "save" /\ call'[q].doc = NewRun
  <2>1. CASE s = r
    BY <1>1, <1>2, <2>1
  <2>2. CASE s # r
    <3>1. RunStays(s)
      BY <1>1, <2>2
    <3>2. docs[s] = None
      BY <1>2, <3>1 DEF RunStays
    <3>3. log[s] = <<>> /\ \A q \in Working(s) : pc[q] = "save" /\ call[q].doc = NewRun
      BY <3>2 DEF EffInv, Unsaved
    <3>4. QED
      BY <3>1, <3>3 DEF RunStays
  <2>3. QED
    BY <2>1, <2>2
<1>3. Unsaved'
  BY <1>2 DEF Unsaved
<1>4. ASSUME NEW s \in Runs
      PROVE  EffectsOf(s)'
  <2>1. CASE s = r
    <3>1. CASE label = "idle"
      BY <1>1, <2>1, <3>1 DEF EffectsOf
    <3>2. CASE label # "idle"
      <4>1. ~Resting(r)'
        BY <1>1, <3>2 DEF Resting
      <4>2. QED
        BY <1>1, <2>1, <3>2, <4>1 DEF EffectsOf
    <3>3. QED
      BY <3>1, <3>2
  <2>2. CASE s # r
    BY <1>1, <2>2, StaysInEffect DEF EffInv, EffectsKnown
  <2>3. QED
    BY <2>1, <2>2
<1>5. QED
  BY <1>1, <1>3, <1>4 DEF EffectsKnown

(* The same, of a call that goes on and of one that stores and returns.     *)
InEffect(entries, label, c) ==
  IF label = "undo" THEN StandingIn(entries) \subseteq Automatic(c.at)
  ELSE StandingIn(entries) = Automatic(c.doc.cursor - 1)

LEMMA EffectsGo ==
  ASSUME EffInv, NEW p \in Procs, NEW r \in Runs, NEW label, label # "idle", NEW c,
         OnRun(p, r, label, c),
         docs'[r] = None => label = "save" /\ log'[r] = <<>> /\ c.doc = NewRun,
         r \notin broken' => InEffect(log'[r], label, c)
  PROVE  Alone' /\ Unsaved' /\ EffectsKnown'
<1>1. pc'[p] = label /\ call'[p] = c
  BY OneMoves DEF EffInv
<1>2. Standing(r)' = StandingIn(log'[r])
  BY DEF Standing, StandingIn
<1>3. r \notin broken' => Midway(r, p)'
  BY <1>1, <1>2 DEF InEffect, Midway
<1>4. QED
  BY <1>3, EffectsStep

(* What is known of a run as a call goes on, and as one begins.             *)
LEMMA EffectsNow ==
  ASSUME EffInv, NEW p \in Procs, pc[p] # "idle"
  PROVE  /\ call[p].run \in Runs /\ Typed
         /\ docs[call[p].run] = None =>
              pc[p] = "save" /\ log[call[p].run] = <<>> /\ call[p].doc = NewRun
         /\ call[p].run \notin broken => InEffect(log[call[p].run], pc[p], call[p])
<1>1. call[p].run \in Runs /\ p \in Working(call[p].run) /\ Typed
  BY AtWorkHolds DEF EffInv, Working
<1>2. call[p].run \notin broken => Midway(call[p].run, p)
  BY <1>1 DEF EffInv, EffectsKnown, EffectsOf
<1>3. call[p].run \notin broken => InEffect(log[call[p].run], pc[p], call[p])
  BY <1>2, StandingIs DEF InEffect, Midway
<1>4. QED
  BY <1>1, <1>3 DEF EffInv, Unsaved

LEMMA EffectsAtRest ==
  ASSUME EffInv, ~Overlap, NEW p \in Procs, NEW r \in Runs, NEW label, NEW c,
         Begin(p, r, label, c)
  PROVE  /\ Typed /\ pc[p] = "idle" /\ Working(r) = {} /\ Goto(p, label, c)
         /\ docs[r] = None => log[r] = <<>>
         /\ docs[r] # None => docs[r] \in Run /\ Sound(docs[r])
         /\ docs[r] # None /\ r \notin broken =>
              StandingIn(log[r])
                = CASE docs[r].status = "completed" -> Automatic(Len(Steps))
                    [] docs[r].status = "awaiting_approval" -> Automatic(docs[r].cursor - 1)
                    [] OTHER -> {}
<1>1. Typed /\ pc[p] = "idle" /\ Working(r) = {} /\ Goto(p, label, c)
  BY DEF Begin, EffInv
<1>2. docs[r] # None => docs[r] \in Run /\ Sound(docs[r])
  BY DEF EffInv, Typed, TypeOK, DocsSound
<1>3. docs[r] # None /\ r \notin broken => Told(r)
  BY <1>1 DEF EffInv, EffectsKnown, EffectsOf, Resting
<1>4. QED
  BY <1>1, <1>2, <1>3, StandingIs DEF EffInv, Unsaved, Told

LEMMA StartTells ==
  ASSUME EffInv, ~Overlap, NEW p \in Procs, NEW r \in Runs, Start(p, r)
  PROVE  Alone' /\ Unsaved' /\ EffectsKnown'
<1> DEFINE c == [NoCall EXCEPT !.run = r]
<1>1. Begin(p, r, "save", c) /\ docs' = docs /\ log' = log /\ broken' = broken /\ docs[r] = None
  BY DEF Start
<1>2. c.run = r /\ c.doc = NewRun /\ NewRun.cursor - 1 = 0
  BY DEF NoCall, NewRun
<1> HIDE DEF c
<1>3. Typed /\ pc[p] = "idle" /\ Working(r) = {} /\ Goto(p, "save", c) /\ log[r] = <<>>
  BY <1>1, EffectsAtRest
<1>4. OnRun(p, r, "save", c)
  BY <1>1, <1>2, <1>3 DEF OnRun
<1>5. StandingIn(<<>>) = {}
  BY DEF StandingIn
<1>6. InEffect(log'[r], "save", c)
  BY <1>1, <1>2, <1>3, <1>5, AutomaticSteps DEF InEffect
<1>7. QED
  BY <1>1, <1>2, <1>3, <1>4, <1>6, EffectsGo

LEMMA ApproveTells ==
  ASSUME EffInv, ~Overlap, NEW p \in Procs, NEW r \in Runs, Approve(p, r)
  PROVE  Alone' /\ Unsaved' /\ EffectsKnown'
<1> DEFINE c == ApprovedCall(r)
           k == docs[r].cursor
<1>1. Begin(p, r, "save", c) /\ docs' = docs /\ broken' = broken /\ docs[r] # None
      /\ docs[r].status = "awaiting_approval" /\ Happens(r, k, "approved")
  BY DEF Approve, ApprovedCall
<1>2. Typed /\ pc[p] = "idle" /\ Working(r) = {} /\ Goto(p, "save", c)
      /\ (r \notin broken => StandingIn(log[r]) = Automatic(k - 1))
  BY <1>1, EffectsAtRest
<1>3. k \in Positions /\ Steps[k].kind = "human" /\ k \in Nat
  BY <1>1, <1>2, WaitingType, StepsType
<1>4. c.run = r /\ c.doc.cursor = k + 1
  BY <1>2, ApproveHolds
<1>5. log'[r] = Append(log[r], Entry(k, "approved")) /\ \A s \in Runs \ {r} : log'[s] = log[s]
  BY <1>1, <1>2, <1>3, HappensType DEF Whats
<1>6. log[r] \in Seq(JournalEntry)
  BY <1>2 DEF Typed, TypeOK
<1>7. StandingIn(log'[r]) = StandingIn(log[r])
  BY <1>3, <1>5, <1>6, StandingLater DEF Whats
<1> HIDE DEF c, k
<1>8. r \notin broken' => InEffect(log'[r], "save", c)
  BY <1>1, <1>2, <1>3, <1>4, <1>7, AutomaticSteps DEF InEffect
<1>9. OnRun(p, r, "save", c)
  BY <1>1, <1>2, <1>4, <1>5 DEF OnRun
<1>10. QED
  BY <1>1, <1>8, <1>9, EffectsGo

LEMMA RejectTells ==
  ASSUME EffInv, ~Overlap, NEW p \in Procs, NEW r \in Runs, Reject(p, r)
  PROVE  Alone' /\ Unsaved' /\ EffectsKnown'
<1> DEFINE c == RejectedCall(r)
           k == docs[r].cursor
<1>1. Begin(p, r, "undo", c) /\ docs' = docs /\ broken' = broken /\ docs[r] # None
      /\ docs[r].status = "awaiting_approval" /\ Happens(r, k, "rejected")
  BY DEF Reject, RejectedCall
<1>2. Typed /\ pc[p] = "idle" /\ Working(r) = {} /\ Goto(p, "undo", c)
      /\ (r \notin broken => StandingIn(log[r]) = Automatic(k - 1))
  BY <1>1, EffectsAtRest
<1>3. k \in Positions
  BY <1>1, <1>2, WaitingType
<1>4. c.run = r /\ c.at = k - 1
  BY DEF RejectedCall
<1>5. log'[r] = Append(log[r], Entry(k, "rejected")) /\ \A s \in Runs \ {r} : log'[s] = log[s]
  BY <1>1, <1>2, <1>3, HappensType DEF Whats
<1>6. log[r] \in Seq(JournalEntry)
  BY <1>2 DEF Typed, TypeOK
<1>7. StandingIn(log'[r]) = StandingIn(log[r])
  BY <1>3, <1>5, <1>6, StandingLater DEF Whats
<1> HIDE DEF c, k
<1>8. r \notin broken' => InEffect(log'[r], "undo", c)
  BY <1>1, <1>2, <1>4, <1>7 DEF InEffect
<1>9. OnRun(p, r, "undo", c)
  BY <1>1, <1>2, <1>4, <1>5 DEF OnRun
<1>10. QED
  BY <1>1, <1>8, <1>9, EffectsGo

LEMMA RollbackTells ==
  ASSUME EffInv, ~Overlap, NEW p \in Procs, NEW r \in Runs, Rollback(p, r)
  PROVE  Alone' /\ Unsaved' /\ EffectsKnown'
<1> DEFINE c == RolledBackCall(r)
<1>1. Begin(p, r, "undo", c) /\ docs' = docs /\ broken' = broken /\ docs[r] # None /\ log' = log
  BY DEF Rollback, RolledBackCall, history
<1>2. c.run = r /\ c.at = docs[r].cursor - 1
  BY DEF RolledBackCall
<1> HIDE DEF c
<1>3. Typed /\ pc[p] = "idle" /\ Working(r) = {} /\ Goto(p, "undo", c) /\ Sound(docs[r])
      /\ docs[r] \in Run
  BY <1>1, EffectsAtRest
<1>4. r \notin broken =>
        StandingIn(log[r]) = CASE docs[r].status = "completed" -> Automatic(Len(Steps))
                               [] docs[r].status = "awaiting_approval" -> Automatic(docs[r].cursor - 1)
                               [] OTHER -> {}
  BY <1>1, EffectsAtRest
<1>5. docs[r].status = "completed" => Len(Steps) = docs[r].cursor - 1
  BY <1>3, StepsType DEF Sound
<1>6. r \notin broken => StandingIn(log[r]) \subseteq Automatic(docs[r].cursor - 1)
  BY <1>4, <1>5
<1>7. OnRun(p, r, "undo", c)
  BY <1>1, <1>2, <1>3 DEF OnRun
<1>8. r \notin broken' => InEffect(log'[r], "undo", c)
  BY <1>1, <1>2, <1>6 DEF InEffect
<1>9. QED
  BY <1>1, <1>7, <1>8, EffectsGo

LEMMA SaveTells ==
  ASSUME EffInv, NEW p \in Procs, Save(p)
  PROVE  Alone' /\ Unsaved' /\ EffectsKnown'
<1> DEFINE r == call[p].run
<1>1. pc[p] = "save" /\ Goto(p, "step", call[p]) /\ docs' = [docs EXCEPT ![r] = call[p].doc]
      /\ log' = log /\ broken' = broken
  BY DEF Save, history
<1>2. r \in Runs /\ Typed /\ (r \notin broken => InEffect(log[r], "save", call[p]))
  BY <1>1, EffectsNow
<1>3. docs'[r] = call[p].doc /\ \A s \in Runs \ {r} : docs'[s] = docs[s]
  BY <1>1, <1>2, StoreIs
<1>4. docs'[r] # None
  BY <1>1, <1>2, <1>3, AtWorkHolds, NoneIsNoRun
<1>5. OnRun(p, r, "step", call[p])
  BY <1>1, <1>3 DEF OnRun
<1>6. r \notin broken' => InEffect(log'[r], "step", call[p])
  BY <1>1, <1>2 DEF InEffect
<1>7. QED
  BY <1>2, <1>4, <1>5, <1>6, EffectsGo

LEMMA TakeSnapshotTells ==
  ASSUME EffInv, NEW p \in Procs, TakeSnapshot(p)
  PROVE  Alone' /\ Unsaved' /\ EffectsKnown'
<1> DEFINE r == call[p].run
           c == SnapshotCall(p)
<1>1. pc[p] = "step" /\ docs' = docs /\ log' = log /\ broken' = broken
  BY DEF TakeSnapshot, history
<1>2. r \in Runs /\ Typed /\ (r \notin broken => InEffect(log[r], "step", call[p]))
      /\ docs[r] # None
  BY <1>1, EffectsNow
<1>3. Goto(p, "apply", c) /\ c.run = r /\ c.doc.cursor = call[p].doc.cursor
  BY <1>2, TakeSnapshotHolds
<1> HIDE DEF c
<1>4. OnRun(p, r, "apply", c)
  BY <1>1, <1>3 DEF OnRun
<1>5. r \notin broken' => InEffect(log'[r], "apply", c)
  BY <1>1, <1>2, <1>3 DEF InEffect
<1>6. QED
  BY <1>1, <1>2, <1>4, <1>5, EffectsGo

LEMMA DoTells ==
  ASSUME EffInv, NEW p \in Procs, Do(p)
  PROVE  Alone' /\ Unsaved' /\ EffectsKnown'
<1> DEFINE r == call[p].run
           c == DoneCall(p)
           k == call[p].doc.cursor
<1>1. AtWork(p) /\ docs' = docs /\ broken' = broken /\ Happens(r, k, "done") /\ Typed
  BY DEF Do, EffInv
<1>2. pc[p] \in {"step", "apply"} /\ k \in Positions /\ k \in Nat /\ Steps[k].kind # "human"
  BY <1>1, StepToDo, StepAtHand
<1>3. r \in Runs /\ docs[r] # None /\ (r \notin broken => InEffect(log[r], pc[p], call[p]))
  BY <1>2, EffectsNow
<1>4. Goto(p, "save", c) /\ c.run = r /\ c.doc.cursor = k + 1
  BY <1>1, DoHolds
<1>5. /\ log'[r] = Append(log[r], Entry(k, "done"))
      /\ log[r] \in Seq(JournalEntry)
      /\ \A s \in Runs \ {r} : log'[s] = log[s]
  BY <1>1, <1>2, <1>3, HappensType DEF Whats, Typed, TypeOK
<1>6. StandingIn(log'[r]) = StandingIn(log[r]) \cup {k}
  BY <1>2, <1>5, StandingLater DEF Whats
<1> HIDE DEF c
<1>7. r \notin broken' => InEffect(log'[r], "save", c)
  BY <1>1, <1>2, <1>3, <1>4, <1>6, AutomaticSteps DEF InEffect
<1>8. OnRun(p, r, "save", c)
  <2>1. \A s \in Runs \ {r} : log'[s] = log[s]
    BY <1>5
  <2>2. QED
    BY <1>1, <1>2, <1>4, <2>1 DEF OnRun
<1>9. QED
  BY <1>1, <1>3, <1>7, <1>8, EffectsGo

LEMMA FailTells ==
  ASSUME EffInv, NEW p \in Procs, Fail(p)
  PROVE  Alone' /\ Unsaved' /\ EffectsKnown'
<1> DEFINE r == call[p].run
           k == call[p].doc.cursor
           c == NotedCall(p, k, k - 1)
<1>1. MayFail(p) /\ Goto(p, "undo", c) /\ log' = log /\ docs' = docs /\ broken' = broken /\ Typed
  BY DEF Fail, NotedCall, EffInv
<1>2. pc[p] \in {"step", "apply"} /\ k \in Positions /\ k - 1 \in 0 .. Len(Steps) /\ k - 1 < k
  BY <1>1, StepAtHand, StepsType
<1>3. r \in Runs /\ docs[r] # None /\ (r \notin broken => InEffect(log[r], pc[p], call[p]))
  BY <1>2, EffectsNow
<1>4. c.run = r /\ c.at = k - 1
  BY <1>1, <1>2, NotedHolds
<1> HIDE DEF c
<1>5. OnRun(p, r, "undo", c)
  BY <1>1, <1>2, <1>4 DEF OnRun
<1>6. r \notin broken' => InEffect(log'[r], "undo", c)
  BY <1>1, <1>2, <1>3, <1>4 DEF InEffect
<1>7. QED
  BY <1>1, <1>3, <1>5, <1>6, EffectsGo

LEMMA UndoTells ==
  ASSUME EffInv, NEW p \in Procs, Undo(p)
  PROVE  Alone' /\ Unsaved' /\ EffectsKnown'
<1> DEFINE r == call[p].run
           k == call[p].at
           c == UndoneCall(p)
           d == PassedCall(p)
<1>1. pc[p] = "undo" /\ ~Unwound(p) /\ docs' = docs /\ broken' = broken /\ Typed
  BY DEF Undo, EffInv
<1>2. k \in Positions
  BY <1>1, StepToUndo
<1>3. r \in Runs /\ docs[r] # None /\ (r \notin broken => StandingIn(log[r]) \subseteq Automatic(k))
  BY <1>1, EffectsNow DEF InEffect
<1>4. log[r] \in Seq(JournalEntry)
  BY <1>1, <1>3 DEF Typed, TypeOK
<1>5. CASE Steps[k].kind = "human"
  <2>1. Goto(p, "undo", d) /\ log' = log /\ d.run = r /\ d.at = k - 1
    BY <1>1, <1>5, UndoHolds
  <2> HIDE DEF d
  <2>2. OnRun(p, r, "undo", d)
    BY <1>1, <2>1 DEF OnRun
  <2>3. r \notin broken' => InEffect(log'[r], "undo", d)
    BY <1>1, <1>2, <1>3, <1>5, <2>1, AutomaticSteps DEF InEffect
  <2>4. QED
    BY <1>1, <1>3, <2>2, <2>3, EffectsGo
<1>6. CASE Steps[k].kind # "human"
  <2>1. Goto(p, "undo", c) /\ Happens(r, k, "compensated") /\ c.run = r /\ c.at = k - 1
    BY <1>1, <1>6, UndoHolds
  <2>2. log'[r] = Append(log[r], Entry(k, "compensated")) /\ \A s \in Runs \ {r} : log'[s] = log[s]
    BY <1>1, <1>2, <1>3, <2>1, HappensType DEF Whats
  <2>3. StandingIn(log'[r]) = StandingIn(log[r]) \ {k}
    BY <1>2, <1>4, <2>2, StandingLater DEF Whats
  <2> HIDE DEF c
  <2>4. r \notin broken' => InEffect(log'[r], "undo", c)
    BY <1>1, <1>2, <1>3, <1>6, <2>1, <2>3, AutomaticSteps DEF InEffect
  <2>5. OnRun(p, r, "undo", c)
    BY <1>1, <2>1, <2>2 DEF OnRun
  <2>6. QED
    BY <1>1, <1>3, <2>4, <2>5, EffectsGo
<1>7. QED
  BY <1>5, <1>6

(* A call stores its document with another status and returns.              *)
LEMMA LeaveTells ==
  ASSUME EffInv, NEW p \in Procs, pc[p] # "idle", NEW status \in Statuses,
         docs' = [docs EXCEPT ![call[p].run] = [call[p].doc EXCEPT !.status = status]],
         Return(p), log' = log, broken' = broken,
         call[p].run \notin broken =>
           StandingIn(log[call[p].run])
             = CASE status = "completed" -> Automatic(Len(Steps))
                 [] status = "awaiting_approval" -> Automatic(call[p].doc.cursor - 1)
                 [] OTHER -> {}
  PROVE  Alone' /\ Unsaved' /\ EffectsKnown'
<1>0. PICK r \in Runs : r = call[p].run
  BY EffectsNow
<1> DEFINE d == [call[p].doc EXCEPT !.status = status]
<1>1. Typed /\ call[p].doc \in Run
  BY AtWorkHolds DEF EffInv
<1>2. d \in Run /\ d.status = status /\ d.cursor = call[p].doc.cursor
  BY <1>1, StatusType
<1>3. docs' = [docs EXCEPT ![r] = d]
  BY <1>0
<1> HIDE DEF d
<1>4. docs'[r] = d /\ \A s \in Runs \ {r} : docs'[s] = docs[s]
  BY <1>1, <1>3, StoreIs
<1>5. docs'[r] # None
  BY <1>2, <1>4, NoneIsNoRun
<1>6. OnRun(p, r, "idle", NoCall)
  BY <1>0, <1>4 DEF OnRun, Return
<1>7. Standing(r)' = StandingIn(log[r])
  BY DEF Standing, StandingIn
<1>8. r \notin broken' => Told(r)'
  BY <1>0, <1>2, <1>4, <1>7 DEF Told
<1>9. QED
  BY <1>5, <1>6, <1>8, EffectsStep

LEMMA EndsTell ==
  ASSUME EffInv, NEW p \in Procs, Pause(p) \/ Complete(p) \/ End(p)
  PROVE  Alone' /\ Unsaved' /\ EffectsKnown'
<1> DEFINE r == call[p].run
           k == call[p].doc.cursor
<1>1. pc[p] # "idle" /\ Return(p) /\ log' = log /\ broken' = broken
  BY DEF Pause, Complete, End, history
<1>2. r \notin broken => InEffect(log[r], pc[p], call[p])
  BY <1>1, EffectsNow
<1>3. Len(Steps) \in Nat
  BY StepsType
<1>4. CASE Pause(p)
  <2>1. r \notin broken => StandingIn(log[r]) = Automatic(k - 1)
    BY <1>2, <1>4 DEF InEffect, Pause
  <2>2. docs' = [docs EXCEPT ![r] = [call[p].doc EXCEPT !.status = "awaiting_approval"]]
    BY <1>4 DEF Pause
  <2>3. "awaiting_approval" \in Statuses
    BY DEF Statuses
  <2>4. QED
    BY <1>1, <2>1, <2>2, <2>3, LeaveTells
<1>5. CASE Complete(p)
  <2>1. k - 1 = Len(Steps)
    BY <1>3, <1>5 DEF Complete
  <2>2. r \notin broken => StandingIn(log[r]) = Automatic(Len(Steps))
    BY <1>2, <1>5, <2>1 DEF InEffect, Complete
  <2>3. docs' = [docs EXCEPT ![r] = [call[p].doc EXCEPT !.status = "completed"]]
    BY <1>5 DEF Complete
  <2>4. "completed" \in Statuses
    BY DEF Statuses
  <2>5. QED
    BY <1>1, <2>2, <2>3, <2>4, LeaveTells
<1>6. CASE End(p)
  <2>1. r \notin broken => StandingIn(log[r]) = {}
    BY <1>2, <1>6, AutomaticSteps DEF InEffect, End, Unwound
  <2>2. call[p].ends \in {"rejected", "rolled_back", "failed"}
    BY <1>1, <1>6, AtWorkHolds DEF Fit, End, EffInv
  <2>3. docs' = [docs EXCEPT ![r] = [call[p].doc EXCEPT !.status = call[p].ends]]
    BY <1>6 DEF End
  <2>4. call[p].ends \in Statuses
    BY <2>2 DEF Statuses
  <2>5. QED
    BY <1>1, <2>1, <2>2, <2>3, <2>4, LeaveTells
<1>7. QED
  BY <1>4, <1>5, <1>6

(* A run on which a call died or failed to undo is promised nothing.        *)
LEMMA BreaksTell ==
  ASSUME EffInv, NEW p \in Procs, UndoFails(p) \/ Die(p)
  PROVE  Alone' /\ Unsaved' /\ EffectsKnown'
<1> DEFINE r == call[p].run
           k == call[p].at
           c == NotedCall(p, k, 0)
<1>1. pc[p] # "idle" /\ log' = log /\ docs' = docs /\ broken' = broken \cup {r}
  BY DEF UndoFails, Die
<1>2. r \in Runs /\ Typed /\ (docs[r] = None => log[r] = <<>> /\ call[p].doc = NewRun)
  BY <1>1, EffectsNow
<1>3. CASE Return(p)
  <2>1. OnRun(p, r, "idle", NoCall)
    BY <1>1, <1>3 DEF OnRun, Return
  <2>2. NoCall.doc = NewRun
    BY DEF NoCall
  <2>3. QED
    BY <1>1, <1>2, <2>1, <2>2, EffectsStep
<1>4. CASE UndoFails(p) /\ call[p].ends = "failed"
  <2>1. pc[p] = "undo" /\ ~Unwound(p)
        /\ Goto(p, "undo", [call[p] EXCEPT !.doc = Recorded(@, k, "failed"), !.at = 0])
    BY <1>4 DEF UndoFails
  <2>2. k \in Positions /\ 0 \in 0 .. Len(Steps) /\ 0 < call[p].doc.cursor /\ call[p] \in Call
    BY <1>2, <2>1, StepToUndo, AtWorkHolds, StepsType
  <2>3. Goto(p, "undo", c)
    BY <1>4, <2>1, <2>2, NotesFailure
  <2>4. c.run = r
    BY <1>1, <1>2, <2>2, NotedHolds
  <2>5. docs[r] # None
    BY <2>1, EffectsNow
  <2> HIDE DEF c
  <2>6. OnRun(p, r, "undo", c)
    BY <1>1, <2>3, <2>4 DEF OnRun
  <2>7. QED
    BY <1>1, <1>2, <2>5, <2>6, EffectsGo
<1>5. QED
  BY <1>3, <1>4 DEF UndoFails, Die

LEMMA InitEffects == Init => EffInv
<1> SUFFICES ASSUME Init PROVE EffInv
  OBVIOUS
<1>1. Typed
  BY InitTyped
<1>2. Alone
  BY DEF Init, Alone
<1>3. \A r \in Runs : Working(r) = {}
  BY NoneIsNoRun DEF Init, Working, NoCall
<1>4. Unsaved
  BY <1>3 DEF Init, Unsaved
<1>5. EffectsKnown
  BY <1>3 DEF Init, EffectsKnown, EffectsOf, Resting
<1>6. QED
  BY <1>1, <1>2, <1>4, <1>5 DEF EffInv

LEMMA StepEffects ==
  ASSUME ~Overlap, EffInv, [Next]_vars
  PROVE  EffInv'
<1> SUFFICES Alone' /\ Unsaved' /\ EffectsKnown'
  BY StepTyped DEF EffInv
<1>1. ASSUME NEW p \in Procs, NEW r \in Runs,
             Start(p, r) \/ Approve(p, r) \/ Reject(p, r) \/ Rollback(p, r)
      PROVE  Alone' /\ Unsaved' /\ EffectsKnown'
  BY <1>1, StartTells, ApproveTells, RejectTells, RollbackTells
<1>2. ASSUME NEW p \in Procs,
             Save(p) \/ Pause(p) \/ Complete(p) \/ End(p) \/ Die(p) \/ UndoFails(p)
      PROVE  Alone' /\ Unsaved' /\ EffectsKnown'
  BY <1>2, SaveTells, EndsTell, BreaksTell
<1>3. ASSUME NEW p \in Procs, TakeSnapshot(p) \/ Do(p) \/ Fail(p) \/ Undo(p)
      PROVE  Alone' /\ Unsaved' /\ EffectsKnown'
  BY <1>3, TakeSnapshotTells, DoTells, FailTells, UndoTells
<1>4. CASE UNCHANGED vars
  <2>1. \A s \in Runs : RunStays(s)
    BY <1>4 DEF vars, RunStays, Working
  <2>2. EffectsKnown'
    BY <2>1, StaysInEffect DEF EffInv, EffectsKnown
  <2>3. QED
    BY <1>4, <2>2 DEF vars, EffInv, Alone, Unsaved, Working
<1>5. QED
  BY <1>1, <1>2, <1>3, <1>4 DEF Next, Act

(* While no two calls work on one run, its status tells which effects stand,*)
(* whatever fails or dies on other runs (engine.go:117-208).                *)
THEOREM StatusIsTold ==
  ASSUME ~Overlap
  PROVE  Spec => []StatusTellsEffects
<1>1. EffInv => StatusTellsEffects
  BY DEF EffInv, EffectsKnown, EffectsOf, Told, StatusTellsEffects
<1>2. EffInv /\ [Next]_vars => EffInv'
  BY StepEffects
<1>3. QED
  BY InitEffects, <1>1, <1>2, PTL DEF Spec

-----------------------------------------------------------------------------
(* What a rollback gives back.  A snapshot cannot give back a NULL, nor what*)
(* a step of another kind did to the same cell.                             *)
Alters(k, c) == Steps[k].kind = "mutate" /\ c \in Touched(k)

MutatedApart ==
  /\ \A k \in Positions : Steps[k].kind # "mutate" =>
       /\ \A j \in DOMAIN Steps[k].do : Steps[k].do[j][1] \notin Mutated
       /\ \A j \in DOMAIN Steps[k].undo : Steps[k].undo[j][1] \notin Mutated
  /\ \A k \in Positions : Steps[k].kind = "mutate" =>
       \A j \in DOMAIN Steps[k].do : Steps[k].do[j][2] # Null
  /\ \A c \in Mutated : World0[c] # Null

NeverNull == \A c \in Mutated : world[c] # Null

(* Up to a step, the first snapshot of a cell holds what the run found, and *)
(* the cells that no mutation has reached are as the run found them.        *)
Original(doc, n, found) ==
  \A k \in 1 .. n : \A c \in Mutated :
    Alters(k, c) /\ (\A j \in 1 .. k - 1 : ~Alters(j, c)) => doc.before[k][c] = found[c]

AsFound(now, n, found) ==
  \A c \in Mutated : (\A k \in 1 .. n : ~Alters(k, c)) => now[c] = found[c]

Ends == {"rejected", "rolled_back", "failed"}

RestoresOf(r) ==
  r \notin broken \cup mixed =>
    /\ Resting(r) =>
         /\ Original(docs[r], docs[r].cursor - 1, origin[r])
         /\ AsFound(world, IF docs[r].status \in Ends THEN 0 ELSE docs[r].cursor - 1, origin[r])
    /\ \A p \in Working(r) :
         /\ Original(call[p].doc,
                     IF pc[p] = "apply" THEN call[p].doc.cursor ELSE call[p].doc.cursor - 1,
                     origin[r])
         /\ AsFound(world, IF pc[p] = "undo" THEN call[p].at ELSE call[p].doc.cursor - 1,
                    origin[r])

RestoresKnown == \A r \in Runs : RestoresOf(r)

RestInv == EffInv /\ NeverNull /\ RestoresKnown

LEMMA MutatedCells ==
  /\ Mutated \subseteq Cells
  /\ \A k \in Positions, c \in Mutated : Alters(k, c) => c \in Touched(k)
  BY StepsType DEF Mutated, Alters

(* Statements leave the mutated cells that their step does not mutate.      *)
LEMMA DoneApart ==
  ASSUME MutatedApart, NEW w, NEW k \in Positions, NEW n \in 0 .. Len(Steps[k].do),
         NEW c \in Mutated
  PROVE  /\ ~Alters(k, c) => Written(w, Steps[k].do, n)[c] = w[c]
         /\ w[c] # Null => Written(w, Steps[k].do, n)[c] # Null
<1>1. n \in Nat /\ c \in Cells /\ \A j \in 1 .. n : j \in DOMAIN Steps[k].do
  BY StepsType, MutatedCells
<1>2. ASSUME NEW j \in 1 .. n, Steps[k].do[j][1] = c
      PROVE  Alters(k, c) /\ Steps[k].do[j][2] # Null
  <2>1. j \in DOMAIN Steps[k].do
    BY <1>1
  <2>2. Steps[k].kind = "mutate"
    BY <1>2, <2>1 DEF MutatedApart
  <2>3. c \in Touched(k)
    BY <1>2, <2>1, StepsType
  <2>4. QED
    BY <2>1, <2>2, <2>3 DEF Alters, MutatedApart
<1>3. \/ Written(w, Steps[k].do, n)[c] = w[c]
      \/ \E j \in 1 .. n :
           Steps[k].do[j][1] = c /\ Written(w, Steps[k].do, n)[c] = Steps[k].do[j][2]
  BY <1>1, WrittenCells
<1>4. QED
  BY <1>2, <1>3

(* A cell after the first n statements of what undoes a step.               *)
CellUndone(w, doc, k, n, c) ==
  /\ ~Alters(k, c) => Written(w, Undoing(doc, k), n)[c] = w[c]
  /\ w[c] # Null => Written(w, Undoing(doc, k), n)[c] # Null
  /\ Alters(k, c) /\ n = Len(Undoing(doc, k)) =>
       Written(w, Undoing(doc, k), n)[c] = doc.before[k][c]

LEMMA UndoneBack ==
  ASSUME MutatedApart, NEW w, NEW doc \in Run, NEW k \in Positions, NEW m \in Nat, k <= m,
         Snapshotted(doc, m), NEW n \in 0 .. Len(Undoing(doc, k)), NEW c \in Mutated
  PROVE  CellUndone(w, doc, k, n, c)
<1> DEFINE undoing == Undoing(doc, k)
<1>1. Len(undoing) \in Nat /\ DOMAIN undoing = 1 .. Len(undoing) /\ c \in Cells
      /\ n \in Nat /\ \A j \in 1 .. n : j \in DOMAIN undoing
  BY UndoingType, MutatedCells
<1>2. CASE Steps[k].kind = "mutate"
  <2>1. undoing = [j \in DOMAIN Steps[k].do |-> <<Steps[k].do[j][1], doc.before[k][Steps[k].do[j][1]]>>]
    BY <1>2 DEF Undoing
  <2> HIDE DEF undoing
  <2>2. DOMAIN undoing = DOMAIN Steps[k].do
        /\ \A j \in DOMAIN undoing : /\ undoing[j][1] = Steps[k].do[j][1]
                                     /\ undoing[j][2] = doc.before[k][undoing[j][1]]
    BY <2>1
  <2>3. doc.before[k][c] # Null
    BY <1>1, ValuesAssumption DEF Run, Image
  <2>4. \/ /\ \A j \in 1 .. n : undoing[j][1] # c
           /\ Written(w, undoing, n)[c] = w[c]
        \/ \E j \in 1 .. n : undoing[j][1] = c /\ Written(w, undoing, n)[c] = undoing[j][2]
    BY <1>1, WrittenCells
  <2>5. \A j \in 1 .. n : undoing[j][1] = c => c \in Touched(k) /\ undoing[j][2] = doc.before[k][c]
    BY <1>1, <2>2, StepsType
  <2>6. c \in Touched(k) => \E j \in DOMAIN undoing : undoing[j][1] = c
    BY <2>2 DEF Touched
  <2>7. /\ ~Alters(k, c) => Written(w, undoing, n)[c] = w[c]
        /\ w[c] # Null => Written(w, undoing, n)[c] # Null
        /\ Alters(k, c) /\ n = Len(undoing) => Written(w, undoing, n)[c] = doc.before[k][c]
    BY <1>1, <1>2, <2>3, <2>4, <2>5, <2>6 DEF Alters
  <2>8. QED
    BY <2>7, Zenon DEF CellUndone, undoing
<1>3. CASE Steps[k].kind # "mutate"
  <2>1. undoing = Steps[k].undo
    BY <1>3 DEF Undoing
  <2>2. \A j \in 1 .. n : undoing[j][1] # c
    BY <1>1, <1>3, <2>1 DEF MutatedApart
  <2> HIDE DEF undoing
  <2>3. Written(w, undoing, n)[c] = w[c]
    BY <1>1, <2>2, WrittenCells
  <2>4. QED
    BY <1>3, <2>3 DEF CellUndone, Alters, undoing
<1>4. QED
  BY <1>2, <1>3

(* What a step of a call on a run does to the rest of the warehouse.        *)
WritesBeside(r) ==
  /\ mixed \subseteq mixed'
  /\ \A s \in Runs \ {r} : origin'[s] = origin[s]
  /\ \/ \A c \in Mutated : world'[c] = world[c]
     \/ mixed' = mixed \cup Beside(r)

LEMMA OthersRestore ==
  ASSUME NEW r \in Runs, NEW s \in Runs \ {r}, RunStays(s), WritesBeside(r), RestoresOf(s)
  PROVE  RestoresOf(s)'
<1> SUFFICES ASSUME s \notin broken', s \notin mixed',
                    Resting(s)' \/ Working(s)' # {}
             PROVE  RestoresOf(s)'
  BY DEF RestoresOf
<1>1. docs'[s] = docs[s] /\ Working(s)' = Working(s) /\ origin'[s] = origin[s]
      /\ s \notin broken \cup mixed
  BY DEF RunStays, WritesBeside
<1>2. s \in Beside(r)
  BY <1>1 DEF Beside, Resting
<1>3. \A c \in Mutated : world'[c] = world[c]
  BY <1>2 DEF WritesBeside
<1>4. \A n : AsFound(world', n, origin[s]) <=> AsFound(world, n, origin[s])
  BY <1>1, <1>3 DEF AsFound
<1>5. Resting(s)' <=> Resting(s)
  BY <1>1 DEF Resting
<1>6. \A q \in Working(s) : pc'[q] = pc[q] /\ call'[q] = call[q]
  BY DEF RunStays
<1>7. QED
  BY <1>1, <1>4, <1>5, <1>6 DEF RestoresOf

(* What is left to show of such a step.                                     *)
Restorable(label, c, now, found) ==
  /\ Original(c.doc, IF label = "apply" THEN c.doc.cursor ELSE c.doc.cursor - 1, found)
  /\ AsFound(now, IF label = "undo" THEN c.at ELSE c.doc.cursor - 1, found)

LEMMA RestoresStep ==
  ASSUME RestInv, NEW p \in Procs, NEW r \in Runs, NEW label, NEW c, OnRun(p, r, label, c),
         WritesBeside(r),
         r \notin broken' \cup mixed' =>
           IF label = "idle"
           THEN /\ Original(docs'[r], docs'[r].cursor - 1, origin'[r])
                /\ AsFound(world', IF docs'[r].status \in Ends THEN 0 ELSE docs'[r].cursor - 1,
                           origin'[r])
           ELSE Restorable(label, c, world', origin'[r])
  PROVE  RestoresKnown'
<1>1. /\ \A s \in Runs \ {r} : RunStays(s)
      /\ Working(r)' = IF label = "idle" THEN {} ELSE {p}
      /\ pc'[p] = label /\ call'[p] = c
  BY OneMoves DEF RestInv, EffInv
<1>2. \A s \in Runs \ {r} : RestoresOf(s)'
  BY <1>1, OthersRestore DEF RestInv, RestoresKnown
<1>3. RestoresOf(r)'
  <2>1. CASE label = "idle"
    BY <1>1, <2>1 DEF RestoresOf
  <2>2. CASE label # "idle"
    <3>1. ~Resting(r)'
      BY <1>1, <2>2 DEF Resting
    <3>2. QED
      BY <1>1, <2>2, <3>1 DEF RestoresOf, Restorable
  <2>3. QED
    BY <2>1, <2>2
<1>4. QED
  BY <1>2, <1>3 DEF RestoresKnown

(* What is known of a run as a call goes on, and as one begins.             *)
LEMMA RestoresNow ==
  ASSUME RestInv, NEW p \in Procs, pc[p] # "idle"
  PROVE  /\ Typed /\ call[p].run \in Runs
         /\ call[p].run \notin broken \cup mixed =>
              Restorable(pc[p], call[p], world, origin[call[p].run])
<1>1. call[p].run \in Runs /\ p \in Working(call[p].run) /\ Typed
  BY AtWorkHolds DEF RestInv, EffInv, Working
<1>2. RestoresOf(call[p].run)
  BY <1>1 DEF RestInv, RestoresKnown
<1>3. QED
  BY <1>1, <1>2 DEF RestoresOf, Restorable

LEMMA RestoresAtRest ==
  ASSUME RestInv, ~Overlap, NEW p \in Procs, NEW r \in Runs, NEW label, NEW c,
         Begin(p, r, label, c)
  PROVE  /\ Typed /\ pc[p] = "idle" /\ Working(r) = {} /\ Goto(p, label, c)
         /\ docs[r] # None => docs[r] \in Run /\ docs[r].cursor \in Nat
         /\ docs[r] # None /\ r \notin broken \cup mixed =>
              /\ Original(docs[r], docs[r].cursor - 1, origin[r])
              /\ AsFound(world, docs[r].cursor - 1, origin[r])
<1>1. Typed /\ pc[p] = "idle" /\ Working(r) = {} /\ Goto(p, label, c)
  BY DEF Begin, RestInv, EffInv
<1>2. docs[r] # None => docs[r] \in Run /\ docs[r].cursor \in Nat
  BY <1>1, StepsType DEF Typed, TypeOK, Run
<1>3. docs[r] # None /\ r \notin broken \cup mixed =>
        /\ Original(docs[r], docs[r].cursor - 1, origin[r])
        /\ AsFound(world, IF docs[r].status \in Ends THEN 0 ELSE docs[r].cursor - 1, origin[r])
  BY <1>1 DEF RestInv, RestoresKnown, RestoresOf, Resting
<1>4. AsFound(world, 0, origin[r]) => AsFound(world, docs[r].cursor - 1, origin[r])
  BY DEF AsFound
<1>5. QED
  BY <1>1, <1>2, <1>3, <1>4

LEMMA StartRestores ==
  ASSUME RestInv, ~Overlap, NEW p \in Procs, NEW r \in Runs, Start(p, r)
  PROVE  RestoresKnown'
<1> DEFINE c == [NoCall EXCEPT !.run = r]
<1>1. Begin(p, r, "save", c) /\ docs' = docs /\ log' = log /\ broken' = broken /\ mixed' = mixed
      /\ world' = world /\ origin' = [origin EXCEPT ![r] = world]
  BY DEF Start
<1>2. c.run = r /\ c.doc = NewRun /\ NewRun.cursor - 1 = 0
  BY DEF NoCall, NewRun
<1> HIDE DEF c
<1>3. Typed /\ pc[p] = "idle" /\ Working(r) = {} /\ Goto(p, "save", c)
  BY <1>1, RestoresAtRest
<1>4. OnRun(p, r, "save", c)
  BY <1>1, <1>2, <1>3 DEF OnRun
<1>5. origin'[r] = world /\ \A s \in Runs \ {r} : origin'[s] = origin[s]
  BY <1>1, <1>3 DEF Typed, TypeOK
<1>6. WritesBeside(r)
  BY <1>1, <1>5 DEF WritesBeside
<1>7. Restorable("save", c, world', origin'[r])
  BY <1>1, <1>2, <1>5 DEF Restorable, Original, AsFound
<1>8. QED
  BY <1>4, <1>6, <1>7, RestoresStep

(* A decision on a run that waits, or to roll one back.                     *)
LEMMA DecisionRestores ==
  ASSUME RestInv, ~Overlap, NEW p \in Procs, NEW r \in Runs,
         Approve(p, r) \/ Reject(p, r) \/ Rollback(p, r)
  PROVE  RestoresKnown'
<1>1. /\ docs[r] # None /\ docs' = docs /\ broken' = broken /\ mixed' = mixed /\ world' = world
      /\ origin' = origin
  BY DEF Approve, Reject, Rollback, history
<1>2. WritesBeside(r)
  BY <1>1 DEF WritesBeside
<1>3. CASE Approve(p, r)
  <2> DEFINE c == ApprovedCall(r)
             k == docs[r].cursor
  <2>1. Begin(p, r, "save", c) /\ Happens(r, k, "approved") /\ docs[r].status = "awaiting_approval"
    BY <1>3 DEF Approve, ApprovedCall
  <2>2. /\ Typed /\ pc[p] = "idle" /\ Working(r) = {} /\ Goto(p, "save", c) /\ k \in Nat
        /\ r \notin broken \cup mixed =>
             Original(docs[r], k - 1, origin[r]) /\ AsFound(world, k - 1, origin[r])
    BY <1>1, <2>1, RestoresAtRest
  <2>3. k \in Positions /\ Steps[k].kind = "human"
    BY <1>1, <2>1, <2>2, WaitingType
  <2>4. c.run = r /\ c.doc.cursor = k + 1 /\ c.doc.before = docs[r].before
    BY <1>3, <2>2, ApproveHolds
  <2>5. \A s \in Runs \ {r} : log'[s] = log[s]
    BY <2>1, <2>2, <2>3, HappensType DEF Whats
  <2> HIDE DEF c
  <2>6. OnRun(p, r, "save", c)
    BY <1>1, <2>2, <2>4, <2>5 DEF OnRun
  <2>7. \A j \in 1 .. k : j \in 1 .. k - 1 \/ j = k
    BY <2>2
  <2>8. \A x : ~Alters(k, x)
    BY <2>3 DEF Alters
  <2>9. r \notin broken \cup mixed => Original(c.doc, k, origin[r]) /\ AsFound(world, k, origin[r])
    BY <2>2, <2>4, <2>7, <2>8 DEF Original, AsFound
  <2>10. c.doc.cursor - 1 = k
    BY <2>2, <2>4
  <2>11. r \notin broken' \cup mixed' => Restorable("save", c, world', origin'[r])
    BY <1>1, <2>9, <2>10 DEF Restorable
  <2>12. QED
    BY <1>2, <2>6, <2>11, RestoresStep
<1>4. CASE Reject(p, r)
  <2> DEFINE c == RejectedCall(r)
             k == docs[r].cursor
  <2>1. Begin(p, r, "undo", c) /\ Happens(r, k, "rejected") /\ docs[r].status = "awaiting_approval"
    BY <1>4 DEF Reject, RejectedCall
  <2>2. /\ Typed /\ pc[p] = "idle" /\ Working(r) = {} /\ Goto(p, "undo", c)
        /\ r \notin broken \cup mixed =>
             Original(docs[r], k - 1, origin[r]) /\ AsFound(world, k - 1, origin[r])
    BY <1>1, <2>1, RestoresAtRest
  <2>3. k \in Positions
    BY <1>1, <2>1, <2>2, WaitingType
  <2>4. c.run = r /\ c.doc.cursor = k /\ c.doc.before = docs[r].before /\ c.at = k - 1
    BY <1>4, <2>2, RejectHolds
  <2>5. \A s \in Runs \ {r} : log'[s] = log[s]
    BY <2>1, <2>2, <2>3, HappensType DEF Whats
  <2> HIDE DEF c
  <2>6. OnRun(p, r, "undo", c)
    BY <1>1, <2>2, <2>4, <2>5 DEF OnRun
  <2>7. r \notin broken' \cup mixed' => Restorable("undo", c, world', origin'[r])
    BY <1>1, <2>2, <2>4 DEF Restorable, Original
  <2>8. QED
    BY <1>2, <2>6, <2>7, RestoresStep
<1>5. CASE Rollback(p, r)
  <2> DEFINE c == RolledBackCall(r)
  <2>1. Begin(p, r, "undo", c) /\ log' = log
    BY <1>5 DEF Rollback, RolledBackCall, history
  <2>2. /\ Typed /\ pc[p] = "idle" /\ Working(r) = {} /\ Goto(p, "undo", c)
        /\ r \notin broken \cup mixed =>
             /\ Original(docs[r], docs[r].cursor - 1, origin[r])
             /\ AsFound(world, docs[r].cursor - 1, origin[r])
    BY <1>1, <2>1, RestoresAtRest
  <2>3. c.run = r /\ c.doc = docs[r] /\ c.at = docs[r].cursor - 1
    BY DEF RolledBackCall
  <2> HIDE DEF c
  <2>4. OnRun(p, r, "undo", c)
    BY <1>1, <2>1, <2>2, <2>3 DEF OnRun
  <2>5. r \notin broken' \cup mixed' => Restorable("undo", c, world', origin'[r])
    BY <1>1, <2>2, <2>3 DEF Restorable
  <2>6. QED
    BY <1>2, <2>4, <2>5, RestoresStep
<1>6. QED
  BY <1>3, <1>4, <1>5

LEMMA SaveRestores ==
  ASSUME RestInv, NEW p \in Procs, Save(p)
  PROVE  RestoresKnown'
<1>0. PICK r \in Runs : r = call[p].run
  BY RestoresNow DEF Save
<1>1. pc[p] = "save" /\ Goto(p, "step", call[p]) /\ docs' = [docs EXCEPT ![r] = call[p].doc]
      /\ log' = log /\ broken' = broken /\ mixed' = mixed /\ origin' = origin /\ world' = world
  BY <1>0 DEF Save, history
<1>2. Typed /\ (r \notin broken \cup mixed => Restorable("save", call[p], world, origin[r]))
  BY <1>0, <1>1, RestoresNow
<1>3. docs'[r] = call[p].doc /\ \A s \in Runs \ {r} : docs'[s] = docs[s]
  BY <1>1, <1>2, StoreIs
<1>4. OnRun(p, r, "step", call[p])
  BY <1>0, <1>1, <1>3 DEF OnRun
<1>5. WritesBeside(r)
  BY <1>1 DEF WritesBeside
<1>6. r \notin broken' \cup mixed' => Restorable("step", call[p], world', origin'[r])
  BY <1>1, <1>2 DEF Restorable
<1>7. QED
  BY <1>4, <1>5, <1>6, RestoresStep

(* A call stores its document with another status and returns.              *)
LEMMA LeaveRestores ==
  ASSUME RestInv, NEW p \in Procs, pc[p] \in {"step", "undo"}, NEW status \in Statuses,
         docs' = [docs EXCEPT ![call[p].run] = [call[p].doc EXCEPT !.status = status]],
         Return(p), UNCHANGED <<world, history>>,
         IF pc[p] = "undo" THEN call[p].at = 0 ELSE status \notin Ends
  PROVE  RestoresKnown'
<1>0. PICK r \in Runs : r = call[p].run
  BY RestoresNow
<1> DEFINE d == [call[p].doc EXCEPT !.status = status]
<1>1. Typed /\ call[p].doc \in Run
  BY AtWorkHolds DEF RestInv, EffInv
<1>2. d.status = status /\ d.cursor = call[p].doc.cursor /\ d.before = call[p].doc.before
  BY <1>1, StatusType
<1>3. docs' = [docs EXCEPT ![r] = d]
  BY <1>0
<1> HIDE DEF d
<1>4. docs'[r] = d /\ \A s \in Runs \ {r} : docs'[s] = docs[s]
  BY <1>1, <1>3, StoreIs
<1>5. log' = log /\ broken' = broken /\ mixed' = mixed /\ origin' = origin /\ world' = world
  BY DEF history
<1>6. OnRun(p, r, "idle", NoCall)
  BY <1>0, <1>4, <1>5 DEF OnRun, Return
<1>7. WritesBeside(r)
  BY <1>5 DEF WritesBeside
<1>8. ASSUME r \notin broken \cup mixed
      PROVE  /\ Original(d, d.cursor - 1, origin[r])
             /\ AsFound(world, IF status \in Ends THEN 0 ELSE d.cursor - 1, origin[r])
  <2>1. Restorable(pc[p], call[p], world, origin[r])
    BY <1>0, <1>8, RestoresNow
  <2>2. Original(d, d.cursor - 1, origin[r])
    BY <1>2, <2>1 DEF Restorable, Original
  <2>3. CASE pc[p] = "undo"
    <3>1. AsFound(world, 0, origin[r])
      BY <2>1, <2>3 DEF Restorable
    <3>2. AsFound(world, d.cursor - 1, origin[r])
      BY <3>1 DEF AsFound
    <3>3. QED
      BY <2>2, <3>1, <3>2
  <2>4. CASE pc[p] = "step"
    BY <1>2, <2>1, <2>2, <2>4 DEF Restorable
  <2>5. QED
    BY <2>3, <2>4
<1>9. QED
  BY <1>2, <1>4, <1>5, <1>6, <1>7, <1>8, RestoresStep

LEMMA EndsRestore ==
  ASSUME RestInv, NEW p \in Procs, Pause(p) \/ Complete(p) \/ End(p)
  PROVE  RestoresKnown'
<1>1. Return(p) /\ UNCHANGED <<world, history>> /\ pc[p] \in {"step", "undo"}
  BY DEF Pause, Complete, End
<1>2. CASE Pause(p)
  <2>1. docs' = [docs EXCEPT ![call[p].run] = [call[p].doc EXCEPT !.status = "awaiting_approval"]]
        /\ pc[p] = "step"
    BY <1>2 DEF Pause
  <2>2. "awaiting_approval" \in Statuses /\ "awaiting_approval" \notin Ends
    BY DEF Statuses, Ends
  <2>3. QED
    BY <1>1, <2>1, <2>2, LeaveRestores
<1>3. CASE Complete(p)
  <2>1. docs' = [docs EXCEPT ![call[p].run] = [call[p].doc EXCEPT !.status = "completed"]]
        /\ pc[p] = "step"
    BY <1>3 DEF Complete
  <2>2. "completed" \in Statuses /\ "completed" \notin Ends
    BY DEF Statuses, Ends
  <2>3. QED
    BY <1>1, <2>1, <2>2, LeaveRestores
<1>4. CASE End(p)
  <2>1. docs' = [docs EXCEPT ![call[p].run] = [call[p].doc EXCEPT !.status = call[p].ends]]
        /\ pc[p] = "undo" /\ call[p].at = 0
    BY <1>4 DEF End, Unwound
  <2>2. call[p].ends \in Statuses
    BY <2>1, AtWorkHolds DEF Call, RestInv, EffInv
  <2>3. QED
    BY <1>1, <2>1, <2>2, LeaveRestores
<1>5. QED
  BY <1>2, <1>3, <1>4

LEMMA TakeSnapshotRestores ==
  ASSUME RestInv, NEW p \in Procs, TakeSnapshot(p)
  PROVE  RestoresKnown'
<1>0. PICK r \in Runs : r = call[p].run
  BY RestoresNow DEF TakeSnapshot
<1>1. PICK k \in Positions : k = call[p].doc.cursor
  BY DEF TakeSnapshot
<1> DEFINE c == SnapshotCall(p)
<1>2. /\ pc[p] = "step" /\ Steps[k].kind = "mutate"
      /\ docs' = docs /\ log' = log /\ broken' = broken /\ mixed' = mixed /\ origin' = origin
      /\ world' = world
  BY <1>1 DEF TakeSnapshot, history
<1>3. Typed /\ (r \notin broken \cup mixed => Restorable("step", call[p], world, origin[r]))
  BY <1>0, <1>2, RestoresNow
<1>4. /\ Goto(p, "apply", c) /\ c.run = r /\ c.doc.cursor = k
      /\ c.doc.before = [call[p].doc.before EXCEPT ![k] = Snapshot(k, world)]
  BY <1>0, <1>1, <1>3, TakeSnapshotHolds
<1> HIDE DEF c
<1>5. OnRun(p, r, "apply", c)
  BY <1>0, <1>2, <1>4 DEF OnRun
<1>6. WritesBeside(r)
  BY <1>2 DEF WritesBeside
<1>7. ASSUME r \notin broken \cup mixed
      PROVE  Original(c.doc, k, origin[r]) /\ AsFound(world, k - 1, origin[r])
  <2>1. Original(call[p].doc, k - 1, origin[r]) /\ AsFound(world, k - 1, origin[r])
    BY <1>1, <1>3, <1>7 DEF Restorable
  <2>2. call[p].doc.before \in [Positions -> Image]
    BY <1>2, <1>3, AtWorkHolds DEF Run
  <2>3. c.doc.before[k] = Snapshot(k, world)
        /\ \A j \in Positions \ {k} : c.doc.before[j] = call[p].doc.before[j]
    BY <1>4, <2>2
  <2>4. k \in Nat /\ \A j \in 1 .. k : (j \in Positions \ {k} /\ j \in 1 .. k - 1) \/ j = k
    BY StepsType
  <2>5. ASSUME NEW x \in Mutated, Alters(k, x), \A j \in 1 .. k - 1 : ~Alters(j, x)
        PROVE  c.doc.before[k][x] = origin[r][x]
    <3>1. x \in Touched(k) /\ world[x] # Null
      BY <2>5, MutatedCells DEF RestInv, NeverNull
    <3>2. c.doc.before[k][x] = world[x]
      BY <1>3, <2>3, <3>1, SnapshotType DEF Rendered
    <3>3. world[x] = origin[r][x]
      BY <2>1, <2>5 DEF AsFound
    <3>4. QED
      BY <3>2, <3>3
  <2>6. Original(c.doc, k, origin[r])
    BY <2>1, <2>3, <2>4, <2>5 DEF Original
  <2>7. QED
    BY <2>1, <2>6
<1>8. r \notin broken' \cup mixed' => Restorable("apply", c, world', origin'[r])
  BY <1>2, <1>4, <1>7 DEF Restorable
<1>9. QED
  BY <1>5, <1>6, <1>8, RestoresStep

(* The steps that write to the warehouse.                                   *)
LEMMA DoRestores ==
  ASSUME MutatedApart, RestInv, NEW p \in Procs, Do(p)
  PROVE  NeverNull' /\ RestoresKnown'
<1>1. AtWork(p) /\ Typed
  BY DEF Do, RestInv, EffInv
<1>2. pc[p] \in {"step", "apply"} /\ call[p].doc.cursor \in Positions
  BY <1>1, StepToDo, StepAtHand
<1>0. PICK r \in Runs, k \in Positions : r = call[p].run /\ k = call[p].doc.cursor
  BY <1>2, RestoresNow
<1> DEFINE c == DoneCall(p)
<1>3. /\ world' = Written(world, Steps[k].do, Len(Steps[k].do))
      /\ Happens(r, k, "done") /\ mixed' = mixed \cup Beside(r)
      /\ docs' = docs /\ broken' = broken /\ origin' = origin
  BY <1>0 DEF Do
<1>4. /\ Goto(p, "save", c) /\ c.run = r /\ c.doc.cursor = k + 1
      /\ c.doc.before = call[p].doc.before
  BY <1>0, <1>1, DoHolds
<1> HIDE DEF c
<1>5. \A s \in Runs \ {r} : log'[s] = log[s]
  BY <1>1, <1>3, HappensType DEF Whats
<1>6. OnRun(p, r, "save", c)
  BY <1>0, <1>2, <1>3, <1>4, <1>5 DEF OnRun
<1>7. WritesBeside(r)
  BY <1>3 DEF WritesBeside
<1>8. Len(Steps[k].do) \in 0 .. Len(Steps[k].do) /\ k \in Nat \ {0}
  BY StepsType
<1>9. \A x \in Mutated : /\ ~Alters(k, x) => world'[x] = world[x]
                         /\ world[x] # Null => world'[x] # Null
  BY <1>3, <1>8, DoneApart
<1>10. ASSUME r \notin broken \cup mixed
       PROVE  Original(c.doc, k, origin[r]) /\ AsFound(world', k, origin[r])
  <2>1. Restorable(pc[p], call[p], world, origin[r])
    BY <1>0, <1>2, <1>10, RestoresNow
  <2>2. AsFound(world, k - 1, origin[r])
    BY <1>0, <1>2, <2>1 DEF Restorable
  <2>3. \A j \in 1 .. k : j \in 1 .. k - 1 \/ j = k
    BY <1>8
  <2>4. Original(call[p].doc, k, origin[r])
    <3>1. CASE pc[p] = "apply"
      BY <1>0, <2>1, <3>1 DEF Restorable
    <3>2. CASE pc[p] = "step"
      <4>1. \A x : ~Alters(k, x)
        BY <1>0, <1>1, <3>2 DEF AtWork, Alters
      <4>2. Original(call[p].doc, k - 1, origin[r])
        BY <1>0, <2>1, <3>2 DEF Restorable
      <4>3. QED
        BY <2>3, <4>1, <4>2 DEF Original
    <3>3. QED
      BY <1>2, <3>1, <3>2
  <2>5. Original(c.doc, k, origin[r])
    BY <1>4, <2>4 DEF Original
  <2>6. AsFound(world', k, origin[r])
    BY <1>8, <1>9, <2>2 DEF AsFound
  <2>7. QED
    BY <2>5, <2>6
<1>11. c.doc.cursor - 1 = k
  BY <1>4, <1>8
<1>12. r \notin broken' \cup mixed' => Restorable("save", c, world', origin'[r])
  BY <1>3, <1>10, <1>11 DEF Restorable
<1>13. NeverNull'
  BY <1>9 DEF NeverNull, RestInv
<1>14. QED
  BY <1>6, <1>7, <1>12, <1>13, RestoresStep

LEMMA FailRestores ==
  ASSUME MutatedApart, RestInv, NEW p \in Procs, Fail(p)
  PROVE  NeverNull' /\ RestoresKnown'
<1>1. MayFail(p) /\ Typed
  BY DEF Fail, RestInv, EffInv
<1>2. pc[p] \in {"step", "apply"} /\ call[p].doc.cursor \in Positions
  BY <1>1, StepAtHand
<1>0. PICK r \in Runs, k \in Positions : r = call[p].run /\ k = call[p].doc.cursor
  BY <1>2, RestoresNow
<1> DEFINE c == NotedCall(p, k, k - 1)
<1>3. PICK n \in IF Steps[k].kind = "mutate" THEN {0} ELSE 0 .. Len(Steps[k].do) - 1 :
        /\ world' = Written(world, Steps[k].do, n)
        /\ mixed' = IF n = 0 THEN mixed ELSE mixed \cup Beside(r)
  BY <1>0 DEF Fail
<1>4. /\ Goto(p, "undo", c)
      /\ docs' = docs /\ log' = log /\ broken' = broken /\ origin' = origin
  BY <1>0 DEF Fail, NotedCall
<1>5. k - 1 \in 0 .. Len(Steps) /\ k - 1 < k /\ k \in Nat /\ n \in 0 .. Len(Steps[k].do)
  BY <1>3, StepsType
<1>6. c.run = r /\ c.doc.cursor = k /\ c.doc.before = call[p].doc.before /\ c.at = k - 1
  BY <1>0, <1>1, <1>2, <1>5, NotedHolds
<1> HIDE DEF c
<1>7. OnRun(p, r, "undo", c)
  BY <1>0, <1>2, <1>4, <1>6 DEF OnRun
<1>8. n = 0 => \A x \in Mutated : world'[x] = world[x]
  BY <1>3, MutatedCells DEF Written
<1>9. WritesBeside(r)
  BY <1>3, <1>4, <1>8 DEF WritesBeside
<1>10. \A x \in Mutated : /\ ~Alters(k, x) => world'[x] = world[x]
                          /\ world[x] # Null => world'[x] # Null
  BY <1>3, <1>5, DoneApart
<1>11. \A x \in Mutated : world'[x] = world[x]
  BY <1>3, <1>8, <1>10 DEF Alters
<1>12. ASSUME r \notin broken \cup mixed
       PROVE  Original(c.doc, k - 1, origin[r]) /\ AsFound(world', k - 1, origin[r])
  <2>1. Restorable(pc[p], call[p], world, origin[r])
    BY <1>0, <1>2, <1>12, RestoresNow
  <2>2. AsFound(world, k - 1, origin[r])
    BY <1>0, <1>2, <2>1 DEF Restorable
  <2>3. \A j \in 1 .. k - 1 : j \in 1 .. k
    BY <1>5
  <2>4. Original(call[p].doc, k - 1, origin[r])
    BY <1>0, <2>1, <2>3 DEF Restorable, Original
  <2>5. QED
    BY <1>6, <1>11, <2>2, <2>4 DEF Original, AsFound
<1>13. r \notin broken' \cup mixed' => Restorable("undo", c, world', origin'[r])
  BY <1>3, <1>4, <1>6, <1>12 DEF Restorable
<1>14. NeverNull'
  BY <1>11 DEF NeverNull, RestInv
<1>15. QED
  BY <1>7, <1>9, <1>13, <1>14, RestoresStep

LEMMA UndoRestores ==
  ASSUME MutatedApart, RestInv, NEW p \in Procs, Undo(p)
  PROVE  NeverNull' /\ RestoresKnown'
<1>1. pc[p] = "undo" /\ ~Unwound(p) /\ Typed
      /\ docs' = docs /\ broken' = broken /\ origin' = origin
  BY DEF Undo, RestInv, EffInv
<1>0. PICK r \in Runs, k \in Positions : r = call[p].run /\ k = call[p].at
  BY <1>1, RestoresNow, StepToUndo
<1> DEFINE c == UndoneCall(p)
           d == PassedCall(p)
<1>2. PICK m \in Nat : m = call[p].doc.cursor - 1 /\ k <= m
  BY <1>0, <1>1, StepToUndo
<1>7. call[p].doc \in Run /\ Snapshotted(call[p].doc, m) /\ k \in Nat \ {0}
  BY <1>0, <1>1, <1>2, AtWorkHolds, StepsType
<1>3. r \notin broken \cup mixed =>
        Original(call[p].doc, m, origin[r]) /\ AsFound(world, k, origin[r])
  BY <1>0, <1>1, <1>2, RestoresNow DEF Restorable
<1>4. \A j \in 1 .. k : j \in 1 .. k - 1 \/ j = k
  BY <1>7
<1>5. CASE Steps[k].kind = "human"
  <2>1. Goto(p, "undo", d) /\ UNCHANGED <<world, log, mixed>> /\ d.run = r /\ d.at = k - 1
        /\ d.doc = call[p].doc
    BY <1>0, <1>1, <1>5, UndoHolds
  <2> HIDE DEF d
  <2>2. OnRun(p, r, "undo", d)
    BY <1>0, <1>1, <2>1 DEF OnRun
  <2>3. WritesBeside(r)
    BY <1>1, <2>1 DEF WritesBeside
  <2>4. \A x : ~Alters(k, x)
    BY <1>5 DEF Alters
  <2>5. r \notin broken \cup mixed => AsFound(world, k - 1, origin[r])
    BY <1>3, <1>4, <2>4 DEF AsFound
  <2>6. r \notin broken' \cup mixed' => Restorable("undo", d, world', origin'[r])
    BY <1>1, <1>2, <1>3, <2>1, <2>5 DEF Restorable
  <2>7. NeverNull'
    BY <2>1 DEF NeverNull, RestInv
  <2>8. QED
    BY <2>2, <2>3, <2>6, <2>7, RestoresStep
<1>6. CASE Steps[k].kind # "human"
  <2>1. /\ Goto(p, "undo", c) /\ Happens(r, k, "compensated")
        /\ world' = Written(world, Undoing(call[p].doc, k), Len(Undoing(call[p].doc, k)))
        /\ mixed' = mixed \cup Beside(r)
        /\ c.run = r /\ c.at = k - 1 /\ c.doc.before = call[p].doc.before
        /\ c.doc.cursor = call[p].doc.cursor
    BY <1>0, <1>1, <1>6, UndoHolds
  <2> HIDE DEF c
  <2>2. \A s \in Runs \ {r} : log'[s] = log[s]
    BY <1>1, <2>1, HappensType DEF Whats
  <2>3. OnRun(p, r, "undo", c)
    BY <1>0, <1>1, <2>1, <2>2 DEF OnRun
  <2>4. WritesBeside(r)
    BY <1>1, <2>1 DEF WritesBeside
  <2>5. Len(Undoing(call[p].doc, k)) \in 0 .. Len(Undoing(call[p].doc, k))
    BY <1>7, UndoingType
  <2>6. \A x \in Mutated : /\ ~Alters(k, x) => world'[x] = world[x]
                           /\ world[x] # Null => world'[x] # Null
                           /\ Alters(k, x) => world'[x] = call[p].doc.before[k][x]
    <3>1. PICK doc \in Run : doc = call[p].doc
      BY <1>7
    <3>2. PICK n \in 0 .. Len(Undoing(doc, k)) : n = Len(Undoing(doc, k))
      BY <2>5, <3>1
    <3>3. Snapshotted(doc, m)
      BY <1>7, <3>1
    <3>4. ASSUME NEW x \in Mutated
          PROVE  /\ ~Alters(k, x) => Written(world, Undoing(doc, k), n)[x] = world[x]
                 /\ world[x] # Null => Written(world, Undoing(doc, k), n)[x] # Null
                 /\ Alters(k, x) => Written(world, Undoing(doc, k), n)[x] = doc.before[k][x]
      <4>1. CellUndone(world, doc, k, n, x)
        BY <1>2, <3>3, UndoneBack
      <4>2. QED
        BY <3>2, <4>1 DEF CellUndone
    <3>5. world' = Written(world, Undoing(doc, k), n)
      BY <2>1, <3>1, <3>2
    <3>6. QED
      BY <3>1, <3>4, <3>5
  <2>7. ASSUME r \notin broken \cup mixed, NEW x \in Mutated, \A j \in 1 .. k - 1 : ~Alters(j, x)
        PROVE  world'[x] = origin[r][x]
    <3>1. CASE Alters(k, x)
      <4>1. call[p].doc.before[k][x] = origin[r][x]
        BY <1>2, <1>3, <1>7, <2>7, <3>1 DEF Original
      <4>2. QED
        BY <2>6, <3>1, <4>1
    <3>2. CASE ~Alters(k, x)
      <4>1. world[x] = origin[r][x]
        BY <1>3, <1>4, <2>7, <3>2 DEF AsFound
      <4>2. QED
        BY <2>6, <3>2, <4>1
    <3>3. QED
      BY <3>1, <3>2
  <2>8. r \notin broken' \cup mixed' => Restorable("undo", c, world', origin'[r])
    <3>1. SUFFICES ASSUME r \notin broken' \cup mixed'
                   PROVE  Restorable("undo", c, world', origin[r])
      BY <1>1
    <3>2. r \notin broken \cup mixed
      BY <1>1, <2>1, <3>1
    <3>3. AsFound(world', k - 1, origin[r])
      BY <2>7, <3>2 DEF AsFound
    <3>4. Original(c.doc, m, origin[r])
      BY <1>3, <2>1, <3>2 DEF Original
    <3>5. QED
      BY <1>2, <2>1, <3>3, <3>4 DEF Restorable
  <2>9. NeverNull'
    BY <2>6 DEF NeverNull, RestInv
  <2>10. QED
    BY <2>3, <2>4, <2>8, <2>9, RestoresStep
<1>8. QED
  BY <1>5, <1>6

(* A run on which a call died or failed to undo is promised nothing.        *)
LEMMA BreaksRestore ==
  ASSUME MutatedApart, RestInv, NEW p \in Procs, UndoFails(p) \/ Die(p)
  PROVE  NeverNull' /\ RestoresKnown'
<1>1. pc[p] # "idle" /\ log' = log /\ docs' = docs /\ origin' = origin /\ Typed
  BY DEF UndoFails, Die, RestInv, EffInv
<1>0. PICK r \in Runs : r = call[p].run
  BY <1>1, RestoresNow
<1>2. broken' = broken \cup {r}
  BY <1>0 DEF UndoFails, Die
<1>3. CASE Die(p)
  <2>1. OnRun(p, r, "idle", NoCall)
    BY <1>0, <1>1, <1>2, <1>3 DEF OnRun, Return, Die
  <2>2. WritesBeside(r) /\ NeverNull'
    BY <1>1, <1>3 DEF WritesBeside, NeverNull, RestInv, Die
  <2>3. QED
    BY <1>2, <2>1, <2>2, RestoresStep
<1>4. CASE UndoFails(p)
  <2>1. pc[p] = "undo" /\ ~Unwound(p) /\ mixed' = mixed \cup Beside(r)
    BY <1>0, <1>4 DEF UndoFails
  <2>2. PICK k \in Positions : k = call[p].at
    BY <1>1, <2>1, StepToUndo
  <2>3. PICK m \in Nat : m = call[p].doc.cursor - 1 /\ k <= m
    BY <1>1, <2>1, <2>2, StepToUndo
  <2>4. PICK doc \in Run : doc = call[p].doc
    BY <1>1, AtWorkHolds
  <2>5. Snapshotted(doc, m)
    BY <1>1, <2>3, <2>4, AtWorkHolds
  <2>6. PICK n \in 0 .. Len(Undoing(doc, k)) - 1 : world' = Written(world, Undoing(doc, k), n)
    BY <1>4, <2>2, <2>4 DEF UndoFails
  <2>7. n \in 0 .. Len(Undoing(doc, k))
    BY <2>4, <2>6, UndoingType
  <2>8. ASSUME NEW x \in Mutated PROVE world[x] # Null => world'[x] # Null
    <3>1. CellUndone(world, doc, k, n, x)
      BY <2>3, <2>5, <2>7, UndoneBack
    <3>2. QED
      BY <2>6, <3>1 DEF CellUndone
  <2>9. NeverNull'
    BY <2>8 DEF NeverNull, RestInv
  <2>10. WritesBeside(r)
    BY <1>1, <2>1 DEF WritesBeside
  <2>11. CASE Return(p)
    <3>1. OnRun(p, r, "idle", NoCall)
      BY <1>0, <1>1, <1>2, <2>11 DEF OnRun, Return
    <3>2. QED
      BY <1>2, <2>9, <2>10, <3>1, RestoresStep
  <2>12. CASE call[p].ends = "failed"
    <3> DEFINE c == NotedCall(p, k, 0)
    <3>1. Goto(p, "undo", [call[p] EXCEPT !.doc = Recorded(@, k, "failed"), !.at = 0])
      BY <1>4, <2>2, <2>12 DEF UndoFails
    <3>2. 0 \in 0 .. Len(Steps) /\ 0 < call[p].doc.cursor /\ call[p] \in Call
      BY <1>1, AtWorkHolds, StepsType
    <3>3. Goto(p, "undo", c)
      BY <2>2, <2>12, <3>1, <3>2, NotesFailure
    <3>4. c.run = r
      BY <1>0, <1>1, <2>2, <3>2, NotedHolds
    <3> HIDE DEF c
    <3>5. OnRun(p, r, "undo", c)
      BY <1>0, <1>1, <1>2, <3>3, <3>4 DEF OnRun
    <3>6. QED
      BY <1>2, <2>9, <2>10, <3>5, RestoresStep
  <2>13. QED
    BY <1>4, <2>11, <2>12 DEF UndoFails
<1>5. QED
  BY <1>3, <1>4

LEMMA InitRestores == MutatedApart /\ Init => RestInv
<1> SUFFICES ASSUME MutatedApart, Init PROVE RestInv
  OBVIOUS
<1>1. \A r \in Runs : Working(r) = {} /\ ~Resting(r)
  BY NoneIsNoRun DEF Init, Working, NoCall, Resting
<1>2. RestoresKnown
  BY <1>1 DEF RestoresKnown, RestoresOf
<1>3. NeverNull
  BY DEF NeverNull, Init, MutatedApart
<1>4. QED
  BY <1>2, <1>3, InitEffects DEF RestInv

LEMMA StepRestores ==
  ASSUME ~Overlap, MutatedApart, RestInv, [Next]_vars
  PROVE  RestInv'
<1> SUFFICES NeverNull' /\ RestoresKnown'
  BY StepEffects DEF RestInv
<1>1. ASSUME NEW p \in Procs, NEW r \in Runs,
             Start(p, r) \/ Approve(p, r) \/ Reject(p, r) \/ Rollback(p, r)
      PROVE  NeverNull' /\ RestoresKnown'
  <2>1. world' = world
    BY <1>1 DEF Start, Approve, Reject, Rollback
  <2>2. NeverNull'
    BY <2>1 DEF NeverNull, RestInv
  <2>3. QED
    BY <1>1, <2>2, StartRestores, DecisionRestores
<1>2. ASSUME NEW p \in Procs, Save(p) \/ Pause(p) \/ Complete(p) \/ End(p) \/ TakeSnapshot(p)
      PROVE  NeverNull' /\ RestoresKnown'
  <2>1. world' = world
    BY <1>2 DEF Save, Pause, Complete, End, TakeSnapshot
  <2>2. NeverNull'
    BY <2>1 DEF NeverNull, RestInv
  <2>3. QED
    BY <1>2, <2>2, SaveRestores, EndsRestore, TakeSnapshotRestores
<1>3. ASSUME NEW p \in Procs, Do(p) \/ Fail(p) \/ Undo(p) \/ UndoFails(p) \/ Die(p)
      PROVE  NeverNull' /\ RestoresKnown'
  BY <1>3, DoRestores, FailRestores, UndoRestores, BreaksRestore
<1>4. CASE UNCHANGED vars
  <2>1. \A s \in Runs : (Resting(s)' <=> Resting(s)) /\ Working(s)' = Working(s)
    BY <1>4 DEF vars, Resting, Working
  <2>2. RestoresKnown'
    BY <1>4, <2>1 DEF vars, RestoresKnown, RestoresOf, RestInv
  <2>3. QED
    BY <1>4, <2>2 DEF vars, RestInv, NeverNull
<1>5. QED
  BY <1>1, <1>2, <1>3, <1>4 DEF Next, Act

(* A run that was undone left its mutated rows as it found them, where no   *)
(* two calls work on one run, no other step writes those rows, and none of  *)
(* them is NULL or set to it, which the snapshot would bring back as text   *)
(* (manifest.go:151-190, engine.go:171-208).                                *)
THEOREM RollbackGivesBack ==
  ASSUME ~Overlap, MutatedApart
  PROVE  Spec => []RollbackRestores
<1>1. RestInv => RollbackRestores
  <2> SUFFICES ASSUME RestInv, NEW r \in Runs \ (broken \cup mixed), Resting(r),
                      docs[r].status \in Ends, NEW c \in Mutated
               PROVE  world[c] = origin[r][c]
    BY DEF RollbackRestores, Ends
  <2>1. AsFound(world, 0, origin[r])
    BY DEF RestInv, RestoresKnown, RestoresOf
  <2>2. QED
    BY <2>1 DEF AsFound
<1>2. Init => RestInv
  BY InitRestores
<1>3. RestInv /\ [Next]_vars => RestInv'
  BY StepRestores
<1>4. QED
  BY <1>1, <1>2, <1>3, PTL DEF Spec

-----------------------------------------------------------------------------
(* A journal and what happened: the entries that tell something are found   *)
(* in the log in their order; and at best the log has no other.             *)
Embeds(f, entries, happened) ==
  /\ f \in [TellingIn(entries) -> DOMAIN happened]
  /\ \A i, j \in TellingIn(entries) : i < j => f[i] < f[j]
  /\ \A i \in TellingIn(entries) : entries[i] = happened[f[i]]

Onto(f, happened) == \A j \in DOMAIN happened : \E i \in DOMAIN f : f[i] = j

Faithful(entries, happened) == \E f : Embeds(f, entries, happened)
Whole(entries, happened)    == \E f : Embeds(f, entries, happened) /\ Onto(f, happened)

(* What a step of a call does to the journal it holds and to the log.       *)
Follows(from, to, before, after) ==
  \/ to = from /\ after = before
  \/ \E e \in JournalEntry :
       to = Append(from, e) /\ after = IF e.what = "failed" THEN before ELSE Append(before, e)

(* An order-preserving map onto a set keeps every rank, and tells apart     *)
(* those of two members.                                                    *)
Aligns(f, S, T) ==
  /\ f \in [S -> T]
  /\ \A i, j \in S : i < j => f[i] < f[j]
  /\ \A j \in T : \E i \in S : f[i] = j

RanksAlike(f, S, T) ==
  /\ Cardinality(S) = Cardinality(T)
  /\ \A i \in S, j \in T : Rank(i, S) = Rank(j, T) => f[i] = j

LEMMA RanksAgree ==
  ASSUME NEW n \in Nat, NEW m \in Nat, NEW S, NEW T, S \subseteq 1 .. n, T \subseteq 1 .. m,
         NEW f, Aligns(f, S, T)
  PROVE  RanksAlike(f, S, T)
<1>0. /\ f \in [S -> T]
      /\ \A i, j \in S : i < j => f[i] < f[j]
      /\ \A j \in T : \E i \in S : f[i] = j
  BY DEF Aligns
<1>1. IsFiniteSet(S) /\ IsFiniteSet(T)
  <2>1. IsFiniteSet(1 .. n) /\ IsFiniteSet(1 .. m)
    BY FS_Interval
  <2>2. QED
    BY <2>1, FS_Subset
<1>2. S \subseteq Nat /\ T \subseteq Nat
  OBVIOUS
<1>3. ASSUME NEW U, NEW V, U \subseteq S, V \subseteq T, \A i \in U : f[i] \in V,
             \A j \in V : \E i \in U : f[i] = j
      PROVE  Cardinality(U) = Cardinality(V)
  <2> DEFINE g == [i \in U |-> f[i]]
  <2>1. g \in [U -> V]
    BY <1>0, <1>3
  <2>2. ASSUME NEW i \in U, NEW j \in U, g[i] = g[j] PROVE i = j
    <3>1. i \in S /\ j \in S /\ i \in Nat /\ j \in Nat /\ f[i] = f[j] /\ f[i] \in Nat
      BY <1>0, <1>2, <1>3, <2>2
    <3>2. ~(i < j) /\ ~(j < i)
      BY <1>0, <3>1
    <3>3. QED
      BY <3>1, <3>2
  <2>3. \A j \in V : \E i \in U : g[i] = j
    BY <1>3
  <2> HIDE DEF g
  <2>4. g \in Bijection(U, V)
    BY <2>1, <2>2, <2>3 DEF Bijection, Injection, Surjection, IsInjective
  <2>5. IsFiniteSet(U)
    BY <1>1, <1>3, FS_Subset
  <2>6. QED
    BY <2>4, <2>5, FS_Bijection DEF ExistsBijection
<1>4. Cardinality(S) = Cardinality(T)
  BY <1>0, <1>3
<1>5. ASSUME NEW i \in S PROVE Rank(i, S) = Rank(f[i], T)
  <2> DEFINE U == {a \in S : a < i}
             V == {b \in T : b < f[i]}
  <2>1. \A a \in U : f[a] \in V
    BY <1>0
  <2>2. ASSUME NEW b \in V PROVE \E a \in U : f[a] = b
    <3>1. PICK a \in S : f[a] = b
      BY <1>0
    <3>2. a \in Nat /\ i \in Nat /\ f[a] \in Nat /\ f[i] \in Nat /\ f[a] < f[i]
      BY <1>0, <1>2, <3>1
    <3>3. ~(i < a) /\ i # a
      BY <1>0, <3>2
    <3>4. QED
      BY <3>1, <3>2, <3>3
  <2>3. U \subseteq S /\ V \subseteq T
    OBVIOUS
  <2> HIDE DEF U, V
  <2>4. Cardinality(U) = Cardinality(V)
    BY <1>3, <2>1, <2>2, <2>3
  <2>5. QED
    BY <2>4 DEF Rank, U, V
<1>6. ASSUME NEW i \in T, NEW j \in T, i < j PROVE Rank(i, T) # Rank(j, T)
  <2> DEFINE U == {b \in T : b < i}
             V == {b \in T : b < j}
  <2>0. i \in Nat /\ j \in Nat /\ \A b \in T : b \in Nat
    BY <1>2
  <2>5. ASSUME NEW b \in U PROVE b \in V
    <3>1. b \in T /\ b < i /\ b \in Nat
      BY <2>0
    <3>2. b < j
      BY <1>6, <2>0, <3>1
    <3>3. QED
      BY <3>1, <3>2
  <2>6. i \in V
    BY <1>6
  <2>7. i \notin U
    BY <2>0
  <2>1. U \subseteq V /\ i \in V /\ i \notin U /\ V \subseteq T
    BY <2>5, <2>6, <2>7
  <2> HIDE DEF U, V
  <2>2. IsFiniteSet(V)
    BY <1>1, <2>1, FS_Subset
  <2>3. Cardinality(U) # Cardinality(V)
    BY <2>1, <2>2, FS_Subset
  <2>4. QED
    BY <2>3 DEF Rank, U, V
<1>7. ASSUME NEW i \in S, NEW j \in T, Rank(i, S) = Rank(j, T) PROVE f[i] = j
  <2>1. Rank(f[i], T) = Rank(j, T) /\ f[i] \in T /\ f[i] \in Nat /\ j \in Nat
    BY <1>0, <1>2, <1>5, <1>7
  <2>2. ~(f[i] < j) /\ ~(j < f[i])
    BY <1>6, <2>1
  <2>3. QED
    BY <2>1, <2>2
<1>8. QED
  BY <1>4, <1>7 DEF RanksAlike

(* A journal that embeds in the log tells of the places it is found at.     *)
LEMMA EmbeddedTells ==
  ASSUME NEW entries \in Seq(JournalEntry), NEW happened \in Seq(JournalEntry), NEW f,
         Embeds(f, entries, happened)
  PROVE  /\ TellsOf(entries, happened, {f[i] : i \in TellingIn(entries)})
         /\ Onto(f, happened) => TellsOf(entries, happened, DOMAIN happened)
         /\ {f[i] : i \in TellingIn(entries)} \subseteq DOMAIN happened
<1> DEFINE S == TellingIn(entries)
           T == {f[i] : i \in S}
<1>1. /\ Len(entries) \in Nat /\ S \in SUBSET (1 .. Len(entries))
      /\ Len(happened) \in Nat /\ DOMAIN happened = 1 .. Len(happened)
  BY DEF TellingIn
<1>2. /\ f \in [S -> 1 .. Len(happened)]
      /\ \A i, j \in S : i < j => f[i] < f[j]
      /\ \A i \in S : entries[i] = happened[f[i]]
  BY <1>1 DEF Embeds
<1>3. T \in SUBSET (1 .. Len(happened)) /\ f \in [S -> T] /\ \A j \in T : \E i \in S : f[i] = j
  <2> HIDE DEF S
  <2>1. QED
    BY <1>2
<1>4. RanksAlike(f, S, T)
  <2>1. PICK n \in Nat, m \in Nat : n = Len(entries) /\ m = Len(happened)
    BY <1>1
  <2> HIDE DEF S, T
  <2>2. S \subseteq 1 .. n /\ T \subseteq 1 .. m
    BY <1>1, <1>3, <2>1
  <2>3. Aligns(f, S, T)
    BY <1>2, <1>3 DEF Aligns
  <2>4. QED
    BY <2>2, <2>3, RanksAgree
<1>5. TellsOf(entries, happened, T)
  BY <1>2, <1>4 DEF TellsOf, RanksAlike
<1>6. Onto(f, happened) => T = DOMAIN happened
  <2>1. DOMAIN f = S
    BY <1>2
  <2> HIDE DEF S
  <2>2. QED
    BY <1>1, <1>3, <2>1 DEF Onto
<1>7. QED
  BY <1>1, <1>3, <1>5, <1>6

LEMMA TellingLater ==
  ASSUME NEW entries \in Seq(JournalEntry), NEW e \in JournalEntry
  PROVE  /\ Append(entries, e) \in Seq(JournalEntry)
         /\ TellingIn(Append(entries, e))
              = IF e.what = "failed" THEN TellingIn(entries)
                ELSE TellingIn(entries) \cup {Len(entries) + 1}
         /\ \A i \in DOMAIN entries : Append(entries, e)[i] = entries[i]
         /\ Append(entries, e)[Len(entries) + 1] = e
         /\ TellingIn(entries) \subseteq 1 .. Len(entries)
         /\ DOMAIN entries = 1 .. Len(entries) /\ Len(entries) \in Nat
<1>1. /\ Append(entries, e) \in Seq(JournalEntry)
      /\ DOMAIN Append(entries, e) = 1 .. Len(entries) + 1
      /\ DOMAIN entries = 1 .. Len(entries) /\ Len(entries) \in Nat
      /\ \A i \in DOMAIN entries : Append(entries, e)[i] = entries[i]
      /\ Append(entries, e)[Len(entries) + 1] = e
  OBVIOUS
<1>2. \A i : i \in 1 .. Len(entries) + 1 <=> i \in 1 .. Len(entries) \/ i = Len(entries) + 1
  BY <1>1
<1>3. \A i : i \in TellingIn(Append(entries, e)) <=>
               \/ i \in TellingIn(entries)
               \/ i = Len(entries) + 1 /\ e.what # "failed"
  BY <1>1, <1>2 DEF TellingIn
<1>4. TellingIn(entries) \subseteq 1 .. Len(entries)
  BY <1>1 DEF TellingIn
<1>5. QED
  BY <1>1, <1>3, <1>4

(* What happens later takes nothing away.                                   *)
LEMMA EmbedsLater ==
  ASSUME NEW entries \in Seq(JournalEntry), NEW happened \in Seq(JournalEntry),
         NEW e \in JournalEntry, NEW f, Embeds(f, entries, happened)
  PROVE  Embeds(f, entries, Append(happened, e))
<1>1. /\ DOMAIN happened \subseteq DOMAIN Append(happened, e)
      /\ \A i \in DOMAIN happened : Append(happened, e)[i] = happened[i]
  OBVIOUS
<1>2. QED
  BY <1>1 DEF Embeds

(* What happens and is recorded is told.                                    *)
LEMMA EmbedsTogether ==
  ASSUME NEW entries \in Seq(JournalEntry), NEW happened \in Seq(JournalEntry),
         NEW e \in JournalEntry, e.what # "failed", NEW f, Embeds(f, entries, happened)
  PROVE  \E g : /\ Embeds(g, Append(entries, e), Append(happened, e))
                /\ Onto(f, happened) => Onto(g, Append(happened, e))
<1> DEFINE n == Len(entries) + 1
           m == Len(happened) + 1
           S == TellingIn(entries)
           g == [i \in S \cup {n} |-> IF i = n THEN m ELSE f[i]]
<1>1. /\ TellingIn(Append(entries, e)) = S \cup {n}
      /\ \A i \in DOMAIN entries : Append(entries, e)[i] = entries[i]
      /\ Append(entries, e)[n] = e
      /\ S \subseteq 1 .. Len(entries)
      /\ DOMAIN entries = 1 .. Len(entries) /\ Len(entries) \in Nat
  BY TellingLater
<1>2. /\ DOMAIN Append(happened, e) = DOMAIN happened \cup {m}
      /\ DOMAIN happened = 1 .. Len(happened) /\ Len(happened) \in Nat
      /\ \A i \in DOMAIN happened : Append(happened, e)[i] = happened[i]
      /\ Append(happened, e)[m] = e
  OBVIOUS
<1>3. /\ f \in [S -> DOMAIN happened]
      /\ \A i, j \in S : i < j => f[i] < f[j]
      /\ \A i \in S : entries[i] = happened[f[i]]
  BY DEF Embeds
<1>4. \A i \in S : i < n /\ i # n /\ f[i] < m /\ i \in DOMAIN entries /\ f[i] \in DOMAIN happened
  BY <1>1, <1>2, <1>3
<1>5. n \in Nat /\ m \in Nat /\ ~(n < n) /\ \A i \in S : ~(n < i)
  BY <1>1, <1>2
<1>6. DOMAIN g = S \cup {n} /\ g[n] = m /\ \A i \in S : g[i] = f[i]
  BY <1>4
<1> HIDE DEF g, n, m, S
<1>7. g \in [TellingIn(Append(entries, e)) -> DOMAIN Append(happened, e)]
  <2>1. g = [i \in DOMAIN g |-> g[i]]
    BY DEF g
  <2>2. \A i \in DOMAIN g : g[i] \in DOMAIN Append(happened, e)
    BY <1>2, <1>4, <1>6
  <2>3. QED
    BY <1>1, <1>6, <2>1, <2>2
<1>8. \A i, j \in TellingIn(Append(entries, e)) : i < j => g[i] < g[j]
  BY <1>1, <1>3, <1>4, <1>5, <1>6
<1>9. \A i \in TellingIn(Append(entries, e)) : Append(entries, e)[i] = Append(happened, e)[g[i]]
  BY <1>1, <1>2, <1>3, <1>4, <1>6
<1>10. Embeds(g, Append(entries, e), Append(happened, e))
  BY <1>7, <1>8, <1>9 DEF Embeds
<1>11. ASSUME Onto(f, happened) PROVE Onto(g, Append(happened, e))
  <2>1. DOMAIN f = S
    BY <1>3
  <2>2. \A j \in DOMAIN happened : \E i \in S : g[i] = j
    BY <1>6, <1>11, <2>1 DEF Onto
  <2>3. \A j \in DOMAIN Append(happened, e) : \E i \in DOMAIN g : g[i] = j
    BY <1>2, <1>6, <2>2
  <2>4. QED
    BY <2>3 DEF Onto
<1>12. QED
  BY <1>10, <1>11

(* A failure is recorded beside what happened.                              *)
LEMMA EmbedsFailure ==
  ASSUME NEW entries \in Seq(JournalEntry), NEW happened \in Seq(JournalEntry),
         NEW e \in JournalEntry, e.what = "failed", NEW f, Embeds(f, entries, happened)
  PROVE  Embeds(f, Append(entries, e), happened)
<1>1. TellingIn(Append(entries, e)) = TellingIn(entries)
      /\ \A i \in TellingIn(entries) : Append(entries, e)[i] = entries[i]
  BY TellingLater
<1>2. QED
  BY <1>1 DEF Embeds

(* A step of the call that holds a journal leaves it as faithful as it was, *)
(* and as whole.                                                            *)
LEMMA FollowsTells ==
  ASSUME NEW from \in Seq(JournalEntry), NEW to, NEW before \in Seq(JournalEntry), NEW after,
         Follows(from, to, before, after)
  PROVE  /\ Faithful(from, before) => Faithful(to, after)
         /\ Whole(from, before) => Whole(to, after)
         /\ \A other \in Seq(JournalEntry) : Faithful(other, before) => Faithful(other, after)
<1>1. CASE to = from /\ after = before
  BY <1>1
<1>2. ASSUME NEW e \in JournalEntry, to = Append(from, e), e.what = "failed", after = before
      PROVE  /\ Faithful(from, before) => Faithful(to, after)
             /\ Whole(from, before) => Whole(to, after)
             /\ \A other \in Seq(JournalEntry) : Faithful(other, before) => Faithful(other, after)
  BY <1>2, EmbedsFailure DEF Faithful, Whole
<1>3. ASSUME NEW e \in JournalEntry, to = Append(from, e), e.what # "failed",
             after = Append(before, e)
      PROVE  /\ Faithful(from, before) => Faithful(to, after)
             /\ Whole(from, before) => Whole(to, after)
             /\ \A other \in Seq(JournalEntry) : Faithful(other, before) => Faithful(other, after)
  <2>1. ASSUME NEW other \in Seq(JournalEntry), Faithful(other, before)
        PROVE  Faithful(other, after)
    <3>1. PICK f : Embeds(f, other, before)
      BY <2>1 DEF Faithful
    <3>2. Embeds(f, other, Append(before, e))
      BY <3>1, EmbedsLater
    <3>3. QED
      BY <1>3, <3>2 DEF Faithful
  <2>2. ASSUME Faithful(from, before) PROVE Faithful(to, after)
    <3>1. PICK f : Embeds(f, from, before)
      BY <2>2 DEF Faithful
    <3>2. PICK g : Embeds(g, Append(from, e), Append(before, e))
      BY <1>3, <3>1, EmbedsTogether
    <3>3. QED
      BY <1>3, <3>2 DEF Faithful
  <2>3. ASSUME Whole(from, before) PROVE Whole(to, after)
    <3>1. PICK f : Embeds(f, from, before) /\ Onto(f, before)
      BY <2>3 DEF Whole
    <3>2. PICK g : Embeds(g, Append(from, e), Append(before, e)) /\ Onto(g, Append(before, e))
      BY <1>3, <3>1, EmbedsTogether
    <3>3. QED
      BY <1>3, <3>2 DEF Whole
  <2>4. QED
    BY <2>1, <2>2, <2>3
<1>4. QED
  BY <1>1, <1>2, <1>3 DEF Follows

(* What the step of a call does to its run: the journal it comes from is the*)
(* one it holds, or, as it begins, the stored one; a call that returns has  *)
(* stored it, or died or failed to undo.                                    *)
Held(p, r) ==
  IF pc[p] # "idle" THEN call[p].doc.journal ELSE IF docs[r] = None THEN <<>> ELSE docs[r].journal

Moves(p, r, label, c) ==
  /\ IF pc[p] = "idle" THEN Overlap \/ Working(r) = {} ELSE call[p].run = r
  /\ Goto(p, label, c)
  /\ IF label = "idle" THEN c = NoCall ELSE c.run = r
  /\ broken \subseteq broken'
  /\ \A s \in Runs \ {r} : docs'[s] = docs[s] /\ log'[s] = log[s]
  /\ IF label = "idle" THEN log'[r] = log[r]
     ELSE Follows(Held(p, r), c.doc.journal, log[r], log'[r])
  /\ \/ docs'[r] = docs[r] /\ (label = "idle" => r \in broken')
     \/ docs'[r] # None /\ docs'[r].journal = Held(p, r) /\ log'[r] = log[r]

LEMMA BeginsMove ==
  ASSUME Typed, NEW p \in Procs, NEW r \in Runs,
         Start(p, r) \/ Approve(p, r) \/ Reject(p, r) \/ Rollback(p, r)
  PROVE  \E label \in Labels \ {"idle"} : \E c : Moves(p, r, label, c)
<1>1. /\ pc[p] = "idle" /\ (Overlap \/ Working(r) = {})
      /\ docs' = docs /\ broken' = broken
  BY DEF Start, Approve, Reject, Rollback, Begin, history
<1>2. {"save", "undo"} \subseteq Labels \ {"idle"}
  BY DEF Labels
<1>3. CASE Start(p, r)
  <2> DEFINE c == [NoCall EXCEPT !.run = r]
  <2>1. Goto(p, "save", c) /\ log' = log /\ docs[r] = None
    BY <1>3 DEF Start, Begin
  <2>2. c.run = r /\ c.doc.journal = <<>>
    BY DEF NoCall, NewRun
  <2> HIDE DEF c
  <2>3. Moves(p, r, "save", c)
    BY <1>1, <2>1, <2>2 DEF Moves, Held, Follows
  <2>4. QED
    BY <1>2, <2>3
<1>4. CASE Approve(p, r)
  <2> DEFINE c == ApprovedCall(r)
             e == Entry(docs[r].cursor, "approved")
  <2>1. docs[r] # None /\ docs[r].cursor \in Positions /\ Happens(r, docs[r].cursor, "approved")
    BY <1>4, WaitingType DEF Approve
  <2>2. Goto(p, "save", c) /\ c.run = r /\ c.doc.journal = Append(docs[r].journal, e)
    BY <1>4, ApproveHolds
  <2>3. log'[r] = Append(log[r], e) /\ \A s \in Runs \ {r} : log'[s] = log[s]
    BY <2>1, HappensType DEF Whats
  <2>4. e \in JournalEntry /\ e.what # "failed"
    BY <2>1, EntryType DEF Entry, Whats
  <2> HIDE DEF c, e
  <2>5. Moves(p, r, "save", c)
    BY <1>1, <2>1, <2>2, <2>3, <2>4 DEF Moves, Held, Follows
  <2>6. QED
    BY <1>2, <2>5
<1>5. CASE Reject(p, r)
  <2> DEFINE c == RejectedCall(r)
             e == Entry(docs[r].cursor, "rejected")
  <2>1. docs[r] # None /\ docs[r].cursor \in Positions /\ Happens(r, docs[r].cursor, "rejected")
    BY <1>5, WaitingType DEF Reject
  <2>2. Goto(p, "undo", c) /\ c.run = r /\ c.doc.journal = Append(docs[r].journal, e)
    BY <1>5, RejectHolds
  <2>3. log'[r] = Append(log[r], e) /\ \A s \in Runs \ {r} : log'[s] = log[s]
    BY <2>1, HappensType DEF Whats
  <2>4. e \in JournalEntry /\ e.what # "failed"
    BY <2>1, EntryType DEF Entry, Whats
  <2> HIDE DEF c, e
  <2>5. Moves(p, r, "undo", c)
    BY <1>1, <2>1, <2>2, <2>3, <2>4 DEF Moves, Held, Follows
  <2>6. QED
    BY <1>2, <2>5
<1>6. CASE Rollback(p, r)
  <2> DEFINE c == RolledBackCall(r)
  <2>1. docs[r] # None /\ log' = log /\ Goto(p, "undo", c)
    BY <1>6, RollbackHolds DEF Rollback, history
  <2>2. c.run = r /\ c.doc.journal = docs[r].journal
    BY DEF RolledBackCall
  <2> HIDE DEF c
  <2>3. Moves(p, r, "undo", c)
    BY <1>1, <2>1, <2>2 DEF Moves, Held, Follows
  <2>4. QED
    BY <1>2, <2>3
<1>7. QED
  BY <1>3, <1>4, <1>5, <1>6

(* A call stores its document, with its status or another.                  *)
LEMMA StoringMoves ==
  ASSUME Typed, NEW p \in Procs, pc[p] # "idle", NEW r \in Runs, r = call[p].run,
         NEW d \in Run, d.journal = call[p].doc.journal, docs' = [docs EXCEPT ![r] = d],
         log' = log, broken' = broken,
         NEW label, NEW c, Goto(p, label, c),
         IF label = "idle" THEN c = NoCall ELSE c = call[p]
  PROVE  Moves(p, r, label, c)
<1>1. docs'[r] = d /\ \A s \in Runs \ {r} : docs'[s] = docs[s]
  BY StoreIs
<1>2. d # None
  BY NoneIsNoRun
<1>3. QED
  BY <1>1, <1>2 DEF Moves, Held, Follows

LEMMA StoresMove ==
  ASSUME Typed, NEW p \in Procs, Save(p) \/ Pause(p) \/ Complete(p) \/ End(p)
  PROVE  \E r \in Runs, label \in Labels : \E c : Moves(p, r, label, c)
<1>1. pc[p] # "idle" /\ log' = log /\ broken' = broken
  BY DEF Save, Pause, Complete, End, history
<1>2. call[p].run \in Runs /\ call[p].doc \in Run /\ call[p].ends \in Statuses
  BY <1>1, AtWorkHolds, CallType
<1>3. PICK r \in Runs : r = call[p].run
  BY <1>2
<1>4. {"step", "idle"} \subseteq Labels
  BY DEF Labels
<1>5. CASE Save(p)
  <2>1. docs' = [docs EXCEPT ![r] = call[p].doc] /\ Goto(p, "step", call[p])
    BY <1>3, <1>5 DEF Save
  <2>2. Moves(p, r, "step", call[p])
    BY <1>1, <1>2, <1>3, <2>1, StoringMoves
  <2>3. QED
    BY <1>4, <2>2
<1>6. ASSUME NEW status \in Statuses, Return(p),
             docs' = [docs EXCEPT ![r] = [call[p].doc EXCEPT !.status = status]]
      PROVE  \E label \in Labels : \E c : Moves(p, r, label, c)
  <2> DEFINE d == [call[p].doc EXCEPT !.status = status]
  <2>1. d \in Run /\ d.journal = call[p].doc.journal
    BY <1>2, StatusType
  <2>2. docs' = [docs EXCEPT ![r] = d] /\ Goto(p, "idle", NoCall)
    BY <1>6 DEF Return
  <2> HIDE DEF d
  <2>3. Moves(p, r, "idle", NoCall)
    BY <1>1, <1>3, <2>1, <2>2, StoringMoves
  <2>4. QED
    BY <1>4, <2>3
<1>7. CASE Pause(p)
  BY <1>3, <1>6, <1>7 DEF Pause, Statuses
<1>8. CASE Complete(p)
  BY <1>3, <1>6, <1>8 DEF Complete, Statuses
<1>9. CASE End(p)
  BY <1>2, <1>3, <1>6, <1>9 DEF End
<1>10. QED
  BY <1>5, <1>7, <1>8, <1>9

(* A call goes on, and stores nothing.                                      *)
LEMMA GoingMoves ==
  ASSUME Typed, NEW p \in Procs, pc[p] # "idle", NEW r \in Runs, r = call[p].run,
         docs' = docs, broken \subseteq broken', NEW label \in Labels \ {"idle"},
         NEW c, Goto(p, label, c), c.run = r,
         \A s \in Runs \ {r} : log'[s] = log[s],
         Follows(call[p].doc.journal, c.doc.journal, log[r], log'[r])
  PROVE  Moves(p, r, label, c)
  BY DEF Moves, Held

LEMMA WorkMoves ==
  ASSUME Typed, NEW p \in Procs, TakeSnapshot(p) \/ Do(p) \/ Fail(p) \/ Undo(p)
  PROVE  \E r \in Runs, label \in Labels \ {"idle"} : \E c : Moves(p, r, label, c)
<1>1. docs' = docs /\ broken' = broken /\ pc[p] # "idle"
  <2>1. docs' = docs /\ broken' = broken
    BY DEF TakeSnapshot, Do, Fail, Undo, history
  <2>2. pc[p] # "idle"
    BY DEF TakeSnapshot, Do, Fail, Undo, AtWork, MayFail
  <2>3. QED
    BY <2>1, <2>2
<1>2. PICK r \in Runs : r = call[p].run
  BY <1>1, AtWorkHolds
<1>3. {"save", "apply", "undo"} \subseteq Labels \ {"idle"}
  BY DEF Labels
<1>4. CASE TakeSnapshot(p)
  <2> DEFINE c == SnapshotCall(p)
  <2>1. Goto(p, "apply", c) /\ c.run = r /\ c.doc.journal = call[p].doc.journal /\ log' = log
    BY <1>2, <1>4, TakeSnapshotHolds DEF TakeSnapshot, history
  <2> HIDE DEF c
  <2>2. Moves(p, r, "apply", c)
    BY <1>1, <1>2, <1>3, <2>1, GoingMoves DEF Follows
  <2>3. QED
    BY <1>3, <2>2
<1>5. CASE Do(p)
  <2>1. PICK k \in Positions : k = call[p].doc.cursor
    BY <1>5, StepToDo, StepAtHand DEF Do
  <2> DEFINE c == DoneCall(p)
             e == Entry(k, "done")
  <2>2. Happens(r, k, "done")
    BY <1>2, <1>5, <2>1 DEF Do
  <2>3. Goto(p, "save", c) /\ c.run = r /\ c.doc.journal = Append(call[p].doc.journal, e)
    BY <1>2, <1>5, <2>1, DoHolds
  <2>4. log'[r] = Append(log[r], e) /\ \A s \in Runs \ {r} : log'[s] = log[s]
    BY <2>2, HappensType DEF Whats
  <2>5. e \in JournalEntry /\ e.what # "failed"
    BY EntryType DEF Entry, Whats
  <2> HIDE DEF c, e
  <2>6. Follows(call[p].doc.journal, c.doc.journal, log[r], log'[r])
    BY <2>3, <2>4, <2>5 DEF Follows
  <2>7. Moves(p, r, "save", c)
    BY <1>1, <1>2, <1>3, <2>3, <2>4, <2>6, GoingMoves
  <2>8. QED
    BY <1>3, <2>7
<1>6. CASE Fail(p)
  <2>1. PICK k \in Positions : k = call[p].doc.cursor
    BY <1>6, StepAtHand DEF Fail
  <2>2. k - 1 \in 0 .. Len(Steps) /\ k - 1 < k
    BY StepsType
  <2> DEFINE c == NotedCall(p, k, k - 1)
             e == Entry(k, "failed")
  <2>3. Goto(p, "undo", c) /\ log' = log
    BY <1>6, <2>1 DEF Fail, NotedCall
  <2>4. c.run = r /\ c.doc.journal = Append(call[p].doc.journal, e)
    BY <1>1, <1>2, <2>1, <2>2, NotedHolds
  <2>5. e \in JournalEntry /\ e.what = "failed"
    BY EntryType DEF Entry, Whats
  <2> HIDE DEF c, e
  <2>6. Follows(call[p].doc.journal, c.doc.journal, log[r], log'[r])
    BY <2>3, <2>4, <2>5 DEF Follows
  <2>7. Moves(p, r, "undo", c)
    BY <1>1, <1>2, <1>3, <2>3, <2>4, <2>6, GoingMoves
  <2>8. QED
    BY <1>3, <2>7
<1>7. CASE Undo(p)
  <2>1. PICK k \in Positions : k = call[p].at
    BY <1>7, StepToUndo DEF Undo
  <2>2. CASE Steps[k].kind = "human"
    <3> DEFINE d == PassedCall(p)
    <3>1. Goto(p, "undo", d) /\ log' = log /\ d.run = r /\ d.doc.journal = call[p].doc.journal
      BY <1>2, <1>7, <2>1, <2>2, UndoHolds
    <3> HIDE DEF d
    <3>2. Moves(p, r, "undo", d)
      BY <1>1, <1>2, <1>3, <3>1, GoingMoves DEF Follows
    <3>3. QED
      BY <1>3, <3>2
  <2>3. CASE Steps[k].kind # "human"
    <3> DEFINE c == UndoneCall(p)
               e == Entry(k, "compensated")
    <3>1. Happens(r, k, "compensated") /\ Goto(p, "undo", c) /\ c.run = r
          /\ c.doc.journal = Append(call[p].doc.journal, e)
      BY <1>2, <1>7, <2>1, <2>3, UndoHolds
    <3>2. log'[r] = Append(log[r], e) /\ \A s \in Runs \ {r} : log'[s] = log[s]
      BY <3>1, HappensType DEF Whats
    <3>3. e \in JournalEntry /\ e.what # "failed"
      BY EntryType DEF Entry, Whats
    <3> HIDE DEF c, e
    <3>4. Follows(call[p].doc.journal, c.doc.journal, log[r], log'[r])
      BY <3>1, <3>2, <3>3 DEF Follows
    <3>5. Moves(p, r, "undo", c)
      BY <1>1, <1>2, <1>3, <3>1, <3>2, <3>4, GoingMoves
    <3>6. QED
      BY <1>3, <3>5
  <2>4. QED
    BY <2>2, <2>3
<1>8. QED
  BY <1>4, <1>5, <1>6, <1>7

LEMMA BreaksMove ==
  ASSUME Typed, NEW p \in Procs, UndoFails(p) \/ Die(p)
  PROVE  \E r \in Runs, label \in Labels : \E c : Moves(p, r, label, c)
<1>1. docs' = docs /\ log' = log /\ pc[p] # "idle" /\ broken' = broken \cup {call[p].run}
  BY DEF UndoFails, Die
<1>2. PICK r \in Runs : r = call[p].run
  BY <1>1, AtWorkHolds
<1>3. {"idle", "undo"} \subseteq Labels
  BY DEF Labels
<1>4. CASE Return(p)
  <2>1. Moves(p, r, "idle", NoCall)
    BY <1>1, <1>2, <1>4 DEF Moves, Held, Return
  <2>2. QED
    BY <1>3, <2>1
<1>5. CASE UndoFails(p) /\ call[p].ends = "failed"
  <2>1. PICK k \in Positions : k = call[p].at
    BY <1>5, StepToUndo DEF UndoFails
  <2> DEFINE c == NotedCall(p, k, 0)
             e == Entry(k, "failed")
  <2>2. Goto(p, "undo", [call[p] EXCEPT !.doc = Recorded(@, k, "failed"), !.at = 0])
    BY <1>5, <2>1 DEF UndoFails
  <2>3. 0 \in 0 .. Len(Steps) /\ 0 < call[p].doc.cursor /\ call[p] \in Call
    BY <1>1, AtWorkHolds, StepsType
  <2>4. Goto(p, "undo", c)
    BY <1>5, <2>2, <2>3, NotesFailure
  <2>5. c.run = r /\ c.doc.journal = Append(call[p].doc.journal, e)
    BY <1>1, <1>2, <2>3, NotedHolds
  <2>6. e \in JournalEntry /\ e.what = "failed"
    BY EntryType DEF Entry, Whats
  <2> HIDE DEF c, e
  <2>7. Follows(call[p].doc.journal, c.doc.journal, log[r], log'[r])
    BY <1>1, <2>5, <2>6 DEF Follows
  <2>8. Moves(p, r, "undo", c)
    BY <1>1, <1>2, <1>3, <2>4, <2>5, <2>7, GoingMoves
  <2>9. QED
    BY <1>3, <2>8
<1>6. QED
  BY <1>4, <1>5 DEF UndoFails, Die

LEMMA EveryStepMoves ==
  ASSUME Typed, Next
  PROVE  \E p \in Procs, r \in Runs, label \in Labels : \E c : Moves(p, r, label, c)
<1>1. ASSUME NEW p \in Procs, NEW r \in Runs,
             Start(p, r) \/ Approve(p, r) \/ Reject(p, r) \/ Rollback(p, r)
      PROVE  \E s \in Runs, label \in Labels : \E c : Moves(p, s, label, c)
  BY <1>1, BeginsMove
<1>2. ASSUME NEW p \in Procs, Save(p) \/ Pause(p) \/ Complete(p) \/ End(p)
      PROVE  \E s \in Runs, label \in Labels : \E c : Moves(p, s, label, c)
  BY <1>2, StoresMove
<1>3. ASSUME NEW p \in Procs, TakeSnapshot(p) \/ Do(p) \/ Fail(p) \/ Undo(p)
      PROVE  \E s \in Runs, label \in Labels : \E c : Moves(p, s, label, c)
  BY <1>3, WorkMoves
<1>4. ASSUME NEW p \in Procs, UndoFails(p) \/ Die(p)
      PROVE  \E s \in Runs, label \in Labels : \E c : Moves(p, s, label, c)
  BY <1>4, BreaksMove
<1>5. QED
  BY <1>1, <1>2, <1>3, <1>4 DEF Next, Act

-----------------------------------------------------------------------------
(* Every journal, stored or held, is faithful to what happened; and where   *)
(* one call at a time works on a run and none died, it leaves nothing out.  *)
JournalsFaithful ==
  /\ \A r \in Runs : docs[r] # None => Faithful(docs[r].journal, log[r])
  /\ \A p \in Procs : pc[p] # "idle" => Faithful(call[p].doc.journal, log[call[p].run])

WholeOf(r) ==
  r \notin broken =>
    /\ Resting(r) => Whole(docs[r].journal, log[r])
    /\ \A p \in Working(r) : Whole(call[p].doc.journal, log[r])

JournalsWhole == \A r \in Runs : WholeOf(r)

FaithInv   == Typed /\ JournalsFaithful
JournalInv == EffInv /\ JournalsFaithful /\ JournalsWhole

LEMMA NothingIsTold ==
  /\ \A happened : Faithful(<<>>, happened)
  /\ Whole(<<>>, <<>>)
<1>1. TellingIn(<<>>) = {}
  BY DEF TellingIn
<1>2. PICK f : f = [i \in {} |-> 0]
  OBVIOUS
<1>3. DOMAIN f = {} /\ \A T : f \in [{} -> T]
  BY <1>2
<1>4. \A happened : Embeds(f, <<>>, happened)
  BY <1>1, <1>3 DEF Embeds
<1>5. Onto(f, <<>>)
  BY DEF Onto
<1>6. QED
  BY <1>4, <1>5 DEF Faithful, Whole

LEMMA HeldIs ==
  ASSUME Typed, NEW p \in Procs, NEW r \in Runs
  PROVE  /\ pc[p] # "idle" => call[p].doc.journal \in Seq(JournalEntry)
         /\ docs[r] # None => docs[r].journal \in Seq(JournalEntry)
         /\ (pc[p] # "idle" => call[p].run = r) => Held(p, r) \in Seq(JournalEntry)
         /\ log[r] \in Seq(JournalEntry)
<1>1. pc[p] # "idle" => call[p].doc.journal \in Seq(JournalEntry)
  BY AtWorkHolds DEF Run
<1>2. docs[r] # None => docs[r].journal \in Seq(JournalEntry)
  BY DEF Typed, TypeOK, Run
<1>3. log[r] \in Seq(JournalEntry) /\ <<>> \in Seq(JournalEntry)
  BY DEF Typed, TypeOK
<1>4. QED
  BY <1>1, <1>2, <1>3 DEF Held

LEMMA MovesFaithful ==
  ASSUME FaithInv, NEW p \in Procs, NEW r \in Runs, NEW label, NEW c, Moves(p, r, label, c)
  PROVE  JournalsFaithful'
<1>1. /\ pc[p] # "idle" => call[p].run = r
      /\ Goto(p, label, c)
      /\ label # "idle" => c.run = r
      /\ \A s \in Runs \ {r} : docs'[s] = docs[s] /\ log'[s] = log[s]
      /\ label = "idle" => log'[r] = log[r]
      /\ label # "idle" => Follows(Held(p, r), c.doc.journal, log[r], log'[r])
      /\ \/ docs'[r] = docs[r]
         \/ docs'[r] # None /\ docs'[r].journal = Held(p, r) /\ log'[r] = log[r]
  BY DEF Moves
<1>2. Held(p, r) \in Seq(JournalEntry) /\ log[r] \in Seq(JournalEntry)
  BY <1>1, HeldIs DEF FaithInv
<1>3. Faithful(Held(p, r), log[r])
  BY <1>1, NothingIsTold DEF Held, FaithInv, JournalsFaithful
<1>4. \A other \in Seq(JournalEntry) : Faithful(other, log[r]) => Faithful(other, log'[r])
  BY <1>1, <1>2, FollowsTells
<1>5. label # "idle" => Faithful(c.doc.journal, log'[r])
  BY <1>1, <1>2, <1>3, FollowsTells
<1>6. /\ pc'[p] = label /\ call'[p] = c
      /\ \A q \in Procs \ {p} : pc'[q] = pc[q] /\ call'[q] = call[q]
  BY <1>1, GotoIs DEF FaithInv
<1>7. ASSUME NEW s \in Runs, docs'[s] # None PROVE Faithful(docs'[s].journal, log'[s])
  <2>1. CASE s # r
    BY <1>1, <1>7, <2>1 DEF FaithInv, JournalsFaithful
  <2>2. CASE s = r /\ docs'[r] = docs[r]
    <3>1. docs[r] # None /\ Faithful(docs[r].journal, log[r])
      BY <1>7, <2>2 DEF FaithInv, JournalsFaithful
    <3>2. docs[r].journal \in Seq(JournalEntry)
      BY <3>1, HeldIs DEF FaithInv
    <3>3. QED
      BY <1>4, <2>2, <3>1, <3>2
  <2>3. CASE s = r /\ docs'[r].journal = Held(p, r) /\ log'[r] = log[r]
    BY <1>3, <2>3
  <2>4. QED
    BY <1>1, <2>1, <2>2, <2>3
<1>8. ASSUME NEW q \in Procs, pc'[q] # "idle"
      PROVE  Faithful(call'[q].doc.journal, log'[call'[q].run])
  <2>1. CASE q = p
    BY <1>1, <1>5, <1>6, <1>8, <2>1
  <2>2. CASE q # p
    <3>1. pc[q] # "idle" /\ call'[q] = call[q] /\ Faithful(call[q].doc.journal, log[call[q].run])
      BY <1>6, <1>8, <2>2 DEF FaithInv, JournalsFaithful
    <3>2. call[q].run \in Runs /\ call[q].doc.journal \in Seq(JournalEntry)
      BY <3>1, AtWorkHolds, HeldIs DEF FaithInv
    <3>3. CASE call[q].run = r
      BY <1>4, <3>1, <3>2, <3>3
    <3>4. CASE call[q].run # r
      BY <1>1, <3>1, <3>2, <3>4
    <3>5. QED
      BY <3>3, <3>4
  <2>3. QED
    BY <2>1, <2>2
<1>9. QED
  BY <1>7, <1>8 DEF JournalsFaithful

LEMMA InitFaithful == Init => FaithInv
<1> SUFFICES ASSUME Init PROVE FaithInv
  OBVIOUS
<1>1. JournalsFaithful
  BY DEF Init, JournalsFaithful
<1>2. QED
  BY <1>1, InitTyped DEF FaithInv

LEMMA StepFaithful == FaithInv /\ [Next]_vars => FaithInv'
<1> SUFFICES ASSUME FaithInv, [Next]_vars PROVE JournalsFaithful'
  BY StepTyped DEF FaithInv
<1>1. CASE Next
  <2>1. \E p \in Procs, r \in Runs, label \in Labels : \E c : Moves(p, r, label, c)
    BY <1>1, EveryStepMoves DEF FaithInv
  <2>2. QED
    BY <2>1, MovesFaithful
<1>2. CASE UNCHANGED vars
  BY <1>2 DEF vars, FaithInv, JournalsFaithful
<1>3. QED
  BY <1>1, <1>2

(* What a stored journal tells happened, in that order, whatever fails or   *)
(* dies and however many calls work on the run: what it may leave out is    *)
(* what a call did that never saved it (engine.go:63-101, 122-167).         *)
JournaledHappened ==
  \A r \in Runs : docs[r] # None =>
    \E lost \in SUBSET DOMAIN log[r] : TellsOf(docs[r].journal, log[r], DOMAIN log[r] \ lost)

LEMMA FaithfulTells ==
  ASSUME NEW entries \in Seq(JournalEntry), NEW happened \in Seq(JournalEntry)
  PROVE  /\ Faithful(entries, happened) =>
              \E lost \in SUBSET DOMAIN happened :
                TellsOf(entries, happened, DOMAIN happened \ lost)
         /\ Whole(entries, happened) => TellsOf(entries, happened, DOMAIN happened)
<1>1. ASSUME NEW f, Embeds(f, entries, happened)
      PROVE  \E lost \in SUBSET DOMAIN happened :
               TellsOf(entries, happened, DOMAIN happened \ lost)
  <2> DEFINE T == {f[i] : i \in TellingIn(entries)}
             L == DOMAIN happened \ T
  <2>1. TellsOf(entries, happened, T) /\ T \subseteq DOMAIN happened
    BY <1>1, EmbeddedTells
  <2> HIDE DEF T
  <2>2. DOMAIN happened \ L = T /\ L \in SUBSET DOMAIN happened
    BY <2>1
  <2>3. QED
    BY <2>1, <2>2
<1>2. ASSUME NEW f, Embeds(f, entries, happened), Onto(f, happened)
      PROVE  TellsOf(entries, happened, DOMAIN happened)
  BY <1>2, EmbeddedTells
<1>3. QED
  BY <1>1, <1>2 DEF Faithful, Whole

(* Every stored journal, of any number of calls on any run.                 *)
THEOREM JournalsAreTrue == Spec => []JournaledHappened
<1>1. FaithInv => JournaledHappened
  <2> SUFFICES ASSUME FaithInv, NEW r \in Runs, docs[r] # None
               PROVE  \E lost \in SUBSET DOMAIN log[r] :
                        TellsOf(docs[r].journal, log[r], DOMAIN log[r] \ lost)
    BY DEF JournaledHappened
  <2>1. docs[r].journal \in Seq(JournalEntry) /\ log[r] \in Seq(JournalEntry)
    BY DEF FaithInv, Typed, TypeOK, Run
  <2>2. Faithful(docs[r].journal, log[r])
    BY DEF FaithInv, JournalsFaithful
  <2>3. QED
    BY <2>1, <2>2, FaithfulTells
<1>2. QED
  BY InitFaithful, StepFaithful, <1>1, PTL DEF Spec

LEMMA WholeStays ==
  ASSUME NEW s, RunStays(s), WholeOf(s)
  PROVE  WholeOf(s)'
<1>1. Resting(s)' <=> Resting(s)
  BY DEF RunStays, Resting
<1>2. QED
  BY <1>1 DEF RunStays, WholeOf

LEMMA MovesWhole ==
  ASSUME ~Overlap, JournalInv, NEW p \in Procs, NEW r \in Runs, NEW label, NEW c,
         Moves(p, r, label, c)
  PROVE  JournalsWhole'
<1>1. OnRun(p, r, label, c)
  BY DEF Moves, OnRun
<1>2. /\ \A s \in Runs \ {r} : RunStays(s)
      /\ Working(r)' = IF label = "idle" THEN {} ELSE {p}
      /\ pc'[p] = label /\ call'[p] = c
  BY <1>1, OneMoves DEF JournalInv, EffInv
<1>3. /\ pc[p] # "idle" => call[p].run = r
      /\ pc[p] = "idle" => Working(r) = {}
      /\ broken \subseteq broken'
  BY DEF Moves
<1>4. Held(p, r) \in Seq(JournalEntry) /\ log[r] \in Seq(JournalEntry)
  BY <1>3, HeldIs DEF JournalInv, EffInv
<1>5. r \notin broken => Whole(Held(p, r), log[r])
  <2>1. CASE pc[p] # "idle"
    <3>1. p \in Working(r)
      BY <1>3, <2>1 DEF Working
    <3>2. QED
      BY <2>1, <3>1 DEF Held, JournalInv, JournalsWhole, WholeOf
  <2>2. CASE pc[p] = "idle" /\ docs[r] = None
    <3>1. log[r] = <<>>
      BY <2>2 DEF JournalInv, EffInv, Unsaved
    <3>2. QED
      BY <2>2, <3>1, NothingIsTold DEF Held
  <2>3. CASE pc[p] = "idle" /\ docs[r] # None
    <3>1. Resting(r)
      BY <1>3, <2>3 DEF Resting
    <3>2. QED
      BY <2>3, <3>1 DEF Held, JournalInv, JournalsWhole, WholeOf
  <2>4. QED
    BY <2>1, <2>2, <2>3
<1>6. WholeOf(r)'
  <2> SUFFICES ASSUME r \notin broken' PROVE /\ Resting(r)' => Whole(docs'[r].journal, log'[r])
                                             /\ \A q \in Working(r)' :
                                                  Whole(call'[q].doc.journal, log'[r])
    BY DEF WholeOf
  <2>1. Whole(Held(p, r), log[r])
    BY <1>3, <1>5
  <2>2. CASE label = "idle"
    <3>1. docs'[r].journal = Held(p, r) /\ log'[r] = log[r]
      BY <2>2 DEF Moves
    <3>2. QED
      BY <1>2, <2>1, <2>2, <3>1
  <2>3. CASE label # "idle"
    <3>1. Follows(Held(p, r), c.doc.journal, log[r], log'[r])
      BY <2>3 DEF Moves
    <3>2. Whole(c.doc.journal, log'[r])
      BY <1>4, <2>1, <3>1, FollowsTells
    <3>3. ~Resting(r)'
      BY <1>2, <2>3 DEF Resting
    <3>4. QED
      BY <1>2, <2>3, <3>2, <3>3
  <2>4. QED
    BY <2>2, <2>3
<1>7. \A s \in Runs \ {r} : WholeOf(s)'
  BY <1>2, WholeStays DEF JournalInv, JournalsWhole
<1>8. QED
  BY <1>6, <1>7 DEF JournalsWhole

LEMMA InitJournals == Init => JournalInv
<1> SUFFICES ASSUME Init PROVE JournalInv
  OBVIOUS
<1>1. EffInv /\ JournalsFaithful
  BY InitEffects, InitFaithful DEF FaithInv
<1>2. \A r \in Runs : Working(r) = {} /\ ~Resting(r)
  BY NoneIsNoRun DEF Init, Working, NoCall, Resting
<1>3. JournalsWhole
  BY <1>2 DEF JournalsWhole, WholeOf
<1>4. QED
  BY <1>1, <1>3 DEF JournalInv

LEMMA StepJournals ==
  ASSUME ~Overlap, JournalInv, [Next]_vars
  PROVE  JournalInv'
<1>1. EffInv'
  BY StepEffects DEF JournalInv
<1>2. JournalsFaithful'
  BY StepFaithful DEF JournalInv, EffInv, FaithInv
<1>3. CASE Next
  <2>1. \E p \in Procs, r \in Runs, label \in Labels : \E c : Moves(p, r, label, c)
    BY <1>3, EveryStepMoves DEF JournalInv, EffInv
  <2>2. JournalsWhole'
    BY <2>1, MovesWhole
  <2>3. QED
    BY <1>1, <1>2, <2>2 DEF JournalInv
<1>4. CASE UNCHANGED vars
  <2>1. \A s \in Runs : RunStays(s)
    BY <1>4 DEF vars, RunStays, Working
  <2>2. JournalsWhole'
    BY <2>1, WholeStays DEF JournalInv, JournalsWhole
  <2>3. QED
    BY <1>1, <1>2, <2>2 DEF JournalInv
<1>5. QED
  BY <1>3, <1>4

(* While no two calls work on one run, its journal leaves nothing out       *)
(* either, unless a call died on the run or failed to undo                  *)
(* (engine.go:63-101, 122-208).                                             *)
THEOREM JournalTellsTruth ==
  ASSUME ~Overlap
  PROVE  Spec => []JournalTruthful
<1>1. JournalInv => JournalTruthful
  <2> SUFFICES ASSUME JournalInv, NEW r \in Runs, docs[r] # None
               PROVE  /\ \E lost \in SUBSET DOMAIN log[r] :
                           TellsOf(docs[r].journal, log[r], DOMAIN log[r] \ lost)
                      /\ Resting(r) /\ r \notin broken =>
                           TellsOf(docs[r].journal, log[r], DOMAIN log[r])
    BY DEF JournalTruthful, Resting
  <2>1. docs[r].journal \in Seq(JournalEntry) /\ log[r] \in Seq(JournalEntry)
    BY DEF JournalInv, EffInv, Typed, TypeOK, Run
  <2>2. Faithful(docs[r].journal, log[r])
    BY DEF JournalInv, JournalsFaithful
  <2>3. Resting(r) /\ r \notin broken => Whole(docs[r].journal, log[r])
    BY DEF JournalInv, JournalsWhole, WholeOf
  <2>4. QED
    BY <2>1, <2>2, <2>3, FaithfulTells
<1>2. JournalInv /\ [Next]_vars => JournalInv'
  BY StepJournals
<1>3. QED
  BY InitJournals, <1>1, <1>2, PTL DEF Spec

=============================================================================
