------------------------------ MODULE Rollout -------------------------------
(***************************************************************************)
(* The model-version registry of package rollout: versions are registered, *)
(* canaried, signed, promoted and rolled back; Sign, Promote and Rollback  *)
(* end with a line of the ledger.                                          *)
(*                                                                         *)
(* The registry is a table of documents.  Every operation is a process of  *)
(* its own (`di rollout ...`) that reads documents, changes them in memory *)
(* and saves each of them whole, in a transaction of its own; processes    *)
(* take steps between each other's reads and saves.  A version's model is  *)
(* a file that anybody may edit at any time; its hash is taken to be its   *)
(* content.  No brain is attached here (module RolloutMirror).             *)
(***************************************************************************)
EXTENDS Naturals, Sequences, FiniteSets

CONSTANTS
  Names, Paths,   \* version names; model files
  Contents,       \* what a model file may hold
  Metrics,
  Definition,     \* Definition[c][m]: what content c says metric m is, or None
  Signers,
  Files,          \* Files[n]: the model files registered under a name
  Pcts,           \* canary percentages asked for
  Buckets,        \* what `bucket` maps request keys to
  Ties,           \* whether two saves may fall in one second
  Procs,          \* calls in progress at a time
  MaxLedger,      \* bound: ledger lines
  MaxEdits,       \* bound: edits of model files
  MaxFaults,      \* bound: calls that die or lose the database
  MaxLost,        \* bound: failed reads of the active version
  InitialDisk,
  None            \* no hash, no signer, no document

Statuses == {"candidate", "canary", "active", "retired"}

Version == [name   : Names,
            path   : Paths,
            hash   : Contents,
            status : Statuses,
            pct    : Pcts \cup {0},
            signed : Contents \cup {None},
            by     : Signers \cup {None}]

(* A ledger line; the timestamp is its position.                            *)
Entry == [act     : {"sign", "promote", "rollback"},
          name    : Names,
          by      : Signers \cup {None},
          from    : Contents \cup {None},
          to      : Contents \cup {None},
          changed : SUBSET Metrics]

ASSUME DefinitionAssumption ==
  \A c \in Contents : DOMAIN Definition[c] = Metrics
ASSUME PctsAssumption == Pcts \subseteq 0 .. 100 /\ Buckets \subseteq 0 .. 99
ASSUME NamesAssumption == IsFiniteSet(Names)
ASSUME TiesAssumption == Ties \subseteq BOOLEAN
ASSUME FilesAssumption == Files \in [Names -> SUBSET Paths]
ASSUME DiskAssumption == InitialDisk \in [Paths -> Contents]
ASSUME BoundsAssumption == {MaxLedger, MaxEdits, MaxFaults, MaxLost} \subseteq Nat
ASSUME NoneAssumption == None \notin Contents \cup Signers \cup Version \cup Names

VARIABLES
  versions,   \* _model_versions: the document under each name
  rank,       \* their updated_at, as its rank among all of them
  ledger,     \* _model_ledger
  disk,       \* the model files
  pc, call,   \* where each process is and what it holds in memory
  edits, faults, lost,  \* what has happened against the bounds
  signatures  \* history: <<signer, content>> of every signature given

control == <<pc, call>>
vars    == <<versions, rank, ledger, disk, pc, call, edits, faults, lost,
             signatures>>

(* What a call holds: the document it will save, one it saves before that,  *)
(* the canaries it demotes, and the metrics it reports.                     *)
Call == [act     : {"sign", "promote", "rollback", "canary", "none"},
         name    : Names \cup {None},
         pct     : Pcts \cup {0},
         doc     : Version \cup {None},
         prev    : Version \cup {None},
         todo    : SUBSET Version,
         changed : SUBSET Metrics]

NoCall == [act |-> "none", name |-> None, pct |-> 0, doc |-> None, prev |-> None,
           todo |-> {}, changed |-> {}]

Labels == {"idle", "demote", "get", "put", "active", "retire", "activate", "record"}

TypeOK ==
  /\ versions \in [Names -> Version \cup {None}]
  /\ rank \in [Names -> Nat]
  /\ ledger \in Seq(Entry)
  /\ disk \in [Paths -> Contents]
  /\ pc \in [Procs -> Labels]
  /\ call \in [Procs -> Call]
  /\ \A p \in Procs : pc[p] = "idle" <=> call[p] = NoCall
  /\ {edits, faults, lost} \subseteq Nat
  /\ signatures \subseteq Signers \X Contents

Init ==
  /\ versions = [n \in Names |-> None]
  /\ rank = [n \in Names |-> 0]
  /\ ledger = <<>>
  /\ disk = InitialDisk
  /\ pc = [p \in Procs |-> "idle"]
  /\ call = [p \in Procs |-> NoCall]
  /\ edits = 0 /\ faults = 0 /\ lost = 0
  /\ signatures = {}

-----------------------------------------------------------------------------
(* Reading the registry.                                                    *)

Registered == {n \in Names : versions[n] # None}
Documents  == {versions[n] : n \in Registered}
InStatus(status) == {v \in Documents : v.status = status}

(* ORDER BY updated_at DESC: the first of a set of documents, where two     *)
(* that were saved in one second may come in either order.                  *)
Newest(docs) == {v \in docs : \A w \in docs : rank[w.name] <= rank[v.name]}

(* ChangedMetrics: the metrics that two contents define differently.        *)
ChangedMetrics(a, b) == {m \in Metrics : Definition[a][m] # Definition[b][m]}

(* Route: the versions that may serve a request whose key is in bucket b.   *)
Route(b) ==
  LET band == {v \in Newest(InStatus("canary")) : b < v.pct} IN
  IF band # {} THEN band ELSE Newest(InStatus("active"))

-----------------------------------------------------------------------------
(* save replaces the document and moves it to the front of the list, in the *)
(* same second as the save before it or in a later one.                     *)
Dense(r) == [n \in Names |-> Cardinality({r[m] : m \in {k \in Names : r[k] < r[n]}})]

Saved(n, tie) ==
  LET top == CHOOSE i \in {rank[m] : m \in Names} : \A m \in Names : rank[m] <= i
  IN Dense([rank EXCEPT ![n] = IF tie THEN top ELSE top + 1])

Save(v) ==
  /\ versions' = [versions EXCEPT ![v.name] = v]
  /\ \E tie \in Ties : rank' = Saved(v.name, tie)

Goto(p, label, c) ==
  /\ pc' = [pc EXCEPT ![p] = label]
  /\ call' = [call EXCEPT ![p] = c]

Return(p) == Goto(p, "idle", NoCall)

(* A call begins: it has read the registry and passed its first checks.     *)
Begin(p, label, c) ==
  /\ pc[p] = "idle"
  /\ Len(ledger) < MaxLedger
  /\ Goto(p, label, c)
  /\ UNCHANGED <<versions, rank, ledger, disk, edits, faults, lost, signatures>>

(* Mutant: registering again keeps the signature.                           *)
FreshButSigned(n, f) ==
  [name |-> n, path |-> f, hash |-> disk[f], status |-> "candidate", pct |-> 0,
   signed |-> IF n \in Registered THEN versions[n].signed ELSE None,
   by |-> IF n \in Registered THEN versions[n].by ELSE None]

Fresh(n, f) == [name |-> n, path |-> f, hash |-> disk[f], status |-> "candidate", pct |-> 0,
                signed |-> None, by |-> None]

(* Register overwrites whatever is under the name with a fresh candidate,   *)
(* in one save.                                                             *)
Register(p, n, f) ==
  /\ pc[p] = "idle"
  /\ Save(Fresh(n, f))
  /\ UNCHANGED <<ledger, disk, control, edits, faults, lost, signatures>>

(* The file of a version is edited.                                         *)
Edit(f, c) ==
  /\ edits < MaxEdits
  /\ edits' = edits + 1
  /\ disk[f] # c
  /\ disk' = [disk EXCEPT ![f] = c]
  /\ UNCHANGED <<versions, rank, ledger, control, faults, lost, signatures>>

-----------------------------------------------------------------------------
(* Canary and Rollback list the registry and demote the canaries they saw,  *)
(* one save each.                                                           *)
StartCanary(p, n, pct) ==
  Begin(p, "demote", [NoCall EXCEPT !.act = "canary", !.name = n, !.pct = pct,
                        !.todo = {v \in InStatus("canary") : v.name # n}])

(* A rollback also takes from that list the version it may restore.         *)
StartRollback(p) ==
  \E spare \in IF InStatus("retired") = {} THEN {None} ELSE Newest(InStatus("retired")) :
    Begin(p, "demote", [NoCall EXCEPT !.act = "rollback", !.doc = spare,
                          !.todo = InStatus("canary")])

Demote(p) ==
  /\ pc[p] = "demote"
  /\ \E v \in call[p].todo :
       /\ Save([v EXCEPT !.status = "candidate", !.pct = 0])
       /\ Goto(p, "demote", [call[p] EXCEPT !.todo = @ \ {v}])
  /\ UNCHANGED <<ledger, disk, edits, faults, lost, signatures>>

Demoted(p) ==
  /\ pc[p] = "demote"
  /\ call[p].todo = {}
  /\ Goto(p, IF call[p].act = "canary" THEN "get" ELSE "active", call[p])
  /\ UNCHANGED <<versions, rank, ledger, disk, edits, faults, lost, signatures>>

(* The rest of Canary: read the version, any version, and save it.          *)
GetCanary(p) ==
  /\ pc[p] = "get"
  /\ IF call[p].name \in Registered
       THEN Goto(p, "put", [call[p] EXCEPT
              !.doc = [versions[call[p].name] EXCEPT !.status = "canary", !.pct = call[p].pct]])
       ELSE Return(p)
  /\ UNCHANGED <<versions, rank, ledger, disk, edits, faults, lost, signatures>>

PutCanary(p) ==
  LET v == call[p].doc IN
  /\ pc[p] = "put" /\ call[p].act = "canary"
  /\ Save(v)
  /\ Return(p)
  /\ UNCHANGED <<ledger, disk, edits, faults, lost, signatures>>

-----------------------------------------------------------------------------
(* Sign: the registered hash, the file and what the signer read must agree. *)
(* It saves the version as it read it, whatever its status was.             *)
LoadSign(p, n, by, read) ==
  /\ n \in Registered
  /\ disk[versions[n].path] = versions[n].hash
  /\ read \in {None, versions[n].hash}
  /\ Begin(p, "put", [NoCall EXCEPT !.act = "sign", !.name = n,
             !.doc = [versions[n] EXCEPT !.signed = versions[n].hash, !.by = by]])

PutSign(p) ==
  LET v == call[p].doc IN
  /\ pc[p] = "put" /\ call[p].act = "sign"
  /\ Save(v)
  /\ Goto(p, "record", call[p])
  /\ signatures' = signatures \cup {<<v.by, v.signed>>}
  /\ UNCHANGED <<ledger, disk, edits, faults, lost>>

-----------------------------------------------------------------------------
(* Mutant: there need be no signature.                                      *)
SignatureHoldsIfAny(v) == v.signed \in {None, disk[v.path]}

(* Mutant: the file is compared with the hash of Register.                  *)
RegistrationHolds(v) == disk[v.path] = v.hash

(* requireSignature: signed, and the file still holds what was signed.      *)
SignatureHolds(v) == v.signed # None /\ disk[v.path] = v.signed

LoadPromote(p, n) ==
  /\ n \in Registered
  /\ SignatureHolds(versions[n])
  /\ Begin(p, "active", [NoCall EXCEPT !.act = "promote", !.name = n, !.doc = versions[n]])

(* Promote looks up the active version; ChangedMetrics reads both files.    *)
ReadActive(p) ==
  /\ pc[p] = "active" /\ call[p].act = "promote"
  /\ \/ /\ InStatus("active") = {}
        /\ Goto(p, "activate", call[p])
     \/ \E prev \in Newest(InStatus("active")) :
          Goto(p, "retire", [call[p] EXCEPT !.prev = prev,
                 !.changed = ChangedMetrics(disk[prev.path], disk[call[p].doc.path])])
  /\ UNCHANGED <<versions, rank, ledger, disk, edits, faults, lost, signatures>>

Retire(p) ==
  LET prev == call[p].prev IN
  /\ pc[p] = "retire"
  /\ Save([prev EXCEPT !.status = "retired"])
  /\ Goto(p, "activate", call[p])
  /\ UNCHANGED <<ledger, disk, edits, faults, lost, signatures>>

(* Mutant: a rollback restores whether or not a version is active.          *)
CheckNothing(p) ==
  /\ pc[p] = "active" /\ call[p].act = "rollback"
  /\ IF call[p].doc = None THEN Return(p) ELSE Goto(p, "activate", call[p])
  /\ UNCHANGED <<versions, rank, ledger, disk, edits, faults, lost, signatures>>

(* Rollback stops at an active version, whatever it is.                     *)
CheckActive(p) ==
  /\ pc[p] = "active" /\ call[p].act = "rollback"
  /\ IF InStatus("active") # {} \/ call[p].doc = None
       THEN Return(p)
       ELSE Goto(p, "activate", call[p])
  /\ UNCHANGED <<versions, rank, ledger, disk, edits, faults, lost, signatures>>

(* Both take a failure to read the active version for there being none.     *)
LoseActive(p) ==
  /\ lost < MaxLost
  /\ lost' = lost + 1
  /\ pc[p] = "active"
  /\ IF call[p].doc = None THEN Return(p) ELSE Goto(p, "activate", call[p])
  /\ UNCHANGED <<versions, rank, ledger, disk, edits, faults, signatures>>

(* Mutant: an activation that replaces nothing is not written down.         *)
ActivateUnrecorded(p) ==
  LET v == call[p].doc IN
  /\ pc[p] = "activate"
  /\ Save([v EXCEPT !.status = "active", !.pct = IF call[p].act = "promote" THEN 0 ELSE @])
  /\ IF call[p].prev # None THEN Goto(p, "record", call[p]) ELSE Return(p)
  /\ UNCHANGED <<ledger, disk, edits, faults, lost, signatures>>

(* Promote makes its candidate active; Rollback the version it had listed,  *)
(* with no look at its signature or at its file.                            *)
Activate(p) ==
  LET v == call[p].doc IN
  /\ pc[p] = "activate"
  /\ Save([v EXCEPT !.status = "active", !.pct = IF call[p].act = "promote" THEN 0 ELSE @])
  /\ Goto(p, "record", call[p])
  /\ UNCHANGED <<ledger, disk, edits, faults, lost, signatures>>

(* Mutant: the ledger takes the hash of the file as it is by now.           *)
RecordOfFile(p) ==
  LET c == call[p] IN
  /\ pc[p] = "record"
  /\ ledger' = Append(ledger,
       [act |-> c.act, name |-> c.doc.name, by |-> c.doc.by,
        from |-> IF c.prev = None THEN None ELSE c.prev.hash,
        to |-> disk[c.doc.path], changed |-> c.changed])
  /\ Return(p)
  /\ UNCHANGED <<versions, rank, disk, edits, faults, lost, signatures>>

(* record appends the ledger line; the call returns.                        *)
Record(p) ==
  LET c == call[p] IN
  /\ pc[p] = "record"
  /\ ledger' = Append(ledger,
       [act |-> c.act, name |-> c.doc.name, by |-> c.doc.by,
        from |-> IF c.prev = None THEN None ELSE c.prev.hash,
        to |-> c.doc.signed, changed |-> c.changed])
  /\ Return(p)
  /\ UNCHANGED <<versions, rank, disk, edits, faults, lost, signatures>>

(* A call dies, or a statement fails and the call returns the error: what   *)
(* it has saved stays.                                                      *)
Die(p) ==
  /\ faults < MaxFaults
  /\ faults' = faults + 1
  /\ pc[p] # "idle"
  /\ Return(p)
  /\ UNCHANGED <<versions, rank, ledger, disk, edits, lost, signatures>>

Step(p) ==
  \/ Demote(p) \/ Demoted(p) \/ GetCanary(p) \/ PutCanary(p) \/ PutSign(p)
  \/ ReadActive(p) \/ Retire(p) \/ CheckActive(p) \/ LoseActive(p)
  \/ Activate(p) \/ Record(p)

Start(p) ==
  \/ \E n \in Names : \E f \in Files[n] : Register(p, n, f)
  \/ StartRollback(p)
  \/ \E n \in Names : LoadPromote(p, n)
  \/ \E n \in Names, pct \in Pcts : StartCanary(p, n, pct)
  \/ \E n \in Names, by \in Signers, read \in Contents \cup {None} : LoadSign(p, n, by, read)

Next ==
  \/ \E f \in Paths, c \in Contents : Edit(f, c)
  \/ \E p \in Procs : Start(p) \/ Step(p) \/ Die(p)

Spec == Init /\ [][Next]_vars

-----------------------------------------------------------------------------
(* Properties.                                                              *)

Quiet == \A p \in Procs : pc[p] = "idle"

Live == {"active", "retired"}

(* Nothing is, or has been, live that nobody signed: a version that Promote *)
(* or Rollback made active carries a signature, even when calls overlap and *)
(* save over each other.                                                    *)
LiveIsSigned == \A v \in Documents : v.status \in Live => v.signed # None

(* A signature on file was given by its signer for the very bytes the       *)
(* version is registered with; overwriting saves never carry a signature    *)
(* over to other bytes.                                                     *)
SignaturesHold ==
  \A v \in Documents :
    v.signed # None => v.signed = v.hash /\ <<v.by, v.signed>> \in signatures

(* The ledger credits an activation to somebody who signed those bytes.     *)
LedgerTruthful ==
  \A i \in DOMAIN ledger : <<ledger[i].by, ledger[i].to>> \in signatures

(* One call at a time, crashes included, leaves at most one version active, *)
(* also half way through a promotion.                                       *)
AtMostOneActive == Cardinality(InStatus("active")) <= 1

Activations == {i \in DOMAIN ledger : ledger[i].act # "sign"}

LatestActivation == CHOOSE i \in Activations : \A j \in Activations : j <= i

(* Calls that run alone and finish leave a ledger that accounts for what is *)
(* live: the active version is the one last activated, on a signature the   *)
(* ledger holds.                                                            *)
ActiveIsLedgered ==
  Quiet /\ faults = 0 => \A v \in InStatus("active") :
    /\ Activations # {}
    /\ ledger[LatestActivation].name = v.name
    /\ ledger[LatestActivation].to = v.signed
    /\ \E i \in DOMAIN ledger : /\ i < LatestActivation
                                /\ ledger[i].act = "sign"
                                /\ ledger[i].name = v.name
                                /\ ledger[i].to = v.signed

(* As sign.go has it of record, the last thing every state change does: the *)
(* version last activated in the ledger is the active one.                  *)
LedgerShowsLive ==
  Quiet /\ Activations # {} =>
    \E v \in InStatus("active") : v.name = ledger[LatestActivation].name

(* Nothing goes live that nobody approved: no version serves every request  *)
(* unsigned.                                                                *)
EveryoneServedSigned ==
  \A v \in Documents : (\A b \in Buckets : Route(b) = {v}) => v.signed # None

=============================================================================
