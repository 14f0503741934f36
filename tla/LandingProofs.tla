--------------------------- MODULE LandingProofs ---------------------------
(***************************************************************************)
(* Proofs about Branch and Landing, for every value of their constants.     *)
(***************************************************************************)
EXTENDS Landing, TLAPS

-----------------------------------------------------------------------------
(* Type correctness.                                                        *)

(* The record of a call that is over.                                       *)
LEMMA IdleTyped == Idle \in Calls /\ Idle.todo = {} /\ Idle.step = "idle"
  <1>1. Names # {}
    BY BranchAssumption
  <1>2. (CHOOSE n \in Names : TRUE) \in Names
    BY <1>1
  <1>3. Empty \in Contents
    BY DEF Empty, Contents
  <1> QED
    BY <1>2, <1>3 DEF Idle, Calls, Steps

LEMMA IdleOK == CallOK(Idle) /\ CallOK([Idle EXCEPT !.step = "refused"])
  <1>1. CallOK(Idle)
    BY IdleTyped DEF CallOK
  <1>2. [Idle EXCEPT !.step = "refused"] \in Calls
    BY IdleTyped DEF Calls, Steps
  <1>3. [Idle EXCEPT !.step = "refused"].todo = {} /\ [Idle EXCEPT !.step = "refused"].step = "refused"
       /\ [Idle EXCEPT !.step = "refused"].tables = Idle.tables
    BY IdleTyped DEF Calls
  <1> QED
    BY <1>1, <1>2, <1>3, IdleTyped DEF CallOK

(* A call moves on to a well-typed one: all calls stay well typed.          *)
LEMMA OneCall ==
  ASSUME NEW f \in [Callers -> Calls], \A c \in Callers : CallOK(f[c]),
         NEW c \in Callers, NEW w, CallOK(w)
  PROVE  /\ [f EXCEPT ![c] = w] \in [Callers -> Calls]
         /\ \A d \in Callers : CallOK([f EXCEPT ![c] = w][d])
  BY DEF CallOK

(* What the transactions see is made of rows.                               *)
LEMMA SeesTyped ==
  ASSUME BranchTypeOK, NEW c \in Callers
  PROVE  Promoted(c) \in Contents
  BY DEF BranchTypeOK, Promoted, Sees, Contents, Calls

LEMMA LaterTyped ==
  ASSUME BranchTypeOK, NEW to \in Contents
  PROVE  Later(to) \in [Names -> Contents]
  BY DEF BranchTypeOK, Later, Contents

(* The schemas stay well typed when one is dropped, made, given a table or  *)
(* a row.                                                                   *)
LEMMA WithoutOK ==
  ASSUME SchemasOK(branch), NEW n
  PROVE  SchemasOK(Without(n))
  BY DEF SchemasOK, Without

LEMMA WithSchemaOK ==
  ASSUME SchemasOK(branch), NEW n \in Names
  PROVE  SchemasOK(With(branch, n, [t \in {} |-> {}]))
  BY DEF SchemasOK, With

LEMMA WithTableOK ==
  ASSUME SchemasOK(branch), NEW n \in DOMAIN branch, NEW t \in Tables, NEW rows \in SUBSET Keys
  PROVE  SchemasOK([branch EXCEPT ![n] = With(branch[n], t, rows)])
  BY DEF SchemasOK, With

LEMMA WithRowOK ==
  ASSUME SchemasOK(branch), NEW n \in DOMAIN branch, NEW t \in DOMAIN branch[n], NEW k \in Keys
  PROVE  SchemasOK([branch EXCEPT ![n][t] = @ \union {k}])
  BY DEF SchemasOK

(* A step of one call that leaves the tables and the schemas well typed.    *)
LEMMA CallStep ==
  ASSUME BranchTypeOK, NEW c \in Callers, NEW w, CallOK(w),
         call' = [call EXCEPT ![c] = w],
         production' \in Contents, swept' \in Contents, SchemasOK(branch'),
         late' \in [Names -> Contents], calls' \in 0 .. MaxCalls, faults' \in 0 .. MaxFaults
  PROVE  BranchTypeOK'
  <1>1. call' \in [Callers -> Calls] /\ \A d \in Callers : CallOK(call'[d])
    BY OneCall DEF BranchTypeOK
  <1>2. (\A d \in Callers : CallOK(call[d]))'
    BY <1>1 DEF CallOK
  <1>3. SchemasOK(branch)'
    BY DEF SchemasOK
  <1> QED
    BY <1>1, <1>2, <1>3 DEF BranchTypeOK

(* The whole of BranchNext keeps the types.                                 *)
LEMMA BranchTypeStep ==
  ASSUME BranchTypeOK, BranchNext
  PROVE  BranchTypeOK'
  <1> USE BranchAssumption
  <1>t. /\ production \in Contents /\ swept \in Contents /\ SchemasOK(branch)
        /\ late \in [Names -> Contents] /\ calls \in 0 .. MaxCalls /\ faults \in 0 .. MaxFaults
        /\ call \in [Callers -> Calls] /\ \A c \in Callers : CallOK(call[c])
    BY DEF BranchTypeOK
  <1>more. calls < MaxCalls => calls + 1 \in 0 .. MaxCalls
    BY <1>t
  <1>1. ASSUME NEW c \in Callers, NEW n \in Names, NEW picked \in SUBSET Tables, Create(c, n, picked)
        PROVE  BranchTypeOK'
    <2> DEFINE w == [Idle EXCEPT !.step = "schema", !.name = n, !.tables = picked, !.todo = picked]
    <2>1. w \in Calls /\ w.todo = picked /\ w.tables = picked /\ w.step = "schema"
      BY IdleTyped DEF Calls, Steps
    <2>2. CallOK(w)
      BY <2>1, <1>1 DEF CallOK, Create
    <2>3. call' = [call EXCEPT ![c] = w] /\ SchemasOK(branch') /\ calls' \in 0 .. MaxCalls
      BY <1>1, <1>t, <1>more, WithoutOK DEF Create
    <2> HIDE DEF w
    <2> QED
      BY <1>1, <1>t, <2>2, <2>3, CallStep DEF Create
  <1>2. ASSUME NEW c \in Callers, NEW n \in Names, StartPromote(c, n)
        PROVE  BranchTypeOK'
    <2> DEFINE w == [Idle EXCEPT !.step = "delete", !.name = n, !.tables = DOMAIN branch[n], !.todo = DOMAIN branch[n]]
    <2>1. DOMAIN branch[n] \subseteq Tables /\ DOMAIN branch[n] # {}
      BY <1>2, <1>t DEF StartPromote, SchemasOK
    <2>2. w \in Calls /\ w.todo = DOMAIN branch[n] /\ w.tables = DOMAIN branch[n] /\ w.step = "delete"
      BY <2>1, IdleTyped DEF Calls, Steps
    <2>3. CallOK(w)
      BY <2>1, <2>2 DEF CallOK
    <2>4. call' = [call EXCEPT ![c] = w] /\ calls' \in 0 .. MaxCalls
      BY <1>2, <1>more DEF StartPromote
    <2> HIDE DEF w
    <2> QED
      BY <1>2, <1>t, <2>3, <2>4, CallStep DEF StartPromote
  <1>3. ASSUME NEW c \in Callers, NEW n \in Names, Discard(c, n)
        PROVE  BranchTypeOK'
    BY <1>3, <1>t, <1>more, WithoutOK DEF Discard, BranchTypeOK
  <1>4. ASSUME NEW c \in Callers, CreateSchema(c)
        PROVE  BranchTypeOK'
    <2> DEFINE w == [call[c] EXCEPT !.step = "copy"]
    <2>1. call[c] \in Calls /\ call[c].step = "schema" /\ CallOK(call[c])
      BY <1>4, <1>t DEF CreateSchema
    <2>2. w \in Calls /\ w.todo = call[c].todo /\ w.tables = call[c].tables /\ w.step = "copy"
      BY <2>1 DEF Calls, Steps
    <2>3. CallOK(w)
      BY <2>1, <2>2 DEF CallOK
    <2>4. call[c].name \in Names
      BY <2>1 DEF Calls
    <2>5. CASE call[c].name \in DOMAIN branch
      <3>1. call' = [call EXCEPT ![c] = Idle] /\ branch' = branch
        BY <1>4, <2>5 DEF CreateSchema, Return
      <3> QED
        BY <1>4, <1>t, <3>1, IdleOK, CallStep DEF CreateSchema
    <2>6. CASE call[c].name \notin DOMAIN branch
      <3>1. call' = [call EXCEPT ![c] = w] /\ SchemasOK(branch')
        BY <1>4, <2>4, <2>6, <1>t, WithSchemaOK DEF CreateSchema
      <3> HIDE DEF w
      <3> QED
        BY <1>4, <1>t, <2>3, <3>1, CallStep DEF CreateSchema
    <2> QED
      BY <2>5, <2>6
  <1>5. ASSUME NEW c \in Callers, NEW t \in Tables, CopyTable(c, t)
        PROVE  BranchTypeOK'
    <2> DEFINE w == IF call[c].todo = {t} THEN Idle ELSE [call[c] EXCEPT !.todo = @ \ {t}]
    <2>1. call[c] \in Calls /\ call[c].step = "copy" /\ CallOK(call[c]) /\ t \in call[c].todo
      BY <1>5, <1>t DEF CopyTable
    <2>2. ASSUME call[c].todo # {t}
          PROVE  CallOK([call[c] EXCEPT !.todo = @ \ {t}])
      <3> DEFINE v == [call[c] EXCEPT !.todo = @ \ {t}]
      <3>1. v \in Calls /\ v.todo = call[c].todo \ {t} /\ v.tables = call[c].tables /\ v.step = "copy"
        BY <2>1 DEF Calls, Steps
      <3> QED
        BY <2>1, <2>2, <3>1 DEF CallOK
    <2>4. CallOK(w)
      BY <2>2, IdleOK
    <2>5. call[c].name \in Names /\ production[t] \in SUBSET Keys
      BY <2>1, <1>t DEF Calls, Contents
    <2>6. call' = [call EXCEPT ![c] = w]
      BY <1>5 DEF CopyTable
    <2>7. SchemasOK(branch')
      BY <1>5, <2>5, <1>t, WithTableOK DEF CopyTable
    <2>8. late' \in [Names -> Contents]
      BY <1>5, <1>t DEF CopyTable, Contents
    <2> HIDE DEF w
    <2> QED
      BY <1>5, <1>t, <2>4, <2>6, <2>7, <2>8, CallStep DEF CopyTable
  <1>6. ASSUME NEW c \in Callers, NEW t \in Tables, CopyFails(c, t)
        PROVE  BranchTypeOK'
    BY <1>6, <1>t, IdleOK, CallStep DEF CopyFails, Return
  <1>7. ASSUME NEW c \in Callers, NEW t \in Tables, Look(c, t)
        PROVE  BranchTypeOK'
    <2> DEFINE w == [call[c] EXCEPT !.step = "clear", !.seen = production[t]]
    <2>1. call[c] \in Calls /\ call[c].step = "delete" /\ CallOK(call[c])
      BY <1>7, <1>t DEF Look
    <2>3. w \in Calls /\ w.todo = call[c].todo /\ w.tables = call[c].tables /\ w.step = "clear"
      BY <2>1, <1>t DEF Calls, Steps, Contents
    <2>4. CallOK(w)
      BY <2>1, <2>3 DEF CallOK
    <2>5. call' = [call EXCEPT ![c] = w]
      BY <1>7, <1>t DEF Look
    <2> HIDE DEF w
    <2> QED
      BY <1>7, <1>t, <2>4, <2>5, CallStep DEF Look
  <1>8. ASSUME NEW c \in Callers, NEW t \in Tables, Clear(c, t)
        PROVE  BranchTypeOK'
    <2> DEFINE w == [call[c] EXCEPT !.step = "insert", !.seen = {}, !.clr[t] = call[c].seen]
    <2>1. call[c] \in Calls /\ call[c].step = "clear" /\ CallOK(call[c])
      BY <1>8, <1>t DEF Clear
    <2>2. w \in Calls /\ w.todo = call[c].todo /\ w.tables = call[c].tables /\ w.step = "insert"
      BY <2>1 DEF Calls, Steps, Contents
    <2>3. CallOK(w)
      BY <2>1, <2>2 DEF CallOK
    <2>4. \/ call' = [call EXCEPT ![c] = w]
          \/ call' = [call EXCEPT ![c] = [Idle EXCEPT !.step = "refused"]]
      BY <1>8, <1>t DEF Clear, Refuse
    <2> HIDE DEF w
    <2> QED
      BY <1>8, <1>t, <2>3, <2>4, IdleOK, CallStep DEF Clear
  <1>9. ASSUME NEW c \in Callers, NEW t \in Tables, Fill(c, t)
        PROVE  BranchTypeOK'
    <2> DEFINE rows == branch[call[c].name][t]
               next == IF call[c].todo = {t} THEN "commit" ELSE "delete"
               w == [call[c] EXCEPT !.ins[t] = rows, !.todo = @ \ {t}, !.step = next]
    <2>1. call[c] \in Calls /\ call[c].step = "insert" /\ CallOK(call[c]) /\ t \in call[c].todo
      BY <1>9, <1>t DEF Fill, IsNext
    <2>2. CASE call' = [call EXCEPT ![c] = [Idle EXCEPT !.step = "refused"]]
      BY <1>9, <1>t, <2>2, IdleOK, CallStep DEF Fill
    <2>3. CASE /\ call[c].name \in DOMAIN branch /\ t \in DOMAIN branch[call[c].name]
               /\ call' = [call EXCEPT ![c] = w]
      <3>1. rows \subseteq Keys
        BY <2>3, <1>t DEF SchemasOK
      <3>2. w \in Calls /\ w.todo = call[c].todo \ {t} /\ w.tables = call[c].tables /\ w.step = next
        BY <2>1, <3>1 DEF Calls, Steps, Contents
      <3>3. CallOK(w)
        BY <2>1, <3>2 DEF CallOK
      <3> HIDE DEF w
      <3> QED
        BY <1>9, <1>t, <2>3, <3>3, CallStep DEF Fill
    <2> QED
      BY <1>9, <1>t, <2>2, <2>3 DEF Fill, Refuse
  <1>10. ASSUME NEW c \in Callers, Commit(c)
         PROVE  BranchTypeOK'
    <2>1. production' \in Contents /\ late' \in [Names -> Contents]
      BY <1>10, SeesTyped, LaterTyped DEF Commit
    <2>2. swept' \in Contents
      BY <1>10, <1>t DEF Commit, Contents
    <2>3. ASSUME NEW d \in Callers
          PROVE  call'[d] \in Calls /\ CallOK(call'[d])
      <3> DEFINE w == [call[d] EXCEPT !.seen = @ \ Gone(c, d)]
      <3>1. call[d] \in Calls /\ CallOK(call[d])
        BY <1>t
      <3>2. w \in Calls /\ w.todo = call[d].todo /\ w.tables = call[d].tables /\ w.step = call[d].step
        BY <3>1 DEF Calls
      <3>3. CallOK(w)
        BY <3>1, <3>2 DEF CallOK
      <3>4. call'[d] \in {Idle, w, call[d]}
        BY <1>10 DEF Commit
      <3> HIDE DEF w
      <3> QED
        BY <3>1, <3>2, <3>3, <3>4, IdleOK DEF CallOK
    <2>4. call' \in [Callers -> Calls]
      <3>1. call' = [d \in Callers |-> call'[d]]
        BY <1>10 DEF Commit
      <3> QED
        BY <2>3, <3>1
    <2>5. (\A d \in Callers : CallOK(call[d]))'
      BY <2>3 DEF CallOK
    <2> QED
      BY <1>10, <1>t, <2>1, <2>2, <2>4, <2>5 DEF Commit, BranchTypeOK, SchemasOK
  <1>11. ASSUME NEW c \in Callers, Abort(c)
         PROVE  BranchTypeOK'
    <2>1. faults' \in 0 .. MaxFaults
      BY <1>11, <1>t DEF Abort
    <2> QED
      BY <1>11, <1>t, <2>1, IdleOK, CallStep DEF Abort, Return
  <1>12. ASSUME NEW n \in Names, NEW b \in Batch, Load(n, b[1], b[2])
         PROVE  BranchTypeOK'
    <2>1. b[2] \in Keys /\ n \in DOMAIN branch /\ b[1] \in DOMAIN branch[n]
      BY <1>12 DEF Load
    <2>2. SchemasOK(branch')
      BY <1>12, <1>t, <2>1, WithRowOK DEF Load
    <2> QED
      BY <1>12, <2>2 DEF Load, BranchTypeOK, SchemasOK, CallOK
  <1> QED
    BY <1>1, <1>2, <1>3, <1>4, <1>5, <1>6, <1>7, <1>8, <1>9, <1>10, <1>11, <1>12 DEF BranchNext

LEMMA BranchTypeInit == BranchInit => BranchTypeOK
  <1> SUFFICES ASSUME BranchInit
               PROVE  BranchTypeOK
    OBVIOUS
  <1>1. Empty \in Contents
    BY DEF Empty, Contents
  <1>2. production \in Contents /\ swept \in Contents /\ late \in [Names -> Contents]
    BY <1>1, BranchAssumption DEF BranchInit, Contents
  <1>3. call \in [Callers -> Calls] /\ \A c \in Callers : CallOK(call[c])
    BY IdleOK, IdleTyped DEF BranchInit
  <1>4. SchemasOK(branch)
    BY DEF BranchInit, SchemasOK
  <1> QED
    BY <1>2, <1>3, <1>4, BranchAssumption DEF BranchInit, BranchTypeOK

LEMMA NoSyncTyped ==
  NoSync \in Syncs /\ NoSync.rows = {} /\ NoSync.todo = {} /\ NoSync.step = "idle" /\ NoSync.cursor = 0
  BY LandingAssumption DEF NoSync, Syncs

(* A step of the sync that leaves production's side alone.                  *)
LEMMA BranchTypeSame ==
  ASSUME BranchTypeOK, UNCHANGED <<production, branch, call, calls, late, swept>>, faults' \in 0 .. MaxFaults
  PROVE  BranchTypeOK'
  BY DEF BranchTypeOK, SchemasOK, CallOK

LEMMA LandingTypeStep ==
  ASSUME LandingTypeOK, [LandingNext]_vars
  PROVE  LandingTypeOK'
  <1> USE BranchAssumption, LandingAssumption
  <1>t. /\ BranchTypeOK /\ faults \in 0 .. MaxFaults
        /\ source \in 0 .. MaxSource /\ mark \in 0 .. source
        /\ stage \subseteq 1 .. source /\ jumped \subseteq Nat /\ rejected \subseteq 1 .. source
        /\ sync \in Syncs
        /\ sync.rows \subseteq 1 .. source /\ sync.todo \subseteq sync.rows
        /\ (sync.rows # {} => sync.cursor <= source)
        /\ (sync.step \in {"drop", "land", "transform", "save"} => sync.rows # {})
    BY DEF LandingTypeOK, BranchTypeOK
  <1>0. CASE UNCHANGED vars
    BY <1>0, <1>t, BranchTypeSame DEF vars, branchVars, syncVars, LandingTypeOK
  <1>1. CASE BranchNext /\ UNCHANGED syncVars
    BY <1>1, <1>t, BranchTypeStep DEF syncVars, LandingTypeOK
  <1>2. CASE Grow
    <2>1. /\ source' \in 0 .. MaxSource /\ source <= source' /\ mark' \in 0 .. source'
          /\ 1 .. source \subseteq 1 .. source'
      BY <1>2, <1>t DEF Grow
    <2>2. BranchTypeOK'
      BY <1>2, <1>t, BranchTypeSame DEF Grow, branchVars
    <2>3. sync.rows # {} => sync.cursor <= source'
      BY <2>1, <1>t DEF Syncs
    <2> QED
      BY <1>2, <1>t, <2>1, <2>2, <2>3 DEF Grow, LandingTypeOK
  <1>3. CASE Resume
    <2>1. sync' = [NoSync EXCEPT !.step = "poll", !.cursor = mark] /\ mark \in Nat
      BY <1>3, <1>t DEF Resume
    <2>2. sync' \in Syncs /\ sync'.rows = {} /\ sync'.todo = {} /\ sync'.step = "poll"
      BY <2>1, NoSyncTyped DEF Syncs
    <2> QED
      BY <1>3, <1>t, <2>2, BranchTypeSame DEF Resume, branchVars, LandingTypeOK
  <1>4. ASSUME NEW from \in Keys \union {0}, NEW failures \in 0 .. 2, Seed(from, failures)
        PROVE  LandingTypeOK'
    <2>1. sync' = [NoSync EXCEPT !.step = "poll", !.cursor = from] /\ from \in Nat
      BY <1>4 DEF Seed
    <2>2. sync' \in Syncs /\ sync'.rows = {} /\ sync'.todo = {} /\ sync'.step = "poll"
      BY <2>1, NoSyncTyped DEF Syncs
    <2>3. faults' \in 0 .. MaxFaults /\ jumped' \subseteq Nat
      BY <1>4, <1>t, <2>1 DEF Seed
    <2> QED
      BY <1>4, <1>t, <2>2, <2>3, BranchTypeSame DEF Seed, LandingTypeOK
  <1>5. CASE Poll
    <2> DEFINE last == IF sync.cursor + PageSize < source THEN sync.cursor + PageSize ELSE source
    <2>0. sync.step = "poll" /\ sync.cursor \in Nat /\ last \in Nat /\ last <= source
      BY <1>5, <1>t DEF Poll, Syncs
    <2>1. CASE last > sync.cursor
      <3>1. sync' = [sync EXCEPT !.rows = @ \union (sync.cursor + 1) .. last, !.cursor = last]
        BY <1>5, <2>1 DEF Poll
      <3>2. (sync.cursor + 1) .. last \subseteq 1 .. source /\ 1 .. source \subseteq 1 .. MaxSource
        BY <2>0, <1>t
      <3>3. /\ sync' \in Syncs /\ sync'.rows = sync.rows \union (sync.cursor + 1) .. last
            /\ sync'.todo = sync.todo /\ sync'.step = "poll" /\ sync'.cursor = last
        BY <3>1, <3>2, <2>0, <1>t DEF Syncs
      <3> HIDE DEF last
      <3> QED
        BY <1>5, <1>t, <2>0, <3>2, <3>3, BranchTypeSame DEF Poll, branchVars, LandingTypeOK
    <2>2. CASE ~(last > sync.cursor) /\ sync.rows = {}
      <3>1. sync' = NoSync
        BY <1>5, <2>2 DEF Poll
      <3> QED
        BY <1>5, <1>t, <3>1, NoSyncTyped, BranchTypeSame DEF Poll, branchVars, LandingTypeOK
    <2>3. CASE ~(last > sync.cursor) /\ sync.rows # {}
      <3>1. sync' = [sync EXCEPT !.step = "drop"]
        BY <1>5, <2>3 DEF Poll
      <3>2. /\ sync' \in Syncs /\ sync'.rows = sync.rows /\ sync'.todo = sync.todo
            /\ sync'.cursor = sync.cursor /\ sync'.step = "drop"
        BY <3>1, <1>t DEF Syncs
      <3> QED
        BY <1>5, <1>t, <2>3, <3>2, BranchTypeSame DEF Poll, branchVars, LandingTypeOK
    <2> QED
      BY <2>1, <2>2, <2>3
  <1>6. CASE DropStage
    <2>1. sync' = [sync EXCEPT !.step = "land", !.todo = sync.rows \ Incomplete]
      BY <1>6 DEF DropStage
    <2>2. /\ sync' \in Syncs /\ sync'.rows = sync.rows /\ sync'.todo = sync.rows \ Incomplete
          /\ sync'.cursor = sync.cursor /\ sync'.step = "land" /\ sync.step = "drop"
      BY <1>6, <2>1, <1>t DEF DropStage, Syncs
    <2> QED
      BY <1>6, <1>t, <2>2, BranchTypeSame DEF DropStage, branchVars, LandingTypeOK
  <1>7. CASE Land
    <2> DEFINE chunk == Lowest(sync.todo, ChunkSize)
               next == IF sync.todo = chunk THEN "transform" ELSE "land"
    <2>1. chunk \subseteq sync.todo
      BY DEF Lowest
    <2> HIDE DEF chunk
    <2>2. sync' = [sync EXCEPT !.todo = @ \ chunk, !.step = next] /\ sync.step = "land"
      BY <1>7 DEF Land, chunk
    <2>3. /\ sync' \in Syncs /\ sync'.rows = sync.rows /\ sync'.todo = sync.todo \ chunk
          /\ sync'.cursor = sync.cursor /\ sync'.step \in {"transform", "land"}
      BY <2>1, <2>2, <1>t DEF Syncs
    <2>4. stage' = stage \union chunk
      BY <1>7 DEF Land, chunk
    <2> QED
      BY <1>7, <1>t, <2>1, <2>2, <2>3, <2>4, BranchTypeSame DEF Land, branchVars, LandingTypeOK
  <1>8. CASE Transform
    <2> DEFINE gated == {k \in stage : \A p \in Parents(Target) : k \in production[p]}
               after == [production EXCEPT ![Target] = @ \union gated]
    <2>1. gated \subseteq stage /\ stage \subseteq Keys
      BY <1>t
    <2>2. production \in Contents
      BY <1>t DEF BranchTypeOK
    <2>3. after \in Contents
      BY <2>1, <2>2 DEF Contents
    <2>4. late' \in [Names -> Contents] /\ production' \in Contents
      BY <1>8, <1>t, <2>3, LaterTyped DEF Transform
    <2>5. BranchTypeOK'
      BY <1>8, <1>t, <2>4 DEF Transform, BranchTypeOK, SchemasOK, CallOK
    <2>6. sync' = [sync EXCEPT !.step = "save"] /\ sync.step = "transform"
      BY <1>8 DEF Transform
    <2>7. /\ sync' \in Syncs /\ sync'.rows = sync.rows /\ sync'.todo = sync.todo
          /\ sync'.cursor = sync.cursor /\ sync'.step = "save"
      BY <2>6, <1>t DEF Syncs
    <2>8. rejected' \subseteq 1 .. source
      BY <1>8, <1>t DEF Transform
    <2> QED
      BY <1>8, <1>t, <2>5, <2>6, <2>7, <2>8 DEF Transform, LandingTypeOK
  <1>9. CASE SaveMark
    <2>1. sync.cursor \in 0 .. source
      BY <1>9, <1>t DEF SaveMark, Syncs
    <2> QED
      BY <1>9, <1>t, <2>1, NoSyncTyped, BranchTypeSame DEF SaveMark, branchVars, LandingTypeOK
  <1>10. CASE SyncDies
    <2>1. faults' \in 0 .. MaxFaults
      BY <1>10, <1>t DEF SyncDies
    <2> QED
      BY <1>10, <1>t, <2>1, NoSyncTyped, BranchTypeSame DEF SyncDies, LandingTypeOK
  <1> QED
    BY <1>0, <1>1, <1>2, <1>3, <1>4, <1>5, <1>6, <1>7, <1>8, <1>9, <1>10
    DEF LandingNext, SyncNext

(* Every state of production, of the branches, of the calls in progress and *)
(* of the sync is well typed, and the watermark never passes the source.    *)
THEOREM TypeCorrect == LandingSpec => []LandingTypeOK
  <1>1. LandingInit => LandingTypeOK
    BY BranchTypeInit, NoSyncTyped, LandingAssumption DEF LandingInit, LandingTypeOK
  <1> QED
    BY <1>1, LandingTypeStep, PTL DEF LandingSpec

-----------------------------------------------------------------------------
(* No row is missed.                                                        *)

(* What a step of a branch or of a promotion may do to the tables.          *)
LEMMA BranchKeepsRows ==
  ASSUME BranchNext
  PROVE  \/ UNCHANGED <<production, swept>>
         \/ \E c \in Callers : Commit(c)
  <1>1. ASSUME NEW c \in Callers, NEW n \in Names,
               (\E picked \in SUBSET Tables : Create(c, n, picked)) \/ StartPromote(c, n) \/ Discard(c, n)
        PROVE  UNCHANGED <<production, swept>>
    BY <1>1 DEF Create, StartPromote, Discard
  <1>2. ASSUME NEW c \in Callers, NEW t \in Tables, CopyTable(c, t) \/ CopyFails(c, t)
        PROVE  UNCHANGED <<production, swept>>
    BY <1>2 DEF CopyTable, CopyFails
  <1>3. ASSUME NEW c \in Callers, NEW t \in Tables, Look(c, t) \/ Clear(c, t) \/ Fill(c, t)
        PROVE  UNCHANGED <<production, swept>>
    BY <1>3 DEF Look, Clear, Fill
  <1>4. ASSUME NEW c \in Callers, CreateSchema(c) \/ Abort(c)
        PROVE  UNCHANGED <<production, swept>>
    BY <1>4 DEF CreateSchema, Abort
  <1>5. ASSUME NEW n \in Names, NEW b \in Batch, Load(n, b[1], b[2])
        PROVE  UNCHANGED <<production, swept>>
    BY <1>5 DEF Load
  <1> HIDE DEF Commit
  <1> QED
    BY <1>1, <1>2, <1>3, <1>4, <1>5, Zenon DEF BranchNext

(* A row of production stays there unless a promotion takes it.             *)
LEMMA RowsKept ==
  ASSUME LandingTypeOK, [LandingNext]_vars, NEW t \in Tables
  PROVE  production[t] \subseteq production'[t] \union swept'[t] /\ swept[t] \subseteq swept'[t]
  <1>1. CASE UNCHANGED <<production, swept>>
    BY <1>1
  <1>2. ASSUME NEW c \in Callers, Commit(c)
        PROVE  production[t] \subseteq production'[t] \union swept'[t] /\ swept[t] \subseteq swept'[t]
    BY <1>2 DEF Commit
  <1>3. CASE Transform
    BY <1>3, LandingAssumption DEF Transform, LandingTypeOK, BranchTypeOK, Contents
  <1> QED
    BY <1>1, <1>2, <1>3, BranchKeepsRows
    DEF LandingNext, SyncNext, vars, branchVars, Grow, Resume, Seed, Poll, DropStage, Land, SaveMark, SyncDies

(* The rows that are accounted for.                                         *)
Covered == production[Target] \union swept[Target] \union Incomplete \union rejected \union jumped

LEMMA CoveredGrows ==
  ASSUME LandingTypeOK, [LandingNext]_vars
  PROVE  Covered \subseteq Covered'
  <1>1. rejected \subseteq rejected' /\ jumped \subseteq jumped'
    BY DEF LandingNext, SyncNext, vars, syncVars, Grow, Resume, Seed, Poll, DropStage, Land, Transform,
           SaveMark, SyncDies
  <1>2. production[Target] \union swept[Target] \subseteq production'[Target] \union swept'[Target]
    BY RowsKept, LandingAssumption
  <1> QED
    BY <1>1, <1>2 DEF Covered

(* What a sync has read, landed and transformed so far: every row up to its *)
(* cursor is accounted for or among those it read, and those it read are    *)
(* where its step says.                                                     *)
SyncKept ==
  /\ 1 .. mark \subseteq Covered
  /\ sync.step # "idle" => 1 .. sync.cursor \subseteq Covered \union sync.rows
  /\ sync.step = "land" => sync.rows \subseteq sync.todo \union stage \union Incomplete
  /\ sync.step = "transform" => sync.rows \subseteq stage \union Incomplete
  /\ sync.step = "save" => sync.rows \subseteq Covered
  /\ sync.step \in {"drop", "land", "transform", "save"} => mark <= sync.cursor

LEMMA SyncKeptStep ==
  ASSUME LandingTypeOK, SyncKept, [LandingNext]_vars
  PROVE  SyncKept'
  <1> USE LandingAssumption
  <1>t. /\ source \in Nat /\ mark \in Nat /\ mark <= source /\ sync \in Syncs /\ sync.cursor \in Nat
        /\ sync.todo \subseteq sync.rows
    BY DEF LandingTypeOK, Syncs
  <1>g. Covered \subseteq Covered'
    BY CoveredGrows
  <1>0. CASE UNCHANGED <<mark, sync, stage>>
    BY <1>0, <1>g DEF SyncKept
  <1>1. CASE Resume
    <2>1. sync' = [NoSync EXCEPT !.step = "poll", !.cursor = mark] /\ mark' = mark
      BY <1>1 DEF Resume
    <2>2. sync'.step = "poll" /\ sync'.cursor = mark
      BY <2>1 DEF NoSync
    <2> QED
      BY <2>1, <2>2, <1>g DEF SyncKept
  <1>2. ASSUME NEW from \in Keys \union {0}, NEW failures \in 0 .. 2, Seed(from, failures)
        PROVE  SyncKept'
    <2>1. sync' = [NoSync EXCEPT !.step = "poll", !.cursor = from] /\ mark' = mark
      BY <1>2 DEF Seed
    <2>2. sync'.step = "poll" /\ sync'.cursor = from
      BY <2>1 DEF NoSync
    <2>3. from \in Nat /\ (mark + 1) .. from \subseteq Covered'
      BY <1>2, BranchAssumption DEF Seed, Covered
    <2>4. 1 .. from \subseteq 1 .. mark \union (mark + 1) .. from
      BY <2>3, <1>t
    <2> QED
      BY <2>1, <2>2, <2>3, <2>4, <1>g DEF SyncKept
  <1>3. CASE Poll
    <2> DEFINE last == IF sync.cursor + PageSize < source THEN sync.cursor + PageSize ELSE source
    <2>0. sync.step = "poll" /\ last \in Nat /\ mark' = mark
      BY <1>3, <1>t DEF Poll
    <2>1. CASE last > sync.cursor
      <3>1. sync' = [sync EXCEPT !.rows = @ \union (sync.cursor + 1) .. last, !.cursor = last]
        BY <1>3, <2>1 DEF Poll
      <3>2. /\ sync'.rows = sync.rows \union (sync.cursor + 1) .. last
            /\ sync'.cursor = last /\ sync'.step = "poll"
        BY <3>1, <2>0, <1>t DEF Syncs
      <3>3. 1 .. last \subseteq 1 .. sync.cursor \union (sync.cursor + 1) .. last
        BY <2>0, <1>t
      <3> HIDE DEF last
      <3> QED
        BY <2>0, <3>2, <3>3, <1>g DEF SyncKept
    <2>2. CASE ~(last > sync.cursor)
      <3>1. source <= sync.cursor
        BY <2>2, <1>t
      <3>2. sync' = NoSync \/ sync' = [sync EXCEPT !.step = "drop"]
        BY <1>3, <2>2 DEF Poll
      <3>3. \/ sync'.step = "idle"
            \/ sync'.step = "drop" /\ sync'.rows = sync.rows /\ sync'.cursor = sync.cursor
        BY <3>2, <1>t DEF NoSync, Syncs
      <3>4. mark <= sync.cursor
        BY <3>1, <1>t
      <3> HIDE DEF last
      <3> QED
        BY <2>0, <3>3, <3>4, <1>g DEF SyncKept
    <2> QED
      BY <2>1, <2>2
  <1>4. CASE DropStage
    <2>1. sync' = [sync EXCEPT !.step = "land", !.todo = sync.rows \ Incomplete]
          /\ mark' = mark /\ sync.step = "drop"
      BY <1>4 DEF DropStage
    <2>2. /\ sync'.rows = sync.rows /\ sync'.todo = sync.rows \ Incomplete
          /\ sync'.cursor = sync.cursor /\ sync'.step = "land"
      BY <2>1, <1>t DEF Syncs
    <2> QED
      BY <2>1, <2>2, <1>g DEF SyncKept
  <1>5. CASE Land
    <2> DEFINE chunk == Lowest(sync.todo, ChunkSize)
               next == IF sync.todo = chunk THEN "transform" ELSE "land"
    <2> HIDE DEF chunk
    <2>1. sync' = [sync EXCEPT !.todo = @ \ chunk, !.step = next] /\ sync.step = "land"
          /\ mark' = mark /\ stage' = stage \union chunk
      BY <1>5 DEF Land, chunk
    <2>2. /\ sync'.rows = sync.rows /\ sync'.todo = sync.todo \ chunk
          /\ sync'.cursor = sync.cursor /\ sync'.step = next
      BY <2>1, <1>t DEF Syncs
    <2> QED
      BY <2>1, <2>2, <1>g DEF SyncKept
  <1>6. CASE Transform
    <2> DEFINE gated == {k \in stage : \A p \in Parents(Target) : k \in production[p]}
    <2>1. sync' = [sync EXCEPT !.step = "save"] /\ sync.step = "transform" /\ mark' = mark
          /\ production' = [production EXCEPT ![Target] = @ \union gated]
          /\ rejected' = rejected \union (stage \ gated)
      BY <1>6 DEF Transform
    <2>2. gated \subseteq production'[Target]
      BY <2>1 DEF LandingTypeOK, BranchTypeOK, Contents
    <2>3. stage \union Incomplete \subseteq Covered'
      BY <2>1, <2>2 DEF Covered
    <2>4. sync'.rows = sync.rows /\ sync'.cursor = sync.cursor /\ sync'.step = "save"
      BY <2>1, <1>t DEF Syncs
    <2> HIDE DEF gated
    <2> QED
      BY <2>1, <2>3, <2>4, <1>g DEF SyncKept
  <1>7. CASE SaveMark
    <2>1. sync.step = "save" /\ mark' = sync.cursor /\ sync'.step = "idle"
      BY <1>7 DEF SaveMark, NoSync
    <2> QED
      BY <2>1, <1>g DEF SyncKept
  <1>8. CASE SyncDies
    <2>1. mark' = mark /\ sync'.step = "idle"
      BY <1>8 DEF SyncDies, NoSync
    <2> QED
      BY <2>1, <1>g DEF SyncKept
  <1> QED
    BY <1>0, <1>1, <1>2, <1>3, <1>4, <1>5, <1>6, <1>7, <1>8
    DEF LandingNext, SyncNext, vars, syncVars, Grow

LEMMA SyncKeptInvariant == LandingSpec => []SyncKept
  <1>1. LandingInit => SyncKept
    <2> SUFFICES ASSUME LandingInit
                 PROVE  SyncKept
      OBVIOUS
    <2>1. mark = 0 /\ sync.step = "idle" /\ 1 .. 0 = {}
      BY DEF LandingInit, NoSync
    <2> QED
      BY <2>1 DEF SyncKept
  <1> QED
    BY <1>1, TypeCorrect, SyncKeptStep, PTL DEF LandingSpec

(* Wherever a sync died and whatever was promoted meanwhile, a source row   *)
(* at or below the watermark is in production or accounted for.             *)
THEOREM NoRowMissed == LandingSpec => []NothingMissed
  <1>1. SyncKept => NothingMissed
    BY DEF SyncKept, NothingMissed, Covered
  <1> QED
    BY <1>1, SyncKeptInvariant, PTL

(* The watermark never goes back, whatever a run started from.              *)
THEOREM WatermarkAdvances == LandingSpec => MarkOnlyAdvances
  <1>1. LandingTypeOK /\ SyncKept /\ [LandingNext]_vars => [mark' >= mark]_vars
    <2> SUFFICES ASSUME LandingTypeOK, SyncKept, LandingNext
                 PROVE  mark' >= mark
      OBVIOUS
    <2>1. mark \in Nat
      BY LandingAssumption DEF LandingTypeOK
    <2>2. CASE SaveMark
      BY <2>2 DEF SaveMark, SyncKept
    <2>3. CASE UNCHANGED mark
      BY <2>1, <2>3
    <2> QED
      BY <2>2, <2>3
      DEF LandingNext, SyncNext, syncVars, Grow, Resume, Seed, Poll, DropStage, Land, Transform, SyncDies
  <1> QED
    BY <1>1, TypeCorrect, SyncKeptInvariant, PTL DEF LandingSpec, MarkOnlyAdvances

-----------------------------------------------------------------------------
(* What promotions put into production, and what they take from it.         *)

(* Rows leave production in one step, in which all tables of a promotion    *)
(* come to hold what its branch held, and nothing of what it found there.   *)
THEOREM PromotionsAreAtomic == LandingSpec => PromotedAtOnce
  <1> DEFINE Shrinks == \E t \in Tables : ~(production[t] \subseteq production'[t])
             Swaps(c) == /\ call[c].step = "commit" /\ call'[c].step = "idle"
                         /\ \A t \in call[c].tables :
                              /\ call[c].ins[t] \subseteq production'[t]
                              /\ call[c].clr[t] \intersect production'[t] \subseteq call[c].ins[t]
  <1>1. ASSUME LandingTypeOK, [LandingNext]_vars, Shrinks
        PROVE  \E c \in Callers : Swaps(c)
    <2>1. ~UNCHANGED <<production, swept>>
      BY <1>1
    <2>2. ~Transform
      BY <1>1, LandingAssumption DEF Transform, LandingTypeOK, BranchTypeOK, Contents
    <2>3. BranchNext
      BY <1>1, <2>1, <2>2
      DEF LandingNext, SyncNext, vars, branchVars, Grow, Resume, Seed, Poll, DropStage, Land, SaveMark, SyncDies
    <2>4. PICK c \in Callers : Commit(c)
      BY <2>1, <2>3, BranchKeepsRows
    <2>5. call[c].step = "commit" /\ call'[c].step = "idle"
      BY <2>4, IdleTyped DEF Commit
    <2>6. \A t \in call[c].tables : production'[t] = Sees(c, t)
      BY <2>4, <1>1 DEF Commit, Promoted, LandingTypeOK, BranchTypeOK, CallOK, Calls
    <2> QED
      BY <2>5, <2>6 DEF Sees
  <1>2. LandingTypeOK /\ [LandingNext]_vars => [Shrinks => \E c \in Callers : Swaps(c)]_branchVars
    BY <1>1
  <1> QED
    BY <1>2, TypeCorrect, PTL DEF LandingSpec, PromotedAtOnce

(* A table that a promotion has replaced: its branch still has the table,   *)
(* and what the promotion deletes for good of production is a latecomer.    *)
KeepsUp(w, t) ==
  /\ w.name \in DOMAIN branch /\ t \in DOMAIN branch[w.name]
  /\ (production[t] \intersect w.clr[t]) \ w.ins[t] \subseteq late[w.name][t]

AllKeepUp(w) ==
  w.step \in {"delete", "clear", "insert", "commit"} => \A t \in w.tables \ w.todo : KeepsUp(w, t)

(* A copy holds what production holds, but for the latecomers.              *)
CopiesKeepUp ==
  \A n \in DOMAIN branch : \A t \in DOMAIN branch[n] : production[t] \subseteq branch[n][t] \union late[n][t]

BranchKept == CopiesKeepUp /\ \A c \in Callers : AllKeepUp(call[c])

(* A step of one call that changes neither tables nor schemas.              *)
LEMMA KeptByCall ==
  ASSUME BranchKept, BranchTypeOK, NEW c \in Callers, NEW w, AllKeepUp(w),
         call' = [call EXCEPT ![c] = w], UNCHANGED <<production, branch, late>>
  PROVE  BranchKept'
  <1>1. \A d \in Callers : call'[d] = IF d = c THEN w ELSE call[d]
    BY DEF BranchTypeOK
  <1>2. ASSUME NEW d \in Callers
        PROVE  AllKeepUp(call[d])'
    BY <1>1 DEF BranchKept, AllKeepUp, KeepsUp
  <1>3. CopiesKeepUp'
    BY DEF BranchKept, CopiesKeepUp
  <1> QED
    BY <1>2, <1>3 DEF BranchKept

(* A schema is dropped: no promotion has read a table of it.                *)
LEMMA KeptByDrop ==
  ASSUME BranchKept, BranchTypeOK, NEW n \in Names, Unread(n), branch' = Without(n),
         UNCHANGED <<production, late>>,
         \A c \in Callers : call'[c] = call[c] \/ call'[c].step = "schema"
  PROVE  BranchKept'
  <1>1. ASSUME NEW c \in Callers
        PROVE  AllKeepUp(call[c])'
    <2> SUFFICES ASSUME call'[c] = call[c],
                        call[c].step \in {"delete", "clear", "insert", "commit"},
                        NEW t \in call[c].tables \ call[c].todo
                 PROVE  KeepsUp(call[c], t)'
      BY DEF AllKeepUp
    <2>1. KeepsUp(call[c], t)
      BY DEF BranchKept, AllKeepUp
    <2>2. call[c].name # n
      BY DEF Unread
    <2> QED
      BY <2>1, <2>2 DEF KeepsUp, Without
  <1>2. CopiesKeepUp'
    BY DEF BranchKept, CopiesKeepUp, Without
  <1> QED
    BY <1>1, <1>2 DEF BranchKept

(* Rows come to production, or leave it: those that come are latecomers.    *)
LEMMA KeptByRows ==
  ASSUME BranchKept, BranchTypeOK, production' \in Contents, late' = Later(production'),
         UNCHANGED branch,
         \A d \in Callers : \/ call'[d].step = "idle"
                            \/ /\ call'[d].step = call[d].step /\ call'[d].name = call[d].name
                               /\ call'[d].tables = call[d].tables /\ call'[d].todo = call[d].todo
                               /\ call'[d].clr = call[d].clr /\ call'[d].ins = call[d].ins
  PROVE  BranchKept'
  <1>1. \A n \in Names, t \in Tables : late'[n][t] = late[n][t] \union (production'[t] \ production[t])
    BY DEF Later
  <1>2. ASSUME NEW d \in Callers
        PROVE  AllKeepUp(call[d])'
    <2> SUFFICES ASSUME call'[d].step \in {"delete", "clear", "insert", "commit"},
                        NEW t \in call'[d].tables \ call'[d].todo
                 PROVE  KeepsUp(call[d], t)'
      BY DEF AllKeepUp
    <2>1. /\ call'[d].name = call[d].name /\ call'[d].clr = call[d].clr /\ call'[d].ins = call[d].ins
          /\ KeepsUp(call[d], t)
      BY DEF BranchKept, AllKeepUp
    <2>2. call[d].name \in Names /\ t \in Tables
      BY DEF BranchTypeOK, CallOK, Calls
    <2> QED
      BY <1>1, <2>1, <2>2 DEF KeepsUp
  <1>3. CopiesKeepUp'
    BY <1>1 DEF BranchKept, CopiesKeepUp, BranchTypeOK, SchemasOK
  <1> QED
    BY <1>2, <1>3 DEF BranchKept

LEMMA BranchKeptStep ==
  ASSUME LandingTypeOK, BranchKept, [LandingNext]_vars
  PROVE  BranchKept'
  <1>t. /\ BranchTypeOK /\ production \in Contents /\ SchemasOK(branch) /\ late \in [Names -> Contents]
        /\ call \in [Callers -> Calls] /\ \A c \in Callers : CallOK(call[c])
    BY DEF LandingTypeOK, BranchTypeOK
  <1>i. AllKeepUp(Idle) /\ AllKeepUp([Idle EXCEPT !.step = "refused"])
    BY DEF Idle, AllKeepUp
  <1>0. CASE UNCHANGED <<production, branch, late, call>>
    BY <1>0 DEF BranchKept, CopiesKeepUp, AllKeepUp, KeepsUp
  <1>1. ASSUME NEW c \in Callers, NEW n \in Names, NEW picked \in SUBSET Tables, Create(c, n, picked)
        PROVE  BranchKept'
    <2>1. call'[c].step = "schema" /\ \A d \in Callers : d # c => call'[d] = call[d]
      BY <1>1, <1>t, IdleTyped DEF Create, Calls
    <2> QED
      BY <1>1, <1>t, <2>1, KeptByDrop DEF Create
  <1>2. ASSUME NEW c \in Callers, NEW n \in Names, StartPromote(c, n)
        PROVE  BranchKept'
    <2> DEFINE w == [Idle EXCEPT !.step = "delete", !.name = n, !.tables = DOMAIN branch[n], !.todo = DOMAIN branch[n]]
    <2>1. w.tables \ w.todo = {}
      BY IdleTyped DEF Calls
    <2>2. AllKeepUp(w)
      BY <2>1 DEF AllKeepUp
    <2> HIDE DEF w
    <2>3. call' = [call EXCEPT ![c] = w]
      BY <1>2 DEF StartPromote, w
    <2> QED
      BY <1>2, <1>t, <2>2, <2>3, KeptByCall DEF StartPromote
  <1>3. ASSUME NEW c \in Callers, NEW n \in Names, Discard(c, n)
        PROVE  BranchKept'
    BY <1>3, <1>t, KeptByDrop DEF Discard
  <1>4. ASSUME NEW c \in Callers, CreateSchema(c)
        PROVE  BranchKept'
    <2>1. CASE call[c].name \in DOMAIN branch
      BY <1>4, <1>t, <1>i, <2>1, KeptByCall DEF CreateSchema, Return
    <2>2. CASE call[c].name \notin DOMAIN branch
      <3>1. branch' = With(branch, call[c].name, [t \in {} |-> {}]) /\ UNCHANGED <<production, late>>
        BY <1>4, <2>2 DEF CreateSchema
      <3>2. \A n \in DOMAIN branch : n \in DOMAIN branch' /\ branch'[n] = branch[n]
        BY <3>1, <2>2 DEF With
      <3>3. \A n \in DOMAIN branch' : n \in DOMAIN branch \/ DOMAIN branch'[n] = {}
        BY <3>1 DEF With
      <3>4. CopiesKeepUp'
        BY <3>1, <3>2, <3>3 DEF BranchKept, CopiesKeepUp
      <3>5. \A d \in Callers : call'[d] = call[d] \/ call'[d].step = "copy"
        BY <1>4, <1>t, <2>2 DEF CreateSchema, Calls
      <3>6. ASSUME NEW d \in Callers
            PROVE  AllKeepUp(call[d])'
        BY <3>1, <3>2, <3>5 DEF BranchKept, AllKeepUp, KeepsUp
      <3> QED
        BY <3>4, <3>6 DEF BranchKept
    <2> QED
      BY <2>1, <2>2
  <1>5. ASSUME NEW c \in Callers, NEW t \in Tables, CopyTable(c, t)
        PROVE  BranchKept'
    <2> DEFINE n == call[c].name
    <2>1. /\ n \in DOMAIN branch /\ t \notin DOMAIN branch[n] /\ production' = production
          /\ branch' = [branch EXCEPT ![n] = With(branch[n], t, production[t])]
          /\ late' = [late EXCEPT ![n][t] = {}]
      BY <1>5 DEF CopyTable
    <2>2. n \in Names
      BY <1>5, <1>t DEF Calls
    <2>3. /\ DOMAIN branch' = DOMAIN branch /\ DOMAIN branch'[n] = DOMAIN branch[n] \union {t}
          /\ branch'[n][t] = production[t] /\ \A u \in DOMAIN branch[n] : branch'[n][u] = branch[n][u]
          /\ \A m \in DOMAIN branch \ {n} : branch'[m] = branch[m]
      BY <2>1 DEF With
    <2>4. /\ \A u \in Tables \ {t} : late'[n][u] = late[n][u]
          /\ \A m \in Names \ {n} : late'[m] = late[m]
      BY <2>1, <2>2, <1>t DEF Contents
    <2>5. DOMAIN branch \subseteq Names /\ \A m \in DOMAIN branch : DOMAIN branch[m] \subseteq Tables
      BY <1>t DEF SchemasOK
    <2>6. \A d \in Callers : call'[d] = call[d] \/ call'[d].step \in {"idle", "copy"}
      <3>1. ASSUME NEW d \in Callers
            PROVE  call'[d] \in {call[d], Idle, [call[d] EXCEPT !.todo = @ \ {t}]} /\ (d # c => call'[d] = call[d])
        BY <1>5, <1>t DEF CopyTable
      <3>2. [call[c] EXCEPT !.todo = @ \ {t}].step = "copy"
        BY <1>5, <1>t DEF CopyTable, Calls
      <3> QED
        BY <3>1, <3>2, IdleTyped
    <2> HIDE DEF n
    <2>7. CopiesKeepUp'
      <3> SUFFICES ASSUME NEW m \in DOMAIN branch', NEW u \in DOMAIN branch'[m]
                   PROVE  production'[u] \subseteq branch'[m][u] \union late'[m][u]
        BY DEF CopiesKeepUp
      <3>1. CASE m = n /\ u = t
        BY <3>1, <2>1, <2>3
      <3>2. CASE m = n /\ u # t
        BY <3>2, <2>1, <2>3, <2>4, <2>5 DEF BranchKept, CopiesKeepUp
      <3>3. CASE m # n
        BY <3>3, <2>1, <2>3, <2>4, <2>5 DEF BranchKept, CopiesKeepUp
      <3> QED
        BY <3>1, <3>2, <3>3
    <2>8. ASSUME NEW d \in Callers
          PROVE  AllKeepUp(call[d])'
      <3> SUFFICES ASSUME call'[d] = call[d],
                          call[d].step \in {"delete", "clear", "insert", "commit"},
                          NEW u \in call[d].tables \ call[d].todo
                   PROVE  KeepsUp(call[d], u)'
        BY <2>6 DEF AllKeepUp
      <3>1. KeepsUp(call[d], u)
        BY DEF BranchKept, AllKeepUp
      <3>2. CASE call[d].name = n
        BY <3>1, <3>2, <2>1, <2>3, <2>4, <2>5 DEF KeepsUp
      <3>3. CASE call[d].name # n
        BY <3>1, <3>3, <2>1, <2>3, <2>4, <2>5 DEF KeepsUp
      <3> QED
        BY <3>2, <3>3
    <2> QED
      BY <2>7, <2>8 DEF BranchKept
  <1>6. ASSUME NEW c \in Callers, NEW t \in Tables, CopyFails(c, t)
        PROVE  BranchKept'
    BY <1>6, <1>t, <1>i, KeptByCall DEF CopyFails, Return
  <1>7. ASSUME NEW c \in Callers, NEW t \in Tables, Look(c, t)
        PROVE  BranchKept'
    <2> DEFINE w == [call[c] EXCEPT !.step = "clear", !.seen = production[t]]
    <2>1. /\ w.name = call[c].name /\ w.clr = call[c].clr /\ w.ins = call[c].ins
          /\ w.tables = call[c].tables /\ w.todo = call[c].todo /\ call[c].step = "delete"
      BY <1>7, <1>t DEF Look, Calls
    <2>2. call' = [call EXCEPT ![c] = w]
      BY <1>7 DEF Look
    <2> HIDE DEF w
    <2>3. AllKeepUp(w)
      BY <2>1 DEF BranchKept, AllKeepUp, KeepsUp
    <2> QED
      BY <1>7, <1>t, <2>2, <2>3, KeptByCall DEF Look
  <1>8. ASSUME NEW c \in Callers, NEW t \in Tables, Clear(c, t)
        PROVE  BranchKept'
    <2> DEFINE w == [call[c] EXCEPT !.step = "insert", !.seen = {}, !.clr[t] = call[c].seen]
    <2>1. /\ w.name = call[c].name /\ w.ins = call[c].ins /\ \A u \in Tables \ {t} : w.clr[u] = call[c].clr[u]
          /\ w.tables = call[c].tables /\ w.todo = call[c].todo /\ call[c].step = "clear"
          /\ t \in call[c].todo /\ call[c].tables \subseteq Tables
      BY <1>8, <1>t DEF Clear, Calls, Contents, IsNext
    <2>2. \/ call' = [call EXCEPT ![c] = w]
          \/ call' = [call EXCEPT ![c] = [Idle EXCEPT !.step = "refused"]]
      BY <1>8, <1>t DEF Clear, Refuse
    <2> HIDE DEF w
    <2>3. AllKeepUp(w)
      BY <2>1 DEF BranchKept, AllKeepUp, KeepsUp
    <2> QED
      BY <1>8, <1>t, <1>i, <2>2, <2>3, KeptByCall DEF Clear
  <1>9. ASSUME NEW c \in Callers, NEW t \in Tables, Fill(c, t)
        PROVE  BranchKept'
    <2> DEFINE rows == branch[call[c].name][t]
               next == IF call[c].todo = {t} THEN "commit" ELSE "delete"
               w == [call[c] EXCEPT !.ins[t] = rows, !.todo = @ \ {t}, !.step = next]
    <2>1. CASE call' = [call EXCEPT ![c] = [Idle EXCEPT !.step = "refused"]]
      BY <1>9, <1>t, <1>i, <2>1, KeptByCall DEF Fill
    <2>2. CASE /\ call[c].name \in DOMAIN branch /\ t \in DOMAIN branch[call[c].name]
               /\ call' = [call EXCEPT ![c] = w]
      <3>1. /\ w.name = call[c].name /\ w.clr = call[c].clr /\ w.ins[t] = rows
            /\ \A u \in Tables \ {t} : w.ins[u] = call[c].ins[u]
            /\ w.tables = call[c].tables /\ w.todo = call[c].todo \ {t} /\ call[c].step = "insert"
            /\ call[c].tables \subseteq Tables
        BY <1>9, <1>t DEF Fill, Calls, Contents
      <3>2. production[t] \subseteq rows \union late[call[c].name][t]
        BY <2>2 DEF BranchKept, CopiesKeepUp
      <3> HIDE DEF w, rows
      <3>3. ASSUME NEW u \in w.tables \ w.todo
            PROVE  KeepsUp(w, u)
        <4>1. CASE u = t
          BY <3>1, <3>2, <4>1, <2>2 DEF KeepsUp
        <4>2. CASE u # t
          BY <3>1, <4>2 DEF BranchKept, AllKeepUp, KeepsUp
        <4> QED
          BY <4>1, <4>2
      <3>4. AllKeepUp(w)
        BY <3>3 DEF AllKeepUp
      <3> QED
        BY <1>9, <1>t, <2>2, <3>4, KeptByCall DEF Fill
    <2> QED
      BY <1>9, <1>t, <2>1, <2>2 DEF Fill, Refuse
  <1>10. ASSUME NEW c \in Callers, Commit(c)
         PROVE  BranchKept'
    <2>1. production' \in Contents /\ late' = Later(production') /\ branch' = branch
      BY <1>10, <1>t, SeesTyped DEF Commit
    <2>2. ASSUME NEW d \in Callers
          PROVE  \/ call'[d].step = "idle"
                 \/ /\ call'[d].step = call[d].step /\ call'[d].name = call[d].name
                    /\ call'[d].tables = call[d].tables /\ call'[d].todo = call[d].todo
                    /\ call'[d].clr = call[d].clr /\ call'[d].ins = call[d].ins
      <3> DEFINE w == [call[d] EXCEPT !.seen = @ \ Gone(c, d)]
      <3>1. /\ w.step = call[d].step /\ w.name = call[d].name
            /\ w.tables = call[d].tables /\ w.todo = call[d].todo
            /\ w.clr = call[d].clr /\ w.ins = call[d].ins
        BY <1>t DEF Calls
      <3>2. call'[d] \in {Idle, w, call[d]}
        BY <1>10 DEF Commit
      <3> HIDE DEF w
      <3> QED
        BY <3>1, <3>2, IdleTyped
    <2> QED
      BY <1>t, <2>1, <2>2, KeptByRows
  <1>11. ASSUME NEW c \in Callers, Abort(c)
         PROVE  BranchKept'
    BY <1>11, <1>t, <1>i, KeptByCall DEF Abort, Return
  <1>12. ASSUME NEW n \in Names, NEW b \in Batch, Load(n, b[1], b[2])
         PROVE  BranchKept'
    <2>1. /\ n \in DOMAIN branch /\ branch' = [branch EXCEPT ![n][b[1]] = @ \union {b[2]}]
          /\ UNCHANGED <<production, call, late>>
      BY <1>12 DEF Load
    <2>2. /\ DOMAIN branch' = DOMAIN branch
          /\ \A m \in DOMAIN branch : /\ DOMAIN branch'[m] = DOMAIN branch[m]
                                      /\ \A t \in DOMAIN branch[m] : branch[m][t] \subseteq branch'[m][t]
      BY <2>1
    <2>3. CopiesKeepUp'
      BY <2>1, <2>2 DEF BranchKept, CopiesKeepUp
    <2>4. ASSUME NEW d \in Callers
          PROVE  AllKeepUp(call[d])'
      BY <2>1, <2>2 DEF BranchKept, AllKeepUp, KeepsUp
    <2> QED
      BY <2>3, <2>4 DEF BranchKept
  <1>13. CASE Transform
    <2> DEFINE gated == {k \in stage : \A p \in Parents(Target) : k \in production[p]}
               after == [production EXCEPT ![Target] = @ \union gated]
    <2>0. source \in 0 .. MaxSource /\ stage \subseteq 1 .. source
      BY DEF LandingTypeOK
    <2>1. gated \subseteq Keys
      <3>1. 1 .. source \subseteq 1 .. MaxSource
        BY <2>0, LandingAssumption
      <3> QED
        BY <2>0, <3>1, LandingAssumption
    <2>2. after \in Contents
      BY <2>1, <1>t DEF Contents
    <2>3. production' \in Contents /\ late' = Later(production') /\ UNCHANGED <<branch, call>>
      BY <1>13, <2>2 DEF Transform
    <2> QED
      BY <1>t, <2>3, KeptByRows
  <1> QED
    <2>1. CASE BranchNext
      BY <2>1, <1>1, <1>2, <1>3, <1>4, <1>5, <1>6, <1>7, <1>8, <1>9, <1>10, <1>11, <1>12 DEF BranchNext
    <2>2. CASE ~BranchNext /\ ~Transform
      <3>1. UNCHANGED <<production, branch, late, call>>
        BY <2>2
        DEF LandingNext, SyncNext, vars, branchVars, Grow, Resume, Seed, Poll, DropStage, Land, SaveMark, SyncDies
      <3> QED
        BY <3>1, <1>0
    <2> QED
      BY <1>13, <2>1, <2>2

LEMMA BranchKeptInvariant == LandingSpec => []BranchKept
  <1>1. LandingInit => BranchKept
    <2> SUFFICES ASSUME LandingInit
                 PROVE  BranchKept
      OBVIOUS
    <2>1. DOMAIN branch = {} /\ \A c \in Callers : call[c].step = "idle"
      BY IdleTyped DEF LandingInit, BranchInit
    <2> QED
      BY <2>1 DEF BranchKept, CopiesKeepUp, AllKeepUp
  <1> QED
    BY <1>1, TypeCorrect, BranchKeptStep, PTL DEF LandingSpec

(* A promotion takes from production only what came there after its branch  *)
(* was last created.                                                        *)
THEOREM PromotionsTakeLatecomers == LandingSpec => SweptCameLater
  <1> DEFINE Done(c) == call[c].step = "commit" /\ call'[c].step = "idle" /\ faults' = faults
             Takes(c) == \A t \in call[c].tables : production[t] \ production'[t] \subseteq late[call[c].name][t]
  <1>1. ASSUME LandingTypeOK, BranchKept, LandingNext, NEW c \in Callers, Done(c)
        PROVE  Takes(c)
    <2>1. CASE UNCHANGED production
      BY <2>1
    <2>2. CASE Transform
      BY <2>2 DEF Transform
    <2>3. CASE Commit(c)
      <3>1. call[c].tables \subseteq Tables /\ call[c].todo = {}
        BY <1>1 DEF LandingTypeOK, BranchTypeOK, CallOK, Calls
      <3>2. \A t \in call[c].tables : KeepsUp(call[c], t)
        BY <1>1, <3>1 DEF BranchKept, AllKeepUp
      <3>3. \A t \in call[c].tables : production'[t] = Sees(c, t)
        BY <2>3, <3>1 DEF Commit, Promoted
      <3> QED
        BY <3>2, <3>3 DEF KeepsUp, Sees
    <2>4. ASSUME NEW d \in Callers \ {c}, Commit(d)
          PROVE  FALSE
      <3>1. call'[c].step = call[c].step
        BY <2>4, <1>1 DEF Commit
      <3> QED
        BY <1>1, <3>1
    <2> QED
      BY <1>1, <2>1, <2>2, <2>3, <2>4, BranchKeepsRows
      DEF LandingNext, SyncNext, Grow, Resume, Seed, Poll, DropStage, Land, SaveMark, SyncDies, branchVars
  <1>2. LandingTypeOK /\ BranchKept /\ [LandingNext]_vars
        => [\A c \in Callers : Done(c) => Takes(c)]_branchVars
    BY <1>1 DEF vars
  <1> QED
    BY <1>2, TypeCorrect, BranchKeptInvariant, PTL DEF LandingSpec, SweptCameLater
=============================================================================
