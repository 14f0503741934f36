--------------------------- MODULE DatabasesProofs ---------------------------
(***************************************************************************)
(* Proofs about Databases, for any databases, configs, saved files, number *)
(* of handlers and bounds: the gate of raw SQL and the default, the types  *)
(* and the order, the edits of models, and what is saved.                  *)
(*                                                                         *)
(* The first two rest on one fact: a handler whose engine is not closed    *)
(* holds the engine the registry has open, opened from the definition in   *)
(* force.                                                                  *)
(***************************************************************************)
EXTENDS Databases, FiniteSetTheorems, TLAPS

(* The fields of a frame, and where a handler holds an engine.              *)
Fields   == DOMAIN Idle
Resolved == {"ground", "check", "exec"}

Framed ==
  /\ DOMAIN pc = Clients /\ \A c \in Clients : DOMAIN pc[c] = Fields
  /\ DOMAIN open = Ids /\ DOMAIN defs = Ids
  /\ registered \subseteq Ids

(* An open engine was opened from the definition in force.                  *)
Current == \A id \in Ids : open[id] # NoEngine => open[id].def = defs[id]

(* A change is of a database; a request names the one it asked for, and what *)
(* it resolved is still open and current unless it is closed.               *)
HeldBy(p) ==
  /\ p.at \in {"write", "add", "remove", "drop", "mark"} => p.db \in Ids
  /\ p.at \in {"get", "ground"} /\ p.call # "sql" => p.db \in Ids
  /\ p.at \in Resolved \cup {"get"} => p.asked \in {Nobody, p.db}
  /\ p.at \in Resolved /\ ~p.closed =>
       /\ p.db \in Ids
       /\ p.eng # NoEngine /\ open[p.db] = p.eng /\ p.eng.def = defs[p.db]
  /\ p.at = "exec" /\ ~p.closed /\ ~p.moved =>
       /\ p.eng.def.model = NoModel \/ p.eng.def.raw
       /\ p.asked = Nobody => p.db = primary

Held == \A c \in Clients : HeldBy(pc[c])

(* Unqualified callers were answered by the default, if by any.             *)
Answered == fallback \subseteq {primary} /\ (primary = Nobody => fallback = {})

IInv == Framed /\ Current /\ Held /\ RawSQLGate /\ Answered

-----------------------------------------------------------------------------
(* The initial state.                                                       *)
LEMMA InitIInv == Init => IInv
  BY IdsAssumption DEF Init, IInv, Framed, Current, Held, HeldBy, RawSQLGate, Answered, Idle, Fields, Resolved

(* A handler that begins holds nothing yet.                                 *)
LEMMA BeginHolds ==
  ASSUME IInv, NEW c \in Clients, NEW p, Begin(c, p),
         DOMAIN p = Fields, p.at \notin Resolved, HeldBy(p)
  PROVE  IInv'
<1> DOMAIN pc' = Clients /\ pc'[c] = p /\ \A x \in Clients : x # c => pc'[x] = pc[x]
  BY DEF Begin, IInv, Framed
<1> QED
  BY DEF Begin, IInv, Framed, Current, Held, HeldBy, RawSQLGate, Answered, registry, Resolved

LEMMA CallsHold ==
  ASSUME IInv, NEW c \in Clients,
         AskSQL(c) \/ Register(c) \/ Unregister(c) \/ Generate(c) \/ Edit(c)
  PROVE  IInv'
<1>1. CASE AskSQL(c)
  <2> PICK id \in Ids \cup {Nobody} :
        Begin(c, [Call("sql", "get", IF id = Nobody THEN primary ELSE id, NoDef) EXCEPT !.asked = id])
    BY <1>1 DEF AskSQL
  <2> QED BY BeginHolds DEF Call, Idle, Fields, Resolved, HeldBy, IInv, Framed
<1>2. CASE Register(c)
  <2> PICK id \in Ids, d \in Defs : Begin(c, Call("register", "add", id, d))
    BY <1>2 DEF Register
  <2> QED BY BeginHolds DEF Call, Idle, Fields, Resolved, HeldBy, IInv, Framed
<1>3. CASE Unregister(c)
  <2> PICK id \in registered : Begin(c, Call("unregister", "remove", id, NoDef))
    BY <1>3 DEF Unregister
  <2> QED BY BeginHolds DEF Call, Idle, Fields, Resolved, HeldBy, IInv, Framed
<1>4. CASE Generate(c)
  <2> PICK id \in {i \in Ids : defs[i] # NoDef} :
        Begin(c, [Call("generate", "get", id, defs[id]) EXCEPT !.asked = id])
    BY <1>4 DEF Generate
  <2> QED BY BeginHolds DEF Call, Idle, Fields, Resolved, HeldBy, IInv, Framed
<1>5. CASE Edit(c)
  <2> PICK id \in {i \in Ids : defs[i] # NoDef} : Begin(c, Call("edit", "write", id, defs[id]))
    BY <1>5 DEF Edit
  <2> QED BY BeginHolds DEF Call, Idle, Fields, Resolved, HeldBy, IInv, Framed
<1> QED BY <1>1, <1>2, <1>3, <1>4, <1>5

(* A step that moves one handler on, to where it holds no engine or to what *)
(* HeldBy asks of it, and leaves the registry alone.                        *)
LEMMA MoveHolds ==
  ASSUME IInv, NEW c \in Clients, NEW p, pc' = [pc EXCEPT ![c] = p],
         DOMAIN p = Fields, HeldBy(p), registered' \subseteq Ids,
         UNCHANGED <<registry, open, ran, fallback>>
  PROVE  IInv'
<1> DOMAIN pc' = Clients /\ pc'[c] = p /\ \A x \in Clients : x # c => pc'[x] = pc[x]
  BY DEF IInv, Framed
<1> QED
  BY DEF IInv, Framed, Current, Held, HeldBy, RawSQLGate, Answered, registry, Resolved

-----------------------------------------------------------------------------
(* Boot serves nothing to nobody yet, and Stop forgets who was served.      *)
LEMMA BootHolds == ASSUME IInv, Boot PROVE IInv'
<1> PICK cfg \in Configs : Serve(cfg, file)
  BY DEF Boot
<1>1. Framed'
  BY DEF Boot, Serve, Marks, Forgotten, Framed, Fields
<1>2. Current'
  BY DEF Serve, Opened, Current
<1>3. Held'
  BY DEF Boot, Forgotten, Held, HeldBy, Idle, Resolved
<1> QED
  BY <1>1, <1>2, <1>3 DEF Boot, IInv, RawSQLGate, Answered

LEMMA StopHolds == ASSUME IInv, Stop PROVE IInv'
<1>1. Framed'
  BY DEF Stop, Forgotten, Framed, Fields, IInv, registry
<1>2. Current'
  BY DEF Stop, Current
<1>3. Held'
  BY DEF Stop, Forgotten, Held, HeldBy, Idle, Resolved
<1> QED
  BY <1>1, <1>2, <1>3 DEF Stop, IInv, RawSQLGate, Answered, registry, history

(* Resolve: what it returns is what the registry has open by then.          *)
LEMMA GetHolds == ASSUME IInv, NEW c \in Clients, Get(c) PROVE IInv'
<1> DEFINE p == pc[c]
           held == IF p.db \in Ids THEN open[p.db] ELSE NoEngine
<1>0. DOMAIN p = Fields /\ p.at = "get" /\ HeldBy(p) /\ p.asked \in {Nobody, p.db}
  BY DEF Get, IInv, Framed, Held, HeldBy
<1>1. CASE held # NoEngine /\ pc' = [pc EXCEPT ![c].eng = held, ![c].at = "ground"] /\ UNCHANGED open
  <2> DEFINE q == [p EXCEPT !.eng = held, !.at = "ground"]
  <2>1. pc' = [pc EXCEPT ![c] = q]
    BY <1>1, <1>0 DEF Get, IInv, Framed
  <2>2. DOMAIN q = Fields /\ HeldBy(q)
    BY <1>0, <1>1 DEF HeldBy, Fields, Idle, Resolved, IInv, Current
  <2> HIDE DEF q
  <2> QED
    BY <2>1, <2>2, <1>1, MoveHolds DEF Get, history, HeldBy, IInv, Framed
<1>2. CASE /\ held = NoEngine /\ p.db \in Ids /\ defs[p.db] # NoDef
           /\ open' = [open EXCEPT ![p.db] = Opened(defs[p.db])]
           /\ pc' = [pc EXCEPT ![c].eng = open'[p.db], ![c].at = "ground"]
  <2>1. PICK e : e = Opened(defs[p.db])
    OBVIOUS
  <2>2. PICK q : q = [p EXCEPT !.eng = e, !.at = "ground"]
    OBVIOUS
  <2>3. /\ DOMAIN open' = Ids /\ open'[p.db] = e
        /\ \A id \in Ids : id # p.db => open'[id] = open[id]
    BY <1>2, <2>1 DEF IInv, Framed
  <2>4. /\ DOMAIN pc' = Clients /\ pc'[c] = q
        /\ \A x \in Clients : x # c => pc'[x] = pc[x]
    BY <1>0, <1>2, <2>2, <2>3 DEF IInv, Framed
  <2>5. /\ DOMAIN q = Fields /\ q.at = "ground" /\ q.eng = e
        /\ q.db = p.db /\ q.asked = p.asked /\ q.call = p.call
    BY <1>0, <2>2 DEF Fields, Idle
  <2>6. e.def = defs[p.db]
    BY <2>1 DEF Opened
  <2>11. e # NoEngine
    BY <1>2, <2>6 DEF NoEngine
  <2>7. UNCHANGED <<defs, primary, ran, fallback, registered>>
    BY DEF Get, registry, history
  <2>8. Framed' /\ Current'
    BY <2>3, <2>4, <2>5, <2>6, <2>7 DEF IInv, Framed, Current
  <2>9. HeldBy(pc[c])'
    BY <1>0, <1>2, <2>3, <2>4, <2>5, <2>6, <2>7, <2>11 DEF HeldBy, Resolved
  <2>10. ASSUME NEW x \in Clients, x # c PROVE HeldBy(pc[x])'
    <3>1. pc'[x] = pc[x] /\ HeldBy(pc[x])
      BY <2>4, <2>10 DEF IInv, Held
    <3> QED
      BY <3>1, <1>2, <2>3, <2>7 DEF HeldBy, Resolved
  <2> QED
    BY <2>7, <2>8, <2>9, <2>10 DEF Held, IInv, RawSQLGate, Answered
<1>3. CASE Return(c) /\ UNCHANGED open
  BY <1>3, MoveHolds DEF Get, Return, Idle, Fields, Resolved, history, HeldBy, IInv, Framed
<1> QED
  BY <1>1, <1>2, <1>3 DEF Get

(* The index of a database is none of the gate's business.                  *)
LEMMA GroundHolds == ASSUME IInv, NEW c \in Clients, Ground(c) PROVE IInv'
<1> DEFINE p == pc[c]
<1> PICK q : q = IF p.call = "sql" THEN [p EXCEPT !.at = "check"]
                 ELSE Call(p.call, "write", p.db, p.def)
  OBVIOUS
<1>1. DOMAIN p = Fields /\ p.at = "ground" /\ HeldBy(p)
  BY DEF Ground, IInv, Framed, Held
<1>2. CASE p.call = "sql"
  BY <1>1, <1>2, MoveHolds DEF Ground, HeldBy, Fields, Idle, Resolved, history, IInv, Framed
<1>3. CASE p.call # "sql"
  BY <1>1, <1>3, MoveHolds DEF Ground, Call, Fields, Idle, Resolved, history, HeldBy, IInv, Framed
<1> QED
  BY <1>2, <1>3

(* The check: what the definition in force permits, the engine permits.     *)
LEMMA CheckHolds == ASSUME IInv, NEW c \in Clients, Check(c) PROVE IInv'
<1> DEFINE p == pc[c]
<1>1. DOMAIN p = Fields /\ p.at = "check" /\ HeldBy(p)
  BY DEF Check, IInv, Framed, Held
<1>2. CASE Return(c)
  BY <1>2, MoveHolds DEF Check, Return, Idle, Fields, Resolved, history, HeldBy, IInv, Framed
<1>3. CASE RawSQLAllowed(IF p.asked = Nobody THEN primary ELSE p.asked)
           /\ pc' = [pc EXCEPT ![c].at = "exec", ![c].moved = p.asked = Nobody /\ primary # p.db]
  <2> PICK m \in BOOLEAN : m = (p.asked = Nobody /\ primary # p.db)
    OBVIOUS
  <2> PICK q : q = [p EXCEPT !.at = "exec", !.moved = m]
    OBVIOUS
  <2>1. pc' = [pc EXCEPT ![c] = q]
    BY <1>3, <1>1 DEF IInv, Framed
  <2>2. /\ DOMAIN q = Fields /\ q.at = "exec" /\ q.moved = m /\ q.asked = p.asked
        /\ q.db = p.db /\ q.eng = p.eng /\ q.closed = p.closed
    BY <1>1 DEF Fields, Idle
  <2>3. HeldBy(q)
    BY <1>1, <1>3, <2>2 DEF HeldBy, Resolved, RawSQLAllowed
  <2> QED
    BY <2>1, <2>2, <2>3, MoveHolds DEF Check, history, HeldBy, IInv, Framed
<1> QED
  BY <1>2, <1>3 DEF Check

LEMMA ExecHolds == ASSUME IInv, NEW c \in Clients, Exec(c) PROVE IInv'
<1> DEFINE p == pc[c]
<1>1. p.at = "exec" /\ HeldBy(p)
  BY DEF Exec, IInv, Held
<1>2. DOMAIN pc' = Clients /\ pc'[c] = Idle /\ \A x \in Clients : x # c => pc'[x] = pc[x]
  BY DEF Exec, Return, IInv, Framed
<1>3. Framed' /\ Current' /\ Held'
  BY <1>2, IdsAssumption DEF Exec, IInv, Framed, Current, Held, HeldBy, Idle, Fields, Resolved, registry
<1>4. RawSQLGate'
  BY <1>1 DEF Exec, IInv, RawSQLGate, HeldBy
<1>5. Answered'
  BY <1>1, IdsAssumption DEF Exec, IInv, Answered, HeldBy, Resolved, registry
<1> QED
  BY <1>3, <1>4, <1>5 DEF IInv

-----------------------------------------------------------------------------
(* Closing the engine of one database: nobody holds it unclosed afterwards, *)
(* and whoever holds another's is untouched.                                *)
LEMMA CloseHolds ==
  ASSUME IInv, NEW c \in Clients, NEW id \in Ids, pc[c].at \in {"add", "remove"}, Close(c, id),
         UNCHANGED registered,
         NEW d, defs' = [defs EXCEPT ![id] = d],
         \A o \in Ids : o = primary /\ o # id => primary' = primary
  PROVE  Framed' /\ Current' /\ Held'
<1>1. DOMAIN pc' = Clients /\ DOMAIN open' = Ids /\ DOMAIN defs' = Ids
  BY DEF Close, IInv, Framed
<1>2. /\ open'[id] = NoEngine
      /\ \A o \in Ids : o # id => open'[o] = open[o] /\ defs'[o] = defs[o]
  BY DEF Close, IInv, Framed
<1>3. DOMAIN pc'[c] = Fields /\ pc'[c].at = "drop" /\ pc'[c].db = pc[c].db /\ pc[c].db \in Ids
  BY DEF Close, Closed, IInv, Framed, Held, HeldBy, Fields, Idle
<1>4. ASSUME NEW x \in Clients, x # c PROVE DOMAIN pc'[x] = Fields /\ HeldBy(pc[x])'
  <2>1. DOMAIN pc[x] = Fields /\ HeldBy(pc[x])
    BY DEF IInv, Framed, Held
  <2>2. CASE pc[x].at \in Resolved /\ pc[x].db = id
    <3>1. pc'[x] = [pc[x] EXCEPT !.closed = TRUE]
      BY <2>2, <1>4 DEF Close, Closed, Resolved
    <3>2. /\ pc'[x].closed /\ pc'[x].at = pc[x].at /\ DOMAIN pc'[x] = Fields
          /\ pc'[x].asked = pc[x].asked /\ pc'[x].db = pc[x].db /\ pc'[x].call = pc[x].call
      BY <2>1, <3>1 DEF Fields, Idle
    <3> QED
      BY <2>1, <3>2 DEF HeldBy
  <2>3. CASE ~(pc[x].at \in Resolved /\ pc[x].db = id)
    <3>1. pc'[x] = pc[x]
      BY <2>3, <1>4 DEF Close, Closed, Resolved
    <3> QED
      BY <2>1, <2>3, <3>1, <1>2 DEF HeldBy, Resolved
  <2> QED
    BY <2>2, <2>3
<1>5. Framed'
  BY <1>1, <1>3, <1>4 DEF Framed, IInv
<1>6. Current'
  BY <1>2 DEF Current, IInv
<1>7. HeldBy(pc[c])'
  BY <1>3 DEF HeldBy, Resolved
<1> QED
  BY <1>4, <1>5, <1>6, <1>7 DEF Held

(* Add and Remove: the default moves only to or from nobody.                *)
LEMMA AddHolds ==
  ASSUME IInv, NEW c \in Clients, Add(c)
  PROVE  IInv'
<1>1. /\ pc[c].at = "add" /\ Close(c, pc[c].db) /\ defs' = [defs EXCEPT ![pc[c].db] = pc[c].def]
      /\ UNCHANGED registered
  BY DEF Add
<1>2. pc[c].db \in Ids
  BY <1>1 DEF IInv, Held, HeldBy
<1>3. primary = Nobody \/ primary' = primary
  BY DEF Add
<1>4. CASE primary' = primary
  BY <1>1, <1>2, <1>4, CloseHolds DEF Add, IInv, RawSQLGate, Answered
<1>5. CASE primary = Nobody
  <2>1. primary' = pc[c].db /\ fallback = {} /\ UNCHANGED <<ran, fallback>>
    BY <1>5 DEF Add, IInv, Answered
  <2> QED
    BY <1>1, <1>2, <1>5, <2>1, CloseHolds, IdsAssumption DEF IInv, RawSQLGate, Answered
<1> QED
  BY <1>3, <1>4, <1>5

LEMMA RemoveHolds ==
  ASSUME IInv, NEW c \in Clients, Remove(c)
  PROVE  IInv'
<1> DEFINE id   == pc[c].db
           rest == Without(order, id)
<1>1. /\ pc[c].at = "remove" /\ Close(c, id) /\ defs' = [defs EXCEPT ![id] = NoDef]
      /\ UNCHANGED <<ran, registered>>
  BY DEF Remove
<1>4. id \in Ids
  BY <1>1 DEF IInv, Held, HeldBy
<1>2. CASE id # primary
  <2>1. primary' = primary /\ fallback' \subseteq fallback
    BY <1>2 DEF Remove
  <2> QED
    BY <1>1, <1>4, <2>1, CloseHolds DEF IInv, RawSQLGate, Answered
<1>3. CASE id = primary
  <2>1. rest = <<>>
    <3>1. Len(order) = 1
      BY <1>3 DEF Remove, MayRemove
    <3>2. 1 .. Len(order) - 1 = {}
      BY <3>1
    <3>3. DOMAIN rest = {} /\ rest \in [{} -> {}]
      BY <3>2 DEF Without
    <3>4. <<>> \in [{} -> {}]
      OBVIOUS
    <3> HIDE DEF rest
    <3> QED
      BY <3>3, <3>4
  <2>2. primary' = Nobody /\ fallback' = {}
    BY <1>3, <2>1 DEF Remove
  <2> QED
    BY <1>1, <1>3, <1>4, <2>2, CloseHolds DEF IInv, RawSQLGate, Answered
<1> QED
  BY <1>2, <1>3

(* The rest of a change: the grounder, the mark, the save, and what fails.  *)
LEMMA SavingHolds ==
  ASSUME IInv, NEW c \in Clients,
         \/ WriteModel(c) \/ RemoveRefused(c) \/ DropGrounder(c) \/ Mark(c)
         \/ Collect(c) \/ CollectNone(c) \/ Create(c) \/ Fill(c) \/ Fail(c)
  PROVE  IInv'
<1>0. DOMAIN pc = Clients /\ DOMAIN pc[c] = Fields /\ HeldBy(pc[c]) /\ registered \subseteq Ids
  BY DEF IInv, Framed, Held
<1>1. CASE WriteModel(c)
  <2> DEFINE path == IF pc[c].call = "generate" \/ pc[c].def.model = NoModel
                     THEN Gen[pc[c].db] ELSE pc[c].def.model
  <2> PICK d : d = [pc[c].def EXCEPT !.model = path]
    OBVIOUS
  <2> PICK q : q = [pc[c] EXCEPT !.def = d, !.edit = TRUE, !.at = "add"]
    OBVIOUS
  <2>1. pc' = [pc EXCEPT ![c] = q]
    BY <1>1, <1>0 DEF WriteModel, Fields, Idle
  <2>2. DOMAIN q = Fields /\ q.at = "add" /\ q.db = pc[c].db
    BY <1>0 DEF Fields, Idle
  <2>3. HeldBy(q)
    BY <1>0, <1>1, <2>2 DEF WriteModel, HeldBy, Resolved
  <2>4. UNCHANGED <<registry, open, ran, fallback, registered>>
    BY <1>1 DEF WriteModel, history
  <2> QED
    BY <1>0, <2>1, <2>2, <2>3, <2>4, MoveHolds
<1>2. CASE RemoveRefused(c)
  BY <1>0, <1>2, MoveHolds DEF RemoveRefused, Return, Idle, Fields, Resolved, history, HeldBy, IInv, Framed
<1>3. CASE DropGrounder(c)
  <2> PICK q : q = [pc[c] EXCEPT !.at = "mark"]
    OBVIOUS
  <2> QED
    BY <1>0, <1>3, MoveHolds DEF DropGrounder, Goto, Idle, Fields, Resolved, history, HeldBy, IInv, Framed
<1>4. CASE Mark(c)
  BY <1>0, <1>4, MoveHolds DEF Mark, Idle, Fields, Resolved, history, HeldBy, IInv, Framed
<1>5. CASE Collect(c)
  <2> PICK s : s = [pc[c].snap EXCEPT ![Head(pc[c].todo)] =
                      IF Head(pc[c].todo) \in registered THEN defs[Head(pc[c].todo)] ELSE NoDef]
    OBVIOUS
  <2> PICK at \in {"create", "collect"} : at = IF Len(pc[c].todo) = 1 THEN "create" ELSE "collect"
    OBVIOUS
  <2> PICK q : q = [pc[c] EXCEPT !.todo = Tail(pc[c].todo), !.snap = s, !.at = at]
    OBVIOUS
  <2>1. pc' = [pc EXCEPT ![c] = q]
    BY <1>5, <1>0 DEF Collect, Fields, Idle
  <2>2. DOMAIN q = Fields /\ q.at \in {"create", "collect"}
    BY <1>0 DEF Fields, Idle
  <2>3. HeldBy(q)
    BY <2>2 DEF HeldBy, Resolved
  <2>4. UNCHANGED <<registry, open, ran, fallback, registered>>
    BY <1>5 DEF Collect, history
  <2> QED
    BY <1>0, <2>1, <2>2, <2>3, <2>4, MoveHolds
<1>6. CASE CollectNone(c)
  <2> PICK q : q = [pc[c] EXCEPT !.at = "create"]
    OBVIOUS
  <2> QED
    BY <1>0, <1>6, MoveHolds DEF CollectNone, Goto, Idle, Fields, Resolved, history, HeldBy, IInv, Framed
<1>7. CASE Create(c)
  <2> PICK q : q = [pc[c] EXCEPT !.out = "tmp", !.at = "fill"]
    OBVIOUS
  <2>1. pc' = [pc EXCEPT ![c] = q]
    BY <1>7, <1>0 DEF Create, Fields, Idle
  <2>2. DOMAIN q = Fields /\ q.at = "fill"
    BY <1>0 DEF Fields, Idle
  <2> QED
    BY <1>0, <1>7, <2>1, <2>2, MoveHolds DEF Create, Resolved, history, HeldBy, IInv, Framed
<1>8. CASE Fill(c)
  BY <1>0, <1>8, MoveHolds DEF Fill, Idle, Fields, Resolved, history, HeldBy, IInv, Framed
<1>9. CASE Fail(c)
  BY <1>0, <1>9, MoveHolds DEF Fail, Return, Idle, Fields, Resolved, HeldBy, IInv, Framed
<1> QED
  BY <1>1, <1>2, <1>3, <1>4, <1>5, <1>6, <1>7, <1>8, <1>9

LEMMA RenameHolds == ASSUME IInv, NEW c \in Clients, Rename(c) PROVE IInv'
<1>1. CASE Return(c)
  BY <1>1, MoveHolds DEF Rename, Return, Idle, Fields, Resolved, HeldBy, IInv, Framed
<1>2. CASE ~Return(c)
  <2>1. ASSUME NEW x \in Clients
        PROVE  /\ DOMAIN pc'[x] = Fields
               /\ \/ pc'[x] = Idle
                  \/ /\ pc'[x].at = pc[x].at /\ pc'[x].call = pc[x].call
                     /\ pc'[x].asked = pc[x].asked /\ pc'[x].db = pc[x].db
                     /\ pc'[x].eng = pc[x].eng /\ pc'[x].closed = pc[x].closed
                     /\ pc'[x].moved = pc[x].moved
    <3>1. DOMAIN pc[x] = Fields
      BY DEF IInv, Framed
    <3> PICK out : out = IF pc[x].out = "tmp" THEN "file" ELSE IF pc[x].out = "file" THEN "gone" ELSE pc[x].out
      OBVIOUS
    <3> PICK q : q = [pc[x] EXCEPT !.out = out]
      OBVIOUS
    <3>2. pc'[x] = Idle \/ pc'[x] = q
      BY <1>2 DEF Rename
    <3> QED
      BY <3>1, <3>2 DEF Fields, Idle
  <2>2. DOMAIN pc' = Clients /\ UNCHANGED <<registry, open, registered, ran, fallback>>
    BY <1>2 DEF Rename
  <2>3. Held'
    BY <2>1, <2>2 DEF Held, HeldBy, Idle, IInv, Resolved, registry
  <2> QED
    BY <2>1, <2>2, <2>3 DEF IInv, Framed, Current, RawSQLGate, Answered, registry
<1> QED
  BY <1>1, <1>2

-----------------------------------------------------------------------------
(* Every step keeps the invariant.                                          *)
LEMMA NextHolds == ASSUME IInv, [Next]_vars PROVE IInv'
<1>1. CASE UNCHANGED vars
  BY <1>1 DEF vars, IInv, Framed, Current, Held, HeldBy, RawSQLGate, Answered, registry, history
<1>2. CASE Boot
  BY <1>2, BootHolds
<1>3. CASE Stop
  BY <1>3, StopHolds
<1>4. ASSUME NEW c \in Clients, Act(c) PROVE IInv'
  BY <1>4, CallsHold, GetHolds, GroundHolds, CheckHolds, ExecHolds, AddHolds, RemoveHolds,
     SavingHolds, RenameHolds DEF Act
<1> QED
  BY <1>1, <1>2, <1>3, <1>4 DEF Next

THEOREM Invariance == Spec => []IInv
  BY InitIInv, NextHolds, PTL DEF Spec

(* Whatever is registered, modelled, edited or removed by however many      *)
(* handlers between the check of /v1/sql and its query, the query runs only *)
(* on an engine whose definition permits raw SQL.                           *)
THEOREM RawSQLGateHolds == Spec => []RawSQLGate
<1>1. IInv => RawSQLGate
  BY DEF IInv
<1> QED
  BY <1>1, Invariance, PTL

(* As long as a database is served, unqualified callers are answered by one *)
(* database only.                                                           *)
THEOREM DefaultNeverMovesHolds == Spec => []DefaultNeverMoves
<1>1. IInv => DefaultNeverMoves
  <2> SUFFICES ASSUME IInv PROVE Cardinality(fallback) <= 1
    BY DEF DefaultNeverMoves
  <2>1. fallback = {} \/ fallback = {primary}
    BY DEF IInv, Answered
  <2>2. CASE fallback = {}
    BY <2>2, FS_EmptySet
  <2>3. CASE fallback = {primary}
    <3>1. Cardinality({primary}) = 1
      BY FS_Singleton
    <3> QED
      BY <2>3, <3>1
  <2> QED
    BY <2>1, <2>2, <2>3
<1> QED
  BY <1>1, Invariance, PTL

-----------------------------------------------------------------------------
(* Types.  What a handler holds depends on where it is; the order names     *)
(* each database that is served once, and the default comes first in it.    *)

Frame ==
  [at : Places, call : Changing \cup {"sql", "idle"}, asked : Ids \cup {Nobody},
   db : Ids \cup {Nobody}, def : Def \cup {NoDef}, eng : Engine \cup {NoEngine},
   closed : BOOLEAN, edit : BOOLEAN, moved : BOOLEAN, todo : Seq(Ids), snap : Saved,
   out : {"none", "tmp", "file", "gone"}]

Saving == {"drop", "mark", "collect", "create", "fill", "rename"}

Shaped(p) ==
  /\ p.at = "idle" => p = Idle
  /\ p.at \in {"get", "ground"} => p.call \in {"sql", "generate"}
  /\ p.at \in {"check", "exec"} => p.call = "sql"
  /\ p.at \in {"write", "add"} => p.call \in {"register", "generate", "edit"}
  /\ p.at = "remove" => p.call = "unregister"
  /\ p.at \in Saving => p.call \in Changing
  /\ p.at \in Resolved => p.eng \in Engine
  /\ p.at \in {"write", "add"} => p.def \in Def
  /\ p.at \in {"get", "ground"} /\ p.call = "generate" => p.def \in Def
  /\ p.at = "add" /\ p.edit => p.def.model \in Paths

Served(of) == {id \in Ids : of[id] # NoDef}

OrderOf(of, ids, first) ==
  /\ ids \in Seq(Ids)
  /\ \A i, j \in DOMAIN ids : ids[i] = ids[j] => i = j
  /\ {ids[i] : i \in DOMAIN ids} = Served(of)
  /\ first = IF ids = <<>> THEN Nobody ELSE ids[1]

FramesOK(frames) ==
  /\ frames \in [Clients -> Frame]
  /\ \A c \in Clients : Shaped(frames[c])

RegistryOK ==
  /\ defs \in [Ids -> Def \cup {NoDef}]
  /\ open \in [Ids -> Engine \cup {NoEngine}]
  /\ OrderOf(defs, order, primary)

DiskOK ==
  /\ text \in [Paths -> Nat]
  /\ file \in Saved \cup {Torn} /\ tmp \in Saved \cup {Torn, Missing}

RestOK ==
  /\ up \in BOOLEAN /\ registered \subseteq Ids
  /\ grounders \in [Ids -> Paths \cup {NoGrounder}]
  /\ console \in [db : Ids \cup {Nobody}, closed : BOOLEAN]
  /\ edited \in [Ids -> (Paths \cup {NoModel}) \X Nat]

Typed == FramesOK(pc) /\ RegistryOK /\ DiskOK /\ RestOK

LEMMA NamesDiffer ==
  /\ NoModel \notin Paths /\ NoDef \notin Def /\ NoEngine \notin Engine /\ Nobody \notin Ids
  /\ Torn \notin Saved /\ Missing \notin Saved /\ Missing # Torn
  /\ \A d \in Def : d.model \in Paths \cup {NoModel} /\ d.raw \in BOOLEAN
<1>1. NoEngine \notin Engine
  BY DefsAssumption DEF NoEngine, Engine
<1>2. \A d \in Def : d.model \in Paths \cup {NoModel} /\ d.raw \in BOOLEAN
  BY DEF Def
<1>3. QED
  BY <1>1, <1>2, DefsAssumption, IdsAssumption, FilesAssumption DEF Paths

LEMMA IdleTyped == Idle \in Frame /\ Shaped(Idle) /\ Idle.at = "idle" /\ Idle.call = "idle"
  BY DEF Idle, Frame, Places, Changing, Saved, Shaped, Saving, Resolved

(* One handler moves on, or to another's frame.                             *)
LEMMA FramesMove ==
  ASSUME Typed, NEW c \in Clients, NEW q \in Frame, Shaped(q), pc' = [pc EXCEPT ![c] = q]
  PROVE  FramesOK(pc')
  BY DEF Typed, FramesOK

LEMMA FrameIs ==
  ASSUME Typed, NEW c \in Clients
  PROVE  pc[c] \in Frame /\ Shaped(pc[c])
  BY DEF Typed, FramesOK

(* A frame with another place, or with another field.                       *)
LEMMA PlaceIs ==
  ASSUME NEW p \in Frame, NEW at \in Places
  PROVE  LET q == [p EXCEPT !.at = at] IN
         /\ q \in Frame /\ q.at = at
         /\ q.call = p.call /\ q.asked = p.asked /\ q.db = p.db /\ q.def = p.def
         /\ q.eng = p.eng /\ q.closed = p.closed /\ q.edit = p.edit /\ q.moved = p.moved
         /\ q.todo = p.todo /\ q.snap = p.snap /\ q.out = p.out
  BY DEF Frame

(* A return.                                                                *)
LEMMA ReturnTyped ==
  ASSUME Typed, NEW c \in Clients, Return(c)
  PROVE  FramesOK(pc')
  BY IdleTyped, FramesMove DEF Return

(* An engine is opened as the model file is.                                *)
LEMMA OpenedType ==
  ASSUME Typed, NEW d \in Def
  PROVE  /\ Opened(d) \in Engine /\ Opened(d).def = d
         /\ Opened(d).text = IF d.model = NoModel THEN 0 ELSE text[d.model]
  BY NamesDiffer DEF Opened, Engine, Typed, DiskOK

LEMMA AskedIs ==
  ASSUME NEW p \in Frame, NEW id \in Ids \cup {Nobody}
  PROVE  LET q == [p EXCEPT !.asked = id] IN
         /\ q \in Frame /\ q.asked = id
         /\ q.at = p.at /\ q.call = p.call /\ q.db = p.db /\ q.def = p.def /\ q.eng = p.eng
         /\ q.edit = p.edit
  BY DEF Frame

LEMMA BeginTyped ==
  ASSUME Typed, NEW c \in Clients, NEW q \in Frame, Shaped(q), Begin(c, q)
  PROVE  Typed'
<1>1. FramesOK(pc')
  BY FramesMove DEF Begin
<1>2. QED
  BY <1>1 DEF Begin, Typed, FramesOK, RegistryOK, DiskOK, RestOK, registry, disk

LEMMA CallsTyped ==
  ASSUME Typed, NEW c \in Clients,
         AskSQL(c) \/ Register(c) \/ Unregister(c) \/ Generate(c) \/ Edit(c)
  PROVE  Typed'
<1>0. /\ {"register", "unregister", "generate", "edit"} \subseteq Changing
      /\ {"get", "add", "remove", "write"} \subseteq Places /\ registered \subseteq Ids
      /\ \A id \in Ids : defs[id] # NoDef => defs[id] \in Def
      /\ primary \in Ids \cup {Nobody}
  <2>1. primary \in Ids \cup {Nobody}
    BY DEF Typed, RegistryOK, OrderOf
  <2>2. QED
    BY <2>1 DEF Changing, Places, Typed, RestOK, RegistryOK
<1>1. CASE AskSQL(c)
  <2>1. PICK id \in Ids \cup {Nobody} :
          Begin(c, [Call("sql", "get", IF id = Nobody THEN primary ELSE id, NoDef) EXCEPT !.asked = id])
    BY <1>1 DEF AskSQL
  <2> DEFINE i == IF id = Nobody THEN primary ELSE id
             p == Call("sql", "get", i, NoDef)
             q == [p EXCEPT !.asked = id]
  <2>2. i \in Ids \cup {Nobody}
    BY <1>0
  <2> HIDE DEF i
  <2>3. p \in Frame /\ p.call = "sql" /\ p.at = "get"
    BY <1>0, <2>2, IdleTyped DEF Call, Frame, Idle, Changing, Places
  <2> HIDE DEF p
  <2>4. q \in Frame /\ q.call = "sql" /\ q.at = "get"
    BY <2>3, AskedIs
  <2>5. Begin(c, q)
    BY <2>1 DEF p, i
  <2> HIDE DEF q
  <2>6. Shaped(q)
    BY <2>4 DEF Shaped, Saving, Resolved
  <2>7. QED
    BY <2>4, <2>5, <2>6, BeginTyped
<1>2. CASE Register(c)
  <2>1. PICK id \in Ids, d \in Defs : Begin(c, Call("register", "add", id, d))
    BY <1>2 DEF Register
  <2>2. d \in Def
    BY DefsAssumption
  <2> DEFINE q == Call("register", "add", id, d)
  <2>3. q \in Frame /\ q.call = "register" /\ q.at = "add" /\ q.def \in Def /\ q.edit = FALSE
    BY <1>0, <2>2, IdleTyped DEF Call, Frame, Idle, Changing, Places
  <2>4. Begin(c, q)
    BY <2>1
  <2> HIDE DEF q
  <2>5. Shaped(q)
    BY <2>3 DEF Shaped, Saving, Resolved
  <2>6. QED
    BY <2>3, <2>4, <2>5, BeginTyped
<1>3. CASE Unregister(c)
  <2>1. PICK id \in registered : Begin(c, Call("unregister", "remove", id, NoDef))
    BY <1>3 DEF Unregister
  <2> DEFINE q == Call("unregister", "remove", id, NoDef)
  <2>2. q \in Frame /\ q.call = "unregister" /\ q.at = "remove"
    BY <1>0, IdleTyped DEF Call, Frame, Idle, Changing, Places
  <2>3. Begin(c, q)
    BY <2>1
  <2> HIDE DEF q
  <2>4. Shaped(q)
    BY <2>2 DEF Shaped, Saving, Resolved
  <2>5. QED
    BY <2>2, <2>3, <2>4, BeginTyped
<1>4. CASE Generate(c)
  <2>1. PICK id \in {i \in Ids : defs[i] # NoDef} :
          Begin(c, [Call("generate", "get", id, defs[id]) EXCEPT !.asked = id])
    BY <1>4 DEF Generate
  <2> DEFINE p == Call("generate", "get", id, defs[id])
             q == [p EXCEPT !.asked = id]
  <2>2. p \in Frame /\ p.call = "generate" /\ p.at = "get" /\ p.def \in Def
    BY <1>0, IdleTyped DEF Call, Frame, Idle, Changing, Places
  <2> HIDE DEF p
  <2>3. q \in Frame /\ q.call = "generate" /\ q.at = "get" /\ q.def \in Def
    BY <2>2, AskedIs
  <2>4. Begin(c, q)
    BY <2>1 DEF p
  <2> HIDE DEF q
  <2>5. Shaped(q)
    BY <2>3 DEF Shaped, Saving, Resolved
  <2>6. QED
    BY <2>3, <2>4, <2>5, BeginTyped
<1>5. CASE Edit(c)
  <2>1. PICK id \in {i \in Ids : defs[i] # NoDef} : Begin(c, Call("edit", "write", id, defs[id]))
    BY <1>5 DEF Edit
  <2> DEFINE q == Call("edit", "write", id, defs[id])
  <2>2. q \in Frame /\ q.call = "edit" /\ q.at = "write" /\ q.def \in Def
    BY <1>0, IdleTyped DEF Call, Frame, Idle, Changing, Places
  <2>3. Begin(c, q)
    BY <2>1
  <2> HIDE DEF q
  <2>4. Shaped(q)
    BY <2>2 DEF Shaped, Saving, Resolved
  <2>5. QED
    BY <2>2, <2>3, <2>4, BeginTyped
<1>6. QED
  BY <1>1, <1>2, <1>3, <1>4, <1>5

(* A step that changes the frames alone.                                    *)
LEMMA FramesOnly ==
  ASSUME Typed, FramesOK(pc'),
         UNCHANGED <<up, registry, open, grounders, registered, console, disk, edited>>
  PROVE  Typed'
  BY DEF Typed, FramesOK, RegistryOK, DiskOK, RestOK, registry, disk

(* What a handler that resolved a database holds.                           *)
LEMMA EngineIs ==
  ASSUME NEW p \in Frame, NEW e \in Engine \cup {NoEngine}
  PROVE  LET q == [p EXCEPT !.eng = e, !.at = "ground"] IN
         /\ q \in Frame /\ q.at = "ground" /\ q.eng = e
         /\ q.call = p.call /\ q.asked = p.asked /\ q.db = p.db /\ q.def = p.def
         /\ q.edit = p.edit /\ q.snap = p.snap /\ q.out = p.out
  BY DEF Frame, Places

LEMMA GetTyped ==
  ASSUME Typed, NEW c \in Clients, Get(c)
  PROVE  Typed'
<1> DEFINE p == pc[c]
           held == IF p.db \in Ids THEN open[p.db] ELSE NoEngine
<1>1. p \in Frame /\ Shaped(p) /\ p.at = "get" /\ pc \in [Clients -> Frame]
  BY FrameIs DEF Get, Typed, FramesOK
<1>2. UNCHANGED <<up, registry, grounders, registered, console, disk, edited>>
  BY DEF Get, history
<1>3. CASE held # NoEngine /\ pc' = [pc EXCEPT ![c].eng = held, ![c].at = "ground"] /\ UNCHANGED open
  <2> DEFINE q == [p EXCEPT !.eng = held, !.at = "ground"]
  <2>1. held \in Engine
    BY <1>3 DEF Typed, RegistryOK
  <2>2. pc' = [pc EXCEPT ![c] = q]
    BY <1>1, <1>3
  <2> HIDE DEF held
  <2>3. q \in Frame /\ q.at = "ground" /\ q.eng = held /\ q.call = p.call /\ q.def = p.def
    BY <1>1, <2>1, EngineIs
  <2> HIDE DEF q
  <2>4. Shaped(q)
    BY <1>1, <2>1, <2>3 DEF Shaped, Saving, Resolved
  <2>5. QED
    BY <1>2, <1>3, <2>2, <2>3, <2>4, FramesMove, FramesOnly
<1>4. CASE /\ held = NoEngine /\ p.db \in Ids /\ defs[p.db] # NoDef
           /\ open' = [open EXCEPT ![p.db] = Opened(defs[p.db])]
           /\ pc' = [pc EXCEPT ![c].eng = open'[p.db], ![c].at = "ground"]
  <2>1. PICK e \in Engine : e = Opened(defs[p.db])
    BY <1>4, OpenedType DEF Typed, RegistryOK
  <2> DEFINE q == [p EXCEPT !.eng = e, !.at = "ground"]
  <2>2. open' \in [Ids -> Engine \cup {NoEngine}] /\ open'[p.db] = e
    BY <1>4, <2>1 DEF Typed, RegistryOK
  <2>3. pc' = [pc EXCEPT ![c] = q]
    BY <1>1, <1>4, <2>2
  <2>4. q \in Frame /\ q.at = "ground" /\ q.eng = e /\ q.call = p.call /\ q.def = p.def
    BY <1>1, EngineIs
  <2> HIDE DEF q
  <2>5. Shaped(q)
    BY <1>1, <2>4 DEF Shaped, Saving, Resolved
  <2>6. FramesOK(pc')
    BY <2>3, <2>4, <2>5, FramesMove
  <2>7. QED
    BY <1>2, <2>2, <2>6 DEF Typed, FramesOK, RegistryOK, DiskOK, RestOK, registry, disk
<1>5. CASE Return(c) /\ UNCHANGED open
  BY <1>2, <1>5, ReturnTyped, FramesOnly
<1>6. QED
  BY <1>3, <1>4, <1>5 DEF Get

LEMMA GroundTyped ==
  ASSUME Typed, IInv, NEW c \in Clients, Ground(c)
  PROVE  Typed'
<1> DEFINE p  == pc[c]
           id == IF p.asked = Nobody THEN primary ELSE p.asked
<1>1. p \in Frame /\ Shaped(p) /\ p.at = "ground" /\ pc \in [Clients -> Frame]
  BY FrameIs DEF Ground, Typed, FramesOK
<1>2. UNCHANGED <<up, registry, open, registered, console, disk, edited>>
  BY DEF Ground, history
<1>3. grounders' \in [Ids -> Paths \cup {NoGrounder}]
  <2>1. CASE /\ p.eng.def.model # NoModel /\ id \in Ids /\ grounders[id] = NoGrounder
             /\ grounders' = [grounders EXCEPT ![id] = p.eng.def.model]
    <3>1. p.eng \in Engine
      BY <1>1 DEF Shaped, Resolved
    <3>2. p.eng.def \in Def
      BY <3>1 DEF Engine
    <3>3. p.eng.def.model \in Paths
      BY <2>1, <3>2, NamesDiffer
    <3>4. QED
      BY <2>1, <3>3 DEF Typed, RestOK
  <2>2. CASE UNCHANGED grounders
    BY <2>2 DEF Typed, RestOK
  <2>3. QED
    BY <2>1, <2>2 DEF Ground
<1>4. FramesOK(pc')
  <2>1. CASE p.call = "sql"
    <3> DEFINE q == [p EXCEPT !.at = "check"]
    <3>1. pc' = [pc EXCEPT ![c] = q]
      BY <2>1 DEF Ground
    <3>2. q \in Frame /\ q.at = "check" /\ q.eng = p.eng /\ q.call = p.call
      BY <1>1 DEF Frame, Places
    <3> HIDE DEF q
    <3>3. Shaped(q)
      BY <1>1, <2>1, <3>2 DEF Shaped, Saving, Resolved
    <3>4. QED
      BY <3>1, <3>2, <3>3, FramesMove
  <2>2. CASE p.call # "sql"
    <3> DEFINE q == Call(p.call, "write", p.db, p.def)
    <3>1. pc' = [pc EXCEPT ![c] = q]
      BY <2>2 DEF Ground
    <3>2. p.call = "generate" /\ p.def \in Def
      BY <1>1, <2>2 DEF Shaped
    <3>3. p.db \in Ids \cup {Nobody}
      BY <1>1 DEF Frame
    <3>4. q \in Frame /\ q.at = "write" /\ q.call = "generate" /\ q.def = p.def
      BY <3>2, <3>3, IdleTyped DEF Call, Frame, Idle, Changing, Places
    <3> HIDE DEF q
    <3>5. Shaped(q)
      BY <3>2, <3>4 DEF Shaped, Saving, Resolved
    <3>6. QED
      BY <3>1, <3>4, <3>5, FramesMove
  <2>3. QED
    BY <2>1, <2>2
<1>5. QED
  BY <1>2, <1>3, <1>4 DEF Typed, FramesOK, RegistryOK, DiskOK, RestOK, registry, disk

LEMMA CheckTyped ==
  ASSUME Typed, NEW c \in Clients, Check(c)
  PROVE  Typed'
<1> DEFINE p == pc[c]
           m == p.asked = Nobody /\ primary # p.db
<1>1. p \in Frame /\ Shaped(p) /\ p.at = "check" /\ pc \in [Clients -> Frame]
  BY FrameIs DEF Check, Typed, FramesOK
<1>2. UNCHANGED <<up, registry, open, grounders, registered, console, disk, edited>>
  BY DEF Check, history
<1>3. CASE Return(c)
  BY <1>2, <1>3, ReturnTyped, FramesOnly
<1>4. CASE pc' = [pc EXCEPT ![c].at = "exec", ![c].moved = m]
  <2> DEFINE q == [p EXCEPT !.at = "exec", !.moved = m]
  <2>1. pc' = [pc EXCEPT ![c] = q]
    BY <1>1, <1>4
  <2>2. m \in BOOLEAN
    OBVIOUS
  <2> HIDE DEF m
  <2>3. q \in Frame /\ q.at = "exec" /\ q.eng = p.eng /\ q.call = p.call
    BY <1>1, <2>2 DEF Frame, Places
  <2> HIDE DEF q
  <2>4. Shaped(q)
    BY <1>1, <2>3 DEF Shaped, Saving, Resolved
  <2>5. QED
    BY <1>2, <2>1, <2>3, <2>4, FramesMove, FramesOnly
<1>5. QED
  BY <1>3, <1>4 DEF Check

(* What an edit wrote is a path, and is there as long as the handler is.    *)
LEMMA WriteModelTyped ==
  ASSUME Typed, IInv, NEW c \in Clients, WriteModel(c)
  PROVE  Typed'
<1> DEFINE p == pc[c]
           path == IF p.call = "generate" \/ p.def.model = NoModel THEN Gen[p.db] ELSE p.def.model
<1>1. p \in Frame /\ Shaped(p) /\ p.at = "write" /\ pc \in [Clients -> Frame] /\ p.db \in Ids
  BY FrameIs DEF WriteModel, Typed, FramesOK, IInv, Held, HeldBy
<1>2. p.def \in Def
  BY <1>1 DEF Shaped
<1>3. path \in Paths
  BY <1>1, <1>2, NamesDiffer, DefsAssumption
<1>4. text' = [text EXCEPT ![path] = @ + 1]
      /\ pc' = [pc EXCEPT ![c].def.model = path, ![c].edit = TRUE, ![c].at = "add"]
  BY DEF WriteModel
<1> HIDE DEF path
<1> DEFINE d == [p.def EXCEPT !.model = path]
           q == [p EXCEPT !.def = d, !.edit = TRUE, !.at = "add"]
<1>5. d \in Def /\ d.model = path
  BY <1>2, <1>3 DEF Def
<1>6. pc' = [pc EXCEPT ![c] = q]
  BY <1>1, <1>4 DEF Frame
<1> HIDE DEF d
<1>7. q \in Frame /\ q.at = "add" /\ q.def = d /\ q.call = p.call
  BY <1>1, <1>5 DEF Frame, Places
<1> HIDE DEF q
<1>8. Shaped(q)
  BY <1>1, <1>3, <1>5, <1>7 DEF Shaped, Saving, Resolved
<1>9. FramesOK(pc')
  BY <1>6, <1>7, <1>8, FramesMove
<1>10. text' \in [Paths -> Nat]
  BY <1>3, <1>4 DEF Typed, DiskOK
<1>11. UNCHANGED <<up, registry, open, grounders, registered, console, file, tmp, edited>>
  BY DEF WriteModel, history
<1>12. QED
  BY <1>9, <1>10, <1>11 DEF Typed, FramesOK, RegistryOK, DiskOK, RestOK, registry

(* Steps that end a handler, or move one to its next place.                 *)
LEMMA ReturnsTyped ==
  ASSUME Typed, NEW c \in Clients, Exec(c) \/ RemoveRefused(c) \/ Fail(c)
  PROVE  Typed'
<1>1. Return(c) /\ UNCHANGED <<up, registry, open, grounders, registered, console, disk, edited>>
  BY DEF Exec, RemoveRefused, Fail, history
<1>2. QED
  BY <1>1, ReturnTyped, FramesOnly

LEMMA DropTyped ==
  ASSUME Typed, IInv, NEW c \in Clients, DropGrounder(c)
  PROVE  Typed'
<1>1. pc[c] \in Frame /\ Shaped(pc[c]) /\ pc[c].at = "drop" /\ pc[c].db \in Ids
  BY FrameIs DEF DropGrounder, IInv, Held, HeldBy
<1> DEFINE q == [pc[c] EXCEPT !.at = "mark"]
<1>2. pc' = [pc EXCEPT ![c] = q]
  BY DEF DropGrounder, Goto
<1>3. q \in Frame /\ q.at = "mark" /\ q.call = pc[c].call
  BY <1>1, PlaceIs DEF Places
<1> HIDE DEF q
<1>4. Shaped(q)
  BY <1>1, <1>3 DEF Shaped, Saving, Resolved
<1>5. FramesOK(pc')
  BY <1>2, <1>3, <1>4, FramesMove
<1>6. UNCHANGED <<up, registry, open, registered, console, disk, edited>>
      /\ grounders' = [grounders EXCEPT ![pc[c].db] = NoGrounder]
  BY DEF DropGrounder, history
<1>7. grounders' \in [Ids -> Paths \cup {NoGrounder}]
  BY <1>1, <1>6 DEF Typed, RestOK
<1>8. QED
  BY <1>5, <1>6, <1>7 DEF Typed, FramesOK, RegistryOK, DiskOK, RestOK, registry, disk

LEMMA MarkTyped ==
  ASSUME Typed, IInv, NEW c \in Clients, Mark(c)
  PROVE  Typed'
<1> DEFINE p == pc[c]
           q == [Idle EXCEPT !.at = "collect", !.call = p.call, !.todo = order]
<1>1. p \in Frame /\ Shaped(p) /\ p.at = "mark" /\ p.db \in Ids
  BY FrameIs DEF Mark, IInv, Held, HeldBy
<1>2. pc' = [pc EXCEPT ![c] = q]
  BY DEF Mark
<1>3. order \in Seq(Ids) /\ p.call \in Changing
  BY <1>1 DEF Typed, RegistryOK, OrderOf, Shaped, Saving
<1>4. q \in Frame /\ q.at = "collect" /\ q.call = p.call
  BY <1>3, IdleTyped DEF Frame, Idle, Places
<1> HIDE DEF q
<1>5. Shaped(q)
  BY <1>3, <1>4 DEF Shaped, Saving, Resolved
<1>6. FramesOK(pc')
  BY <1>2, <1>4, <1>5, FramesMove
<1>7. registered' \subseteq Ids
  BY <1>1 DEF Mark, Typed, RestOK
<1>8. UNCHANGED <<up, registry, open, grounders, console, disk, edited>>
  BY DEF Mark, history
<1>9. QED
  BY <1>6, <1>7, <1>8 DEF Typed, FramesOK, RegistryOK, DiskOK, RestOK, registry, disk

(* The next of the ids a save goes through.                                 *)
LEMMA CollectTyped ==
  ASSUME Typed, NEW c \in Clients, Collect(c)
  PROVE  Typed'
<1> DEFINE p == pc[c]
           id == Head(p.todo)
<1>1. p \in Frame /\ Shaped(p) /\ p.at = "collect" /\ p.todo # <<>> /\ pc \in [Clients -> Frame]
  BY FrameIs DEF Collect, Typed, FramesOK
<1>2. p.todo \in Seq(Ids) /\ p.snap \in Saved /\ p.call \in Changing
  BY <1>1 DEF Frame, Shaped, Saving
<1>3. id \in Ids /\ Tail(p.todo) \in Seq(Ids)
  BY <1>1, <1>2
<1>4. PICK d \in Def \cup {NoDef} : d = IF id \in registered THEN defs[id] ELSE NoDef
  BY <1>3 DEF Typed, RegistryOK
<1>5. PICK at \in {"create", "collect"} : at = IF Len(p.todo) = 1 THEN "create" ELSE "collect"
  OBVIOUS
<1> DEFINE s == [p.snap EXCEPT ![id] = d]
           q == [p EXCEPT !.todo = Tail(p.todo), !.snap = s, !.at = at]
<1>6. pc' = [pc EXCEPT ![c] = q]
  BY <1>1, <1>4, <1>5 DEF Collect, Frame
<1>7. s \in Saved
  BY <1>2, <1>3 DEF Saved
<1> HIDE DEF s
<1>8. q \in Frame /\ q.at = at /\ q.call = p.call
  BY <1>1, <1>3, <1>7 DEF Frame, Places
<1> HIDE DEF q
<1>9. Shaped(q)
  BY <1>2, <1>8 DEF Shaped, Saving, Resolved
<1>10. FramesOK(pc')
  BY <1>6, <1>8, <1>9, FramesMove
<1>11. QED
  BY <1>10, FramesOnly DEF Collect, history

LEMMA CollectNoneTyped ==
  ASSUME Typed, NEW c \in Clients, CollectNone(c)
  PROVE  Typed'
<1>1. pc[c] \in Frame /\ Shaped(pc[c]) /\ pc[c].at = "collect"
  BY FrameIs DEF CollectNone
<1> DEFINE q == [pc[c] EXCEPT !.at = "create"]
<1>2. pc' = [pc EXCEPT ![c] = q]
  BY DEF CollectNone, Goto
<1>3. q \in Frame /\ q.at = "create" /\ q.call = pc[c].call
  BY <1>1, PlaceIs DEF Places
<1> HIDE DEF q
<1>4. Shaped(q)
  BY <1>1, <1>3 DEF Shaped, Saving, Resolved
<1>5. QED
  BY <1>2, <1>3, <1>4, FramesMove, FramesOnly DEF CollectNone, history

(* The three calls of the operating system.                                 *)
LEMMA CreateTyped ==
  ASSUME Typed, NEW c \in Clients, Create(c)
  PROVE  Typed'
<1> DEFINE p == pc[c]
           q == [p EXCEPT !.out = "tmp", !.at = "fill"]
<1>1. p \in Frame /\ Shaped(p) /\ p.at = "create" /\ pc \in [Clients -> Frame]
  BY FrameIs DEF Create, Typed, FramesOK
<1>2. pc' = [pc EXCEPT ![c] = q]
  BY <1>1 DEF Create
<1>3. q \in Frame /\ q.at = "fill" /\ q.call = p.call
  BY <1>1 DEF Frame, Places
<1> HIDE DEF q
<1>4. Shaped(q)
  BY <1>1, <1>3 DEF Shaped, Saving, Resolved
<1>5. FramesOK(pc')
  BY <1>2, <1>3, <1>4, FramesMove
<1>6. tmp' = Torn /\ UNCHANGED <<up, registry, open, grounders, registered, console, text, file, edited>>
  BY DEF Create, history
<1>7. QED
  BY <1>5, <1>6 DEF Typed, FramesOK, RegistryOK, DiskOK, RestOK, registry

LEMMA FillTyped ==
  ASSUME Typed, NEW c \in Clients, Fill(c)
  PROVE  Typed'
<1> DEFINE p == pc[c]
           q == [Idle EXCEPT !.at = "rename", !.call = p.call, !.out = p.out]
<1>1. p \in Frame /\ Shaped(p) /\ p.at = "fill"
  BY FrameIs DEF Fill
<1>2. pc' = [pc EXCEPT ![c] = q]
  BY DEF Fill
<1>3. p.call \in Changing /\ p.snap \in Saved /\ p.out \in {"none", "tmp", "file", "gone"}
  BY <1>1 DEF Frame, Shaped, Saving
<1>4. q \in Frame /\ q.at = "rename" /\ q.call = p.call
  BY <1>3, IdleTyped DEF Frame, Idle, Places
<1> HIDE DEF q
<1>5. Shaped(q)
  BY <1>3, <1>4 DEF Shaped, Saving, Resolved
<1>6. FramesOK(pc')
  BY <1>2, <1>4, <1>5, FramesMove
<1>7. /\ UNCHANGED <<up, registry, open, grounders, registered, console, text, edited>>
      /\ tmp' \in {p.snap, tmp} /\ file' \in {p.snap, file}
  BY DEF Fill, history
<1>8. QED
  BY <1>3, <1>6, <1>7 DEF Typed, FramesOK, RegistryOK, DiskOK, RestOK, registry

LEMMA RenameTyped ==
  ASSUME Typed, NEW c \in Clients, Rename(c)
  PROVE  Typed'
<1> DEFINE renamed(p) == [p EXCEPT !.out = IF p.out = "tmp" THEN "file"
                                           ELSE IF p.out = "file" THEN "gone" ELSE p.out]
<1>1. UNCHANGED <<up, registry, open, grounders, registered, console, text, edited>>
  BY DEF Rename
<1>2. CASE /\ tmp # Missing /\ file' = tmp /\ tmp' = Missing
           /\ pc' = [x \in Clients |-> IF x = c THEN Idle ELSE renamed(pc[x])]
  <2>1. ASSUME NEW x \in Clients PROVE pc'[x] \in Frame /\ Shaped(pc'[x])
    <3>1. CASE x = c
      BY <1>2, <3>1, IdleTyped
    <3>2. CASE x # c
      <4> DEFINE q == renamed(pc[x])
      <4>1. pc[x] \in Frame /\ Shaped(pc[x])
        BY FrameIs
      <4>2. pc'[x] = q
        BY <1>2, <3>2
      <4>3. /\ q \in Frame /\ q.at = pc[x].at /\ q.call = pc[x].call /\ q.eng = pc[x].eng
            /\ q.def = pc[x].def /\ q.edit = pc[x].edit
        BY <4>1 DEF Frame
      <4>4. pc[x] = Idle => q = pc[x]
        <5> SUFFICES ASSUME pc[x] = Idle PROVE q = pc[x]
          OBVIOUS
        <5>1. pc[x].out = "none"
          BY DEF Idle
        <5>2. q = [pc[x] EXCEPT !.out = pc[x].out]
          BY <5>1
        <5>3. QED
          BY <5>2, <4>1 DEF Frame
      <4> HIDE DEF q
      <4>5. Shaped(q)
        BY <4>1, <4>3, <4>4 DEF Shaped, Saving, Resolved
      <4>6. QED
        BY <4>2, <4>3, <4>5
    <3>3. QED
      BY <3>1, <3>2
  <2>2. FramesOK(pc')
    BY <1>2, <2>1 DEF FramesOK
  <2>3. QED
    BY <1>1, <1>2, <2>2 DEF Typed, FramesOK, RegistryOK, DiskOK, RestOK, registry
<1>3. CASE Return(c) /\ UNCHANGED <<file, tmp>>
  BY <1>1, <1>3, ReturnTyped, FramesOnly DEF disk
<1>4. QED
  BY <1>2, <1>3 DEF Rename

LEMMA StopTyped ==
  ASSUME Typed, Stop
  PROVE  Typed'
<1>1. FramesOK(pc')
  BY IdleTyped DEF Stop, Forgotten, FramesOK
<1>2. QED
  BY <1>1 DEF Stop, Forgotten, Typed, FramesOK, RegistryOK, DiskOK, RestOK, registry, disk, history

(* Closing the engine of one database.                                      *)
LEMMA CloseTyped ==
  ASSUME Typed, NEW c \in Clients, NEW id \in Ids, pc[c].at \in {"add", "remove"}, Close(c, id)
  PROVE  /\ FramesOK(pc')
         /\ open' \in [Ids -> Engine \cup {NoEngine}]
         /\ console' \in [db : Ids \cup {Nobody}, closed : BOOLEAN]
<1>1. ASSUME NEW x \in Clients PROVE pc'[x] \in Frame /\ Shaped(pc'[x])
  <2>1. pc[x] \in Frame /\ Shaped(pc[x])
    BY FrameIs
  <2>2. CASE x = c
    <3> DEFINE q == [pc[c] EXCEPT !.at = "drop"]
    <3>1. pc[c] \in Frame /\ Shaped(pc[c])
      BY FrameIs
    <3>2. q \in Frame /\ q.at = "drop" /\ q.call = pc[c].call
      BY <3>1, PlaceIs DEF Places
    <3>3. pc'[x] = q
      BY <2>2, <3>2 DEF Close, Closed
    <3> HIDE DEF q
    <3>4. Shaped(q)
      BY <3>1, <3>2 DEF Shaped, Saving, Resolved, Changing
    <3>5. QED
      BY <3>2, <3>3, <3>4
  <2>3. CASE x # c
    <3> DEFINE q == [pc[x] EXCEPT !.closed = TRUE]
    <3>1. pc'[x] = pc[x] \/ (pc[x].at \in Resolved /\ pc'[x] = q)
      BY <2>3 DEF Close, Closed, Resolved
    <3>2. /\ q \in Frame /\ q.at = pc[x].at /\ q.call = pc[x].call /\ q.eng = pc[x].eng
          /\ q.def = pc[x].def /\ q.edit = pc[x].edit
      BY <2>1 DEF Frame
    <3> HIDE DEF q
    <3>3. pc[x].at \in Resolved => Shaped(q)
      BY <2>1, <3>2 DEF Shaped, Saving, Resolved
    <3>4. QED
      BY <2>1, <3>1, <3>2, <3>3
  <2>4. QED
    BY <2>2, <2>3
<1>2. FramesOK(pc')
  BY <1>1 DEF FramesOK, Close
<1>3. open' \in [Ids -> Engine \cup {NoEngine}]
  BY DEF Close, Typed, RegistryOK
<1>4. console' \in [db : Ids \cup {Nobody}, closed : BOOLEAN]
  BY DEF Close, Typed, RestOK
<1>5. QED
  BY <1>2, <1>3, <1>4

(* A database that is registered comes last in the order, or stays where it *)
(* is.                                                                      *)
LEMMA OrderGrows ==
  ASSUME NEW of \in [Ids -> Def \cup {NoDef}], NEW ids, NEW first, OrderOf(of, ids, first),
         NEW id \in Ids, NEW d \in Def
  PROVE  OrderOf([of EXCEPT ![id] = d], IF of[id] = NoDef THEN Append(ids, id) ELSE ids,
                 IF first = Nobody THEN id ELSE first)
<1> DEFINE new == [of EXCEPT ![id] = d]
<1>0. ids \in Seq(Ids) /\ d # NoDef /\ Len(ids) \in Nat /\ DOMAIN ids = 1 .. Len(ids)
  BY DefsAssumption DEF OrderOf
<1>1. Served(new) = Served(of) \cup {id}
  BY <1>0 DEF Served
<1>2. CASE of[id] # NoDef
  <2>1. id \in Served(of)
    BY <1>2 DEF Served
  <2>2. Served(new) = Served(of)
    BY <1>1, <2>1
  <2>5. PICK i \in DOMAIN ids : ids[i] = id
    BY <2>1 DEF OrderOf
  <2>6. Len(ids) # 0
    BY <1>0, <2>5
  <2>7. ids # <<>>
    BY <1>0, <2>6
  <2>3. first # Nobody
    <3>1. 1 \in DOMAIN ids
      BY <1>0, <2>6
    <3>2. ids[1] \in Ids /\ first = ids[1]
      BY <1>0, <2>7, <3>1 DEF OrderOf
    <3>3. QED
      BY <3>2, IdsAssumption
  <2>4. OrderOf(new, ids, first)
    BY <2>2 DEF OrderOf
  <2>8. QED
    BY <1>2, <2>3, <2>4
<1>3. CASE of[id] = NoDef
  <2> DEFINE more == Append(ids, id)
  <2>1. /\ more \in Seq(Ids) /\ DOMAIN more = 1 .. Len(ids) + 1 /\ more[Len(ids) + 1] = id
        /\ Len(more) = Len(ids) + 1
        /\ \A i \in DOMAIN ids : more[i] = ids[i]
    BY <1>0
  <2> HIDE DEF more
  <2>2. \A i \in DOMAIN ids : ids[i] # id
    BY <1>3 DEF OrderOf, Served
  <2>3. \A i, j \in DOMAIN more : more[i] = more[j] => i = j
    <3> SUFFICES ASSUME NEW i \in DOMAIN more, NEW j \in DOMAIN more, more[i] = more[j]
                 PROVE  i = j
      OBVIOUS
    <3>1. (i \in DOMAIN ids \/ i = Len(ids) + 1) /\ (j \in DOMAIN ids \/ j = Len(ids) + 1)
      BY <1>0, <2>1
    <3>2. QED
      BY <2>1, <2>2, <3>1 DEF OrderOf
  <2>4. {more[i] : i \in DOMAIN more} = Served(of) \cup {id}
    <3>1. DOMAIN more = DOMAIN ids \cup {Len(ids) + 1}
      BY <1>0, <2>1
    <3>2. QED
      BY <2>1, <3>1 DEF OrderOf
  <2>5. (IF first = Nobody THEN id ELSE first) = more[1]
    <3>1. CASE ids = <<>>
      <4>1. Len(ids) = 0 /\ first = Nobody
        BY <3>1 DEF OrderOf
      <4>2. QED
        BY <2>1, <4>1
    <3>2. CASE ids # <<>>
      <4>1. 1 \in DOMAIN ids /\ first = ids[1] /\ ids[1] \in Ids
        BY <1>0, <3>2 DEF OrderOf
      <4>2. 1 \in DOMAIN more
        BY <1>0, <2>1, <4>1
      <4>3. QED
        BY <2>1, <4>1, <4>2, IdsAssumption
    <3>3. QED
      BY <3>1, <3>2
  <2>6. more # <<>>
    BY <1>0, <2>1
  <2>7. OrderOf(new, more, IF first = Nobody THEN id ELSE first)
    BY <1>1, <2>1, <2>3, <2>4, <2>5, <2>6 DEF OrderOf
  <2>8. QED
    BY <1>3, <2>7 DEF more
<1>4. QED
  BY <1>2, <1>3

LEMMA AddTyped ==
  ASSUME Typed, IInv, NEW c \in Clients, Add(c)
  PROVE  Typed'
<1> DEFINE p == pc[c]
           id == p.db
<1>1. p \in Frame /\ Shaped(p) /\ p.at = "add" /\ id \in Ids
  BY FrameIs DEF Add, IInv, Held, HeldBy
<1>2. p.def \in Def /\ (p.edit => p.def.model \in Paths)
  BY <1>1 DEF Shaped
<1>3. Close(c, id)
  BY DEF Add
<1>4. /\ FramesOK(pc') /\ open' \in [Ids -> Engine \cup {NoEngine}]
      /\ console' \in [db : Ids \cup {Nobody}, closed : BOOLEAN]
  BY <1>1, <1>3, CloseTyped
<1>5. defs' \in [Ids -> Def \cup {NoDef}]
  BY <1>2 DEF Add, Typed, RegistryOK
<1>6. OrderOf(defs', order', primary')
  <2>1. OrderOf(defs, order, primary) /\ defs \in [Ids -> Def \cup {NoDef}]
    BY DEF Typed, RegistryOK
  <2>2. OrderOf([defs EXCEPT ![id] = p.def], IF defs[id] = NoDef THEN Append(order, id) ELSE order,
                IF primary = Nobody THEN id ELSE primary)
    BY <1>1, <1>2, <2>1, OrderGrows
  <2>3. QED
    BY <2>2 DEF Add
<1>7. edited' \in [Ids -> (Paths \cup {NoModel}) \X Nat]
  BY <1>1, <1>2 DEF Add, Typed, RestOK, DiskOK
<1>8. UNCHANGED <<up, grounders, registered, text, file, tmp>>
  BY DEF Add, disk
<1>9. QED
  BY <1>4, <1>5, <1>6, <1>7, <1>8 DEF Typed, RegistryOK, DiskOK, RestOK, FramesOK, OrderOf, Served

(* A database that is removed leaves the others where they were; the default *)
(* is only removed when it is alone.                                        *)
LEMMA OrderShrinks ==
  ASSUME NEW of \in [Ids -> Def \cup {NoDef}], NEW ids, NEW first, OrderOf(of, ids, first),
         NEW id \in Ids, of[id] # NoDef, id = first => Len(ids) = 1,
         NEW rest, rest = Without(ids, id),
         NEW next, next = IF first # id THEN first ELSE IF rest = <<>> THEN Nobody ELSE rest[1]
  PROVE  OrderOf([of EXCEPT ![id] = NoDef], rest, next)
<1> DEFINE new == [of EXCEPT ![id] = NoDef]
<1>a. PICK at : at = CHOOSE i \in DOMAIN ids : ids[i] = id
  OBVIOUS
<1>0. rest = [i \in 1 .. Len(ids) - 1 |-> IF i < at THEN ids[i] ELSE ids[i + 1]]
  BY <1>a DEF Without
<1>1. /\ ids \in Seq(Ids) /\ Len(ids) \in Nat /\ DOMAIN ids = 1 .. Len(ids)
      /\ \A i \in DOMAIN ids : ids[i] \in Ids
  BY DEF OrderOf
<1>2. Served(new) = Served(of) \ {id}
  BY DEF Served
<1>3. at \in DOMAIN ids /\ ids[at] = id /\ at \in Nat /\ 1 <= at /\ at <= Len(ids)
  <2>1. id \in Served(of)
    BY DEF Served
  <2>2. \E i \in DOMAIN ids : ids[i] = id
    BY <2>1 DEF OrderOf
  <2>3. at \in DOMAIN ids /\ ids[at] = id
    BY <1>a, <2>2
  <2>4. QED
    BY <1>1, <2>3
<1>4. /\ DOMAIN rest = 1 .. Len(ids) - 1 /\ Len(ids) - 1 \in Nat
      /\ \A i \in DOMAIN rest : i < at => rest[i] = ids[i] /\ i # at
      /\ \A i \in DOMAIN rest : ~(i < at) => rest[i] = ids[i + 1] /\ i + 1 # at
  <2>1. DOMAIN rest = 1 .. Len(ids) - 1 /\ Len(ids) - 1 \in Nat
    BY <1>0, <1>1, <1>3
  <2>2. ASSUME NEW i \in DOMAIN rest, i < at PROVE rest[i] = ids[i] /\ i # at
    BY <1>0, <1>3, <2>1, <2>2
  <2>3. ASSUME NEW i \in DOMAIN rest, ~(i < at) PROVE rest[i] = ids[i + 1] /\ i + 1 # at
    BY <1>0, <1>3, <2>1, <2>3
  <2>4. QED
    BY <2>1, <2>2, <2>3
<1>5. rest \in Seq(Ids) /\ Len(rest) = Len(ids) - 1
  <2>1. \A i \in 1 .. Len(ids) - 1 : i \in DOMAIN ids /\ i + 1 \in DOMAIN ids
    BY <1>1
  <2>2. rest \in [1 .. Len(ids) - 1 -> Ids]
    <3>1. \A i \in 1 .. Len(ids) - 1 : rest[i] \in Ids
      BY <1>1, <1>4, <2>1
    <3>2. QED
      BY <1>0, <3>1
  <2>3. QED
    BY <1>4, <2>2
<1>6. \A i, j \in DOMAIN rest : rest[i] = rest[j] => i = j
  <2> SUFFICES ASSUME NEW i \in DOMAIN rest, NEW j \in DOMAIN rest, rest[i] = rest[j]
               PROVE  i = j
    OBVIOUS
  <2>1. i \in Nat /\ j \in Nat /\ {i, i + 1, j, j + 1} \subseteq DOMAIN ids
    BY <1>1, <1>4
  <2>2. PICK k \in {i, i + 1} : rest[i] = ids[k] /\ (k = i <=> i < at)
    BY <1>4, <1>3, <2>1
  <2>3. PICK l \in {j, j + 1} : rest[j] = ids[l] /\ (l = j <=> j < at)
    BY <1>4, <1>3, <2>1
  <2>4. k = l
    BY <2>1, <2>2, <2>3 DEF OrderOf
  <2>5. QED
    BY <1>3, <2>1, <2>2, <2>3, <2>4
<1>7. {rest[i] : i \in DOMAIN rest} = Served(of) \ {id}
  <2>1. ASSUME NEW i \in DOMAIN rest PROVE rest[i] \in Served(of) \ {id}
    <3>1. i \in Nat /\ i \in DOMAIN ids /\ i + 1 \in DOMAIN ids
      BY <1>1, <1>4
    <3>2. CASE i < at
      <4>1. rest[i] = ids[i] /\ i # at
        BY <1>3, <1>4, <3>1, <3>2
      <4>2. QED
        BY <1>3, <3>1, <4>1 DEF OrderOf
    <3>3. CASE ~(i < at)
      <4>1. rest[i] = ids[i + 1] /\ i + 1 # at
        BY <1>3, <1>4, <3>1, <3>3
      <4>2. QED
        BY <1>3, <3>1, <4>1 DEF OrderOf
    <3>4. QED
      BY <3>2, <3>3
  <2>2. ASSUME NEW o \in Served(of) \ {id} PROVE \E i \in DOMAIN rest : rest[i] = o
    <3>1. PICK k \in DOMAIN ids : ids[k] = o
      BY DEF OrderOf
    <3>2. k # at /\ k \in Nat /\ 1 <= k /\ k <= Len(ids)
      BY <1>1, <1>3, <3>1
    <3>3. CASE k < at
      <4>1. k \in DOMAIN rest
        BY <1>3, <1>4, <3>2, <3>3
      <4>2. rest[k] = o
        BY <1>4, <3>1, <3>3, <4>1
      <4>3. QED
        BY <4>1, <4>2
    <3>4. CASE k > at
      <4>1. k - 1 \in DOMAIN rest /\ ~(k - 1 < at) /\ (k - 1) + 1 = k
        BY <1>3, <1>4, <3>2, <3>4
      <4>2. QED
        BY <1>4, <3>1, <4>1
    <3>5. k < at \/ k > at
      BY <1>3, <3>2
    <3>6. QED
      BY <3>3, <3>4, <3>5
  <2>3. QED
    BY <2>1, <2>2
<1>8. next = IF rest = <<>> THEN Nobody ELSE rest[1]
  <2>1. CASE first = id
    BY <2>1
  <2>2. CASE first # id
    <3>1. ids # <<>> /\ first = ids[1]
      BY <1>1, <1>3 DEF OrderOf
    <3>2. at # 1
      BY <1>3, <2>2, <3>1
    <3>3. Len(rest) # 0 /\ 1 < at /\ 1 \in 1 .. Len(ids) - 1
      BY <1>1, <1>3, <1>5, <3>2
    <3>4. rest # <<>> /\ rest[1] = ids[1]
      BY <1>4, <3>3
    <3>5. QED
      BY <2>2, <3>1, <3>4
  <2>3. QED
    BY <2>1, <2>2
<1>9. QED
  BY <1>2, <1>5, <1>6, <1>7, <1>8 DEF OrderOf

LEMMA RemoveTyped ==
  ASSUME Typed, IInv, NEW c \in Clients, Remove(c)
  PROVE  Typed'
<1> DEFINE id == pc[c].db
<1>1. id \in Ids /\ pc[c].at = "remove" /\ Close(c, id) /\ MayRemove(id)
  BY DEF Remove, IInv, Held, HeldBy
<1>2. /\ FramesOK(pc') /\ open' \in [Ids -> Engine \cup {NoEngine}]
      /\ console' \in [db : Ids \cup {Nobody}, closed : BOOLEAN]
  BY <1>1, CloseTyped
<1>3. defs' = [defs EXCEPT ![id] = NoDef] /\ defs' \in [Ids -> Def \cup {NoDef}]
  BY DEF Remove, Typed, RegistryOK
<1>4. OrderOf(defs', order', primary')
  <2>1. OrderOf(defs, order, primary) /\ defs \in [Ids -> Def \cup {NoDef}]
    BY DEF Typed, RegistryOK
  <2>3. PICK rest : rest = Without(order, id)
    OBVIOUS
  <2>2. PICK next : next = IF primary # id THEN primary ELSE IF rest = <<>> THEN Nobody ELSE rest[1]
    OBVIOUS
  <2>4. OrderOf([defs EXCEPT ![id] = NoDef], rest, next)
    <3>1. defs[id] # NoDef /\ (id = primary => Len(order) = 1)
      BY <1>1 DEF MayRemove
    <3> HIDE DEF id
    <3>2. QED
      BY <1>1, <2>1, <2>2, <2>3, <3>1, OrderShrinks, Zenon
  <2>5. order' = rest /\ primary' = next
    BY <2>2, <2>3 DEF Remove
  <2>6. QED
    BY <1>3, <2>4, <2>5
<1>5. UNCHANGED <<up, grounders, registered, text, file, tmp, edited>>
  BY DEF Remove, disk
<1>6. QED
  BY <1>2, <1>3, <1>4, <1>5 DEF Typed, RegistryOK, DiskOK, RestOK, FramesOK, OrderOf, Served

(* Numbering a set of positions in their order numbers each of them once.   *)
LEMMA RanksNumber ==
  ASSUME NEW n \in Nat, NEW K \in SUBSET (1 .. n)
  PROVE  /\ IsFiniteSet(K) /\ Cardinality(K) \in Nat
         /\ \A i \in K : Cardinality({j \in K : j <= i}) \in 1 .. Cardinality(K)
         /\ \A i, k \in K : Cardinality({j \in K : j <= i}) = Cardinality({j \in K : j <= k}) => i = k
         /\ \A r \in 1 .. Cardinality(K) : \E i \in K : Cardinality({j \in K : j <= i}) = r
<1> DEFINE Below(i) == {j \in K : j <= i}
           C == Cardinality(K)
           rank == [i \in K |-> Cardinality(Below(i))]
<1>1. IsFiniteSet(K) /\ C \in Nat
  <2>1. IsFiniteSet(1 .. n)
    BY FS_Interval
  <2>2. IsFiniteSet(K)
    BY <2>1, FS_Subset
  <2>3. QED
    BY <2>2, FS_CardinalityType
<1>2. ASSUME NEW i \in K PROVE Below(i) \in SUBSET K /\ i \in Below(i) /\ IsFiniteSet(Below(i))
  <2>1. Below(i) \in SUBSET K /\ i \in Below(i)
    OBVIOUS
  <2>2. QED
    BY <1>1, <2>1, FS_Subset
<1>3. ASSUME NEW i \in K PROVE Cardinality(Below(i)) \in 1 .. C
  <2>1. Cardinality(Below(i)) <= C /\ Cardinality(Below(i)) \in Nat
    BY <1>1, <1>2, FS_Subset, FS_CardinalityType
  <2>2. Cardinality(Below(i)) # 0
    BY <1>2, FS_EmptySet
  <2>3. QED
    BY <1>1, <2>1, <2>2
<1>4. ASSUME NEW i \in K, NEW k \in K, i <= k, Cardinality(Below(i)) = Cardinality(Below(k))
      PROVE  i = k
  <2>0. K \subseteq Nat
    OBVIOUS
  <2>1. Below(i) \in SUBSET Below(k)
    <3>1. ASSUME NEW j \in K, j <= i PROVE j <= k
      BY <1>4, <2>0, <3>1
    <3>2. QED
      BY <3>1
  <2>2. Below(i) = Below(k)
    BY <1>2, <1>4, <2>1, FS_Subset
  <2>3. k \in Below(i)
    BY <1>2, <2>2
  <2>4. QED
    BY <1>4, <2>3
<1>5. \A i, k \in K : Cardinality(Below(i)) = Cardinality(Below(k)) => i = k
  <2> SUFFICES ASSUME NEW i \in K, NEW k \in K, Cardinality(Below(i)) = Cardinality(Below(k))
               PROVE  i = k
    OBVIOUS
  <2>1. i <= k \/ k <= i
    OBVIOUS
  <2>2. QED
    BY <2>1, <1>4
<1>6. \A r \in 1 .. C : \E i \in K : Cardinality(Below(i)) = r
  <2>1. rank \in [K -> 1 .. C]
    BY <1>3
  <2>2. \A i, k \in K : rank[i] = rank[k] => i = k
    BY <1>5
  <2> HIDE DEF rank
  <2>3. rank \in Injection(K, 1 .. C)
    BY <2>1, <2>2 DEF Injection, IsInjective
  <2>4. IsFiniteSet(1 .. C) /\ Cardinality(1 .. C) = C
    <3>1. Cardinality(1 .. C) = IF 1 > C THEN 0 ELSE C - 1 + 1
      BY <1>1, FS_Interval
    <3>2. QED
      BY <1>1, <3>1, FS_Interval
  <2>5. rank \in Surjection(K, 1 .. C)
    BY <2>3, <2>4, FS_Injection
  <2>6. \A r \in 1 .. C : \E i \in K : rank[i] = r
    BY <2>5 DEF Surjection
  <2>7. QED
    BY <2>6 DEF rank
<1>7. QED
  BY <1>1, <1>3, <1>5, <1>6

(* The saved file lists each database once.                                 *)
LEMMA ByIdOnce ==
  /\ IsFiniteSet(Ids) /\ Len(ById) \in Nat /\ DOMAIN ById = 1 .. Len(ById)
  /\ \A i \in DOMAIN ById : ById[i] \in Ids
  /\ \A id \in Ids : \E i \in DOMAIN ById : ById[i] = id
  /\ \A i, j \in DOMAIN ById : ById[i] = ById[j] => i = j
<1>1. /\ Len(ById) \in Nat /\ DOMAIN ById = 1 .. Len(ById)
      /\ ById \in [1 .. Len(ById) -> Ids]
      /\ \A id \in Ids : \E i \in DOMAIN ById : ById[i] = id
  BY IdsAssumption
<1>2. ById \in Surjection(1 .. Len(ById), Ids)
  BY <1>1 DEF Surjection
<1>3. IsFiniteSet(1 .. Len(ById)) /\ Cardinality(1 .. Len(ById)) = Len(ById)
  <2>1. Cardinality(1 .. Len(ById)) = IF 1 > Len(ById) THEN 0 ELSE Len(ById) - 1 + 1
    BY <1>1, FS_Interval
  <2>2. QED
    BY <1>1, <2>1, FS_Interval
<1>4. Cardinality(Ids) = Len(ById)
  BY IdsAssumption
<1>5. IsFiniteSet(Ids) /\ ById \in Injection(1 .. Len(ById), Ids)
  BY <1>2, <1>3, <1>4, FS_Surjection
<1>6. QED
  BY <1>1, <1>5 DEF Injection, IsInjective

(* What a boot restores: what is saved and not configured, each once.       *)
LEMMA RestoredIs ==
  ASSUME NEW cfg, NEW saved, NEW back, back = Restored(cfg, saved)
  PROVE  /\ back \in Seq(Ids)
         /\ \A i, j \in DOMAIN back : back[i] = back[j] => i = j
         /\ \A i \in DOMAIN back : back[i] \in Marks(cfg, saved)
         /\ \A id \in Marks(cfg, saved) : \E i \in DOMAIN back : back[i] = id
<1> DEFINE K == {i \in DOMAIN ById : ById[i] \in Marks(cfg, saved)}
           Rank(i) == Cardinality({j \in K : j <= i})
           Place(n) == CHOOSE i \in K : Rank(i) = n
           C == Cardinality(K)
<1>1. back = [n \in 1 .. C |-> ById[Place(n)]]
  BY DEF Restored
<1>2. K \in SUBSET (1 .. Len(ById)) /\ Len(ById) \in Nat
  BY ByIdOnce
<1>3. /\ C \in Nat
      /\ \A i \in K : Rank(i) \in 1 .. C
      /\ \A n \in 1 .. C : \E i \in K : Rank(i) = n
      /\ \A i, k \in K : Rank(i) = Rank(k) => i = k
  <2> HIDE DEF K
  <2>1. QED
    BY <1>2, RanksNumber
<1> HIDE DEF Rank, C
<1>4. ASSUME NEW n \in 1 .. C PROVE Place(n) \in K /\ Rank(Place(n)) = n
  BY <1>3
<1>5. ASSUME NEW i \in K PROVE Place(Rank(i)) = i
  BY <1>3, <1>4
<1> HIDE DEF Place
<1>6. \A i \in K : i \in DOMAIN ById /\ ById[i] \in Marks(cfg, saved) /\ ById[i] \in Ids
  BY ByIdOnce
<1>7. back \in Seq(Ids) /\ DOMAIN back = 1 .. C
  <2>1. \A n \in 1 .. C : ById[Place(n)] \in Ids
    BY <1>4, <1>6
  <2>2. back \in [1 .. C -> Ids]
    BY <1>1, <2>1
  <2>3. QED
    BY <1>3, <2>2
<1>8. \A n \in 1 .. C : back[n] = ById[Place(n)]
  BY <1>1
<1>9. \A i, j \in DOMAIN back : back[i] = back[j] => i = j
  <2> SUFFICES ASSUME NEW i \in 1 .. C, NEW j \in 1 .. C, back[i] = back[j] PROVE i = j
    BY <1>7
  <2>1. Place(i) = Place(j)
    BY <1>4, <1>6, <1>8, ByIdOnce
  <2>2. QED
    BY <1>4, <2>1
<1>10. \A i \in DOMAIN back : back[i] \in Marks(cfg, saved)
  BY <1>4, <1>6, <1>7, <1>8
<1>11. ASSUME NEW id \in Marks(cfg, saved) PROVE \E i \in DOMAIN back : back[i] = id
  <2>1. id \in Ids
    BY DEF Marks
  <2>2. PICK i \in DOMAIN ById : ById[i] = id
    BY <2>1, ByIdOnce
  <2>3. i \in K
    BY <2>2
  <2>4. Rank(i) \in 1 .. C /\ back[Rank(i)] = id
    BY <1>3, <1>5, <1>8, <2>2, <2>3
  <2>5. QED
    BY <1>7, <2>4
<1>12. QED
  BY <1>7, <1>9, <1>10, <1>11

(* A boot serves each of what is configured, then of what is restored.      *)
LEMMA BootTyped ==
  ASSUME Typed, Boot
  PROVE  Typed'
<1>1. PICK cfg \in Configs : Serve(cfg, file)
  BY DEF Boot
<1>2. file \in Saved /\ UNCHANGED disk /\ Forgotten /\ edited' = [id \in Ids |-> <<NoModel, 0>>]
  BY DEF Boot, Typed, DiskOK
<1>3. PICK back : back = Restored(cfg, file)
  OBVIOUS
<1>4. PICK head : head = [i \in DOMAIN cfg |-> cfg[i][1]]
  OBVIOUS
<1>5. PICK ids : ids = head \o back
  OBVIOUS
<1>6. PICK first : first = IF ids = <<>> THEN Nobody ELSE ids[1]
  OBVIOUS
<1>7. /\ up' = TRUE /\ order' = ids /\ primary' = first
      /\ defs' = [id \in Ids |-> IF \E i \in DOMAIN cfg : cfg[i][1] = id
                                 THEN ConfigDef(cfg, id) ELSE file[id]]
      /\ open' = [id \in Ids |-> IF id = first THEN Opened(defs'[id]) ELSE NoEngine]
      /\ console' = [db |-> first, closed |-> FALSE]
      /\ registered' = Marks(cfg, file)
  BY <1>1, <1>3, <1>4, <1>5, <1>6 DEF Serve
<1>8. cfg \in Seq(Ids \X Def) /\ Len(cfg) \in Nat /\ DOMAIN cfg = 1 .. Len(cfg)
      /\ \A i, j \in DOMAIN cfg : cfg[i][1] = cfg[j][1] => i = j
  BY ConfigAssumption
<1>9. \A i \in DOMAIN cfg : cfg[i][1] \in Ids /\ cfg[i][2] \in Def
  BY <1>8
<1>10. /\ head \in Seq(Ids) /\ Len(head) = Len(cfg) /\ DOMAIN head = DOMAIN cfg
       /\ \A i \in DOMAIN cfg : head[i] = cfg[i][1]
  <2>1. head \in [1 .. Len(cfg) -> Ids]
    BY <1>4, <1>8, <1>9
  <2>2. QED
    BY <1>4, <1>8, <2>1
<1>11. /\ back \in Seq(Ids) /\ Len(back) \in Nat /\ DOMAIN back = 1 .. Len(back)
       /\ \A i, j \in DOMAIN back : back[i] = back[j] => i = j
       /\ \A i \in DOMAIN back : back[i] \in Marks(cfg, file)
       /\ \A id \in Marks(cfg, file) : \E i \in DOMAIN back : back[i] = id
  BY <1>3, RestoredIs
<1>12. /\ ids \in Seq(Ids) /\ Len(ids) = Len(cfg) + Len(back) /\ DOMAIN ids = 1 .. Len(cfg) + Len(back)
       /\ \A i \in 1 .. Len(cfg) : ids[i] = cfg[i][1]
       /\ \A i \in Len(cfg) + 1 .. Len(cfg) + Len(back) :
            ids[i] = back[i - Len(cfg)] /\ i - Len(cfg) \in DOMAIN back
  <2>1. Len(head) \in Nat /\ DOMAIN head = 1 .. Len(head)
    BY <1>8, <1>10
  <2>2. head \in Seq(Ids) /\ back \in Seq(Ids)
    BY <1>10, <1>11
  <2>3. ids \in Seq(Ids) /\ Len(ids) = Len(head) + Len(back) /\ DOMAIN ids = 1 .. Len(head) + Len(back)
    BY <1>5, <2>2
  <2>4. ASSUME NEW i \in 1 .. Len(head) PROVE ids[i] = head[i]
    BY <1>5, <1>10, <1>11, <2>1
  <2>5. ASSUME NEW i \in Len(head) + 1 .. Len(head) + Len(back)
        PROVE  ids[i] = back[i - Len(head)] /\ i - Len(head) \in DOMAIN back
    <3>1. i - Len(head) \in 1 .. Len(back)
      BY <1>11, <2>1
    <3>2. ids[i] = back[i - Len(head)]
      BY <1>5, <1>10, <1>11, <2>1
    <3>3. QED
      BY <1>11, <3>1, <3>2
  <2>6. QED
    BY <1>8, <1>10, <2>1, <2>3, <2>4, <2>5
<1>13. ASSUME NEW id \in Ids
       PROVE  /\ (\E i \in DOMAIN cfg : cfg[i][1] = id) => defs'[id] \in Def
              /\ ~(\E i \in DOMAIN cfg : cfg[i][1] = id) => defs'[id] = file[id]
  BY <1>7, <1>9 DEF ConfigDef
<1>14. defs' \in [Ids -> Def \cup {NoDef}]
  <2>1. \A id \in Ids : defs'[id] \in Def \cup {NoDef}
    BY <1>2, <1>13 DEF Saved
  <2>2. DOMAIN defs' = Ids /\ defs' = [id \in Ids |-> defs'[id]]
    BY <1>7
  <2>3. QED
    BY <2>1, <2>2
<1>15. \A i, j \in DOMAIN ids : ids[i] = ids[j] => i = j
  <2> SUFFICES ASSUME NEW i \in DOMAIN ids, NEW j \in DOMAIN ids, ids[i] = ids[j], i <= j
               PROVE  i = j
    BY <1>8, <1>11, <1>12
  <2>1. CASE j <= Len(cfg)
    <3>1. i \in DOMAIN cfg /\ j \in DOMAIN cfg
      BY <1>8, <1>11, <1>12, <2>1
    <3>2. cfg[i][1] = cfg[j][1]
      BY <1>8, <1>12, <3>1
    <3>3. QED
      BY <1>8, <3>1, <3>2
  <2>2. CASE i > Len(cfg)
    <3>1. /\ i \in Len(cfg) + 1 .. Len(cfg) + Len(back) /\ j \in Len(cfg) + 1 .. Len(cfg) + Len(back)
      BY <1>8, <1>11, <1>12, <2>2
    <3>2. i - Len(cfg) = j - Len(cfg)
      BY <1>11, <1>12, <3>1
    <3>3. QED
      BY <1>8, <1>11, <3>1, <3>2
  <2>3. CASE i <= Len(cfg) /\ j > Len(cfg)
    <3>1. i \in DOMAIN cfg /\ j \in Len(cfg) + 1 .. Len(cfg) + Len(back)
      BY <1>8, <1>11, <1>12, <2>3
    <3>2. ids[j] \in Marks(cfg, file) /\ ids[i] = cfg[i][1]
      BY <1>8, <1>11, <1>12, <3>1
    <3>3. QED
      BY <3>1, <3>2 DEF Marks
  <2>4. QED
    BY <1>8, <1>11, <1>12, <2>1, <2>2, <2>3
<1>16. {ids[i] : i \in DOMAIN ids} = Served(defs')
  <2>1. ASSUME NEW i \in DOMAIN ids PROVE ids[i] \in Served(defs')
    <3>1. CASE i <= Len(cfg)
      <4>1. i \in DOMAIN cfg /\ ids[i] = cfg[i][1] /\ ids[i] \in Ids
        BY <1>8, <1>9, <1>11, <1>12, <3>1
      <4>2. QED
        BY <1>13, <4>1, NamesDiffer DEF Served
    <3>2. CASE i > Len(cfg)
      <4>1. i \in Len(cfg) + 1 .. Len(cfg) + Len(back)
        BY <1>8, <1>11, <1>12, <3>2
      <4>2. ids[i] \in Marks(cfg, file)
        BY <1>11, <1>12, <4>1
      <4>3. QED
        BY <1>13, <4>2 DEF Served, Marks
    <3>3. QED
      BY <1>8, <1>11, <1>12, <3>1, <3>2
  <2>2. ASSUME NEW id \in Served(defs') PROVE \E i \in DOMAIN ids : ids[i] = id
    <3>1. id \in Ids /\ defs'[id] # NoDef
      BY DEF Served
    <3>2. CASE \E i \in DOMAIN cfg : cfg[i][1] = id
      <4>1. PICK i \in DOMAIN cfg : cfg[i][1] = id
        BY <3>2
      <4>2. i \in DOMAIN ids /\ ids[i] = id
        BY <1>8, <1>11, <1>12, <4>1
      <4>3. QED
        BY <4>2
    <3>3. CASE ~ \E i \in DOMAIN cfg : cfg[i][1] = id
      <4>1. id \in Marks(cfg, file)
        BY <1>13, <3>1, <3>3 DEF Marks
      <4>2. PICK i \in DOMAIN back : back[i] = id
        BY <1>11, <4>1
      <4>3. /\ Len(cfg) + i \in Len(cfg) + 1 .. Len(cfg) + Len(back)
            /\ (Len(cfg) + i) - Len(cfg) = i
        BY <1>8, <1>11, <4>2
      <4>4. Len(cfg) + i \in DOMAIN ids /\ ids[Len(cfg) + i] = id
        BY <1>8, <1>12, <4>2, <4>3
      <4>5. QED
        BY <4>4
    <3>4. QED
      BY <3>2, <3>3
  <2>3. QED
    BY <2>1, <2>2
<1>17. OrderOf(defs', order', primary')
  <2>1. OrderOf(defs', ids, first)
    BY <1>6, <1>12, <1>15, <1>16 DEF OrderOf
  <2>2. QED
    BY <1>7, <2>1
<1>18. first \in Ids \cup {Nobody} /\ (first \in Ids => first \in Served(defs'))
  <2>1. CASE ids = <<>>
    BY <1>6, <2>1, IdsAssumption
  <2>2. CASE ids # <<>>
    <3>1. 1 \in DOMAIN ids /\ first = ids[1]
      BY <1>6, <1>8, <1>11, <1>12, <2>2
    <3>2. QED
      BY <1>12, <1>16, <3>1
  <2>3. QED
    BY <2>1, <2>2
<1>19. open' \in [Ids -> Engine \cup {NoEngine}]
  <2>1. ASSUME NEW id \in Ids, id = first PROVE Opened(defs'[id]) \in Engine
    <3>1. defs'[id] \in Def
      BY <1>14, <1>18, <2>1 DEF Served
    <3>2. QED
      BY <3>1, OpenedType
  <2>2. QED
    BY <1>7, <2>1
<1>20. FramesOK(pc')
  BY <1>2, IdleTyped DEF Forgotten, FramesOK
<1>21. registered' \subseteq Ids /\ console' \in [db : Ids \cup {Nobody}, closed : BOOLEAN]
  BY <1>7, <1>18 DEF Marks
<1>22. grounders' \in [Ids -> Paths \cup {NoGrounder}] /\ edited' \in [Ids -> (Paths \cup {NoModel}) \X Nat]
  BY <1>2 DEF Forgotten
<1>23. QED
  BY <1>2, <1>7, <1>14, <1>17, <1>19, <1>20, <1>21, <1>22
     DEF Typed, FramesOK, RegistryOK, DiskOK, RestOK, OrderOf, Served, disk

LEMMA InitTyped == Init => Typed
<1> SUFFICES ASSUME Init PROVE Typed
  OBVIOUS
<1>1. FramesOK(pc)
  BY IdleTyped DEF Init, FramesOK
<1>2. OrderOf(defs, order, primary)
  <2>1. Served(defs) = {} /\ order = <<>> /\ primary = Nobody
    BY DEF Init, Served
  <2>2. QED
    BY <2>1 DEF OrderOf
<1>3. QED
  BY <1>1, <1>2, DefsAssumption DEF Init, Typed, RegistryOK, DiskOK, RestOK

LEMMA NextTyped == ASSUME Typed, IInv, [Next]_vars PROVE Typed'
<1>1. CASE UNCHANGED vars
  BY <1>1, FramesOnly DEF vars, history, Typed, FramesOK
<1>2. ASSUME NEW c \in Clients, Act(c) PROVE Typed'
  BY <1>2, CallsTyped, GetTyped, GroundTyped, CheckTyped, ReturnsTyped, WriteModelTyped, AddTyped,
     RemoveTyped, DropTyped, MarkTyped, CollectTyped, CollectNoneTyped, CreateTyped, FillTyped,
     RenameTyped DEF Act
<1>3. QED
  BY <1>1, <1>2, BootTyped, StopTyped DEF Next

THEOREM Types == Spec => []Typed
<1>1. Init => Typed
  BY InitTyped
<1>2. Typed /\ IInv /\ [Next]_vars => Typed'
  BY NextTyped
<1>3. QED
  BY <1>1, <1>2, Invariance, PTL DEF Spec

(* Whatever is registered, replaced, removed or restored, the registry      *)
(* names each database it serves once in its order, the first of them is    *)
(* the default, and every file, mark and handler has its type.              *)
THEOREM TypeCorrect == Spec => []TypeOK
<1>1. Typed => TypeOK
  <2> SUFFICES ASSUME Typed PROVE TypeOK
    OBVIOUS
  <2>1. /\ order \in Seq(Ids) /\ Len(order) \in Nat /\ DOMAIN order = 1 .. Len(order)
        /\ \A i, j \in DOMAIN order : order[i] = order[j] => i = j
        /\ {order[i] : i \in DOMAIN order} = Served(defs)
        /\ primary = IF order = <<>> THEN Nobody ELSE order[1]
    BY DEF Typed, RegistryOK, OrderOf
  <2>2. Len(order) = Cardinality(Served(defs))
    <3>1. order \in [1 .. Len(order) -> Served(defs)]
      BY <2>1
    <3>2. order \in Surjection(1 .. Len(order), Served(defs)) /\ order \in Injection(1 .. Len(order), Served(defs))
      BY <2>1, <3>1 DEF Surjection, Injection, IsInjective
    <3>3. Cardinality(1 .. Len(order)) = IF 1 > Len(order) THEN 0 ELSE Len(order) - 1 + 1
      BY <2>1, FS_Interval
    <3>4. IsFiniteSet(1 .. Len(order)) /\ Cardinality(1 .. Len(order)) = Len(order)
      BY <2>1, <3>3, FS_Interval
    <3>5. QED
      BY <3>2, <3>4, FS_Surjection
  <2>3. primary \in Ids \cup {Nobody}
    BY <2>1
  <2>4. ASSUME NEW c \in Clients
        PROVE  /\ pc[c].at \in Places /\ pc[c].call \in Changing \cup {"sql", "idle"}
               /\ pc[c].snap \in Saved /\ pc[c].out \in {"none", "tmp", "file", "gone"}
               /\ (pc[c].at = "idle" => pc[c] = Idle)
    BY FrameIs DEF Frame, Shaped
  <2>5. QED
    BY <2>1, <2>2, <2>3, <2>4 DEF TypeOK, Typed, RegistryOK, DiskOK, RestOK, Served
<1>2. QED
  BY <1>1, Types, PTL

-----------------------------------------------------------------------------
(* Edits.  What a database was last switched to is a model file, which has  *)
(* at least that text from then on, and so has an engine opened since.      *)
EditsKnown ==
  \A id \in Ids :
    \/ edited[id] = <<NoModel, 0>>
    \/ edited[id][1] \in Paths /\ edited[id][2] <= text[edited[id][1]]

EnginesFresh ==
  \A id \in Ids : open[id] # NoEngine =>
    (edited[id][1] = open[id].def.model => open[id].text >= edited[id][2])

Fresh == EditsKnown /\ EnginesFresh

(* Model files are only written to, and engines closed.                     *)
LEMMA FreshStays ==
  ASSUME Typed, Fresh, Typed', UNCHANGED edited,
         \A id \in Ids : open'[id] \in {open[id], NoEngine},
         \A p \in Paths : text'[p] >= text[p]
  PROVE  Fresh'
<1>1. EditsKnown'
  <2> SUFFICES ASSUME NEW id \in Ids, edited[id] # <<NoModel, 0>>
               PROVE  edited[id][1] \in Paths /\ edited[id][2] <= text'[edited[id][1]]
    BY DEF EditsKnown
  <2>1. edited[id][1] \in Paths /\ edited[id][2] <= text[edited[id][1]]
    BY DEF Fresh, EditsKnown
  <2>2. edited[id][2] \in Nat /\ text[edited[id][1]] \in Nat /\ text'[edited[id][1]] \in Nat
    BY <2>1 DEF Typed, RestOK, DiskOK
  <2>3. QED
    BY <2>1, <2>2
<1>2. EnginesFresh'
  BY DEF Fresh, EnginesFresh
<1>3. QED
  BY <1>1, <1>2 DEF Fresh

LEMMA GetFresh ==
  ASSUME Typed, Fresh, Typed', NEW c \in Clients, Get(c)
  PROVE  Fresh'
<1> DEFINE id == pc[c].db
<1>1. UNCHANGED <<edited, text>>
  BY DEF Get, history, disk
<1>2. CASE UNCHANGED open
  BY <1>1, <1>2, FreshStays DEF Typed, DiskOK
<1>3. CASE id \in Ids /\ defs[id] # NoDef /\ open' = [open EXCEPT ![id] = Opened(defs[id])]
  <2>1. PICK d \in Def : d = defs[id]
    BY <1>3 DEF Typed, RegistryOK
  <2>2. PICK e \in Engine : e = Opened(d) /\ e.def = d
                            /\ e.text = IF d.model = NoModel THEN 0 ELSE text[d.model]
    BY OpenedType
  <2>3. open'[id] = e /\ \A o \in Ids : o # id => open'[o] = open[o]
    BY <1>3, <2>1, <2>2 DEF Typed, RegistryOK
  <2>4. edited[id][1] = e.def.model => e.text >= edited[id][2]
    <3>1. CASE edited[id] = <<NoModel, 0>>
      <4>1. e.text \in Nat
        BY DEF Engine
      <4>2. QED
        BY <3>1, <4>1
    <3>2. CASE edited[id] # <<NoModel, 0>>
      <4>1. edited[id][1] \in Paths /\ edited[id][2] <= text[edited[id][1]]
        BY <1>3, <3>2 DEF Fresh, EditsKnown
      <4>2. edited[id][2] \in Nat /\ text[edited[id][1]] \in Nat
        BY <1>3, <4>1 DEF Typed, RestOK, DiskOK
      <4>3. QED
        BY <2>2, <4>1, <4>2, NamesDiffer
    <3>3. QED
      BY <3>1, <3>2
  <2>5. EnginesFresh'
    BY <1>1, <1>3, <2>3, <2>4 DEF Fresh, EnginesFresh
  <2>6. QED
    BY <1>1, <2>5 DEF Fresh, EditsKnown
<1>4. QED
  BY <1>2, <1>3 DEF Get

LEMMA AddFresh ==
  ASSUME Typed, IInv, Fresh, NEW c \in Clients, Add(c)
  PROVE  Fresh'
<1> DEFINE p  == pc[c]
           id == p.db
<1>1. p \in Frame /\ Shaped(p) /\ p.at = "add" /\ id \in Ids /\ Close(c, id)
  BY FrameIs DEF Add, IInv, Held, HeldBy
<1>2. open'[id] = NoEngine /\ \A o \in Ids : o # id => open'[o] = open[o]
  BY <1>1 DEF Close, Typed, RegistryOK
<1>3. UNCHANGED text
      /\ edited' = [edited EXCEPT ![id] = IF p.edit THEN <<p.def.model, text[p.def.model]>> ELSE @]
  BY DEF Add, disk
<1>4. \A o \in Ids : o # id => edited'[o] = edited[o]
  BY <1>3 DEF Typed, RestOK
<1>5. edited'[id] = IF p.edit THEN <<p.def.model, text[p.def.model]>> ELSE edited[id]
  BY <1>1, <1>3 DEF Typed, RestOK
<1>6. EnginesFresh'
  BY <1>2, <1>4 DEF Fresh, EnginesFresh
<1>7. p.edit => p.def.model \in Paths /\ text[p.def.model] \in Nat
  BY <1>1 DEF Shaped, Typed, DiskOK
<1>8. EditsKnown'
  <2>1. CASE p.edit
    <3>1. edited'[id][1] \in Paths /\ edited'[id][2] <= text'[edited'[id][1]]
      BY <1>3, <1>5, <1>7, <2>1
    <3>2. QED
      BY <1>3, <1>4, <3>1 DEF Fresh, EditsKnown
  <2>2. CASE ~p.edit
    BY <1>3, <1>4, <1>5, <2>2 DEF Fresh, EditsKnown
  <2>3. QED
    BY <2>1, <2>2
<1>9. QED
  BY <1>6, <1>8 DEF Fresh

LEMMA NextFresh == ASSUME Typed, IInv, Fresh, Typed', [Next]_vars PROVE Fresh'
<1>1. \A p \in Paths : text[p] \in Nat
  BY DEF Typed, DiskOK
<1>2. CASE UNCHANGED <<open, text, edited>>
  BY <1>1, <1>2, FreshStays
<1>3. CASE Boot
  <2>1. edited' = [id \in Ids |-> <<NoModel, 0>>]
    BY <1>3 DEF Boot
  <2>2. \A id \in Ids : open'[id] # NoEngine => open'[id].text \in Nat
    BY DEF Typed, RegistryOK, Engine
  <2>3. EditsKnown'
    BY <2>1 DEF EditsKnown
  <2>4. EnginesFresh'
    BY <2>1, <2>2 DEF EnginesFresh
  <2>5. QED
    BY <2>3, <2>4 DEF Fresh
<1>4. CASE Stop
  <2>1. (\A id \in Ids : open'[id] = NoEngine) /\ UNCHANGED <<text, edited>>
    BY <1>4 DEF Stop, disk, history
  <2>2. QED
    BY <1>1, <2>1, FreshStays
<1>5. ASSUME NEW c \in Clients, WriteModel(c) PROVE Fresh'
  <2>1. /\ UNCHANGED <<open, edited>>
        /\ text' = [text EXCEPT ![IF pc[c].call = "generate" \/ pc[c].def.model = NoModel
                                  THEN Gen[pc[c].db] ELSE pc[c].def.model] = @ + 1]
    BY <1>5 DEF WriteModel, history
  <2>2. PICK path : text' = [text EXCEPT ![path] = @ + 1]
    BY <2>1
  <2>3. \A p \in Paths : text'[p] >= text[p]
    BY <1>1, <2>2 DEF Typed, DiskOK
  <2>4. QED
    BY <2>1, <2>3, FreshStays
<1>6. ASSUME NEW c \in Clients, Remove(c) PROVE Fresh'
  <2>1. Close(c, pc[c].db) /\ UNCHANGED <<text, edited>>
    BY <1>6 DEF Remove, disk
  <2>2. \A id \in Ids : open'[id] \in {open[id], NoEngine}
    BY <2>1 DEF Close, Typed, RegistryOK
  <2>3. QED
    BY <1>1, <2>1, <2>2, FreshStays
<1>7. ASSUME NEW c \in Clients, Act(c) PROVE Fresh'
  <2>1. CASE \/ AskSQL(c) \/ Register(c) \/ Unregister(c) \/ Generate(c) \/ Edit(c)
    <3>1. UNCHANGED <<open, text, edited>>
      BY <2>1 DEF AskSQL, Register, Unregister, Generate, Edit, Begin, disk
    <3>2. QED
      BY <1>2, <3>1
  <2>2. CASE \/ Ground(c) \/ Check(c) \/ Exec(c) \/ RemoveRefused(c) \/ DropGrounder(c) \/ Mark(c)
             \/ Collect(c) \/ CollectNone(c) \/ Create(c) \/ Fill(c) \/ Rename(c) \/ Fail(c)
    <3>1. UNCHANGED <<open, text, edited>>
      BY <2>2 DEF Ground, Check, Exec, RemoveRefused, DropGrounder, Mark, Collect, CollectNone, Create,
                  Fill, Rename, Fail, disk, history
    <3>2. QED
      BY <1>2, <3>1
  <2>3. QED
    BY <1>5, <1>6, <1>7, <2>1, <2>2, GetFresh, AddFresh DEF Act
<1>8. CASE UNCHANGED vars
  BY <1>2, <1>8 DEF vars, disk, history
<1>9. QED
  BY <1>3, <1>4, <1>7, <1>8 DEF Next

(* As soon as the caller of a model's edit is answered, no engine of that   *)
(* database serves the model from before the edit, whatever other handlers  *)
(* open, replace or remove meanwhile.                                       *)
THEOREM EditsAreServed == Spec => []EditsAreLive
<1>1. Init => Fresh
  BY DEF Init, Fresh, EditsKnown, EnginesFresh
<1>2. Typed /\ IInv /\ Fresh /\ Typed' /\ [Next]_vars => Fresh'
  BY NextFresh
<1>3. Fresh /\ IInv => EditsAreLive
  BY DEF Fresh, EnginesFresh, IInv, Current, EditsAreLive
<1>4. QED
  BY <1>1, <1>2, <1>3, Types, Invariance, PTL DEF Spec

-----------------------------------------------------------------------------
(* What is saved, while no two changes overlap.  What is marked and what is *)
(* saved differ from what is served only as long as a change is in          *)
(* progress, and how far it is tells in what.                               *)
Off == Ids \ ConfigIds

Agree(saved) == \A id \in Off : saved[id] = defs[id]

Marked == \A id \in Off : id \in registered <=> defs[id] # NoDef

Filed == ~unsaved => Agree(file)

Early == {"get", "ground", "write", "add", "remove"}
Late  == {"collect", "create", "fill", "rename"}

Stage(p) ==
  /\ p.at \in Early => Marked /\ Filed
  /\ p.at \in {"drop", "mark"} =>
       /\ \A id \in Off \ {p.db} : id \in registered <=> defs[id] # NoDef
       /\ p.call = "unregister" <=> defs[p.db] = NoDef
  /\ p.at \in Late => Marked
  /\ p.at = "collect" =>
       \A id \in Off : (\E i \in DOMAIN p.todo : p.todo[i] = id) \/ p.snap[id] = defs[id]
  /\ p.at \in {"create", "fill"} => Agree(p.snap)
  /\ p.at = "fill" => p.out = "tmp"
  /\ p.at = "rename" => tmp \in Saved /\ Agree(tmp)

Changes(c) == pc[c].call \in Changing

Sound ==
  /\ file # Torn
  /\ \A c, o \in Clients : Changes(c) /\ Changes(o) => c = o
  /\ \A c \in Clients : Changes(c) => Stage(pc[c])
  /\ up /\ (\A c \in Clients : ~Changes(c)) => Marked /\ Filed

Kept == unsaved \in BOOLEAN /\ (~overlapped => Sound)

(* Everything that is compared.                                             *)
compared == <<config, defs, registered, file, unsaved>>

LEMMA Same ==
  ASSUME UNCHANGED compared
  PROVE  /\ Off' = Off /\ (Marked <=> Marked') /\ (Filed <=> Filed')
         /\ \A saved : Agree(saved) <=> Agree(saved)'
  BY DEF compared, Off, ConfigIds, Marked, Filed, Agree

(* The one change in progress goes on, or ends.                             *)
LEMMA ChangeGoesOn ==
  ASSUME Sound, NEW c \in Clients, Changes(c), Changes(c)', Stage(pc[c])', file' # Torn,
         \A x \in Clients \ {c} : pc'[x].call = pc[x].call
  PROVE  Sound'
  BY DEF Sound, Changes

LEMMA ChangeEnds ==
  ASSUME Sound, NEW c \in Clients, Changes(c), ~Changes(c)', Marked', Filed', file' # Torn,
         \A x \in Clients \ {c} : pc'[x].call = pc[x].call
  PROVE  Sound'
  BY DEF Sound, Changes

(* Handlers that change nothing yet, or never do.                           *)
LEMMA EarlySound ==
  ASSUME Typed, Sound, NEW c \in Clients, NEW q, pc' = [pc EXCEPT ![c] = q],
         UNCHANGED <<up, compared>>, UNCHANGED tmp,
         q.call \in Changing => pc[c].call \in Changing /\ q.at \in Early,
         pc[c].call \in Changing => pc[c].at \in Early
  PROVE  Sound'
<1>1. pc'[c] = q /\ \A x \in Clients \ {c} : pc'[x] = pc[x]
  BY DEF Typed, FramesOK
<1>2. UNCHANGED compared /\ file' # Torn
  BY DEF compared, Sound
<1>3. CASE pc[c].call \in Changing
  <2>1. Marked' /\ Filed'
    BY <1>2, <1>3, Same DEF Sound, Stage, Changes
  <2>2. CASE q.call \in Changing
    <3>1. Stage(pc[c])'
      BY <1>1, <2>1, <2>2 DEF Stage, Early, Late
    <3>2. Changes(c) /\ Changes(c)'
      BY <1>1, <1>3, <2>2 DEF Changes
    <3>3. QED
      BY <1>1, <1>2, <3>1, <3>2, ChangeGoesOn
  <2>3. CASE q.call \notin Changing
    <3>1. Changes(c) /\ ~Changes(c)'
      BY <1>1, <1>3, <2>3 DEF Changes
    <3>2. QED
      BY <1>1, <1>2, <2>1, <3>1, ChangeEnds
  <2>4. QED
    BY <2>2, <2>3
<1>4. CASE pc[c].call \notin Changing
  <2>1. \A x \in Clients : Changes(x)' <=> Changes(x)
    BY <1>1, <1>4 DEF Changes
  <2>2. \A x \in Clients : Changes(x) => pc'[x] = pc[x]
    BY <1>1, <1>4 DEF Changes
  <2>3. ASSUME NEW x \in Clients, Changes(x) PROVE Stage(pc[x])'
    <3>1. Stage(pc[x]) /\ pc'[x] = pc[x]
      BY <2>2, <2>3 DEF Sound
    <3>2. UNCHANGED <<defs, registered, tmp>>
      BY <1>2 DEF compared
    <3>3. QED
      BY <1>2, <3>1, <3>2, Same DEF Stage
  <2>4. up' /\ (\A x \in Clients : ~Changes(x)') => Marked' /\ Filed'
    BY <1>2, <2>1, Same DEF Sound
  <2>5. QED
    BY <1>2, <2>1, <2>3, <2>4 DEF Sound
<1>5. QED
  BY <1>3, <1>4

LEMMA BeginKept ==
  ASSUME Typed, Kept, NEW c \in Clients, NEW q, Begin(c, q), q.call \in Changing => q.at \in Early
  PROVE  Kept'
<1> SUFFICES ASSUME ~overlapped' PROVE Sound'
  BY DEF Kept, Begin
<1>1. /\ Sound /\ up /\ pc[c] = Idle /\ pc' = [pc EXCEPT ![c] = q]
      /\ UNCHANGED <<up, compared>> /\ UNCHANGED tmp
      /\ q.call \in Changing => \A o \in Clients : ~Changes(o)
  BY DEF Kept, Begin, compared, registry, disk, Changes
<1>2. pc[c].call \notin Changing
  BY <1>1, IdleTyped DEF Changing
<1>3. CASE q.call \notin Changing
  BY <1>1, <1>2, <1>3, EarlySound
<1>4. CASE q.call \in Changing
  <2>1. pc'[c] = q /\ \A x \in Clients \ {c} : pc'[x] = pc[x]
    BY <1>1 DEF Typed, FramesOK
  <2>2. Changes(c)' /\ \A x \in Clients : Changes(x)' => x = c
    BY <1>1, <1>4, <2>1 DEF Changes
  <2>3. UNCHANGED compared /\ file' # Torn
    BY <1>1 DEF compared, Sound
  <2>4. Marked' /\ Filed'
    BY <1>1, <1>4, <2>3, Same DEF Sound
  <2>5. Stage(pc[c])'
    BY <1>4, <2>1, <2>4 DEF Stage, Early, Late
  <2>6. QED
    BY <2>2, <2>3, <2>5 DEF Sound
<1>5. QED
  BY <1>3, <1>4

LEMMA CallsKept ==
  ASSUME Typed, Kept, NEW c \in Clients,
         AskSQL(c) \/ Register(c) \/ Unregister(c) \/ Generate(c) \/ Edit(c)
  PROVE  Kept'
<1>1. CASE AskSQL(c)
  <2>1. PICK id \in Ids \cup {Nobody} :
          Begin(c, [Call("sql", "get", IF id = Nobody THEN primary ELSE id, NoDef) EXCEPT !.asked = id])
    BY <1>1 DEF AskSQL
  <2> DEFINE q == [Call("sql", "get", IF id = Nobody THEN primary ELSE id, NoDef) EXCEPT !.asked = id]
  <2>2. q.call = "sql" /\ q.call \notin Changing
    BY DEF Call, Idle, Changing
  <2>3. QED
    BY <2>1, <2>2, BeginKept
<1>2. CASE Register(c)
  <2>1. PICK id \in Ids, d \in Defs : Begin(c, Call("register", "add", id, d))
    BY <1>2 DEF Register
  <2>2. Call("register", "add", id, d).at \in Early
    BY DEF Call, Idle, Early
  <2>3. QED
    BY <2>1, <2>2, BeginKept
<1>3. CASE Unregister(c)
  <2>1. PICK id \in registered : Begin(c, Call("unregister", "remove", id, NoDef))
    BY <1>3 DEF Unregister
  <2>2. Call("unregister", "remove", id, NoDef).at \in Early
    BY DEF Call, Idle, Early
  <2>3. QED
    BY <2>1, <2>2, BeginKept
<1>4. CASE Generate(c)
  <2>1. PICK id \in {i \in Ids : defs[i] # NoDef} :
          Begin(c, [Call("generate", "get", id, defs[id]) EXCEPT !.asked = id])
    BY <1>4 DEF Generate
  <2> DEFINE q == [Call("generate", "get", id, defs[id]) EXCEPT !.asked = id]
  <2>2. q.at \in Early
    BY DEF Call, Idle, Early
  <2>3. QED
    BY <2>1, <2>2, BeginKept
<1>5. CASE Edit(c)
  <2>1. PICK id \in {i \in Ids : defs[i] # NoDef} : Begin(c, Call("edit", "write", id, defs[id]))
    BY <1>5 DEF Edit
  <2>2. Call("edit", "write", id, defs[id]).at \in Early
    BY DEF Call, Idle, Early
  <2>3. QED
    BY <2>1, <2>2, BeginKept
<1>6. QED
  BY <1>1, <1>2, <1>3, <1>4, <1>5

(* A handler that gives up before it changed anything, or never would.      *)
LEMMA ReturnSound ==
  ASSUME Typed, Sound, NEW c \in Clients, Return(c), UNCHANGED <<up, compared>>, UNCHANGED tmp,
         pc[c].call \in Changing => pc[c].at \in Early
  PROVE  Sound'
<1>1. pc' = [pc EXCEPT ![c] = Idle] /\ Idle.call \notin Changing
  BY IdleTyped DEF Return, Changing
<1>2. QED
  BY <1>1, EarlySound

LEMMA ResolvingSound ==
  ASSUME Typed, Sound, NEW c \in Clients, Get(c) \/ Ground(c) \/ Check(c) \/ Exec(c)
  PROVE  Sound'
<1> DEFINE p == pc[c]
<1>1. p \in Frame /\ Shaped(p) /\ pc \in [Clients -> Frame]
  BY FrameIs DEF Typed, FramesOK
<1>2. CASE Get(c)
  <2>1. p.at \in Early /\ UNCHANGED <<up, compared>> /\ UNCHANGED tmp
    BY <1>2 DEF Get, Early, compared, registry, disk, history
  <2>2. CASE Return(c)
    BY <2>1, <2>2, ReturnSound
  <2>3. CASE \E e : pc' = [pc EXCEPT ![c].eng = e, ![c].at = "ground"]
    <3>1. PICK e : pc' = [pc EXCEPT ![c].eng = e, ![c].at = "ground"]
      BY <2>3
    <3> DEFINE q == [p EXCEPT !.eng = e, !.at = "ground"]
    <3>2. pc' = [pc EXCEPT ![c] = q]
      BY <1>1, <3>1
    <3>3. q.at \in Early /\ q.call = p.call
      BY <1>1 DEF Frame, Early
    <3> HIDE DEF q
    <3>4. QED
      BY <2>1, <3>2, <3>3, EarlySound
  <2>4. QED
    BY <1>2, <2>2, <2>3 DEF Get
<1>3. CASE Ground(c)
  <2>1. p.at = "ground" /\ p.at \in Early /\ UNCHANGED <<up, compared>> /\ UNCHANGED tmp
    BY <1>3 DEF Ground, Early, compared, registry, disk, history
  <2>2. PICK q : /\ pc' = [pc EXCEPT ![c] = q]
                 /\ q = IF p.call = "sql" THEN [p EXCEPT !.at = "check"]
                        ELSE Call(p.call, "write", p.db, p.def)
    BY <1>3 DEF Ground
  <2>3. q.call = p.call
    BY <1>1, <2>2 DEF Frame, Call, Idle
  <2>4. p.call # "sql" => q.at \in Early
    BY <2>2 DEF Call, Idle, Early
  <2>5. "sql" \notin Changing
    BY DEF Changing
  <2>6. QED
    BY <2>1, <2>2, <2>3, <2>4, <2>5, EarlySound
<1>4. CASE Check(c)
  <2>1. p.call = "sql" /\ p.call \notin Changing /\ UNCHANGED <<up, compared>> /\ UNCHANGED tmp
    BY <1>1, <1>4 DEF Check, Shaped, Changing, compared, registry, disk, history
  <2>2. CASE Return(c)
    BY <2>1, <2>2, ReturnSound
  <2>3. CASE \E m : pc' = [pc EXCEPT ![c].at = "exec", ![c].moved = m]
    <3>1. PICK m : pc' = [pc EXCEPT ![c].at = "exec", ![c].moved = m]
      BY <2>3
    <3> DEFINE q == [p EXCEPT !.at = "exec", !.moved = m]
    <3>2. pc' = [pc EXCEPT ![c] = q]
      BY <1>1, <3>1
    <3>3. q.call = p.call
      BY <1>1 DEF Frame
    <3> HIDE DEF q
    <3>4. QED
      BY <2>1, <3>2, <3>3, EarlySound
  <2>4. QED
    BY <1>4, <2>2, <2>3 DEF Check
<1>5. CASE Exec(c)
  <2>1. /\ p.call = "sql" /\ p.call \notin Changing /\ UNCHANGED <<up, compared>> /\ UNCHANGED tmp
        /\ Return(c)
    BY <1>1, <1>5 DEF Exec, Shaped, Changing, compared, registry, disk
  <2>2. QED
    BY <2>1, ReturnSound
<1>6. QED
  BY <1>2, <1>3, <1>4, <1>5

LEMMA WriteModelSound ==
  ASSUME Typed, Sound, NEW c \in Clients, WriteModel(c)
  PROVE  Sound'
<1> DEFINE p == pc[c]
<1>1. p \in Frame /\ pc \in [Clients -> Frame] /\ p.at \in Early
  BY FrameIs DEF Typed, FramesOK, WriteModel, Early
<1>2. PICK path : pc' = [pc EXCEPT ![c].def.model = path, ![c].edit = TRUE, ![c].at = "add"]
  BY DEF WriteModel
<1> DEFINE q == [p EXCEPT !.def.model = path, !.edit = TRUE, !.at = "add"]
<1>3. pc' = [pc EXCEPT ![c] = q]
  BY <1>1, <1>2
<1>4. q.at \in Early /\ q.call = p.call
  BY <1>1 DEF Frame, Early
<1> HIDE DEF q
<1>5. UNCHANGED <<up, compared>> /\ UNCHANGED tmp
  BY DEF WriteModel, compared, registry, history
<1>6. QED
  BY <1>1, <1>3, <1>4, <1>5, EarlySound

(* Closing an engine changes nobody's call.                                 *)
LEMMA CloseCalls ==
  ASSUME Typed, NEW c \in Clients, NEW id \in Ids, pc[c].at \in {"add", "remove"}, Close(c, id)
  PROVE  /\ pc'[c].at = "drop" /\ pc'[c].call = pc[c].call /\ pc'[c].db = pc[c].db
         /\ \A x \in Clients \ {c} : pc'[x].call = pc[x].call
<1>1. \A x \in Clients : pc[x] \in Frame
  BY FrameIs
<1> DEFINE q == [pc[c] EXCEPT !.at = "drop"]
<1>2. q.at = "drop" /\ q.call = pc[c].call /\ q.db = pc[c].db
  BY <1>1 DEF Frame
<1>3. pc'[c] = q
  BY <1>2 DEF Close, Closed
<1>4. ASSUME NEW x \in Clients \ {c} PROVE pc'[x].call = pc[x].call
  <2>1. pc'[x] = pc[x] \/ pc'[x] = [pc[x] EXCEPT !.closed = TRUE]
    BY DEF Close, Closed
  <2>2. QED
    BY <1>1, <2>1 DEF Frame
<1>5. QED
  BY <1>2, <1>3, <1>4

LEMMA AddSound ==
  ASSUME Typed, IInv, Sound, NEW c \in Clients, Add(c)
  PROVE  Sound'
<1> DEFINE p  == pc[c]
           id == p.db
<1>1. p \in Frame /\ Shaped(p) /\ p.at = "add" /\ id \in Ids /\ Close(c, id)
  BY FrameIs DEF Add, IInv, Held, HeldBy
<1>2. p.call \in Changing /\ p.call # "unregister" /\ p.def # NoDef
  BY <1>1, NamesDiffer DEF Shaped, Changing
<1>3. /\ UNCHANGED <<config, registered, file, tmp, unsaved>>
      /\ defs' = [defs EXCEPT ![id] = p.def]
  BY DEF Add, disk
<1>4. defs'[id] = p.def /\ \A o \in Ids : o # id => defs'[o] = defs[o]
  BY <1>1, <1>3 DEF Typed, RegistryOK
<1>5. pc'[c].at = "drop" /\ pc'[c].call = p.call /\ pc'[c].db = id
      /\ \A x \in Clients \ {c} : pc'[x].call = pc[x].call
  BY <1>1, CloseCalls
<1>6. Marked
  BY <1>1, <1>2 DEF Sound, Stage, Changes, Early
<1>7. Stage(pc[c])'
  BY <1>2, <1>3, <1>4, <1>5, <1>6 DEF Stage, Early, Late, Marked, Off, ConfigIds
<1>8. Changes(c) /\ Changes(c)' /\ file' # Torn
  BY <1>2, <1>3, <1>5 DEF Changes, Sound
<1>9. QED
  BY <1>5, <1>7, <1>8, ChangeGoesOn

LEMMA RemoveSound ==
  ASSUME Typed, IInv, Sound, NEW c \in Clients, Remove(c)
  PROVE  Sound'
<1> DEFINE p  == pc[c]
           id == p.db
<1>1. p \in Frame /\ Shaped(p) /\ p.at = "remove" /\ id \in Ids /\ Close(c, id)
  BY FrameIs DEF Remove, IInv, Held, HeldBy
<1>2. p.call \in Changing /\ p.call = "unregister"
  BY <1>1 DEF Shaped, Changing
<1>3. /\ UNCHANGED <<config, registered, file, tmp, unsaved>>
      /\ defs' = [defs EXCEPT ![id] = NoDef]
  BY DEF Remove, disk
<1>4. defs'[id] = NoDef /\ \A o \in Ids : o # id => defs'[o] = defs[o]
  BY <1>1, <1>3 DEF Typed, RegistryOK
<1>5. pc'[c].at = "drop" /\ pc'[c].call = p.call /\ pc'[c].db = id
      /\ \A x \in Clients \ {c} : pc'[x].call = pc[x].call
  BY <1>1, CloseCalls
<1>6. Marked
  BY <1>1, <1>2 DEF Sound, Stage, Changes, Early
<1>7. Stage(pc[c])'
  BY <1>2, <1>3, <1>4, <1>5, <1>6 DEF Stage, Early, Late, Marked, Off, ConfigIds
<1>8. Changes(c) /\ Changes(c)' /\ file' # Torn
  BY <1>2, <1>3, <1>5 DEF Changes, Sound
<1>9. QED
  BY <1>5, <1>7, <1>8, ChangeGoesOn

(* One handler's frame is replaced, and it is in a change.                  *)
LEMMA SavingFrame ==
  ASSUME Typed, Sound, NEW c \in Clients, pc[c].at \in Saving, NEW q, pc' = [pc EXCEPT ![c] = q]
  PROVE  /\ pc[c] \in Frame /\ pc[c].call \in Changing /\ Changes(c) /\ Stage(pc[c])
         /\ pc'[c] = q /\ (Changes(c)' <=> q.call \in Changing)
         /\ \A x \in Clients \ {c} : pc'[x] = pc[x]
         /\ \A x \in Clients \ {c} : pc'[x].call = pc[x].call
  BY FrameIs DEF Typed, FramesOK, Shaped, Changes, Sound

LEMMA DropSound ==
  ASSUME Typed, Sound, NEW c \in Clients, DropGrounder(c)
  PROVE  Sound'
<1> DEFINE p == pc[c]
           q == [p EXCEPT !.at = "mark"]
<1>1. p.at = "drop" /\ p.at \in Saving /\ pc' = [pc EXCEPT ![c] = q]
  BY DEF DropGrounder, Goto, Saving
<1>2. /\ p \in Frame /\ p.call \in Changing /\ Changes(c) /\ Stage(p)
      /\ pc'[c] = q /\ (Changes(c)' <=> q.call \in Changing)
      /\ \A x \in Clients \ {c} : pc'[x].call = pc[x].call
  BY <1>1, SavingFrame
<1>3. q.at = "mark" /\ q.call = p.call /\ q.db = p.db
  BY <1>2 DEF Frame
<1> HIDE DEF q
<1>4. UNCHANGED compared /\ UNCHANGED tmp /\ UNCHANGED <<defs, registered, file>>
  BY DEF DropGrounder, compared, registry, disk, history
<1>5. Stage(pc[c])'
  BY <1>1, <1>2, <1>3, <1>4, Same DEF Stage, Early, Late
<1>6. QED
  BY <1>2, <1>3, <1>4, <1>5, ChangeGoesOn DEF Sound

LEMMA MarkSound ==
  ASSUME Typed, Sound, NEW c \in Clients, Mark(c)
  PROVE  Sound'
<1> DEFINE p == pc[c]
           q == [Idle EXCEPT !.at = "collect", !.call = p.call, !.todo = order]
<1>1. p.at = "mark" /\ p.at \in Saving /\ pc' = [pc EXCEPT ![c] = q]
  BY DEF Mark, Saving
<1>2. /\ p \in Frame /\ p.call \in Changing /\ Changes(c) /\ Stage(p)
      /\ pc'[c] = q /\ (Changes(c)' <=> q.call \in Changing)
      /\ \A x \in Clients \ {c} : pc'[x].call = pc[x].call
  BY <1>1, SavingFrame
<1>3. /\ q.at = "collect" /\ q.call = p.call /\ q.todo = order
      /\ \A id \in Ids : q.snap[id] = NoDef
  BY DEF Idle
<1> HIDE DEF q
<1>4. /\ UNCHANGED <<config, defs, order, file, tmp, unsaved>>
      /\ registered' = IF p.call = "unregister" THEN registered \ {p.db} ELSE registered \cup {p.db}
  BY DEF Mark, registry, disk, history
<1>5. /\ \A id \in Off \ {p.db} : id \in registered <=> defs[id] # NoDef
      /\ p.call = "unregister" <=> defs[p.db] = NoDef
  BY <1>1, <1>2 DEF Stage
<1>6. Off' = Off /\ Off \subseteq Ids
  BY <1>4 DEF Off, ConfigIds
<1>7. Marked'
  BY <1>4, <1>5, <1>6 DEF Marked
<1>8. \A id \in Off : (\E i \in DOMAIN order : order[i] = id) \/ q.snap[id] = defs[id]
  <2> SUFFICES ASSUME NEW id \in Off, defs[id] # NoDef PROVE \E i \in DOMAIN order : order[i] = id
    BY <1>3, <1>6
  <2>1. id \in Served(defs)
    BY <1>6 DEF Served
  <2>2. QED
    BY <2>1 DEF Typed, RegistryOK, OrderOf
<1>9. Stage(pc[c])'
  BY <1>2, <1>3, <1>4, <1>6, <1>7, <1>8 DEF Stage, Early, Late
<1>10. QED
  BY <1>2, <1>3, <1>4, <1>9, ChangeGoesOn DEF Sound

LEMMA CollectSound ==
  ASSUME Typed, Sound, NEW c \in Clients, Collect(c)
  PROVE  Sound'
<1> DEFINE p == pc[c]
<1> PICK h : h = Head(p.todo)
  OBVIOUS
<1> PICK more : more = Tail(p.todo)
  OBVIOUS
<1> PICK d : d = IF h \in registered THEN defs[h] ELSE NoDef
  OBVIOUS
<1> PICK at : at = IF Len(p.todo) = 1 THEN "create" ELSE "collect"
  OBVIOUS
<1> PICK s : s = [p.snap EXCEPT ![h] = d]
  OBVIOUS
<1> DEFINE q == [p EXCEPT !.todo = more, !.snap = s, !.at = at]
<1>1. p.at = "collect" /\ p.at \in Saving /\ p.todo # <<>> /\ p \in Frame /\ pc \in [Clients -> Frame]
  BY FrameIs DEF Collect, Saving, Typed, FramesOK
<1>2. pc' = [pc EXCEPT ![c] = q]
  BY <1>1 DEF Collect, Frame
<1>3. /\ p.call \in Changing /\ Changes(c) /\ Stage(p)
      /\ pc'[c] = q /\ (Changes(c)' <=> q.call \in Changing)
      /\ \A x \in Clients \ {c} : pc'[x].call = pc[x].call
  <2> HIDE DEF q
  <2>1. QED
    BY <1>1, <1>2, SavingFrame
<1>4. q.at = at /\ q.call = p.call /\ q.todo = more /\ q.snap = s
  BY <1>1 DEF Frame
<1> HIDE DEF q
<1>5. UNCHANGED compared /\ UNCHANGED tmp /\ UNCHANGED <<defs, registered, file>>
  BY DEF Collect, compared, registry, disk, history
<1>6. p.todo \in Seq(Ids) /\ p.snap \in Saved /\ Off \subseteq Ids
  BY <1>1 DEF Frame, Off
<1>7. /\ Marked
      /\ \A id \in Off : (\E i \in DOMAIN p.todo : p.todo[i] = id) \/ p.snap[id] = defs[id]
  BY <1>1, <1>3 DEF Stage, Late
<1>8. /\ Len(p.todo) \in Nat \ {0} /\ more \in Seq(Ids) /\ Len(more) = Len(p.todo) - 1
      /\ h = p.todo[1] /\ \A i \in 1 .. Len(more) : more[i] = p.todo[i + 1]
      /\ DOMAIN p.todo = 1 .. Len(p.todo) /\ DOMAIN more = 1 .. Len(more)
  BY <1>1, <1>6
<1>9. ASSUME NEW id \in Off PROVE (\E i \in DOMAIN more : more[i] = id) \/ s[id] = defs[id]
  <2>1. CASE id = h
    <3>1. s[id] = d
      BY <1>6, <2>1 DEF Saved
    <3>2. QED
      BY <1>7, <2>1, <3>1 DEF Marked
  <2>2. CASE id # h /\ p.snap[id] = defs[id]
    BY <1>6, <2>2 DEF Saved
  <2>3. CASE id # h /\ \E i \in DOMAIN p.todo : p.todo[i] = id
    <3>1. PICK i \in DOMAIN p.todo : p.todo[i] = id
      BY <2>3
    <3>2. i # 1 /\ i \in Nat
      BY <1>8, <2>3, <3>1
    <3>3. i - 1 \in 1 .. Len(more) /\ (i - 1) + 1 = i
      BY <1>8, <3>1, <3>2
    <3>4. more[i - 1] = id /\ i - 1 \in DOMAIN more
      BY <1>8, <3>1, <3>3
    <3>5. QED
      BY <3>4
  <2>4. QED
    BY <1>7, <2>1, <2>2, <2>3
<1>10. at = "create" => \A id \in Off : s[id] = defs[id]
  <2> SUFFICES ASSUME at = "create", NEW id \in Off PROVE s[id] = defs[id]
    OBVIOUS
  <2>1. Len(p.todo) = 1
    OBVIOUS
  <2>2. DOMAIN more = {}
    BY <1>8, <2>1
  <2>3. QED
    BY <1>9, <2>2
<1>11. Marked' /\ (at = "create" => Agree(s)')
  <2>1. at = "create" => Agree(s)
    BY <1>10 DEF Agree
  <2>2. QED
    BY <1>5, <1>7, <2>1, Same
<1>12. Off' = Off /\ at \in {"create", "collect"}
  BY <1>5, Same
<1>13. Stage(pc[c])'
  BY <1>3, <1>4, <1>5, <1>9, <1>11, <1>12 DEF Stage, Early, Late
<1>14. QED
  BY <1>3, <1>4, <1>5, <1>13, ChangeGoesOn DEF Sound

LEMMA CollectNoneSound ==
  ASSUME Typed, Sound, NEW c \in Clients, CollectNone(c)
  PROVE  Sound'
<1> DEFINE p == pc[c]
           q == [p EXCEPT !.at = "create"]
<1>1. p.at = "collect" /\ p.at \in Saving /\ p.todo = <<>> /\ pc' = [pc EXCEPT ![c] = q]
  BY DEF CollectNone, Goto, Saving
<1>2. /\ p \in Frame /\ p.call \in Changing /\ Changes(c) /\ Stage(p)
      /\ pc'[c] = q /\ (Changes(c)' <=> q.call \in Changing)
      /\ \A x \in Clients \ {c} : pc'[x].call = pc[x].call
  BY <1>1, SavingFrame
<1> PICK s : s = p.snap
  OBVIOUS
<1>3. q.at = "create" /\ q.call = p.call /\ q.snap = s
  BY <1>2 DEF Frame
<1> HIDE DEF q
<1>4. UNCHANGED compared /\ UNCHANGED file
  BY DEF CollectNone, compared, registry, disk, history
<1>5. Marked /\ Agree(s)
  BY <1>1, <1>2 DEF Stage, Late, Agree
<1>6. Marked' /\ Agree(s)'
  BY <1>4, <1>5, Same
<1>7. Stage(pc[c])'
  BY <1>2, <1>3, <1>6 DEF Stage, Early, Late
<1>8. QED
  BY <1>2, <1>3, <1>4, <1>7, ChangeGoesOn DEF Sound

LEMMA CreateSound ==
  ASSUME Typed, Sound, NEW c \in Clients, Create(c)
  PROVE  Sound'
<1> DEFINE p == pc[c]
           q == [p EXCEPT !.out = "tmp", !.at = "fill"]
<1> PICK s : s = p.snap
  OBVIOUS
<1>1. p.at = "create" /\ p.at \in Saving /\ p \in Frame /\ pc \in [Clients -> Frame]
  BY FrameIs DEF Create, Saving, Typed, FramesOK
<1>2. pc' = [pc EXCEPT ![c] = q]
  BY <1>1 DEF Create
<1>3. /\ p.call \in Changing /\ Changes(c) /\ Stage(p)
      /\ pc'[c] = q /\ (Changes(c)' <=> q.call \in Changing)
      /\ \A x \in Clients \ {c} : pc'[x].call = pc[x].call
  <2> HIDE DEF q
  <2>1. QED
    BY <1>1, <1>2, SavingFrame
<1>4. q.at = "fill" /\ q.call = p.call /\ q.snap = s /\ q.out = "tmp"
  BY <1>1 DEF Frame
<1> HIDE DEF q
<1>5. UNCHANGED compared /\ UNCHANGED file
  BY DEF Create, compared, registry, history
<1>6. Marked' /\ Agree(s)'
  BY <1>1, <1>3, <1>5, Same DEF Stage, Late
<1>7. Stage(pc[c])'
  BY <1>3, <1>4, <1>6 DEF Stage, Early, Late
<1>8. QED
  BY <1>3, <1>4, <1>5, <1>7, ChangeGoesOn DEF Sound

LEMMA FillSound ==
  ASSUME Typed, Sound, NEW c \in Clients, Fill(c)
  PROVE  Sound'
<1> DEFINE p == pc[c]
           q == [Idle EXCEPT !.at = "rename", !.call = p.call, !.out = p.out]
<1> PICK s : s = p.snap
  OBVIOUS
<1>1. p.at = "fill" /\ p.at \in Saving /\ p \in Frame /\ pc' = [pc EXCEPT ![c] = q]
  BY FrameIs DEF Fill, Saving
<1>2. /\ p.call \in Changing /\ Changes(c) /\ Stage(p)
      /\ pc'[c] = q /\ (Changes(c)' <=> q.call \in Changing)
      /\ \A x \in Clients \ {c} : pc'[x].call = pc[x].call
  <2> HIDE DEF q
  <2>1. QED
    BY <1>1, SavingFrame
<1>3. q.at = "rename" /\ q.call = p.call
  BY DEF Idle
<1> HIDE DEF q
<1>4. p.out = "tmp" /\ Marked /\ Agree(s) /\ s \in Saved
  BY <1>1, <1>2 DEF Stage, Late, Frame
<1>5. tmp' = s /\ file' = file /\ UNCHANGED compared
  BY <1>4 DEF Fill, compared, registry, history
<1>6. Marked' /\ Agree(s)'
  BY <1>4, <1>5, Same
<1>7. Stage(pc[c])'
  BY <1>2, <1>3, <1>4, <1>5, <1>6 DEF Stage, Early, Late
<1>8. QED
  BY <1>2, <1>3, <1>5, <1>7, ChangeGoesOn DEF Sound

LEMMA RenameSound ==
  ASSUME Typed, Sound, NEW c \in Clients, Rename(c)
  PROVE  Sound'
<1> DEFINE renamed(p) == [p EXCEPT !.out = IF p.out = "tmp" THEN "file"
                                           ELSE IF p.out = "file" THEN "gone" ELSE p.out]
<1> PICK s : s = tmp
  OBVIOUS
<1>1. pc[c].at = "rename" /\ pc[c].call \in Changing /\ Changes(c) /\ Stage(pc[c])
  BY FrameIs DEF Rename, Shaped, Saving, Changes, Sound
<1>2. s \in Saved /\ Agree(s) /\ Marked /\ s # Missing /\ s # Torn
  BY <1>1, NamesDiffer DEF Stage, Late
<1>3. /\ file' = s /\ unsaved' = FALSE
      /\ pc' = [x \in Clients |-> IF x = c THEN Idle ELSE renamed(pc[x])]
      /\ UNCHANGED <<config, defs, registered>>
  BY <1>2 DEF Rename, registry
<1>4. pc'[c] = Idle /\ \A x \in Clients \ {c} : pc'[x] = renamed(pc[x])
  BY <1>3
<1>5. \A x \in Clients \ {c} : pc'[x].call = pc[x].call
  <2>1. \A x \in Clients : renamed(pc[x]).call = pc[x].call
    BY FrameIs DEF Frame
  <2> HIDE DEF renamed
  <2>2. QED
    BY <1>4, <2>1
<1>6. ~Changes(c)'
  BY <1>4, IdleTyped DEF Changes, Changing
<1>7. Marked' /\ Filed'
  BY <1>2, <1>3 DEF Marked, Filed, Agree, Off, ConfigIds
<1>8. QED
  BY <1>1, <1>2, <1>3, <1>5, <1>6, <1>7, ChangeEnds

(* A step that fails: before the change, or of its save.                    *)
LEMMA FailSound ==
  ASSUME Typed, unsaved \in BOOLEAN, Sound, NEW c \in Clients, Fail(c)
  PROVE  Sound'
<1>1. Return(c) /\ UNCHANGED <<config, defs, registered, file, tmp, up>>
      /\ unsaved' = (unsaved \/ pc[c].at \in {"create", "fill", "rename"})
  BY DEF Fail, registry, disk
<1>2. CASE pc[c].at \in {"get", "write", "add"}
  <2>1. UNCHANGED <<up, compared>> /\ UNCHANGED tmp
    BY <1>1, <1>2 DEF compared
  <2>2. pc[c].at \in Early
    BY <1>2 DEF Early
  <2>3. QED
    BY <1>1, <2>1, <2>2, ReturnSound
<1>3. CASE pc[c].at \in {"create", "fill", "rename"}
  <2>1. unsaved' = TRUE
    BY <1>1, <1>3
  <2>2. Changes(c) /\ Stage(pc[c])
    BY <1>3, FrameIs DEF Shaped, Saving, Changes, Sound
  <2>3. pc'[c] = Idle /\ \A x \in Clients \ {c} : pc'[x] = pc[x]
    BY <1>1 DEF Return, Typed, FramesOK
  <2>4. ~Changes(c)'
    BY <2>3, IdleTyped DEF Changes, Changing
  <2>5. Marked' /\ Filed'
    BY <1>1, <1>3, <2>1, <2>2 DEF Stage, Late, Marked, Filed, Off, ConfigIds
  <2>6. QED
    BY <1>1, <2>2, <2>3, <2>4, <2>5, ChangeEnds DEF Sound
<1>4. QED
  BY <1>2, <1>3 DEF Fail

(* A boot serves what is saved, and marks it.                               *)
LEMMA BootSound ==
  ASSUME Typed, Boot
  PROVE  Sound'
<1>1. PICK cfg \in Configs : Serve(cfg, file)
  BY DEF Boot
<1>2. UNCHANGED file /\ file # Torn /\ unsaved' = FALSE /\ pc' = [c \in Clients |-> Idle]
  BY DEF Boot, disk, Forgotten
<1>3. \A c \in Clients : ~Changes(c)'
  BY <1>2, IdleTyped DEF Changes, Changing
<1>4. /\ config' = cfg /\ registered' = Marks(cfg, file)
      /\ defs' = [id \in Ids |-> IF \E i \in DOMAIN cfg : cfg[i][1] = id
                                 THEN ConfigDef(cfg, id) ELSE file[id]]
  BY <1>1 DEF Serve
<1>5. \A id \in Off' : id \in Ids /\ \A i \in DOMAIN cfg : cfg[i][1] # id
  BY <1>4 DEF Off, ConfigIds
<1>6. \A id \in Off' : defs'[id] = file[id]
  BY <1>4, <1>5
<1>7. Filed'
  BY <1>2, <1>6 DEF Filed, Agree
<1>8. Marked'
  BY <1>4, <1>5, <1>6 DEF Marked, Marks
<1>9. QED
  BY <1>2, <1>3, <1>7, <1>8 DEF Sound

LEMMA StopSound ==
  ASSUME Typed, Sound, Stop
  PROVE  Sound'
<1>1. UNCHANGED file /\ up' = FALSE /\ pc' = [c \in Clients |-> Idle]
  BY DEF Stop, disk, Forgotten
<1>2. \A c \in Clients : ~Changes(c)'
  BY <1>1, IdleTyped DEF Changes, Changing
<1>3. QED
  BY <1>1, <1>2 DEF Sound

LEMMA NextKept == ASSUME Typed, IInv, Kept, [Next]_vars PROVE Kept'
<1>1. ASSUME Sound, NEW c \in Clients,
             \/ Get(c) \/ Ground(c) \/ Check(c) \/ Exec(c) \/ WriteModel(c) \/ Add(c) \/ Remove(c)
             \/ RemoveRefused(c) \/ DropGrounder(c) \/ Mark(c) \/ Collect(c) \/ CollectNone(c)
             \/ Create(c) \/ Fill(c) \/ Rename(c) \/ Fail(c)
      PROVE  Sound'
  <2>1. CASE RemoveRefused(c)
    <3>1. Return(c) /\ UNCHANGED <<up, compared>> /\ UNCHANGED tmp /\ pc[c].at \in Early
      BY <2>1 DEF RemoveRefused, compared, registry, disk, history, Early
    <3>2. QED
      BY <1>1, <3>1, ReturnSound
  <2>2. CASE Get(c) \/ Ground(c) \/ Check(c) \/ Exec(c)
    BY <1>1, <2>2, ResolvingSound
  <2>3. CASE Fail(c)
    BY <1>1, <2>3, FailSound DEF Kept
  <2>4. QED
    BY <1>1, <2>1, <2>2, <2>3, WriteModelSound, AddSound, RemoveSound, DropSound, MarkSound,
       CollectSound, CollectNoneSound, CreateSound, FillSound, RenameSound
<1>2. ASSUME NEW c \in Clients,
             \/ Get(c) \/ Ground(c) \/ Check(c) \/ Exec(c) \/ WriteModel(c) \/ Add(c) \/ Remove(c)
             \/ RemoveRefused(c) \/ DropGrounder(c) \/ Mark(c) \/ Collect(c) \/ CollectNone(c)
             \/ Create(c) \/ Fill(c) \/ Rename(c) \/ Fail(c)
      PROVE  UNCHANGED overlapped /\ unsaved' \in BOOLEAN
  BY <1>2 DEF Get, Ground, Check, Exec, WriteModel, Add, Remove, RemoveRefused, DropGrounder, Mark,
              Collect, CollectNone, Create, Fill, Rename, Fail, history, Kept
<1>3. CASE Boot
  <2>1. unsaved' = FALSE
    BY <1>3 DEF Boot
  <2>2. QED
    BY <1>3, <2>1, BootSound DEF Kept
<1>4. CASE Stop
  <2>1. UNCHANGED <<overlapped, unsaved>>
    BY <1>4 DEF Stop, history
  <2>2. QED
    BY <1>4, <2>1, StopSound DEF Kept
<1>5. CASE UNCHANGED vars
  <2>1. UNCHANGED <<up, compared>> /\ UNCHANGED <<defs, registered, tmp, file, pc, overlapped, unsaved>>
    BY <1>5 DEF vars, compared, registry, disk, history
  <2>2. ASSUME NEW x \in Clients, Stage(pc[x]) PROVE Stage(pc[x])'
    BY <2>1, <2>2, Same DEF Stage
  <2>3. QED
    BY <2>1, <2>2, Same DEF Kept, Sound, Changes
<1>6. ASSUME NEW c \in Clients, Act(c) PROVE Kept'
  BY <1>1, <1>2, <1>6, CallsKept DEF Act, Kept
<1>7. QED
  BY <1>3, <1>4, <1>5, <1>6 DEF Next

(* As long as no two changes overlap: whenever the process stops, in the    *)
(* middle of a save or anywhere else, it can boot from the file, and when   *)
(* no change is in progress or has failed to save, the file holds exactly   *)
(* what is served and not configured.                                       *)
THEOREM RegistryIsKept == Spec => []RegistryKept
<1>1. Init => Kept
  <2> SUFFICES ASSUME Init PROVE Kept
    OBVIOUS
  <2>1. file # Torn /\ ~up /\ unsaved \in BOOLEAN
    BY DefsAssumption, NamesDiffer DEF Init
  <2>2. \A c \in Clients : ~Changes(c)
    BY IdleTyped DEF Init, Changes, Changing
  <2>3. QED
    BY <2>1, <2>2 DEF Kept, Sound
<1>2. Typed /\ IInv /\ Kept /\ [Next]_vars => Kept'
  BY NextKept
<1>3. Kept => RegistryKept
  BY DEF Kept, Sound, RegistryKept, Filed, Agree, Off, Changes
<1>4. QED
  BY <1>1, <1>2, <1>3, Types, Invariance, PTL DEF Spec

=============================================================================
