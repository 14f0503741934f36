------------------------------ MODULE Databases ------------------------------
(***************************************************************************)
(* The databases one process serves: package engine's Registry, Databases  *)
(* and Store, the /v1/databases handlers that change them and the /v1/sql  *)
(* handler that reads through them, and the part of `di serve` that boots  *)
(* them from the operator's config and the saved file.                     *)
(*                                                                         *)
(* HTTP handlers run concurrently.  Registry's maps and the grounders each *)
(* have a mutex; the marks of what was registered, the order, the default  *)
(* and the saved file have none.  One step of a handler here is one region *)
(* under a mutex, one unlocked read, or one call of the operating system.  *)
(***************************************************************************)
EXTENDS Naturals, Sequences, FiniteSets

CONSTANTS
  Ids,
  ById,        \* Ids as the saved file sorts them
  Configs,     \* what the operator's file may declare: sequences of <<id, definition>>
  Defs,        \* what callers register
  Files,       \* what an earlier process may have saved
  Gen,         \* where a generated model of a database is written
  Clients,     \* handlers in progress at a time
  MaxCalls,    \* bound: calls of /v1
  MaxFaults,   \* bound: stops of the process, and opens, probes and writes that fail
  NoDef, NoModel, NoGrounder,
  Nobody,      \* the empty id
  Torn, Missing

Declared(cfg) == {cfg[i][2] : i \in DOMAIN cfg}

Paths == ({d.model : d \in Defs \cup UNION {Declared(cfg) : cfg \in Configs}}
           \cup {Gen[id] : id \in Ids}) \ {NoModel}

(* A definition; its DSN does not matter to who may read the database.      *)
Def == [model : Paths \cup {NoModel}, raw : BOOLEAN]

(* An engine serves the text its model file had when it was opened.         *)
Engine == [def : Def, text : Nat]

NoEngine == [def |-> NoDef, text |-> 0]

Saved == [Ids -> Def \cup {NoDef}]

ASSUME ConfigAssumption ==
  \A cfg \in Configs :
    /\ cfg \in Seq(Ids \X Def)
    /\ \A i, j \in DOMAIN cfg : cfg[i][1] = cfg[j][1] => i = j
ASSUME DefsAssumption == NoDef \notin Def /\ Defs \subseteq Def /\ Gen \in [Ids -> Paths] /\ Files \subseteq Saved
ASSUME IdsAssumption ==
  /\ ById \in Seq(Ids) /\ {ById[i] : i \in DOMAIN ById} = Ids /\ Len(ById) = Cardinality(Ids)
  /\ Nobody \notin Ids
ASSUME FilesAssumption == Torn \notin Saved /\ Missing \notin Saved \cup {Torn}
ASSUME BoundsAssumption == {MaxCalls, MaxFaults} \subseteq Nat

VARIABLES
  up,                      \* whether the process runs
  config,                  \* the operator's file, as it was at boot
  defs, order, primary,    \* the registry: definitions, declaration order, default
  open,                    \* its open engines
  grounders,               \* the retrieval index of each database: the model it was built from
  registered,              \* the ids that came at runtime
  console,                 \* the engine of the web console: its database, and whether it is closed
  text,                    \* the model files
  file, tmp,               \* the saved databases, and the file they are written to first
  pc,                      \* the handlers in progress
  calls, faults,           \* what has happened against the bounds
  ran,                     \* history: the definitions of the engines that executed a caller's SQL
  fallback,                \* history: who answered callers that named no database
  edited,                  \* history: the file and text that each database was last switched to
  overlapped,              \* history: whether two calls that change databases overlapped
  unsaved                  \* history: whether a change failed to reach the file

registry == <<defs, order, primary>>
disk     == <<text, file, tmp>>
history  == <<ran, fallback, edited, overlapped, unsaved>>
bounds   == <<calls, faults>>
vars == <<up, config, registry, open, grounders, registered, console, disk, pc, bounds, history>>

Changing == {"register", "unregister", "generate", "edit"}
Places   == {"idle", "get", "ground", "check", "exec", "write", "add", "remove",
             "drop", "mark", "collect", "create", "fill", "rename"}

Idle == [at |-> "idle", call |-> "idle", asked |-> Nobody, db |-> Nobody, def |-> NoDef,
         eng |-> NoEngine, closed |-> FALSE, edit |-> FALSE, moved |-> FALSE,
         todo |-> <<>>, snap |-> [id \in Ids |-> NoDef], out |-> "none"]

----------------------------------------------------------------------------
(* Boot: the config first, then what is saved and not in the config, and    *)
(* the default database opened.                                             *)

ConfigIds == {config[i][1] : i \in DOMAIN config}

ConfigDef(cfg, id) == cfg[CHOOSE i \in DOMAIN cfg : cfg[i][1] = id][2]

Marks(cfg, saved) ==
  {id \in Ids : (\A i \in DOMAIN cfg : cfg[i][1] # id) /\ saved[id] # NoDef}

Restored(cfg, saved) ==
  LET kept == {i \in DOMAIN ById : ById[i] \in Marks(cfg, saved)} IN
  [n \in 1 .. Cardinality(kept) |->
     ById[CHOOSE i \in kept : Cardinality({j \in kept : j <= i}) = n]]

Opened(d) == [def |-> d, text |-> IF d.model = NoModel THEN 0 ELSE text[d.model]]

Serve(cfg, saved) ==
  LET ids == [i \in DOMAIN cfg |-> cfg[i][1]] \o Restored(cfg, saved)
      first == IF ids = <<>> THEN Nobody ELSE ids[1]
  IN  /\ up' = TRUE /\ config' = cfg
      /\ defs' = [id \in Ids |-> IF \E i \in DOMAIN cfg : cfg[i][1] = id
                                  THEN ConfigDef(cfg, id) ELSE saved[id]]
      /\ order' = ids
      /\ primary' = first
      /\ open' = [id \in Ids |-> IF id = first THEN Opened(defs'[id]) ELSE NoEngine]
      /\ console' = [db |-> first, closed |-> FALSE]
      /\ registered' = Marks(cfg, saved)

Forgotten ==
  /\ grounders' = [id \in Ids |-> NoGrounder]
  /\ pc' = [c \in Clients |-> Idle]

(* A corrupt file refuses to boot.                                          *)
Boot ==
  /\ ~up /\ file # Torn
  /\ \E cfg \in Configs : Serve(cfg, file)
  /\ Forgotten
  /\ fallback' = {}
  /\ edited' = [id \in Ids |-> <<NoModel, 0>>]
  /\ overlapped' = FALSE /\ unsaved' = FALSE
  /\ UNCHANGED <<disk, bounds, ran>>

Stop ==
  /\ up /\ faults < MaxFaults
  /\ up' = FALSE
  /\ faults' = faults + 1
  /\ Forgotten
  /\ open' = [id \in Ids |-> NoEngine]
  /\ UNCHANGED <<config, registry, registered, console, disk, calls, history>>

Init ==
  /\ up = FALSE /\ config = <<>>
  /\ defs = [id \in Ids |-> NoDef] /\ order = <<>> /\ primary = Nobody
  /\ open = [id \in Ids |-> NoEngine] /\ grounders = [id \in Ids |-> NoGrounder]
  /\ registered = {} /\ console = [db |-> Nobody, closed |-> FALSE]
  /\ text = [p \in Paths |-> 0]
  /\ file \in Files /\ tmp = Missing
  /\ pc = [c \in Clients |-> Idle]
  /\ calls = 0 /\ faults = 0
  /\ ran = {} /\ fallback = {} /\ edited = [id \in Ids |-> <<NoModel, 0>>]
  /\ overlapped = FALSE /\ unsaved = FALSE

----------------------------------------------------------------------------
(* How a call begins, goes on and ends.                                     *)

Goto(c, place) == pc' = [pc EXCEPT ![c].at = place]

Return(c) == pc' = [pc EXCEPT ![c] = Idle]

Begin(c, p) ==
  /\ up /\ calls < MaxCalls /\ pc[c] = Idle
  /\ calls' = calls + 1
  /\ pc' = [pc EXCEPT ![c] = p]
  /\ overlapped' = (overlapped \/ (p.call \in Changing /\ \E o \in Clients : pc[o].call \in Changing))
  /\ UNCHANGED <<up, config, registry, open, grounders, registered, console, disk, faults,
                 ran, fallback, edited, unsaved>>

Call(call, at, id, d) == [Idle EXCEPT !.call = call, !.at = at, !.db = id, !.def = d]

(* POST /v1/sql, naming a database or none.                                 *)
AskSQL(c) ==
  \E id \in Ids \cup {Nobody} :
    Begin(c, [Call("sql", "get", IF id = Nobody THEN primary ELSE id, NoDef) EXCEPT !.asked = id])

(* POST /v1/databases.                                                      *)
Register(c) == \E id \in Ids, d \in Defs : Begin(c, Call("register", "add", id, d))

(* DELETE /v1/databases/{id}: only what was registered.                     *)
Unregister(c) == \E id \in registered : Begin(c, Call("unregister", "remove", id, NoDef))

(* POST /v1/databases/{id}/model, which introspects the database first.     *)
Generate(c) ==
  \E id \in {i \in Ids : defs[i] # NoDef} :
    Begin(c, [Call("generate", "get", id, defs[id]) EXCEPT !.asked = id])

(* PUT /v1/databases/{id}/model.                                            *)
Edit(c) ==
  \E id \in {i \in Ids : defs[i] # NoDef} : Begin(c, Call("edit", "write", id, defs[id]))

----------------------------------------------------------------------------
(* Resolve: the engine of a database, then its grounder.                    *)

Get(c) ==
  LET p == pc[c]
      held == IF p.db \in Ids THEN open[p.db] ELSE NoEngine
  IN  /\ p.at = "get"
      /\ \/ /\ held # NoEngine
            /\ pc' = [pc EXCEPT ![c].eng = held, ![c].at = "ground"]
            /\ UNCHANGED open
         \/ /\ held = NoEngine /\ p.db \in Ids /\ defs[p.db] # NoDef
            /\ open' = [open EXCEPT ![p.db] = Opened(defs[p.db])]
            /\ pc' = [pc EXCEPT ![c].eng = open'[p.db], ![c].at = "ground"]
         \/ /\ held = NoEngine /\ (p.db \in Ids => defs[p.db] = NoDef)
            /\ Return(c)
            /\ UNCHANGED open
      /\ UNCHANGED <<up, config, registry, grounders, registered, console, disk, bounds, history>>

(* The id of a caller that named none is the default by then.               *)
Ground(c) ==
  LET p  == pc[c]
      id == IF p.asked = Nobody THEN primary ELSE p.asked
  IN  /\ p.at = "ground"
      /\ \/ /\ p.eng.def.model # NoModel /\ id \in Ids /\ grounders[id] = NoGrounder
            /\ grounders' = [grounders EXCEPT ![id] = p.eng.def.model]
         \/ UNCHANGED grounders
      /\ pc' = [pc EXCEPT ![c] = IF p.call = "sql" THEN [p EXCEPT !.at = "check"]
                                 ELSE Call(p.call, "write", p.db, p.def)]
      /\ UNCHANGED <<up, config, registry, open, registered, console, disk, bounds, history>>

----------------------------------------------------------------------------
(* POST /v1/sql once the database is resolved.  A caller that named none is *)
(* checked against the default by now: `moved` says that it is no longer    *)
(* the database whose engine it holds.                                      *)

RawSQLAllowed(id) ==
  id \in Ids /\ defs[id] # NoDef /\ (defs[id].model = NoModel \/ defs[id].raw)

Check(c) ==
  LET p == pc[c]
      allowed == RawSQLAllowed(IF p.asked = Nobody THEN primary ELSE p.asked)
  IN  /\ p.at = "check"
      /\ \/ /\ allowed
            /\ pc' = [pc EXCEPT ![c].at = "exec",
                                ![c].moved = p.asked = Nobody /\ primary # p.db]
         \/ ~allowed /\ Return(c)
      /\ UNCHANGED <<up, config, registry, open, grounders, registered, console, disk, bounds, history>>

Exec(c) ==
  LET p == pc[c]
  IN  /\ p.at = "exec"
      /\ ran' = IF p.closed \/ p.moved THEN ran ELSE ran \cup {p.eng.def}
      /\ fallback' = IF p.closed \/ p.moved \/ p.asked # Nobody THEN fallback ELSE fallback \cup {p.db}
      /\ Return(c)
      /\ UNCHANGED <<up, config, registry, open, grounders, registered, console, disk, bounds,
                     edited, overlapped, unsaved>>

----------------------------------------------------------------------------
(* Registering.  The handlers of a model write its file first and register  *)
(* the definition they read when they began, with the model attached.       *)

WriteModel(c) ==
  LET p == pc[c]
      path == IF p.call = "generate" \/ p.def.model = NoModel THEN Gen[p.db] ELSE p.def.model
  IN  /\ p.at = "write"
      /\ text' = [text EXCEPT ![path] = @ + 1]
      /\ pc' = [pc EXCEPT ![c].def.model = path, ![c].edit = TRUE, ![c].at = "add"]
      /\ UNCHANGED <<up, config, registry, open, grounders, registered, console, file, tmp, bounds, history>>

(* Whoever holds the open engine of a database holds a closed one then.     *)
Closed(p, id) ==
  IF p.at \in {"ground", "check", "exec"} /\ p.db = id THEN [p EXCEPT !.closed = TRUE] ELSE p

CloseLater(c, id) ==
  /\ open' = [open EXCEPT ![id] = NoEngine]
  /\ Goto(c, "drop")
  /\ UNCHANGED console

Close(c, id) ==
  /\ open' = [open EXCEPT ![id] = NoEngine]
  /\ console' = IF console.db = id THEN [console EXCEPT !.closed = TRUE] ELSE console
  /\ pc' = [x \in Clients |-> Closed(IF x = c THEN [pc[x] EXCEPT !.at = "drop"] ELSE pc[x], id)]

AddKeepingOpen(c) ==
  LET p == pc[c]
  IN  /\ p.at = "add"
      /\ IF p.def = defs[p.db] THEN Goto(c, "drop") /\ UNCHANGED <<open, console>> ELSE Close(c, p.db)
      /\ order' = IF defs[p.db] = NoDef THEN Append(order, p.db) ELSE order
      /\ defs' = [defs EXCEPT ![p.db] = p.def]
      /\ primary' = IF primary = Nobody THEN p.db ELSE primary
      /\ edited' = [edited EXCEPT ![p.db] =
                      IF p.edit THEN <<p.def.model, text[p.def.model]>> ELSE @]
      /\ UNCHANGED <<up, config, grounders, registered, disk, bounds, ran, fallback, overlapped, unsaved>>

(* Registry.Add, once a probe opened the database.                          *)
Add(c) ==
  LET p == pc[c]
  IN  /\ p.at = "add"
      /\ Close(c, p.db)
      /\ order' = IF defs[p.db] = NoDef THEN Append(order, p.db) ELSE order
      /\ defs' = [defs EXCEPT ![p.db] = p.def]
      /\ primary' = IF primary = Nobody THEN p.db ELSE primary
      /\ edited' = [edited EXCEPT ![p.db] =
                      IF p.edit THEN <<p.def.model, text[p.def.model]>> ELSE @]
      /\ UNCHANGED <<up, config, grounders, registered, disk, bounds, ran, fallback, overlapped, unsaved>>

(* Registry.Remove: never the default while others remain.                  *)
MayRemoveAny(id) == defs[id] # NoDef

MayRemove(id) == defs[id] # NoDef /\ (id = primary => Len(order) = 1)

(* Mutant: a database that is removed stays in the order.                   *)
WithoutNone(ids, id) == ids

Without(ids, id) ==
  LET at == CHOOSE i \in DOMAIN ids : ids[i] = id
  IN  [i \in 1 .. Len(ids) - 1 |-> IF i < at THEN ids[i] ELSE ids[i + 1]]

Remove(c) ==
  LET p == pc[c]
      rest == Without(order, p.db)
  IN  /\ p.at = "remove" /\ MayRemove(p.db)
      /\ Close(c, p.db)
      /\ defs' = [defs EXCEPT ![p.db] = NoDef]
      /\ order' = rest
      /\ primary' = IF primary # p.db THEN primary ELSE IF rest = <<>> THEN Nobody ELSE rest[1]
      /\ fallback' = IF rest = <<>> THEN {} ELSE fallback
      /\ UNCHANGED <<up, config, grounders, registered, disk, bounds, ran, edited, overlapped, unsaved>>

RemoveRefused(c) ==
  /\ pc[c].at = "remove" /\ ~MayRemove(pc[c].db)
  /\ Return(c)
  /\ UNCHANGED <<up, config, registry, open, grounders, registered, console, disk, bounds, history>>

DropGrounder(c) ==
  /\ pc[c].at = "drop"
  /\ grounders' = [grounders EXCEPT ![pc[c].db] = NoGrounder]
  /\ Goto(c, "mark")
  /\ UNCHANGED <<up, config, registry, open, registered, console, disk, bounds, history>>

(* The mark, and the ids persist is about to go through.                    *)
Mark(c) ==
  LET p == pc[c]
  IN  /\ p.at = "mark"
      /\ registered' = IF p.call = "unregister" THEN registered \ {p.db} ELSE registered \cup {p.db}
      /\ pc' = [pc EXCEPT ![c] = [Idle EXCEPT !.at = "collect", !.call = p.call, !.todo = order]]
      /\ UNCHANGED <<up, config, registry, open, grounders, console, disk, bounds, history>>

Collect(c) ==
  LET p == pc[c] IN
  /\ p.at = "collect" /\ p.todo # <<>>
  /\ pc' = [pc EXCEPT ![c].todo = Tail(p.todo),
                      ![c].snap[Head(p.todo)] =
                        IF Head(p.todo) \in registered THEN defs[Head(p.todo)] ELSE NoDef,
                      ![c].at = IF Len(p.todo) = 1 THEN "create" ELSE "collect"]
  /\ UNCHANGED <<up, config, registry, open, grounders, registered, console, disk, bounds, history>>

CollectNone(c) ==
  /\ pc[c].at = "collect" /\ pc[c].todo = <<>>
  /\ Goto(c, "create")
  /\ UNCHANGED <<up, config, registry, open, grounders, registered, console, disk, bounds, history>>

----------------------------------------------------------------------------
(* Store.Save: create or truncate the temporary file, write it, rename it.  *)
(* `out` is the name that the file a writer has open goes by.               *)

CreateInPlace(c) ==
  /\ pc[c].at = "create"
  /\ file' = Torn
  /\ pc' = [pc EXCEPT ![c].out = "file", ![c].at = "fill"]
  /\ UNCHANGED <<up, config, registry, open, grounders, registered, console, text, tmp, bounds, history>>

Create(c) ==
  /\ pc[c].at = "create"
  /\ tmp' = Torn
  /\ pc' = [pc EXCEPT ![c].out = "tmp", ![c].at = "fill"]
  /\ UNCHANGED <<up, config, registry, open, grounders, registered, console, text, file, bounds, history>>

Fill(c) ==
  LET p == pc[c]
  IN  /\ p.at = "fill"
      /\ tmp' = IF p.out = "tmp" THEN p.snap ELSE tmp
      /\ file' = IF p.out = "file" THEN p.snap ELSE file
      /\ pc' = [pc EXCEPT ![c] = [Idle EXCEPT !.at = "rename", !.call = p.call, !.out = p.out]]
      /\ UNCHANGED <<up, config, registry, open, grounders, registered, console, text, bounds, history>>

Rename(c) ==
  LET renamed(p) == [p EXCEPT !.out = IF p.out = "tmp" THEN "file"
                                      ELSE IF p.out = "file" THEN "gone" ELSE p.out]
  IN  /\ pc[c].at = "rename"
      /\ \/ /\ tmp # Missing
            /\ file' = tmp /\ tmp' = Missing
            /\ pc' = [x \in Clients |-> IF x = c THEN Idle ELSE renamed(pc[x])]
            /\ unsaved' = FALSE
         \/ /\ tmp = Missing
            /\ Return(c)
            /\ unsaved' = TRUE
            /\ UNCHANGED <<file, tmp>>
      /\ UNCHANGED <<up, config, registry, open, grounders, registered, console, text, bounds,
                     ran, fallback, edited, overlapped>>

(* An open, a probe, a write or a rename fails: the caller gets the error   *)
(* and nothing is undone.                                                   *)
Fail(c) ==
  /\ pc[c].at \in {"get", "write", "add", "create", "fill", "rename"}
  /\ faults < MaxFaults
  /\ faults' = faults + 1
  /\ unsaved' = (unsaved \/ pc[c].at \in {"create", "fill", "rename"})
  /\ Return(c)
  /\ UNCHANGED <<up, config, registry, open, grounders, registered, console, disk, calls,
                 ran, fallback, edited, overlapped>>

----------------------------------------------------------------------------

Act(c) ==
  \/ AskSQL(c) \/ Register(c) \/ Unregister(c) \/ Generate(c) \/ Edit(c)
  \/ Get(c) \/ Ground(c) \/ Check(c) \/ Exec(c)
  \/ WriteModel(c) \/ Add(c) \/ Remove(c) \/ RemoveRefused(c)
  \/ DropGrounder(c) \/ Mark(c) \/ Collect(c) \/ CollectNone(c)
  \/ Create(c) \/ Fill(c) \/ Rename(c) \/ Fail(c)

Next == Boot \/ Stop \/ \E c \in Clients : Act(c)

Spec == Init /\ [][Next]_vars

----------------------------------------------------------------------------
(* What must hold.                                                          *)

(* Every variable has its type, and the default is the first in order or    *)
(* there is none: registry.go:46-51.                                        *)
TypeOK ==
  /\ up \in BOOLEAN
  /\ defs \in [Ids -> Def \cup {NoDef}] /\ primary \in Ids \cup {Nobody}
  /\ order \in Seq(Ids) /\ {order[i] : i \in DOMAIN order} = {id \in Ids : defs[id] # NoDef}
  /\ Len(order) = Cardinality({id \in Ids : defs[id] # NoDef})
  /\ primary = IF order = <<>> THEN Nobody ELSE order[1]
  /\ open \in [Ids -> Engine \cup {NoEngine}]
  /\ grounders \in [Ids -> Paths \cup {NoGrounder}]
  /\ registered \subseteq Ids
  /\ console \in [db : Ids \cup {Nobody}, closed : BOOLEAN]
  /\ text \in [Paths -> Nat]
  /\ file \in Saved \cup {Torn} /\ tmp \in Saved \cup {Torn, Missing}
  /\ \A c \in Clients :
        /\ pc[c].at \in Places /\ pc[c].call \in Changing \cup {"sql", "idle"}
        /\ pc[c].snap \in Saved /\ pc[c].out \in {"none", "tmp", "file", "gone"}
        /\ (pc[c].at = "idle" => pc[c] = Idle)

(* Raw SQL ran only on an engine whose definition permits it, whatever was  *)
(* registered, modelled or removed between the check and the query:         *)
(* registry.go:11-19, v1.go:386-389.  Left out are callers that named no    *)
(* database and whose default moved before the check (registry.go:180).     *)
RawSQLGate == \A d \in ran : d.model = NoModel \/ d.raw

(* As long as any database is served, callers that name none are all        *)
(* answered by the same one: registry.go:143-145.  The callers left out of   *)
(* RawSQLGate are left out here.                                            *)
DefaultNeverMoves == Cardinality(fallback) <= 1

(* An open engine serves the definition in force, and its model as of the   *)
(* last edit of it or later: v1.go:788-789.                                 *)
EditsAreLive ==
  \A id \in Ids : open[id] # NoEngine =>
    /\ open[id].def = defs[id]
    /\ edited[id][1] = open[id].def.model => open[id].text >= edited[id][2]

(* A process that stops in the middle of a save, or fails to save, leaves a *)
(* file that boots; and between changes, what a restart would restore is    *)
(* what is served.  Left out are changes that overlapped, and the second    *)
(* part once one was refused for want of its save: store.go:33-36, 65-69,   *)
(* databases.go:50-68, 126-137.                                             *)
RegistryKept ==
  ~overlapped =>
    /\ file # Torn
    /\ up /\ ~unsaved /\ (\A c \in Clients : pc[c].call \notin Changing)
         => \A id \in Ids \ ConfigIds : file[id] = defs[id]

(* The console works on the default database for as long as the process     *)
(* runs: main.go:304-307.                                                   *)
ConsoleServes == up => ~console.closed

=============================================================================
