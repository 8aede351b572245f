------------------------------ MODULE Sockets -------------------------------
(***************************************************************************)
(* The listeners of the API (api/mod.rs, api/socket.rs): the manager that  *)
(* publishes, changes and removes socket files and their protected record, *)
(* the accept loops with their limit, and the connections, which end by    *)
(* themselves, at a deadline, or when their listener stops or changes its  *)
(* access.  The daemon may be killed between any two steps, and other      *)
(* programs of root may take the paths.                                    *)
(*                                                                         *)
(* Simplifications.  Device and inode are a number that is not used again; *)
(* the check of a path and the rename onto it, or the removal, are one     *)
(* step, since the directory is root's alone; parsing is hyper's.          *)
(***************************************************************************)
EXTENDS Naturals, FiniteSets

CONSTANTS
  Paths,        \* of sockets
  Configs,      \* sets of endpoints: role, path, access
  Conns,        \* connections
  Limit,        \* CONNECTIONS
  MaxIds,       \* bound: objects that something still refers to
  MaxReloads,   \* bound: preparations
  MaxFaults     \* bound: kills, failed writes of the record and interventions of others

Endpoints == UNION Configs
Ids == 1..MaxIds
Published == [path : Paths, id : Ids]

VARIABLES
  object,      \* what is at each path: kind, id, access, by whom (history)
  record,      \* sockets.json
  manager,     \* what the manager is at, with the endpoints or listeners to go through
  known,       \* the record as read at the start
  serving,     \* listeners: endpoint, id
  prepared,    \* bound, not served
  next,        \* the endpoints of the last preparation
  cut,         \* the generation of each listener's access
  stopped,     \* listeners told to stop
  accepting,   \* accept loops that run
  conn,        \* connections
  reloads, faults,
  config,      \* the endpoints of the running configuration
  unsaved      \* history: the last write of the record failed

vars == <<object, record, manager, known, serving, prepared, next, cut, stopped, accepting,
          conn, reloads, faults, config, unsaved>>

managed == <<known, serving, prepared, next, cut, stopped, accepting>>
rest == <<reloads, faults, config, unsaved>>

NoObject == [kind |-> "none", id |-> 0, access |-> 0, by |-> "none"]
Idle == [at |-> "down", todo |-> {}, wanted |-> {}]
NoConn == [at |-> "none", id |-> 0, generation |-> 0, access |-> 0]

Init ==
  /\ object = [p \in Paths |-> NoObject]
  /\ record = {} /\ known = {} /\ serving = {} /\ prepared = {} /\ next = {}
  /\ cut = [i \in Ids |-> 0] /\ stopped = {} /\ accepting = {}
  /\ manager = Idle
  /\ conn = [c \in Conns |-> NoConn]
  /\ reloads = 0 /\ faults = 0 /\ config = {} /\ unsaved = FALSE

At(step) == manager.at = step

-----------------------------------------------------------------------------
(* socket.rs                                                               *)

\* Mutant: any socket at the path is taken for a stale one.
Identified_socket(path, list) == object[path].kind = "socket"

\* The object at path is a socket of the list.
Identified(path, list) ==
  object[path].kind = "socket" /\ [path |-> path, id |-> object[path].id] \in list

Free(path, list) == object[path] = NoObject \/ Identified(path, list)

\* An inode that nothing refers to.
Unused ==
  Ids \ ({object[p].id : p \in Paths} \cup {x.id : x \in record \cup known \cup serving \cup prepared}
           \cup accepting \cup {conn[c].id : c \in Conns})
NewId == CHOOSE i \in Unused : \A j \in Unused : i <= j

\* bind: staged with its access, then renamed onto the path.
Publish(e) ==
  /\ Unused # {}
  /\ object' = [object EXCEPT ![e.path] = [kind |-> "socket", id |-> NewId, access |-> e.access,
                                          by |-> "this run"]]
  /\ cut' = [cut EXCEPT ![NewId] = 0] /\ stopped' = stopped \ {NewId}

\* unpublish: what each path of the list holds afterwards.
Unpublished(list) ==
  [p \in Paths |-> IF Identified(p, list) THEN NoObject ELSE object[p]]

File(l) == [path |-> l.endpoint.path, id |-> l.id]
FilesOf(listeners) == {File(l) : l \in listeners}

-----------------------------------------------------------------------------
(* The manager, from one await to the next.                                *)

\* serve: an accept loop for the listener.
Serve(listeners) ==
  /\ serving' = serving \cup listeners
  /\ accepting' = accepting \cup {l.id : l \in listeners}

\* close: told to stop, and the file removed.
Close(listeners) ==
  /\ stopped' = stopped \cup {l.id : l \in listeners}
  /\ object' = Unpublished(FilesOf(listeners))

\* Startup, under the instance lock; a record that anyone else could have
\* written is no evidence.
StartManager ==
  /\ At("down")
  /\ \E c \in Configs : config' = c /\ manager' = [at |-> "starting", todo |-> c, wanted |-> c]
  /\ known' \in {record, {}}
  /\ unsaved' = FALSE
  /\ UNCHANGED <<object, record, serving, prepared, next, cut, stopped, accepting, conn, reloads, faults>>

BindInitial(e) ==
  /\ At("starting") /\ e \in manager.todo
  /\ Free(e.path, known)
  /\ Publish(e)
  /\ Serve({[endpoint |-> e, id |-> NewId]})
  /\ manager' = [manager EXCEPT !.todo = @ \ {e},
                                !.at = IF manager.todo = {e} THEN "save" ELSE "starting"]
  /\ UNCHANGED <<record, known, prepared, next, conn, rest>>

\* An occupied path, or any other error: what was bound is closed, and the
\* daemon ends after the record.
BindInitialFails ==
  /\ At("starting")
  /\ Close(serving)
  /\ serving' = {}
  /\ manager' = [manager EXCEPT !.at = "last_save"]
  /\ UNCHANGED <<record, known, prepared, next, cut, accepting, conn, rest>>

\* The process is gone, with its tasks.
Exit ==
  /\ manager' = Idle /\ config' = {} /\ unsaved' = FALSE
  /\ known' = {} /\ serving' = {} /\ prepared' = {} /\ next' = {}
  /\ cut' = [i \in Ids |-> 0] /\ stopped' = {} /\ accepting' = {}
  /\ conn' = [c \in Conns |-> NoConn]
  /\ object' = [p \in Paths |-> IF object[p].by = "this run" THEN [object[p] EXCEPT !.by = "earlier run"]
                                 ELSE object[p]]

Saved == FilesOf(serving \cup prepared)

Save(written) ==
  /\ manager.at \in {"save", "last_save"}
  /\ IF written THEN record' = Saved /\ UNCHANGED faults
     ELSE faults < MaxFaults /\ faults' = faults + 1 /\ UNCHANGED record
  /\ IF At("save")
     THEN /\ manager' = [Idle EXCEPT !.at = "recv"] /\ unsaved' = ~ written /\ known' = {}
          /\ UNCHANGED <<object, serving, prepared, next, cut, stopped, accepting, conn, config>>
     ELSE Exit
  /\ UNCHANGED reloads

\* discard: what a preparation bound is removed.
Discarded == Unpublished(FilesOf(prepared))

\* Command::Prepare
Prepare(c) ==
  /\ At("recv")
  /\ reloads < MaxReloads /\ reloads' = reloads + 1
  /\ object' = Discarded /\ prepared' = {}
  /\ manager' = [at |-> "preparing", todo |-> c, wanted |-> c]
  /\ UNCHANGED <<record, known, serving, next, cut, stopped, accepting, conn, faults, config, unsaved>>

Same(e) == {l \in serving : l.endpoint.path = e.path}

\* FR-API-1: an existing path never changes role.
Refuses(e) == \E l \in Same(e) : l.endpoint.role # e.role

\* An endpoint whose place is served already, in the same role.
PrepareServed(e) ==
  /\ At("preparing") /\ e \in manager.todo
  /\ Same(e) # {} /\ ~ Refuses(e)
  /\ manager' = [manager EXCEPT !.todo = @ \ {e}]
  /\ UNCHANGED <<object, record, managed, conn, rest>>

PrepareNew(e) ==
  /\ At("preparing") /\ e \in manager.todo
  /\ Same(e) = {} /\ Free(e.path, {})
  /\ Publish(e)
  /\ prepared' = prepared \cup {[endpoint |-> e, id |-> NewId]}
  /\ manager' = [manager EXCEPT !.todo = @ \ {e}]
  /\ UNCHANGED <<record, known, serving, next, accepting, conn, rest>>

PrepareFails(e) ==
  /\ At("preparing") /\ e \in manager.todo
  /\ Refuses(e) \/ Same(e) = {}
  /\ object' = Discarded /\ prepared' = {} /\ next' = {}
  /\ manager' = [Idle EXCEPT !.at = "save"]
  /\ UNCHANGED <<record, known, serving, cut, stopped, accepting, conn, rest>>

PrepareEnds ==
  /\ At("preparing") /\ manager.todo = {}
  /\ next' = manager.wanted
  /\ manager' = [Idle EXCEPT !.at = "save"]
  /\ UNCHANGED <<object, record, known, serving, prepared, cut, stopped, accepting, conn, rest>>

\* Command::Commit, with a listener after the other: each change of access awaits
\* the blocking pool.
Commit ==
  /\ At("recv") /\ next # {}
  /\ manager' = [at |-> "committing", todo |-> serving, wanted |-> next]
  /\ next' = {}
  /\ UNCHANGED <<object, record, known, serving, prepared, cut, stopped, accepting, conn, rest>>

Wanted(l) == {e \in manager.wanted : e.path = l.endpoint.path}

CommitKept(l) ==
  /\ At("committing") /\ l \in manager.todo /\ l.endpoint \in manager.wanted
  /\ manager' = [manager EXCEPT !.todo = @ \ {l}]
  /\ UNCHANGED <<object, record, managed, conn, rest>>

\* Mutant: connections admitted under the old access stay.
Cut_none(l) == cut

Cut(l) == [cut EXCEPT ![l.id] = @ + 1]

\* The access of whatever is at the path; connections are cut.
CommitAccess(l) ==
  /\ At("committing") /\ l \in manager.todo /\ l.endpoint \notin manager.wanted
  /\ \E e \in Wanted(l) :
       /\ object[e.path] # NoObject
       /\ object' = [object EXCEPT ![e.path].access = e.access]
       /\ serving' = (serving \ {l}) \cup {[l EXCEPT !.endpoint = e]}
  /\ cut' = Cut(l)
  /\ manager' = [manager EXCEPT !.todo = @ \ {l}]
  /\ UNCHANGED <<record, known, prepared, next, stopped, accepting, conn, rest>>

\* Mutant: a listener whose access could not be changed goes on.
Closed_removed(l) == Wanted(l) = {}

\* No longer wanted, or its access could not be changed.
Closed(l) == l.endpoint \notin manager.wanted

CommitClose(l) ==
  /\ At("committing") /\ l \in manager.todo /\ l.endpoint \notin manager.wanted
  /\ IF Closed(l) THEN Close({l}) /\ serving' = serving \ {l}
     ELSE UNCHANGED <<stopped, object, serving>>
  /\ manager' = [manager EXCEPT !.todo = @ \ {l}]
  /\ UNCHANGED <<record, known, prepared, next, cut, accepting, conn, rest>>

CommitServes ==
  /\ At("committing") /\ manager.todo = {}
  /\ Serve(prepared)
  /\ prepared' = {} /\ config' = manager.wanted
  /\ manager' = [Idle EXCEPT !.at = "save"]
  /\ UNCHANGED <<object, record, known, next, cut, stopped, conn, reloads, faults, unsaved>>

Rollback ==
  /\ At("recv")
  /\ object' = Discarded /\ prepared' = {} /\ next' = {}
  /\ manager' = [Idle EXCEPT !.at = "save"]
  /\ UNCHANGED <<record, known, serving, cut, stopped, accepting, conn, rest>>

Shutdown ==
  /\ At("recv")
  /\ object' = Unpublished(FilesOf(serving \cup prepared))
  /\ stopped' = stopped \cup {l.id : l \in serving}
  /\ serving' = {} /\ prepared' = {}
  /\ manager' = [Idle EXCEPT !.at = "last_save"]
  /\ UNCHANGED <<record, known, next, cut, accepting, conn, rest>>

-----------------------------------------------------------------------------
(* Accept loops and connections.                                           *)

Open == {"spawned", "open", "waiting", "answering"}
Of(i) == {c \in Conns : conn[c].id = i /\ conn[c].at \in Open}

Admits(i) == Cardinality(Of(i)) < Limit

\* A client connects; beyond the limit it is closed at once.
Accept(c, i) ==
  /\ i \in accepting /\ conn[c].at = "none"
  /\ Admits(i)
  /\ conn' = [conn EXCEPT ![c] = [NoConn EXCEPT !.at = "spawned", !.id = i]]
  /\ UNCHANGED <<object, record, manager, managed, rest>>

LoopEnds(i) ==
  /\ i \in accepting \cap stopped
  /\ accepting' = accepting \ {i}
  /\ UNCHANGED <<object, record, manager, known, serving, prepared, next, cut, stopped, conn,
                 rest>>

\* The access of the listener at this moment (none once it is closed).
Access(i) == IF \E l \in serving : l.id = i THEN (CHOOSE l \in serving : l.id = i).endpoint.access ELSE 0

\* The task begins: it is of the generation of that moment.
Begin(c) ==
  /\ conn[c].at = "spawned"
  /\ conn' = [conn EXCEPT ![c].at = "open", ![c].generation = cut[conn[c].id],
                          ![c].access = Access(conn[c].id)]
  /\ UNCHANGED <<object, record, manager, managed, rest>>

\* handle: a long poll or a notification test extends the deadline once, and the
\* answer has its own.
Handle(c) ==
  /\ \/ /\ conn[c].at = "open"
        /\ \E to \in {"waiting", "answering"} : conn' = [conn EXCEPT ![c].at = to]
     \/ conn[c].at = "waiting" /\ conn' = [conn EXCEPT ![c].at = "answering"]
  /\ UNCHANGED <<object, record, manager, managed, rest>>

Timed == {"open", "waiting", "answering"}

\* The exchange is over, or its deadline passes.
Ends(c) ==
  /\ conn[c].at \in Timed
  /\ conn' = [conn EXCEPT ![c] = NoConn]
  /\ UNCHANGED <<object, record, manager, managed, rest>>

\* stopped.changed() and cuts.wait_for().
Told(c) ==
  /\ conn[c].at \in Open \ {"spawned"}
  /\ conn[c].id \in stopped \/ conn[c].generation # cut[conn[c].id]
  /\ conn' = [conn EXCEPT ![c] = NoConn]
  /\ UNCHANGED <<object, record, manager, managed, rest>>

-----------------------------------------------------------------------------
(* Faults and other programs.                                              *)

Crash ==
  /\ faults < MaxFaults /\ faults' = faults + 1
  /\ ~ At("down")
  /\ Exit
  /\ UNCHANGED <<record, reloads>>

Foreign(p) ==
  /\ faults < MaxFaults /\ faults' = faults + 1
  /\ \/ object[p] # NoObject /\ object' = [object EXCEPT ![p] = NoObject]
     \/ /\ Unused # {}
        /\ \E k \in {"socket", "other"} :
             object' = [object EXCEPT ![p] = [kind |-> k, id |-> NewId, access |-> 0, by |-> "others"]]
  /\ UNCHANGED <<record, manager, managed, conn, reloads, config, unsaved>>

-----------------------------------------------------------------------------
Manager ==
  \/ StartManager \/ BindInitialFails \/ PrepareEnds \/ Commit \/ CommitServes \/ Rollback \/ Shutdown
  \/ \E w \in BOOLEAN : Save(w)
  \/ \E c \in Configs : Prepare(c)
  \/ \E e \in manager.todo :
       \/ BindInitial(e) \/ PrepareServed(e) \/ PrepareNew(e) \/ PrepareFails(e)
       \/ CommitKept(e) \/ CommitAccess(e) \/ CommitClose(e)

Tasks ==
  \/ \E i \in Ids : LoopEnds(i) \/ \E c \in Conns : Accept(c, i)
  \/ \E c \in Conns : Begin(c) \/ Handle(c) \/ Ends(c) \/ Told(c)

Next == Manager \/ Tasks \/ Crash \/ \E p \in Paths : Foreign(p)

Spec == Init /\ [][Next]_vars

-----------------------------------------------------------------------------
(* Properties.                                                             *)

\* Types of the variables; no listener has more than Limit connections.
TypeOK ==
  /\ record \subseteq Published /\ known \subseteq Published
  /\ \A l \in serving \cup prepared : l.endpoint \in Endpoints /\ l.id \in Ids
  /\ stopped \subseteq Ids /\ accepting \subseteq Ids
  /\ \A i \in Ids : Cardinality(Of(i)) <= Limit

\* FR-API-1: an object that PolyWAN did not publish is never replaced or removed,
\* by a start, a reload, a rollback or a stop, whatever the record says.
ForeignIsLeft ==
  [][\A p \in Paths :
       (object[p].by = "others" /\ faults' = faults) => object'[p].id = object[p].id]_vars

\* FR-API-1: while the manager waits for commands it serves endpoints of the
\* running configuration only, and a socket of its own at their paths has the
\* access of that configuration, also after a change of access that failed.
ServedAsConfigured ==
  At("recv") =>
    \A l \in serving :
      /\ l.endpoint \in config
      /\ object[l.endpoint.path].id = l.id =>
            object[l.endpoint.path].access = l.endpoint.access

\* FR-API-1: a connection whose task began under an access that its listener no
\* longer has, or whose listener is closed, has been told to end; a change back to
\* the earlier access does not save it.
OldAccessIsCut ==
  \A c \in Conns : conn[c].at \in Open \ {"spawned"} =>
    \/ conn[c].id \in stopped
    \/ conn[c].generation # cut[conn[c].id]
    \/ \E l \in serving : l.id = conn[c].id /\ l.endpoint.access = conn[c].access
=============================================================================
