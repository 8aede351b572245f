------------------------------ MODULE Commands ------------------------------
(***************************************************************************)
(* The commands of the control socket (drain, undrain, forget, reload) and *)
(* SIGHUP reloads: the queue of orders (api/mod.rs, command), the State    *)
(* task that runs one at a time (daemon.rs, start_order to check_command,  *)
(* start_reload to reload_bound), the persistence lane (worker.rs), the    *)
(* manifest and the drain state in the state directory (state.rs), the     *)
(* manager of the API listeners (api/mod.rs), crashes and startups         *)
(* (daemon.rs, run) and the offline forget (cli.rs).                       *)
(*                                                                         *)
(* A configuration is the set of its uplinks <<id, name>>.  What a pass    *)
(* does to the kernel is Reconcile's; here it installs a plan, in which    *)
(* every uplink that is not drained is used, at once, later or never.      *)
(***************************************************************************)
EXTENDS Integers, Sequences, FiniteSets

CONSTANTS
    Configs,        \* the configurations the file may hold
    Requests,       \* the commands that clients send
    None,
    ORDER_QUEUE,    \* orders waiting for the State task
    MaxOrders,      \* bound: commands sent
    MaxEdits,       \* bound: edits of the configuration file
    MaxHups,        \* bound: SIGHUPs
    MaxFaults,      \* bound: failures and crashes
    LateErrors      \* a write may fail after its rename

Ids(config)   == {u[1] : u \in config}
Names(config) == {u[2] : u \in config}
NamesOf(config, ids) == {u[2] : u \in {v \in config : v[1] \in ids}}
AllIds   == UNION {Ids(c) : c \in Configs}
AllNames == UNION {Names(c) : c \in Configs}

\* The commands in progress.  gone is history: a reload removed the uplink of a
\* drain that is being applied, and with it the intent.
ActiveCommands ==
    [kind : {"persisting"}, order : 1..MaxOrders, id : AllIds, drain : BOOLEAN]
        \cup [kind : {"reloading", "forgetting"}, order : 1..MaxOrders]
        \cup [kind : {"applying"}, order : 1..MaxOrders, target : {None} \cup Nat,
              late : BOOLEAN, gone : BOOLEAN]

ReloadPhases ==
    [phase : {"validating"}]
        \cup [phase : {"preparing"}, config : Configs]
        \cup [phase : {"binding"}, config : Configs, drained : SUBSET AllIds]

Plans == Configs \X SUBSET AllNames

ASSUME ConstantsAssumption ==
    /\ \A c \in Configs : c \subseteq Nat \X AllNames
    /\ \A c \in Configs : \A u \in c, v \in c : u[1] = v[1] <=> u[2] = v[2]
    /\ Requests \subseteq [action : {"drain", "undrain", "forget"},
                           name : AllNames, force : BOOLEAN]
                    \cup [action : {"reload"}]
    /\ ORDER_QUEUE \in Nat \ {0}
    /\ {MaxOrders, MaxEdits, MaxHups, MaxFaults} \subseteq Nat
    /\ LateErrors \in BOOLEAN
    /\ None \notin Configs \cup Nat \cup Plans \cup ActiveCommands \cup ReloadPhases
    /\ \A names \in SUBSET AllNames : None # names

VARIABLES
    file,                \* the configuration file
    hup,                 \* a SIGHUP is pending
    manifest_file,       \* the bindings of the manifest in the state directory
    drain_file,          \* the drain state there: the names drained
    life,                \* the daemon is "down", "starting" or "running"
    cfg,                 \* the running configuration, or the last one tried
    drained,             \* the ids drained
    command,             \* the command in progress, or None
    reload,              \* the reload in progress, or None
    reload_again,
    reload_deferred,
    dirty,               \* a pass is due
    desired,             \* last_desired: the plan of the last pass, or None
    desired_generation,
    applied_generation,
    kernel,              \* the plan that the kernel holds, or None
    asked,               \* the commands sent so far
    answers,             \* what their clients got; "gone" stopped waiting
    orders,              \* the commands queued for the State task
    validating,          \* a validation is to read the file
    jobs,                \* the jobs of the persistence lane
    manifest,            \* the lane's manifest
    done,                \* completions of the lane and of the other I/O tasks
    commands,            \* the commands of the API manager
    serving,             \* the configuration whose listeners it serves
    next,                \* the one it has prepared, or None
    unread,              \* a SIGHUP came and the file was not read since
    edits, hups, faults  \* counted against their bounds

disk     == <<manifest_file, drain_file>>
planVars == <<desired, desired_generation, applied_generation, kernel>>
client   == <<asked, orders>>
lane     == <<jobs, manifest>>
api      == <<commands, serving, next>>
phases   == <<reload, reload_again, reload_deferred, validating>>
outside  == <<file, hup, unread, edits, hups>>

vars == <<outside, disk, life, cfg, drained, command, phases, dirty, planVars,
          client, answers, lane, done, api, faults>>

Fault == faults < MaxFaults /\ faults' = faults + 1

Plan == <<cfg, NamesOf(cfg, Ids(cfg) \ drained)>>

-----------------------------------------------------------------------------
(* The manifest (state.rs). *)

\* Mutant: a name may change its id.
check_ids(m, config) ==
    \E b \in m, u \in config : b.id = u[1] /\ b.name # u[2]

\* The configuration reuses a bound id, or changes that of a bound name.
check(m, config) ==
    \E b \in m, u \in config : (b.id = u[1]) # (b.name = u[2])

bind(m, config) ==
    {[b EXCEPT !.removed = b.id \notin Ids(config)] : b \in m}
        \cup {[id |-> u[1], name |-> u[2], removed |-> FALSE] :
                 u \in {v \in config : \A b \in m : b.id # v[1]}}

forget(m, name) == {b \in m : b.name # name}

forgettable(m, name) == \E b \in m : b.name = name /\ b.removed

\* How a write of a file ends: it fails before or after its rename.
Writes == {"written", "failed"} \cup (IF LateErrors THEN {"late"} ELSE {})

write_atomic(w, old, new) ==
    /\ IF w = "written" THEN UNCHANGED faults ELSE Fault
    /\ IF w = "failed" THEN UNCHANGED old ELSE old' = new

-----------------------------------------------------------------------------
(* Answers. *)

Waiting(o) == answers[o] = "none"

Told(o, code) == [answers EXCEPT ![o] = IF @ = "none" THEN code ELSE @]

Is(c, kinds) == c # None /\ c.kind \in kinds

-----------------------------------------------------------------------------
(* Startup, crash, and what happens outside the daemon. *)

Init ==
    /\ file \in Configs
    /\ hup = FALSE
    /\ manifest_file = {} /\ drain_file = {}
    /\ life = "down"
    /\ cfg = {} /\ drained = {}
    /\ command = None
    /\ reload = None /\ reload_again = FALSE /\ reload_deferred = FALSE
    /\ validating = FALSE
    /\ dirty = FALSE
    /\ desired = None /\ desired_generation = 0 /\ applied_generation = 0
    /\ kernel = None
    /\ asked = <<>> /\ answers = <<>> /\ orders = <<>>
    /\ jobs = <<>> /\ manifest = {} /\ done = <<>>
    /\ commands = <<>> /\ serving = {} /\ next = None
    /\ unread = FALSE
    /\ edits = 0 /\ hups = 0 /\ faults = 0

\* The configuration read is checked against the manifest, and the drain
\* intent of the uplinks that it does not have is dropped from the file.
start_checks(w) ==
    /\ life = "down"
    /\ ~check(manifest_file, file)
    /\ LET kept == drain_file \cap Names(file)
       IN  IF kept = drain_file
             THEN w = "written" /\ UNCHANGED <<drain_file, faults>>
             ELSE write_atomic(w, drain_file, kept)
    /\ life' = IF w = "written" THEN "starting" ELSE "down"
    /\ cfg' = file
    /\ drained' = {u[1] : u \in {v \in file : v[2] \in drain_file}}
    /\ unread' = FALSE
    /\ UNCHANGED <<file, hup, edits, hups, manifest_file, command, phases, dirty,
                   planVars, client, answers, lane, done, api>>

\* The manifest is written ahead, and the event loop starts.
start_binds(w) ==
    /\ life = "starting"
    /\ write_atomic(w, manifest_file, bind(manifest_file, cfg))
    /\ IF w = "written"
         THEN /\ life' = "running" /\ dirty' = TRUE
              /\ manifest' = bind(manifest_file, cfg)
              /\ serving' = cfg
         ELSE life' = "down" /\ UNCHANGED <<dirty, manifest, serving>>
    /\ UNCHANGED <<outside, drain_file, cfg, drained, command, phases, planVars,
                   client, answers, jobs, done, commands, next>>

\* The daemon dies.  Its memory and its queues are lost; files and kernel stay.
Crash ==
    /\ Fault
    /\ life # "down"
    /\ life' = "down"
    /\ hup' = FALSE
    /\ command' = None
    /\ reload' = None /\ reload_again' = FALSE /\ reload_deferred' = FALSE
    /\ validating' = FALSE
    /\ dirty' = FALSE
    /\ desired' = None /\ desired_generation' = 0 /\ applied_generation' = 0
    /\ answers' = [o \in DOMAIN answers |-> IF Waiting(o) THEN "gone" ELSE answers[o]]
    /\ orders' = <<>>
    /\ jobs' = <<>> /\ manifest' = {} /\ done' = <<>>
    /\ commands' = <<>> /\ serving' = {} /\ next' = None
    /\ unread' = FALSE
    /\ UNCHANGED <<file, edits, hups, disk, cfg, drained, kernel, asked>>

\* forget-uplink while no daemon runs.
forget_offline(name) ==
    /\ life = "down"
    /\ name \notin Names(file)
    /\ forgettable(manifest_file, name)
    /\ manifest_file' = forget(manifest_file, name)
    /\ UNCHANGED <<outside, drain_file, life, cfg, drained, command, phases, dirty,
                   planVars, client, answers, lane, done, api, faults>>

edit(config) ==
    /\ edits < MaxEdits /\ edits' = edits + 1
    /\ file' = config /\ config # file
    /\ UNCHANGED <<hup, unread, hups, disk, life, cfg, drained, command, phases,
                   dirty, planVars, client, answers, lane, done, api, faults>>

send_hup ==
    /\ life = "running"
    /\ hups < MaxHups /\ hups' = hups + 1
    /\ hup' = TRUE /\ unread' = TRUE
    /\ UNCHANGED <<file, edits, disk, life, cfg, drained, command, phases, dirty,
                   planVars, client, answers, lane, done, api, faults>>

\* A client's request: a full queue is refused.
send_command(r) ==
    /\ life = "running"
    /\ Len(asked) < MaxOrders
    /\ asked' = Append(asked, r)
    /\ IF Len(orders) < ORDER_QUEUE
         THEN /\ answers' = Append(answers, "none")
              /\ orders' = Append(orders, Len(asked'))
         ELSE answers' = Append(answers, "503") /\ UNCHANGED orders
    /\ UNCHANGED <<outside, disk, life, cfg, drained, command, phases, dirty,
                   planVars, lane, done, api, faults>>

\* The client stops waiting: it is told that the command may still complete.
give_up(o) ==
    /\ Waiting(o)
    /\ answers' = [answers EXCEPT ![o] = "gone"]
    /\ UNCHANGED <<outside, disk, life, cfg, drained, command, phases, dirty,
                   planVars, client, lane, done, api, faults>>

-----------------------------------------------------------------------------
(* Reloads (daemon.rs, start_reload to reload_bound). *)

\* start_reload, where r is the reload and c the command in progress.
start_reload(r, again, deferred, c) ==
    CASE r # None ->
           /\ reload' = r /\ reload_again' = TRUE /\ reload_deferred' = deferred
           /\ UNCHANGED validating
      [] r = None /\ Is(c, {"persisting", "forgetting"}) ->
           /\ reload' = None /\ reload_again' = again /\ reload_deferred' = TRUE
           /\ UNCHANGED validating
      [] OTHER ->
           /\ reload' = [phase |-> "validating"]
           /\ reload_again' = again /\ reload_deferred' = deferred
           /\ validating' = TRUE

end_reload(c) ==
    IF reload_again
      THEN start_reload(None, FALSE, reload_deferred, c)
      ELSE reload' = None /\ UNCHANGED <<reload_again, reload_deferred, validating>>

\* A command wrote its intent or ended; c is the one in progress after it.
intent_written(c) ==
    IF reload = None /\ reload_deferred
      THEN start_reload(None, reload_again, FALSE, c)
      ELSE UNCHANGED phases

reload_failed ==
    LET answered == Is(command, {"reloading"}) /\ ~reload_again
    IN  /\ command' = IF answered THEN None ELSE command
        /\ answers' = IF answered THEN Told(command.order, "422") ELSE answers
        /\ end_reload(command')

\* The State task handles an event when no pass is due.
Idle == life = "running" /\ ~dirty

Completes(kind) ==
    /\ Idle
    /\ done # <<>> /\ Head(done).kind = kind
    /\ done' = Tail(done)

take_hup ==
    /\ Idle
    /\ hup /\ hup' = FALSE
    /\ start_reload(reload, reload_again, reload_deferred, command)
    /\ UNCHANGED <<file, unread, edits, hups, disk, life, cfg, drained, command,
                   dirty, planVars, client, answers, lane, done, api, faults>>

\* The validation (worker.rs, validate), on the I/O runtime.
validate(ok) ==
    /\ validating /\ validating' = FALSE
    /\ unread' = FALSE
    /\ IF ok THEN UNCHANGED faults ELSE Fault
    /\ done' = Append(done, [kind |-> "validated", ok |-> ok, config |-> file])
    /\ UNCHANGED <<file, hup, edits, hups, disk, life, cfg, drained, command, reload,
                   reload_again, reload_deferred, dirty, planVars, client, answers,
                   lane, api>>

reload_validated ==
    /\ Completes("validated")
    /\ IF Head(done).ok
         THEN /\ reload' = [phase |-> "preparing", config |-> Head(done).config]
              /\ commands' = Append(commands, [do |-> "prepare", config |-> Head(done).config])
              /\ UNCHANGED <<command, answers, reload_again, reload_deferred, validating>>
         ELSE reload_failed /\ UNCHANGED commands
    /\ UNCHANGED <<outside, disk, life, cfg, drained, dirty, planVars, client, lane,
                   serving, next, faults>>

api_command(c) == Append(commands, [do |-> c])

\* The drain intent that a new configuration keeps.
Pruned(config) == drained \cap Ids(config)

\* Mutant: the drain state is left to the next command.
DrainJob_none(config, kept) == None

\* The drain state to write with the binding, or None.
DrainJob(config, kept) == IF kept = drained THEN None ELSE NamesOf(config, kept)

\* The listeners are prepared: the binding goes to the persistence lane, with
\* the drain state if it changes.
api_prepared(full) ==
    /\ Completes("prepared")
    /\ LET new  == reload.config
           kept == Pruned(new)
           job  == [kind |-> "bind", config |-> new,
                    drain |-> DrainJob(new, kept)]
       IN  \/ /\ ~Head(done).ok /\ ~full
              /\ reload_failed
              /\ UNCHANGED <<jobs, commands, faults>>
           \/ /\ Head(done).ok /\ ~full
              /\ jobs' = Append(jobs, job)
              /\ reload' = [phase |-> "binding", config |-> new, drained |-> kept]
              /\ UNCHANGED <<command, answers, reload_again, reload_deferred,
                             validating, commands, faults>>
           \/ /\ Head(done).ok /\ full /\ Fault
              /\ commands' = api_command("rollback")
              /\ reload_failed
              /\ UNCHANGED jobs
    /\ UNCHANGED <<outside, disk, life, cfg, drained, dirty, planVars, client,
                   manifest, serving, next>>

\* Order o drains an uplink that the configuration does not have.
Drops(o, config) == asked[o].action = "drain" /\ asked[o].name \notin Names(config)

reload_bound ==
    /\ Completes("bound")
    /\ IF Head(done).ok
         THEN /\ commands' = api_command("commit")
              /\ cfg' = reload.config
              /\ drained' = reload.drained
              /\ dirty' = TRUE
              /\ command' =
                   CASE Is(command, {"reloading"}) /\ ~reload_again ->
                          [kind |-> "applying", order |-> command.order,
                           target |-> None, late |-> FALSE, gone |-> FALSE]
                     [] Is(command, {"applying"}) ->
                          [command EXCEPT !.gone = @ \/ Drops(command.order, reload.config)]
                     [] OTHER -> command
              /\ end_reload(command')
              /\ UNCHANGED answers
         ELSE /\ commands' = api_command("rollback")
              /\ reload_failed
              /\ UNCHANGED <<cfg, drained, dirty>>
    /\ UNCHANGED <<outside, disk, life, planVars, client, lane, serving, next, faults>>

\* The API manager (api/mod.rs, manager).
manager(ok) ==
    /\ commands # <<>> /\ commands' = Tail(commands)
    /\ LET c == Head(commands)
       IN  \/ /\ c.do = "prepare"
              /\ IF ok THEN UNCHANGED faults ELSE Fault
              /\ next' = IF ok THEN c.config ELSE None
              /\ done' = Append(done, [kind |-> "prepared", ok |-> ok])
              /\ UNCHANGED serving
           \/ /\ c.do = "commit" /\ ok
              /\ serving' = IF next = None THEN serving ELSE next
              /\ next' = None
              /\ UNCHANGED <<done, faults>>
           \/ /\ c.do = "rollback" /\ ok
              /\ next' = None
              /\ UNCHANGED <<serving, done, faults>>
    /\ UNCHANGED <<outside, disk, life, cfg, drained, command, phases, dirty, planVars,
                   client, answers, lane>>

-----------------------------------------------------------------------------
(* Commands (daemon.rs, start_order to check_command). *)

\* The State task takes the next order.
Takes(o) ==
    /\ Idle
    /\ command = None /\ reload = None
    /\ orders # <<>> /\ o = Head(orders)
    /\ orders' = Tail(orders)

Asks(o, action) == Waiting(o) /\ asked[o].action = action

Refuses(o, code) ==
    /\ answers' = Told(o, code)
    /\ UNCHANGED <<command, phases, jobs, faults>>

\* A job goes to the persistence lane, whose queue may be full.
Persists(o, job, c, full) ==
    IF full
      THEN Fault /\ answers' = Told(o, "503") /\ UNCHANGED <<command, phases, jobs>>
      ELSE /\ jobs' = Append(jobs, job)
           /\ command' = c
           /\ UNCHANGED <<answers, phases, faults>>

LastCandidate(id) == Ids(cfg) \ drained = {id}

start_drain(o, drain, full) ==
    LET n    == asked[o].name
        id   == CHOOSE i \in AllIds : <<i, n>> \in cfg
        last == drain /\ ~asked[o].force /\ LastCandidate(id)
        ids  == IF drain THEN drained \cup {id} ELSE drained \ {id}
    IN  CASE n \notin Names(cfg) -> ~full /\ Refuses(o, "404")
          [] n \in Names(cfg) /\ last -> ~full /\ Refuses(o, "409")
          [] OTHER -> Persists(o, [kind |-> "drain", state |-> NamesOf(cfg, ids)],
                               [kind |-> "persisting", order |-> o, id |-> id,
                                drain |-> drain], full)

start_forget(o, full) ==
    LET n == asked[o].name
    IN  IF n \in Names(cfg)
          THEN ~full /\ Refuses(o, "409")
          ELSE Persists(o, [kind |-> "forget", name |-> n],
                        [kind |-> "forgetting", order |-> o], full)

start_order(o, full) ==
    /\ Takes(o)
    /\ \/ /\ ~Waiting(o) /\ ~full
          /\ UNCHANGED <<command, phases, jobs, answers, faults>>
       \/ Asks(o, "drain") /\ start_drain(o, TRUE, full)
       \/ Asks(o, "undrain") /\ start_drain(o, FALSE, full)
       \/ Asks(o, "forget") /\ start_forget(o, full)
       \/ /\ Asks(o, "reload") /\ ~full
          /\ command' = [kind |-> "reloading", order |-> o]
          /\ start_reload(reload, reload_again, reload_deferred, command')
          /\ UNCHANGED <<jobs, answers, faults>>
    /\ UNCHANGED <<outside, disk, life, cfg, drained, dirty, planVars, asked, manifest,
                   done, api>>

forgotten ==
    /\ Completes("forgotten")
    /\ answers' = Told(command.order, IF Head(done).ok THEN "200" ELSE "409")
    /\ command' = None
    /\ intent_written(command')
    /\ UNCHANGED <<outside, disk, life, cfg, drained, dirty, planVars, client, lane, api,
                   faults>>

\* The drain intent is durable: it applies now.
drain_written ==
    /\ Completes("drained")
    /\ IF Head(done).ok
         THEN /\ drained' = IF command.drain THEN drained \cup {command.id}
                                             ELSE drained \ {command.id}
              /\ dirty' = TRUE
              /\ command' = [kind |-> "applying", order |-> command.order,
                             target |-> None, late |-> FALSE, gone |-> FALSE]
              /\ UNCHANGED answers
         ELSE /\ answers' = Told(command.order, "500")
              /\ command' = None
              /\ UNCHANGED <<drained, dirty>>
    /\ intent_written(command')
    /\ UNCHANGED <<outside, disk, life, cfg, planVars, client, lane, api, faults>>

\* Mutant: a command waits for as long as it takes.
check_command_applied(c, generation) ==
    LET applied  == Is(c, {"applying"}) /\ c.target # None /\ generation >= c.target
    IN  /\ command' = IF applied THEN None ELSE c
        /\ answers' = IF applied THEN Told(c.order, "200") ELSE answers

\* check_command: answers the command in progress once its generation is
\* applied, or once it waited too long.
check_command(c, generation) ==
    LET applied  == Is(c, {"applying"}) /\ c.target # None /\ generation >= c.target
        answered == Is(c, {"applying"}) /\ (applied \/ c.late)
    IN  /\ command' = IF answered THEN None ELSE c
        /\ answers' = IF answered
                        THEN Told(c.order, IF applied THEN "200" ELSE "202")
                        ELSE answers

\* Mutant: the generation of the pass before the command's change.
Targeted_before(c, generation) ==
    IF Is(c, {"applying"}) /\ c.target = None
      THEN [c EXCEPT !.target = desired_generation]
      ELSE c

\* The generation that includes the command's change.
Targeted(c, generation) ==
    IF Is(c, {"applying"}) /\ c.target = None THEN [c EXCEPT !.target = generation] ELSE c

\* A pass, and the rest of its iteration of the event loop.  It waits for the
\* global settings and plans nothing; or it finds nothing left to do; or it
\* brings the kernel to the plan; or an operation is in flight, or waits for
\* its backoff; or one fails.
Passes == {"unplanned", "done", "works", "waits", "fails"}

step(outcome) ==
    LET generation == desired_generation + (IF desired = Plan THEN 0 ELSE 1)
        targeted   == Targeted(command, generation)
    IN  /\ life = "running" /\ dirty
        /\ IF outcome = "unplanned"
             THEN UNCHANGED <<desired, desired_generation>>
             ELSE desired' = Plan /\ desired_generation' = generation
        /\ \/ /\ outcome = "unplanned"
              /\ check_command(command, applied_generation)
              /\ dirty' = FALSE
              /\ UNCHANGED <<applied_generation, kernel, faults>>
           \/ /\ outcome = "done" /\ kernel = Plan
              /\ applied_generation' = generation
              /\ check_command(targeted, generation)
              /\ dirty' = FALSE
              /\ UNCHANGED <<kernel, faults>>
           \/ /\ outcome = "works" /\ kernel # Plan
              /\ kernel' = Plan
              /\ check_command(targeted, applied_generation)
              /\ dirty' = TRUE
              /\ UNCHANGED <<applied_generation, faults>>
           \/ /\ outcome = "waits"
              /\ check_command(targeted, applied_generation)
              /\ dirty' = FALSE
              /\ UNCHANGED <<applied_generation, kernel, faults>>
           \/ /\ outcome = "fails" /\ kernel # Plan /\ Fault
              /\ IF Is(command, {"applying"})
                   THEN command' = None /\ answers' = Told(command.order, "500")
                   ELSE UNCHANGED <<command, answers>>
              /\ dirty' = TRUE
              /\ UNCHANGED <<applied_generation, kernel>>
        /\ UNCHANGED <<outside, disk, life, cfg, drained, phases, client, lane, done, api>>

\* A retry is due, something completed or changed: a pass looks at it.
wakes ==
    /\ Idle
    /\ dirty' = TRUE
    /\ UNCHANGED <<outside, disk, life, cfg, drained, command, phases, planVars,
                   client, answers, lane, done, api, faults>>

\* COMMAND_WAIT is over.
command_waited ==
    /\ Idle
    /\ Is(command, {"applying"}) /\ ~command.late
    /\ command' = [command EXCEPT !.late = TRUE]
    /\ dirty' = TRUE
    /\ UNCHANGED <<outside, disk, life, cfg, drained, phases, planVars, client,
                   answers, lane, done, api, faults>>

-----------------------------------------------------------------------------
(* The persistence lane (worker.rs, persist_lane and persist). *)

Runs(kind) == jobs # <<>> /\ Head(jobs).kind = kind

Reports(kind, ok) == done' = Append(done, [kind |-> kind, ok |-> ok])

persist_drain(w) ==
    /\ Runs("drain") /\ jobs' = Tail(jobs)
    /\ write_atomic(w, drain_file, Head(jobs).state)
    /\ Reports("drained", w = "written")
    /\ UNCHANGED <<outside, manifest_file, life, cfg, drained, command, phases, dirty,
                   planVars, client, answers, manifest, api>>

\* The bindings are written ahead of the drain state.
persist_bind(w) ==
    /\ Runs("bind")
    /\ LET job   == Head(jobs)
           bound == bind(manifest, job.config)
       IN  IF check(manifest, job.config)
             THEN /\ w = "written"
                  /\ jobs' = Tail(jobs)
                  /\ Reports("bound", FALSE)
                  /\ UNCHANGED <<manifest_file, manifest, faults>>
             ELSE /\ write_atomic(w, manifest_file, bound)
                  /\ manifest' = IF w = "written" THEN bound ELSE manifest
                  /\ IF w = "written" /\ job.drain # None
                       THEN /\ jobs' = <<[kind |-> "prune", state |-> job.drain]>> \o Tail(jobs)
                            /\ UNCHANGED done
                       ELSE jobs' = Tail(jobs) /\ Reports("bound", w = "written")
    /\ UNCHANGED <<outside, drain_file, life, cfg, drained, command, phases, dirty,
                   planVars, client, answers, api>>

\* The rest of a binding: the drain intent of removed uplinks is dropped.
persist_prune(w) ==
    /\ Runs("prune") /\ jobs' = Tail(jobs)
    /\ write_atomic(w, drain_file, Head(jobs).state)
    /\ Reports("bound", w = "written")
    /\ UNCHANGED <<outside, manifest_file, life, cfg, drained, command, phases, dirty,
                   planVars, client, answers, manifest, api>>

persist_forget(w) ==
    /\ Runs("forget") /\ jobs' = Tail(jobs)
    /\ LET name     == Head(jobs).name
           released == forget(manifest, name)
       IN  IF forgettable(manifest, name)
             THEN /\ write_atomic(w, manifest_file, released)
                  /\ manifest' = IF w = "written" THEN released ELSE manifest
                  /\ Reports("forgotten", w = "written")
             ELSE /\ w = "written"
                  /\ Reports("forgotten", FALSE)
                  /\ UNCHANGED <<manifest_file, manifest, faults>>
    /\ UNCHANGED <<outside, drain_file, life, cfg, drained, command, phases, dirty,
                   planVars, client, answers, api>>

-----------------------------------------------------------------------------

StateTask ==
    \/ take_hup
    \/ reload_validated
    \/ \E full \in BOOLEAN : api_prepared(full)
    \/ reload_bound
    \/ \E o \in DOMAIN asked, full \in BOOLEAN : start_order(o, full)
    \/ forgotten
    \/ drain_written
    \/ \E outcome \in Passes : step(outcome)
    \/ wakes
    \/ command_waited

InputOutput ==
    \/ \E ok \in BOOLEAN : validate(ok) \/ manager(ok)
    \/ \E w \in Writes : \/ persist_drain(w)
                         \/ persist_bind(w)
                         \/ persist_prune(w)
                         \/ persist_forget(w)

Outside ==
    \/ \E w \in Writes : start_checks(w) \/ start_binds(w)
    \/ Crash
    \/ \E name \in AllNames : forget_offline(name)
    \/ \E config \in Configs : edit(config)
    \/ send_hup
    \/ \E r \in Requests : send_command(r)
    \/ \E o \in DOMAIN answers : give_up(o)

Next == StateTask \/ InputOutput \/ Outside

Spec == Init /\ [][Next]_vars

\* The event loop takes, sooner or later, every event that waits (its select
\* picks at random among those ready), passes run, and I/O ends.
Fairness ==
    /\ WF_vars(\E outcome \in Passes : step(outcome))
    /\ SF_vars(take_hup)
    /\ SF_vars(reload_validated \/ reload_bound \/ forgotten \/ drain_written
                   \/ \E full \in BOOLEAN : api_prepared(full))
    /\ SF_vars(\E o \in DOMAIN asked, full \in BOOLEAN : start_order(o, full))
    /\ SF_vars(command_waited)
    /\ WF_vars(\E ok \in BOOLEAN : validate(ok))
    /\ WF_vars(\E ok \in BOOLEAN : manager(ok))
    /\ WF_vars(\E w \in Writes : \/ persist_drain(w) \/ persist_bind(w)
                                 \/ persist_prune(w) \/ persist_forget(w))

FairSpec == Spec /\ Fairness

-----------------------------------------------------------------------------
(* Properties. *)

Codes == {"none", "gone", "200", "202", "404", "409", "422", "500", "503"}

Manifests == SUBSET [id : AllIds, name : AllNames, removed : BOOLEAN]

\* The state keeps its shape; in particular only configured uplinks are
\* drained (reload_bound), the applied generation never overtakes the desired
\* one, and the persistence lane holds at most one administrative job.
TypeOK ==
    /\ file \in Configs
    /\ manifest_file \in Manifests /\ manifest \in Manifests
    /\ drain_file \subseteq AllNames
    /\ life \in {"down", "starting", "running"}
    /\ cfg \in Configs \cup {{}}
    /\ drained \subseteq Ids(cfg)
    /\ command \in {None} \cup ActiveCommands
    /\ reload \in {None} \cup ReloadPhases
    /\ {hup, reload_again, reload_deferred, dirty, validating, unread} \subseteq BOOLEAN
    /\ {desired, kernel} \subseteq {None} \cup Plans
    /\ desired_generation \in Nat /\ applied_generation \in 0..desired_generation
    /\ asked \in Seq(Requests) /\ Len(asked) <= MaxOrders
    /\ answers \in Seq(Codes) /\ Len(answers) = Len(asked)
    /\ orders \in Seq(DOMAIN asked) /\ Len(orders) <= ORDER_QUEUE
    /\ Len(jobs) <= 1
    /\ commands \in Seq([do : {"prepare"}, config : Configs]
                           \cup [do : {"commit", "rollback"}])
    /\ next \in Configs \cup {None} /\ serving \in Configs \cup {{}}

\* The uplinks whose drain intent is being changed: by the command that is
\* being written, or by a reload that removes them.
Unsettled ==
    (IF Is(command, {"persisting"}) THEN NamesOf(cfg, {command.id}) ELSE {})
        \cup (IF reload # None /\ reload.phase = "binding"
                THEN Names(cfg) \ Names(reload.config)
                ELSE {})

\* FR-SEL-3: the drain intent in force is the one that a restart would find,
\* at every moment between a command, its write, its failure, a reload that
\* is rejected after its first write, and a crash; and no intent of a removed
\* uplink is left to be found when the uplink is added again.
IntentIsDurable ==
    life = "running" => drain_file \ Unsettled = NamesOf(cfg, drained) \ Unsettled

\* FR-MARK-4, IMPL-5: every running uplink has its binding in the manifest on
\* disk, where no id and no name is bound twice: whatever was forgotten or
\* rejected, an id in use is never free for another name.
BindingsHold ==
    /\ life = "running" =>
         \A u \in cfg : \E b \in manifest_file : b.id = u[1] /\ b.name = u[2]
    /\ \A b \in manifest_file, c \in manifest_file : b.id = c.id <=> b.name = c.name

\* FR-REC-5: a 200 answer to a drain, an undrain or a reload means that the
\* kernel's routing includes it, whatever else changed meanwhile (but a reload
\* that removes a drained uplink drops the intent, also if another restores it);
\* to a forget, that the binding is gone from the manifest on disk.
OkIsApplied ==
    [][\A o \in DOMAIN answers :
          Waiting(o) /\ answers'[o] = "200" =>
             LET r    == asked[o]
                 plan == IF kernel' = None THEN <<{}, {}>> ELSE kernel'
             IN  CASE r.action = "drain"   -> command.gone \/ r.name \notin plan[2]
                   [] r.action = "undrain" -> r.name \in Names(cfg) => r.name \in plan[2]
                   [] r.action = "reload"  -> plan[1] = cfg
                   [] r.action = "forget"  -> \A b \in manifest_file : b.name # r.name]_vars

\* FR-API-4: every command is answered, also when reloads come in between,
\* writes fail or nothing is ever applied.
OrdersAreAnswered ==
    \A o \in 1..MaxOrders : LET pending == o \in DOMAIN answers /\ Waiting(o)
                            IN  pending ~> ~pending
=============================================================================
