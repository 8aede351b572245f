----------------------------- MODULE PathHealth -----------------------------
(***************************************************************************)
(* One path (an uplink in one address family) from discovery to health:    *)
(* the readiness that a pass of the State task reads from its view of the  *)
(* kernel, the prober of the current generation and the rounds it queues,  *)
(* the hysteresis machine of health.rs, and the health checkpoint that a   *)
(* restarted daemon may resume from.                                       *)
(*                                                                         *)
(* The State task handles one event at a time, and runs a pass before the  *)
(* next event whenever the last one left it dirty (daemon.rs, event_loop). *)
(* The prober and the persistence lane run concurrently with it.           *)
(***************************************************************************)
EXTENDS Integers, Sequences, FiniteSetsExt

CONSTANTS
    Identities,     \* interface index and source address of a ready path
    Gateways,       \* its gateway
    Probings,       \* the settings of an uplink that a prober is started with
    Hystereses,     \* the [rise, fall] settings a configuration may have
    None,           \* no value: not ready, no prober, no checkpoint
    U8Max,          \* where the counters saturate (255 in the code)
    QueueLength,    \* capacity of the report channel (256 in the code)
    LaneMayFill,    \* whether a queue of the persistence lane can be full
    MaxGeneration,  \* bound: the environment is quiet past this generation
    MaxRestarts     \* bound: restarts of the daemon

Ready == Identities \X Gateways
Specs == Identities \X Probings

Rounds == {"passed", "failed", "degraded"}

Hysteresis == [rise : 1..U8Max, fall : 1..U8Max]

Machine == [state : {"up", "down"}, passes : 0..U8Max, failures : 0..U8Max,
            optimistic : BOOLEAN, ready : BOOLEAN]

Checkpoint == [found : Ready \cup {None}, state : {"up", "down"},
               passes : 0..U8Max, failures : 0..U8Max]

Report == [generation : Nat, spec : Specs, outcome : Rounds \cup {"ended"}]

ASSUME ConstantsAssumption ==
    /\ None \notin (Identities \X Gateways) \cup (Identities \X Probings)
    /\ None \notin Checkpoint
    /\ U8Max \in Nat \ {0}
    /\ \A h \in Hystereses : h.rise \in 1..U8Max /\ h.fall \in 1..U8Max
    /\ QueueLength \in Nat \ {0}
    /\ MaxGeneration \in Nat
    /\ MaxRestarts \in Nat
    /\ LaneMayFill \in BOOLEAN

VARIABLES
    view,            \* what discover::discover finds in the view of the kernel
    unapplied,       \* the interface's sysctls are pending, never applied
    routeFailed,     \* a route of the path could not be installed
    hysteresis,      \* rise and fall of the running configuration
    probing,         \* the prober settings of the running configuration
    installing,      \* the first pass waits for the sysctls in flight
    dirty,           \* a pass is due
    discovered,      \* the discovery of the last pass
    machine,         \* health::Machine
    prober,          \* spec of the prober the path holds
    alive,           \* whether that prober's task still runs
    generation,      \* generation of the path's prober
    probeGeneration, \* the daemon's generation counter
    reports,         \* the channel of probe reports
    queued,          \* the latest checkpoint waiting in the persistence lane
    disk,            \* health.json
    restarts,
    past             \* history: the latest events that decide the health

vars == <<view, unapplied, routeFailed, hysteresis, probing, installing, dirty,
          discovered, machine, prober, alive, generation, probeGeneration,
          reports, queued, disk, restarts, past>>

kernelVars == <<view, unapplied, routeFailed>>
configVars == <<hysteresis, probing>>
proberVars == <<prober, alive, generation, probeGeneration>>
fileVars   == <<queued, disk>>

-----------------------------------------------------------------------------
(* The hysteresis machine (health.rs). *)

Machine_down == [state |-> "down", passes |-> 0, failures |-> 0,
                 optimistic |-> FALSE, ready |-> FALSE]

Machine_new(ready, warm) ==
    CASE ~ready -> Machine_down
      [] ready /\ warm # None ->
            [state |-> warm.state, passes |-> warm.passes,
             failures |-> warm.failures, optimistic |-> FALSE, ready |-> TRUE]
      [] OTHER ->
            [state |-> "up", passes |-> 0, failures |-> 0,
             optimistic |-> TRUE, ready |-> TRUE]

set_ready(m, ready) ==
    IF ready = m.ready
      THEN m
      ELSE [state |-> IF ready THEN m.state ELSE "down", passes |-> 0,
            failures |-> 0, optimistic |-> FALSE, ready |-> ready]

saturating_add(n) == IF n < U8Max THEN n + 1 ELSE U8Max

FirstRound(m, round) ==
    IF round = "passed"
      THEN [m EXCEPT !.optimistic = FALSE, !.passes = 1]
      ELSE [m EXCEPT !.optimistic = FALSE, !.failures = 1, !.state = "down"]

Passed(m, h) ==
    LET n == saturating_add(m.passes)
    IN  [m EXCEPT !.failures = 0, !.passes = n,
                  !.state = IF @ = "down" /\ n >= h.rise THEN "up" ELSE @]

Failed(m, h) ==
    LET n == saturating_add(m.failures)
    IN  [m EXCEPT !.passes = 0, !.failures = n,
                  !.state = IF @ = "up" /\ n >= h.fall THEN "down" ELSE @]

Machine_round(m, round, h) ==
    CASE ~m.ready         -> m
      [] m.ready /\ m.optimistic -> FirstRound(m, round)
      [] OTHER            -> IF round = "passed" THEN Passed(m, h)
                                                 ELSE Failed(m, h)

-----------------------------------------------------------------------------
(* History: the last events that may decide the health, newest last: the   *)
(* rounds given to the machine, "lost" and "found" for changes of          *)
(* readiness, "cold" for a cold start.  Only as many are kept as rise and  *)
(* fall can look at.                                                       *)

PastLength == Max({h.rise : h \in Hystereses} \cup {h.fall : h \in Hystereses})

Record(event) ==
    past' = LET p == Append(past, event)
            IN  IF Len(p) > PastLength THEN Tail(p) ELSE p

\* The last n events are all in S.
Run(p, n, S) == Len(p) >= n /\ \A i \in (Len(p) - n + 1)..Len(p) : p[i] \in S

-----------------------------------------------------------------------------
(* The health checkpoint (state.rs, daemon.rs). *)

checkpoint(m, found) == [found |-> found, state |-> m.state,
                         passes |-> m.passes, failures |-> m.failures]

\* Only the latest waiting checkpoint counts; a full queue drops the new one.
write_checkpoint(m, found) ==
    \/ queued' = checkpoint(m, found)
    \/ LaneMayFill /\ queued' = queued

-----------------------------------------------------------------------------
(* Starting the daemon: what load_checkpoint makes of the file, which may  *)
(* be of another boot or too old (valid).                                  *)

\* Mutant: a checkpoint of another boot, or one too old, is resumed.
Resumed_old(file, found, valid) ==
    IF file # None /\ file.found = found THEN file ELSE None

Resumed(file, found, valid) ==
    IF file # None /\ valid /\ file.found = found THEN file ELSE None

\* History: the events that a start may count on, whatever it resumes.  Those
\* of a checkpoint count if it is valid and of this very path.
EventsOf(file, found, valid) ==
    CASE found = None -> <<"start">>
      [] found # None /\ file # None /\ valid /\ file.found = found ->
            [i \in 1..PastLength |->
                IF i > PastLength - file.passes THEN "passed"
                ELSE IF i > PastLength - file.failures THEN "failed"
                ELSE "start"]
      [] OTHER -> <<"cold">>

load_checkpoint(file, found, valid) ==
    /\ view' = found
    /\ discovered' = found
    /\ machine' = Machine_new(found # None, Resumed(file, found, valid))
    /\ past' = EventsOf(file, found, valid)

FreshProcess ==
    /\ unapplied' = TRUE
    /\ routeFailed' = FALSE
    /\ installing' = TRUE
    /\ dirty' = TRUE
    /\ prober' = None
    /\ alive' = FALSE
    /\ generation' = 0
    /\ probeGeneration' = 0
    /\ reports' = <<>>
    /\ queued' = None

Init ==
    /\ view \in Ready \cup {None}
    /\ discovered = view
    /\ machine = Machine_new(view # None, None)
    /\ past = EventsOf(None, view, FALSE)
    /\ hysteresis \in Hystereses
    /\ probing \in Probings
    /\ unapplied = TRUE
    /\ routeFailed = FALSE
    /\ installing = TRUE
    /\ dirty = TRUE
    /\ prober = None
    /\ alive = FALSE
    /\ generation = 0
    /\ probeGeneration = 0
    /\ reports = <<>>
    /\ queued = None
    /\ disk = None
    /\ restarts = 0

\* A crash leaves the file as it is; a shutdown writes the last checkpoint
\* once the lanes have stopped, and that write may fail.  The start that
\* follows reads the file; the configuration may have changed meanwhile.
Restart(file, found, valid) ==
    /\ restarts < MaxRestarts
    /\ restarts' = restarts + 1
    /\ disk' = file
    /\ load_checkpoint(file, found, valid)
    /\ FreshProcess
    /\ hysteresis' \in Hystereses
    /\ probing' \in Probings

-----------------------------------------------------------------------------
(* Events of the State task, each handled when no pass is due. *)

Quiet == probeGeneration < MaxGeneration

\* A netlink notification changes what discovery finds; a change of the link
\* also makes the interface's sysctls pending again.  (One that changes
\* neither only leads to a pass that changes nothing.)
notification(found, link) ==
    /\ ~dirty /\ Quiet
    /\ found # view \/ (link /\ ~unapplied)
    /\ view' = found
    /\ unapplied' = (unapplied \/ link)
    /\ dirty' = TRUE
    /\ UNCHANGED <<routeFailed, configVars, installing, discovered, machine,
                   proberVars, reports, fileVars, restarts, past>>

\* The sysctls of the interface are applied, or fail; the installation goes
\* on in either case.
sysctls_done(ok) ==
    /\ ~dirty
    /\ unapplied
    /\ unapplied' = ~ok
    /\ ok \/ installing
    /\ installing' = FALSE
    /\ dirty' = TRUE
    /\ UNCHANGED <<view, routeFailed, configVars, discovered, machine,
                   proberVars, reports, fileVars, restarts, past>>

\* A pass failed to install a route of the path's table.
route_fails ==
    /\ ~dirty /\ Quiet
    /\ machine.ready
    /\ ~routeFailed
    /\ routeFailed' = TRUE
    /\ dirty' = TRUE
    /\ UNCHANGED <<view, unapplied, configVars, installing, discovered, machine,
                   proberVars, reports, fileVars, restarts, past>>

\* Mutant: the routes that failed are not forgotten.
full_reconciliation_keeping ==
    /\ ~dirty
    /\ dirty' = TRUE
    /\ UNCHANGED <<kernelVars, configVars, installing, discovered, machine,
                   proberVars, reports, fileVars, restarts, past>>

\* A full reconciliation forgets the routes that failed.
full_reconciliation ==
    /\ ~dirty
    /\ routeFailed' = FALSE
    /\ dirty' = TRUE
    /\ UNCHANGED <<view, unapplied, configVars, installing, discovered, machine,
                   proberVars, reports, fileVars, restarts, past>>

\* A reload commits new settings for the uplink.
reload_bound(h, p) ==
    /\ ~dirty /\ Quiet
    /\ hysteresis' = h
    /\ probing' = p
    /\ dirty' = TRUE
    /\ UNCHANGED <<kernelVars, installing, discovered, machine, proberVars,
                   reports, fileVars, restarts, past>>

\* A reload removes the uplink, with its path and prober, and a later one has
\* it again: the path and its settings begin anew (prune_paths, evaluate), and a
\* checkpoint in between does not have it.
reload_readds(h, p) ==
    /\ ~dirty /\ Quiet
    /\ hysteresis' = h
    /\ probing' = p
    /\ machine' = Machine_down
    /\ discovered' = None
    /\ prober' = None
    /\ alive' = FALSE
    /\ generation' = 0
    /\ unapplied' = TRUE
    /\ routeFailed' = FALSE
    /\ dirty' = TRUE
    /\ queued' \in {queued, checkpoint(Machine_down, None)}
    /\ IF machine.ready THEN Record("lost") ELSE UNCHANGED past
    /\ UNCHANGED <<view, installing, probeGeneration, reports, disk, restarts>>

\* The report at the head of the channel: rounds of another generation are
\* discarded, a prober that ended is forgotten so that a pass restarts it.
probe_report ==
    /\ ~dirty
    /\ reports # <<>>
    /\ reports' = Tail(reports)
    /\ LET r == Head(reports)
           m == Machine_round(machine, r.outcome, hysteresis)
       IN  \/ /\ r.generation # generation
              /\ UNCHANGED <<machine, past, prober, queued, dirty>>
           \/ /\ r.generation = generation
              /\ r.outcome = "ended"
              /\ prober' = None
              /\ dirty' = TRUE
              /\ UNCHANGED <<machine, past, queued>>
           \/ /\ r.generation = generation
              /\ r.outcome \in Rounds
              /\ machine' = m
              /\ IF machine.ready THEN Record(r.outcome) ELSE UNCHANGED past
              /\ IF m.state # machine.state
                   THEN dirty' = TRUE /\ write_checkpoint(m, discovered)
                   ELSE UNCHANGED <<dirty, queued>>
              /\ UNCHANGED prober
    /\ UNCHANGED <<kernelVars, configVars, installing, discovered, alive,
                   generation, probeGeneration, disk, restarts>>

\* The timer of the event loop, every 30 s.
checkpoint_due ==
    /\ ~dirty
    /\ write_checkpoint(machine, discovered)
    /\ UNCHANGED <<kernelVars, configVars, installing, dirty, discovered,
                   machine, proberVars, reports, disk, restarts, past>>

-----------------------------------------------------------------------------
(* The pass: evaluate and manage_probers. *)

\* The reason that a path is held not ready although discovery found it.
Installable == ~unapplied /\ ~(routeFailed /\ view = discovered)

Wanted(found, m) == IF found # None /\ m.ready
                      THEN <<found[1], probing>>
                      ELSE None

\* Mutant: a prober that runs is kept although another one is wanted.
manage_probers_keeping(m) ==
    LET wanted == Wanted(view, m)
    IN  IF wanted = prober \/ (wanted # None /\ prober # None)
          THEN UNCHANGED proberVars
          ELSE /\ probeGeneration' = probeGeneration + 1
               /\ generation' = probeGeneration + 1
               /\ prober' = wanted
               /\ alive' = (wanted # None)

\* Mutant: a prober replaced at once keeps the generation of the old one.
manage_probers_unnumbered(m) ==
    LET wanted == Wanted(view, m)
    IN  /\ probeGeneration' = probeGeneration + (IF wanted = None THEN 1 ELSE 0)
        /\ generation' = probeGeneration'
        /\ prober' = wanted
        /\ alive' = (wanted # None)

manage_probers(m) ==
    LET wanted == Wanted(view, m)
    IN  IF wanted = prober
          THEN UNCHANGED proberVars
          ELSE /\ probeGeneration' = probeGeneration + 1
               /\ generation' = probeGeneration + 1
               /\ prober' = wanted
               /\ alive' = (wanted # None)

\* The active sets may change with the pass, for this path's sake or for
\* another's, and then a checkpoint is written: an uplink without a priority
\* is never in them, whatever its health.
evaluate(activeChanges) ==
    LET m == set_ready(machine, view # None /\ Installable)
    IN  /\ machine' = m
        /\ discovered' = view
        /\ routeFailed' = (routeFailed /\ view = discovered)
        /\ IF m.ready # machine.ready
             THEN Record(IF m.ready THEN "found" ELSE "lost")
             ELSE UNCHANGED past
        /\ manage_probers(m)
        /\ IF activeChanges THEN write_checkpoint(m, view) ELSE UNCHANGED queued

step(activeChanges) ==
    /\ dirty
    /\ dirty' = FALSE
    /\ IF installing
         THEN UNCHANGED <<machine, discovered, routeFailed, past, proberVars, queued>>
         ELSE evaluate(activeChanges)
    /\ UNCHANGED <<view, unapplied, configVars, installing, reports, disk, restarts>>

-----------------------------------------------------------------------------
(* The prober's task and the persistence lane. *)

\* A prober reports a completed round, or that it ended (its sockets failed).
prober_sends(outcome) ==
    /\ prober # None /\ alive
    /\ Len(reports) < QueueLength
    /\ outcome = "ended" => Quiet
    /\ reports' = Append(reports, [generation |-> generation, spec |-> prober,
                                   outcome |-> outcome])
    /\ alive' = (outcome # "ended")
    /\ UNCHANGED <<kernelVars, configVars, installing, dirty, discovered,
                   machine, prober, generation, probeGeneration, fileVars,
                   restarts, past>>

\* The lane writes the latest checkpoint; an error is only logged.
persist_checkpoint(ok) ==
    /\ queued # None
    /\ queued' = None
    /\ disk' = IF ok THEN queued ELSE disk
    /\ UNCHANGED <<kernelVars, configVars, installing, dirty, discovered,
                   machine, proberVars, reports, restarts, past>>

-----------------------------------------------------------------------------

StateTask ==
    \/ \E found \in Ready \cup {None}, link \in BOOLEAN : notification(found, link)
    \/ \E ok \in BOOLEAN : sysctls_done(ok)
    \/ route_fails
    \/ full_reconciliation
    \/ \E h \in Hystereses, p \in Probings : reload_bound(h, p) \/ reload_readds(h, p)
    \/ probe_report
    \/ checkpoint_due
    \/ \E changes \in BOOLEAN : step(changes)

Next ==
    \/ StateTask
    \/ \E outcome \in Rounds \cup {"ended"} : prober_sends(outcome)
    \/ \E ok \in BOOLEAN : persist_checkpoint(ok)
    \/ \E file \in {disk, checkpoint(machine, discovered)},
          found \in Ready \cup {None}, valid \in BOOLEAN :
             Restart(file, found, valid)

Spec == Init /\ [][Next]_vars

\* The event loop runs the passes that are due.  Its select takes one of the
\* events that wait at random, so that none that keeps coming back is passed
\* over for ever.  A prober repeats its rounds; pending sysctls are retried
\* until they apply; full reconciliations are periodic.
Fairness ==
    /\ WF_vars(\E changes \in BOOLEAN : step(changes))
    /\ SF_vars(probe_report)
    /\ WF_vars(\E outcome \in Rounds : prober_sends(outcome))
    /\ SF_vars(sysctls_done(TRUE))
    /\ SF_vars(full_reconciliation)

FairSpec == Spec /\ Fairness

-----------------------------------------------------------------------------
(* Properties. *)

\* The state of the path, of its prober and of the files keeps its shape; in
\* particular the counters of the machine (health.rs, saturating_add on u8)
\* stay within their width however many rounds pass or fail.
TypeOK ==
    /\ view \in Ready \cup {None}
    /\ unapplied \in BOOLEAN
    /\ routeFailed \in BOOLEAN
    /\ hysteresis \in Hystereses
    /\ probing \in Probings
    /\ installing \in BOOLEAN
    /\ dirty \in BOOLEAN
    /\ discovered \in Ready \cup {None}
    /\ machine \in Machine
    /\ prober \in Specs \cup {None}
    /\ alive \in BOOLEAN
    /\ generation \in Nat
    /\ probeGeneration \in Nat
    /\ reports \in Seq(Report)
    /\ queued \in Checkpoint \cup {None}
    /\ disk \in Checkpoint \cup {None}
    /\ restarts \in Nat

Failing == {"failed", "degraded"}

\* FR-PROBE-3: a round changes the health only if it was measured on the
\* interface and source address, and with the prober settings, that the path
\* has when the round is handled, however long it waited in the channel and
\* whatever was discovered or reloaded meanwhile.
StaleRoundsIgnored ==
    [][probe_report /\ machine' # machine =>
          /\ discovered # None
          /\ Head(reports).spec = <<discovered[1], probing>>]_vars

\* FR-HEALTH-1, FR-HEALTH-2 and FR-HEALTH-3: while the daemon runs, the rounds
\* earn every change of the health.  A path goes up only when the last rise
\* events were passed rounds, with no failed round and no change of readiness
\* among them; one that stays ready goes down only after fall failed or
\* degraded rounds in a row, or on the first round after a cold start; whatever
\* the counters were when rise and fall were reloaded or the daemon restarted.
HealthIsEarned ==
    [][machine'.state # machine.state /\ restarts' = restarts =>
          IF machine'.state = "up"
            THEN Run(past', hysteresis.rise, {"passed"})
            ELSE \/ ~machine'.ready
                 \/ Run(past', hysteresis.fall, Failing)
                 \/ past'[Len(past') - 1] = "cold"]_vars

\* INV-2, FR-HEALTH-3: when no pass is due, a path counts as up only while
\* discovery finds it, and the prober it holds is of that very address and of
\* the configured settings.
UpIsWatched ==
    machine.state = "up" /\ ~dirty /\ ~installing =>
        /\ machine.ready
        /\ view # None
        /\ prober = <<view[1], probing>>

\* FR-HEALTH-2, FR-DISC-7: a path that stays discovered and whose rounds
\* pass from some time on comes up and stays up, whatever failed before that:
\* its routes or sysctls, its prober, a checkpoint, the daemon.
PassingPathComesUp ==
    \A r \in Ready :
        <>[](view = r /\ \A i \in 1..Len(reports) : reports[i].outcome = "passed")
            => <>[](machine.state = "up")
=============================================================================
