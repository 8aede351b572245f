------------------------------ MODULE MCTasks -------------------------------
(***************************************************************************)
(* Tasks that serve or watch, each on a small instance: the follower of    *)
(* the event bus (EventBus), the hooks' notifier with the notification     *)
(* test (Hooks), a prober (Probe) and the connections of the API over a    *)
(* reload (Sockets).  In a behaviour one of them, the focus, moves and the *)
(* others stay as they began.                                              *)
(***************************************************************************)
EXTENDS EventBus

CONSTANTS
    HookNames, Users, NoUser, Slots,                             \* of Hooks
    Icmp, Tcp, MaxTries, SeqSpace, Identifiers, MaxAttempts,     \* of Probe
    Paths, Conns, Limit                                          \* of Sockets

VARIABLES
    focus,
    arrivals, notify, notifier, hook_user, free, acquiring, job, test, busy,
    emitted, reloads,                                            \* of Hooks
    prober, spec, icmp, attempt, started, samples, reachable, done, network,
    report, tokens, first, answered,                             \* of Probe
    object, record, manager, known, serving, prepared, next, cut, stopped,
    accepting, conn, preparations, faults, config, unsaved       \* of Sockets

Endpoint(r, p, a) == [role |-> r, path |-> p, access |-> a]

\* A reload changes the access of a path and closes another, or moves the path.
Apis ==
    {{Endpoint("control", "a", 1), Endpoint("status", "b", 1)},
     {Endpoint("control", "a", 2)}, {Endpoint("control", "b", 1)}}

H == INSTANCE Hooks WITH MaxEvents <- 1, MaxTests <- 1, MaxReloads <- 1
P == INSTANCE Probe
S == INSTANCE Sockets
       WITH Configs <- Apis, reloads <- preparations, MaxIds <- 6, MaxReloads <- 1, MaxFaults <- 0

hooks   == <<arrivals, notify, notifier, hook_user, free, acquiring, job, test, busy,
             emitted, reloads>>
probe   == <<prober, spec, icmp, attempt, started, samples, reachable, done, network,
             report, tokens, first, answered>>
sockets == <<object, record, manager, known, serving, prepared, next, cut, stopped,
             accepting, conn, preparations, faults, config, unsaved>>

TasksInit ==
    /\ focus \in {"bus", "hooks", "probe", "sockets"}
    /\ Init
    /\ H!Init /\ (focus # "hooks" => notify = CHOOSE s \in H!Notifies : TRUE)
    /\ P!Init
    /\ focus # "probe" => /\ spec = CHOOSE s \in P!Settings : TRUE
                          /\ icmp.seq = 0 /\ icmp.id = CHOOSE i \in Identifiers : TRUE
    /\ S!Init

BusNext     == focus = "bus" /\ UNCHANGED <<focus, hooks, probe, sockets>> /\ Next
HooksNext   == focus = "hooks" /\ UNCHANGED <<focus, vars, probe, sockets>> /\ H!Next
ProbeNext   == focus = "probe" /\ UNCHANGED <<focus, vars, hooks, sockets>> /\ P!Next
SocketsNext == focus = "sockets" /\ UNCHANGED <<focus, vars, hooks, probe>> /\ S!Next

\* The emitter, the follower, the notifier, the test and the runs are scheduled, as in
\* the specifications of the parts.
TasksFairness ==
    /\ WF_vars(focus = "bus" /\ Emission)
    /\ WF_vars(focus = "bus" /\ \E limit \in Limits : get_events(limit))
    /\ WF_vars(focus = "bus" /\ wake_up)
    /\ WF_hooks(focus = "hooks" /\ H!Notifier)
    /\ WF_hooks(focus = "hooks" /\ (H!TestRun \/ \E ok \in BOOLEAN : H!TestResolved(ok)))
    /\ WF_hooks(focus = "hooks" /\ H!TestEnds)
    /\ \A j \in H!Jobs : WF_hooks(focus = "hooks" /\ (H!RunEnds(j) \/ H!Deadline(j)))

TasksSpec ==
    /\ TasksInit
    /\ [][BusNext \/ HooksNext \/ ProbeNext \/ SocketsNext]_<<focus, vars, hooks, probe, sockets>>
    /\ TasksFairness

-----------------------------------------------------------------------------
(* The properties of the parts; those of EventBus keep their names. *)

\* FR-PROBE-3, FR-PROBE-4: the verdict of a round is that of its own attempts.
VerdictIsTrue == focus = "probe" => P!VerdictIsTrue

\* FR-API-1: a connection whose access was withdrawn, or whose listener is closed,
\* has been told to end.
OldAccessIsCut == focus = "sockets" => S!OldAccessIsCut

\* FR-API-2, FR-HOOK-4: once no more events come, the follower gets to the end of the
\* history, over evictions, small pages and a restart; and the hooks of every event
\* are started and the notification test is over, whatever their processes do.
TasksSettle ==
    <>[]/\ focus = "bus" => CaughtUp
        /\ focus = "hooks" => H!AllTaken
=============================================================================
