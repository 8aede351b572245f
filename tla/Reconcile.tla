------------------------------ MODULE Reconcile ------------------------------
(***************************************************************************)
(* The reconciler for one address family in managed firewall mode: the     *)
(* pass that plans the routes and rules of the configuration and of the    *)
(* paths' health (plan.rs), the ordered operations that bring the kernel   *)
(* there (reconcile.rs, diff and execute), the nftables lane that replaces *)
(* PolyWAN's table meanwhile (worker.rs), failures and their retry,        *)
(* reloads at any moment, crashes, and the adoption of what a previous     *)
(* daemon left (daemon.rs, step, nft_applied, failed, run).                *)
(*                                                                         *)
(* A table is named by its offset from table_base, a rule by its offset    *)
(* from rule_priority_base.  A route is the set of its next hops, each the *)
(* path and the interface it leaves through; {} is an empty table.         *)
(***************************************************************************)
EXTENDS Integers, Sequences, FiniteSets

CONSTANTS
    Uplinks,            \* the uplink ids in use, a subset of 1..63
    Interfaces,
    Configs,            \* the configurations a reload may bring
    Healths,            \* the states of a path considered
    None,
    MaxChanges,         \* bound: reloads and changes of health
    MaxFaults,          \* bound: failures and crashes
    LateErrors,         \* nft may report an error after it committed
    EarlyReloads,       \* a reload may come before the first table is known
    Inspecting,         \* full reconciliations inspect the table
    AdoptionErrors      \* the listing of the table may fail at startup

Assignments == Uplinks \X Interfaces

\* What a pass knows of a path: "out" is not ready; "idle" is ready but
\* unhealthy or drained; "standby" is healthy and not in the active set;
\* "fallback" is unhealthy and in the active set, which holds such paths when
\* all are down.
AllHealths == {"out", "idle", "standby", "active", "fallback"}

ASSUME ConstantsAssumption ==
    /\ Uplinks \subseteq 1..63
    /\ Configs \subseteq SUBSET Assignments
    /\ \A c \in Configs : \A a \in c, b \in c : a[1] = b[1] => a = b
    /\ \A s \in SUBSET Assignments : s # None
    /\ "out" \in Healths /\ Healths \subseteq AllHealths
    /\ MaxChanges \in Nat
    /\ MaxFaults \in Nat
    /\ LateErrors \in BOOLEAN
    /\ EarlyReloads \in BOOLEAN
    /\ Inspecting \in BOOLEAN
    /\ AdoptionErrors \in BOOLEAN

-----------------------------------------------------------------------------
(* Layout (plan.rs). *)

balancing_table         == 0
path_table(u)           == u
policy_balance_table(u) == 64 + u
policy_block_table(u)   == 128 + u

PathTables   == {path_table(u) : u \in Uplinks}
PolicyTables == {policy_balance_table(u) : u \in Uplinks}
                    \cup {policy_block_table(u) : u \in Uplinks}
Tables       == {balancing_table} \cup PathTables \cup PolicyTables

\* Tables whose routes carry new connections: they need a mark assignment.
MarkedTables == {balancing_table} \cup PolicyTables

ProbeLookup(u)         == u
ProbeGuard             == 64
MainBypass             == 100
PathLookup(u)          == 200 + u
PathGuard              == 264
PolicyBalanceLookup(u) == 300 + u
PolicyBlockLookup(u)   == 400 + u
PolicyBlockGuard       == 464
Balance                == 600
FinalGuard             == 699

ClassGuards == {ProbeGuard, PathGuard, PolicyBlockGuard}
LookupsOf(u) == {ProbeLookup(u), PathLookup(u), PolicyBalanceLookup(u),
                 PolicyBlockLookup(u)}
Rules == ClassGuards \cup {MainBypass, Balance, FinalGuard}
            \cup UNION {LookupsOf(u) : u \in Uplinks}

\* The table that a rule looks up, or None.
LookedUp(r) ==
    CASE r \in 1..63    -> path_table(r)
      [] r \in 201..263 -> path_table(r - 200)
      [] r \in 301..363 -> policy_balance_table(r - 300)
      [] r \in 401..463 -> policy_block_table(r - 400)
      [] r = Balance    -> balancing_table
      [] OTHER          -> None

install_rank(r) ==
    CASE r \in ClassGuards           -> 0
      [] r \in 1..63                 -> 1
      [] r = MainBypass              -> 2
      [] r \in 201..263              -> 3
      [] r \in 301..363 \cup 401..463 -> 4
      [] r = Balance                 -> 6
      [] OTHER                       -> 7

\* Mutant: rules are removed in the order of their installation.
removal_rank_install(r) == install_rank(r)

removal_rank(r) == 7 - install_rank(r)

-----------------------------------------------------------------------------
(* The planner (plan.rs) and the diff (reconcile.rs). *)

Paths(config) == {a[1] : a \in config}

Inputs(config) == [Paths(config) -> Healths]

ready(in)     == {u \in DOMAIN in : in[u] # "out"}
usable(in)    == {u \in DOMAIN in : in[u] \in {"standby", "active"}}
activeSet(in) == {u \in DOMAIN in : in[u] \in {"active", "fallback"}}

without(in, paths) ==
    [u \in DOMAIN in |->
        IF u \in paths /\ in[u] # "out" THEN "idle" ELSE in[u]]

Hops(config, paths) == {a \in config : a[1] \in paths}

PlannedRoutes(config, in) ==
    [t \in Tables |->
        CASE t = balancing_table -> Hops(config, activeSet(in))
          [] t \in PathTables    -> Hops(config, ready(in) \cap {t})
          [] OTHER -> Hops(config, {u \in usable(in) :
                           t \in {policy_balance_table(u), policy_block_table(u)}})]

PlannedRules(config) ==
    IF config = {}
      THEN {}
      ELSE ClassGuards \cup {MainBypass, Balance, FinalGuard}
               \cup UNION {LookupsOf(u) : u \in Paths(config)}

unassigned(configured, known) ==
    IF known = None THEN {} ELSE Paths(configured \ known)

\* The operations of a pass, in the order of their phases: what is to be
\* replaced by the routes planned for the paths already assigned, what is to
\* be withdrawn, the rules to add, the nftables step, the routes completed
\* after it, the rules and then the path routes to delete.
Phases == 1..8
NftTable == 0     \* the one operation of phase 5

Ops == [Phases -> SUBSET Nat]
NoOps == [n \in Phases |-> {}]

\* A transaction handed to the lane, and the attempt it is part of.
NftFlight == [assigns : SUBSET Assignments, attempt : Ops]

ASSUME NoneAssumption == None \notin NftFlight

diff(before, desired, rulesDesired, nftPending, routesSeen, rulesSeen) ==
    LET early     == {t \in Tables \ PathTables :
                         routesSeen[t] # {} /\ before[t] = {}}
        gone      == {t \in PathTables : routesSeen[t] # {} /\ desired[t] = {}}
        withdrawn == {t \in gone : \E r \in rulesDesired : LookedUp(r) = t}
    IN  [n \in Phases |->
           CASE n = 1 -> {t \in Tables : before[t] # {} /\ routesSeen[t] # before[t]}
             [] n = 2 -> early
             [] n = 3 -> withdrawn
             [] n = 4 -> rulesDesired \ rulesSeen
             [] n = 5 -> IF nftPending THEN {NftTable} ELSE {}
             [] n = 6 -> {t \in Tables : /\ desired[t] # {}
                                         /\ before[t] # desired[t]
                                         /\ t \in early \/ routesSeen[t] # desired[t]}
             [] n = 7 -> rulesSeen \ rulesDesired
             [] n = 8 -> gone \ withdrawn]

\* Mutant: the whole pass waits for the transaction in flight.
UpToNft_nothing(ops) == NoOps

\* Mutant: only what is added waits for the transaction in flight.
UpToNft_removals(ops) ==
    [n \in Phases |-> IF n < 5 \/ n = 7 \/ ops[5] = {} THEN ops[n] ELSE {}]

\* The operations before the nftables step, if there is one.
UpToNft(ops) ==
    [n \in Phases |-> IF n < 5 \/ ops[5] = {} THEN ops[n] ELSE {}]

\* Operation x of phase n comes first: every earlier phase is done, and it
\* precedes the others of its own.
First(ops, n, x) ==
    /\ x \in ops[n]
    /\ \A m \in 1..(n - 1) : ops[m] = {}
    /\ \A y \in ops[n] :
         CASE n = 4 -> \/ install_rank(x) < install_rank(y)
                       \/ install_rank(x) = install_rank(y) /\ x <= y
           [] n = 7 -> \/ removal_rank(x) < removal_rank(y)
                       \/ removal_rank(x) = removal_rank(y) /\ x >= y
           [] n = 5 -> TRUE
           [] OTHER -> x <= y

-----------------------------------------------------------------------------

VARIABLES
    routes,        \* the kernel's routes
    rules,         \* the kernel's rules
    table,         \* the assignments of the kernel's nftables table, or None
    cfg,           \* the running configuration: its mark assignments
    input,         \* what evaluate finds of the paths
    dirty,         \* a pass is due
    pass,          \* the pass in progress: the operations left, the routes
                   \* planned with and without the unassigned paths, and all
                   \* the operations of its diff; or None
    retry,         \* the failed attempt that waits for its backoff, or None
    installed,     \* nft_applied: what the last known replacement installed
    nft_adopted,   \* the assignments found at startup
    nft_listing,   \* the table's listing after the last replacement
    nft_missing,   \* the table must be replaced
    flight,        \* nft_flight: the transaction handed to the lane, or None
    lane,          \* jobs of the nftables lane
    done,          \* its completions
    applied,       \* applied_generation = desired_generation
    planned,       \* last_desired: the routes and configuration last planned
    changes,       \* reloads and changes of health so far
    faults         \* failures and crashes so far

kernelVars == <<routes, rules, table>>
passVars   == <<pass, planned, applied>>
nftVars    == <<installed, nft_adopted, nft_listing, nft_missing, flight>>
laneVars   == <<lane, done>>
bounds     == <<changes, faults>>

vars == <<kernelVars, cfg, input, dirty, passVars, retry, nftVars, laneVars, bounds>>

Change == changes < MaxChanges /\ changes' = changes + 1 /\ UNCHANGED faults
Fault  == faults < MaxFaults /\ faults' = faults + 1 /\ UNCHANGED changes

\* A start: the configuration read, and what the table was listed to assign.
Start(config, listed) ==
    /\ cfg' = config
    /\ input' \in Inputs(config)
    /\ dirty' = TRUE
    /\ pass' = None
    /\ retry' = None
    /\ installed' = None
    /\ nft_adopted' = IF listed = None THEN None ELSE config \cap listed
    /\ nft_listing' = None
    /\ nft_missing' = TRUE
    /\ flight' = None
    /\ lane' = <<>>
    /\ done' = <<>>
    /\ applied' = FALSE
    /\ planned' = None

Init ==
    /\ routes = [t \in Tables |-> {}]
    /\ rules = {}
    /\ table = None
    /\ cfg \in Configs
    /\ input \in Inputs(cfg)
    /\ dirty = TRUE
    /\ pass = None
    /\ retry = None
    /\ installed = None
    /\ nft_adopted = None
    /\ nft_listing = None
    /\ nft_missing = TRUE
    /\ flight = None
    /\ lane = <<>>
    /\ done = <<>>
    /\ applied = FALSE
    /\ planned = None
    /\ changes = 0
    /\ faults = 0

\* The daemon dies, also in the middle of a pass, and starts again, possibly
\* with another configuration.  An nft process it left behind has finished,
\* or not, when the new daemon lists the table.
Crash(config, committed) ==
    /\ Fault
    /\ table' = IF committed /\ lane # <<>> /\ Head(lane).job = "apply"
                  THEN Head(lane).assigns
                  ELSE table
    /\ \/ Start(config, table')
       \/ AdoptionErrors /\ Start(config, None)
    /\ UNCHANGED <<routes, rules>>

-----------------------------------------------------------------------------
(* The pass (daemon.rs, step). *)

\* Waits: the same attempt failed and its backoff is not over.
Waiting(ops) == retry # None /\ ~retry.due /\ retry.attempt = ops

\* Mutant: the transaction in flight is not considered.
Surviving_known == IF installed # None THEN installed ELSE nft_adopted

\* The assignments counted on: those known to be in the table that the
\* transaction in flight keeps.
Surviving ==
    LET known == IF installed # None THEN installed ELSE nft_adopted
    IN  IF known # None /\ flight # None THEN known \cap flight.assigns ELSE known

\* Mutant: only a missing table is replaced.
NftPending_missing == nft_missing \/ flight # None

NftPending == nft_missing \/ flight # None \/ installed # cfg

step ==
    /\ dirty /\ pass = None
    /\ LET new  == unassigned(cfg, Surviving)
           want == PlannedRoutes(cfg, input)
           less == PlannedRoutes(cfg, without(input, new))
           all  == diff(less, want, PlannedRules(cfg), NftPending, routes, rules)
           ops  == IF flight # None THEN UpToNft(all) ELSE all
           same == planned = <<want, cfg>>
       IN  /\ planned' = <<want, cfg>>
           /\ \/ /\ Waiting(all)
                 /\ applied' = (applied /\ same)
                 /\ UNCHANGED <<pass, retry>>
              \/ /\ ~Waiting(all) /\ ops = NoOps
                 /\ IF flight = None
                      THEN applied' = TRUE /\ retry' = None
                      ELSE applied' = (applied /\ same) /\ UNCHANGED retry
                 /\ UNCHANGED pass
              \/ /\ ~Waiting(all) /\ ops # NoOps
                 /\ pass' = [ops |-> ops, before |-> less, desired |-> want,
                             attempt |-> all]
                 /\ applied' = (applied /\ same)
                 /\ UNCHANGED retry
    /\ dirty' = FALSE
    /\ UNCHANGED <<kernelVars, cfg, input, nftVars, laneVars, bounds>>

\* Executing an operation that succeeds; the last one ends the pass, and
\* another one looks at the result.
Succeeds(n, x) ==
    LET left == [pass.ops EXCEPT ![n] = @ \ {x}]
    IN  /\ pass' = IF left = NoOps THEN None ELSE [pass EXCEPT !.ops = left]
        /\ dirty' = (left = NoOps)
        /\ UNCHANGED <<table, cfg, input, planned, applied, retry, nftVars,
                       laneVars, bounds>>

IsNext(n, x) == pass # None /\ First(pass.ops, n, x)

replace_route(n, t) ==
    /\ IsNext(n, t)
    /\ routes' = [routes EXCEPT ![t] = IF n = 1 THEN pass.before[t] ELSE pass.desired[t]]
    /\ Succeeds(n, t)
    /\ UNCHANGED rules

delete_route(n, t) ==
    /\ IsNext(n, t)
    /\ routes' = [routes EXCEPT ![t] = {}]
    /\ Succeeds(n, t)
    /\ UNCHANGED rules

add_rule(r) ==
    /\ IsNext(4, r)
    /\ rules' = rules \cup {r}
    /\ Succeeds(4, r)
    /\ UNCHANGED routes

delete_rule(r) ==
    /\ IsNext(7, r)
    /\ rules' = rules \ {r}
    /\ Succeeds(7, r)
    /\ UNCHANGED routes

\* The nftables step: the transaction goes to the lane, the rest waits.
queue_nft ==
    /\ IsNext(5, NftTable)
    /\ flight' = [assigns |-> cfg, attempt |-> pass.attempt]
    /\ lane' = Append(lane, [job |-> "apply", assigns |-> cfg])
    /\ pass' = None
    /\ UNCHANGED <<kernelVars, cfg, input, dirty, planned, applied, retry,
                   installed, nft_adopted, nft_listing, nft_missing, done, bounds>>

failed(ops) ==
    /\ retry' = [attempt |-> ops, due |-> FALSE]
    /\ dirty' = TRUE

\* An operation fails and ends the pass.  A failed replacement may leave the
\* table as it was or empty (IPv6), and is re-read; the path whose own route
\* failed is not ready until discovery changes.
operation_fails(n, x) ==
    /\ Fault
    /\ IsNext(n, x)
    /\ pass' = None
    /\ failed(pass.attempt)
    /\ \/ UNCHANGED routes
       \/ n \in {1, 6} /\ routes' = [routes EXCEPT ![x] = {}]
    /\ input' = IF n \in {1, 6} /\ x \in PathTables
                  THEN [input EXCEPT ![x] = "out"]
                  ELSE input
    /\ UNCHANGED <<rules, table, cfg, planned, applied, nftVars, laneVars>>

-----------------------------------------------------------------------------
(* The nftables lane (worker.rs, nft_lane; nftctl.rs). *)

\* The table is listed after its replacement; a listing that fails is none.
nft_lane(ok) ==
    /\ lane # <<>> /\ Head(lane).job = "apply"
    /\ lane' = Tail(lane)
    /\ \/ /\ ok
          /\ table' = Head(lane).assigns
          /\ \/ /\ done' = Append(done, [job |-> "apply", ok |-> TRUE, listing |-> table'])
                /\ UNCHANGED bounds
             \/ /\ done' = Append(done, [job |-> "apply", ok |-> TRUE, listing |-> None])
                /\ Fault
       \/ /\ ~ok /\ Fault
          /\ table' \in {table} \cup (IF LateErrors THEN {Head(lane).assigns} ELSE {})
          /\ done' = Append(done, [job |-> "apply", ok |-> FALSE, listing |-> None])
    /\ UNCHANGED <<routes, rules, cfg, input, dirty, passVars, retry, nftVars>>

nft_inspect(ok) ==
    /\ lane # <<>> /\ Head(lane).job = "inspect"
    /\ lane' = Tail(lane)
    /\ \/ /\ ok
          /\ done' = Append(done, [job |-> "inspect", ok |-> TRUE, listing |-> table])
          /\ UNCHANGED bounds
       \/ /\ ~ok /\ Fault
          /\ done' = Append(done, [job |-> "inspect", ok |-> FALSE, listing |-> None])
    /\ UNCHANGED <<kernelVars, cfg, input, dirty, passVars, retry, nftVars>>

-----------------------------------------------------------------------------
(* The other events of the State task, handled when no pass is due. *)

Idle == ~dirty /\ pass = None

nft_applied ==
    /\ Idle
    /\ done # <<>> /\ Head(done).job = "apply"
    /\ done' = Tail(done)
    /\ flight' = None
    /\ IF Head(done).ok
         THEN /\ installed' = flight.assigns
              /\ nft_missing' = FALSE
              /\ nft_listing' = Head(done).listing
              /\ dirty' = TRUE
              /\ UNCHANGED retry
         ELSE /\ failed(flight.attempt)
              /\ UNCHANGED <<installed, nft_missing, nft_listing>>
    /\ UNCHANGED <<kernelVars, cfg, input, passVars, nft_adopted, lane, bounds>>

\* Mutant: a table is replaced only if it is gone, not if it differs.
check_nft_gone ==
    /\ Idle
    /\ done # <<>> /\ Head(done).job = "inspect"
    /\ done' = Tail(done)
    /\ nft_missing' = (nft_missing \/ (Head(done).ok /\ Head(done).listing = None))
    /\ dirty' = TRUE
    /\ UNCHANGED <<kernelVars, cfg, input, passVars, retry, installed,
                   nft_adopted, nft_listing, flight, lane, bounds>>

\* An inspection that failed tells nothing.
check_nft ==
    /\ Idle
    /\ done # <<>> /\ Head(done).job = "inspect"
    /\ done' = Tail(done)
    /\ LET seen == Head(done).listing
       IN  nft_missing' = IF Head(done).ok
                            THEN seen = None \/ nft_listing = None \/ seen # nft_listing
                            ELSE nft_missing
    /\ dirty' = TRUE
    /\ UNCHANGED <<kernelVars, cfg, input, passVars, retry, installed,
                   nft_adopted, nft_listing, flight, lane, bounds>>

\* The full reconciliation inspects the table after what the lane has queued.
full_reconciliation ==
    /\ Idle /\ Inspecting
    /\ \A i \in 1..Len(lane) : lane[i].job # "inspect"
    /\ \A i \in 1..Len(done) : done[i].job # "inspect"
    /\ lane' = Append(lane, [job |-> "inspect"])
    /\ dirty' = TRUE
    /\ UNCHANGED <<kernelVars, cfg, input, passVars, retry, nftVars, done, bounds>>

\* Discovery, health, drains: the paths are evaluated anew.
health_changes(in) ==
    /\ Idle /\ Change
    /\ in # input
    /\ input' = in
    /\ dirty' = TRUE
    /\ UNCHANGED <<kernelVars, cfg, passVars, retry, nftVars, laneVars>>

\* The paths that the configuration no longer has are pruned, the others keep
\* their state or change it (prune_paths, evaluate).
reload_bound(config, in) ==
    /\ Idle /\ Change
    /\ EarlyReloads \/ installed # None \/ nft_adopted # None
    /\ cfg' = config
    /\ input' = in
    /\ dirty' = TRUE
    /\ UNCHANGED <<kernelVars, passVars, retry, nftVars, laneVars>>

retry_due ==
    /\ Idle
    /\ retry # None /\ ~retry.due
    /\ retry' = [retry EXCEPT !.due = TRUE]
    /\ dirty' = TRUE
    /\ UNCHANGED <<kernelVars, cfg, input, passVars, nftVars, laneVars, bounds>>

-----------------------------------------------------------------------------

Operation ==
    /\ pass # None
    /\ \/ \E n \in {1, 6} : \E t \in pass.ops[n] : replace_route(n, t)
       \/ \E n \in {2, 3, 8} : \E t \in pass.ops[n] : delete_route(n, t)
       \/ \E r \in pass.ops[4] : add_rule(r)
       \/ \E r \in pass.ops[7] : delete_rule(r)
       \/ queue_nft

StateTask ==
    \/ step
    \/ Operation
    \/ nft_applied
    \/ check_nft
    \/ retry_due

Lane == nft_lane(TRUE) \/ nft_inspect(TRUE)

Environment ==
    \/ pass # None /\ \E n \in Phases \ {5} : \E x \in pass.ops[n] : operation_fails(n, x)
    \/ nft_lane(FALSE) \/ nft_inspect(FALSE)
    \/ full_reconciliation
    \/ \E in \in Inputs(cfg) : health_changes(in)
    \/ \E config \in Configs : \E in \in Inputs(config) : reload_bound(config, in)
    \/ \E config \in Configs, committed \in BOOLEAN : Crash(config, committed)

Next == StateTask \/ Lane \/ Environment

Spec == Init /\ [][Next]_vars

\* Passes that are due run, operations end, backoffs end, and the event loop
\* takes the completions and timers that wait (its select picks at random).
Fairness ==
    /\ WF_vars(step)
    /\ WF_vars(Operation)
    /\ SF_vars(retry_due)
    /\ SF_vars(nft_applied)
    /\ SF_vars(check_nft)

\* The nft processes end; full reconciliations are periodic.
LaneFairness == WF_vars(Lane) /\ SF_vars(full_reconciliation)

FairSpec == Spec /\ Fairness

-----------------------------------------------------------------------------
(* Properties. *)

Routes == [Tables -> SUBSET Assignments]

Listings == {None} \cup SUBSET Assignments

Jobs == [job : {"apply"}, assigns : SUBSET Assignments] \cup [job : {"inspect"}]

Completions == [job : {"apply", "inspect"}, ok : BOOLEAN, listing : Listings]

\* The daemon's state and the kernel's keep their shape; in particular the
\* paths evaluated are those of the running configuration after every reload
\* (prune_paths), and the kernel holds no route or rule outside the layout.
TypeOK ==
    /\ routes \in Routes
    /\ rules \subseteq Rules
    /\ table \in Listings
    /\ cfg \in Configs
    /\ input \in Inputs(cfg)
    /\ dirty \in BOOLEAN
    /\ pass = None \/ pass \in [ops : Ops, before : Routes, desired : Routes, attempt : Ops]
    /\ retry = None \/ retry \in [attempt : Ops, due : BOOLEAN]
    /\ installed \in Listings
    /\ nft_adopted \in Listings
    /\ nft_listing \in Listings
    /\ nft_missing \in BOOLEAN
    /\ flight = None \/ flight \in NftFlight
    /\ lane \in Seq(Jobs)
    /\ done \in Seq(Completions)
    /\ applied \in BOOLEAN
    /\ planned = None \/ planned \in Routes \X Configs
    /\ changes \in Nat
    /\ faults \in Nat

\* FR-REC-3: whatever the interleaving of passes, reloads, failures and of
\* the nftables lane, once a table exists the balancing route and the policy
\* routes only use paths whose mark assignment, on the interface that the
\* route uses, the kernel's table holds.
BalancedIsAssigned ==
    table # None => \A t \in MarkedTables : routes[t] \subseteq table

\* FR-REC-1, FR-REC-3: the table assigns no path mark that the rules do not
\* interpret: the path's lookup rule is there, and the class guards behind it.
AssignedIsLookedUp ==
    table # None => \A a \in table :
                       PathLookup(a[1]) \in rules /\ ClassGuards \subseteq rules

Covered ==
    /\ rules \ ClassGuards # {} => ClassGuards \subseteq rules
    /\ Balance \in rules => MainBypass \in rules
    /\ FinalGuard \in rules => Balance \in rules

\* FR-REC-1, FR-REC-4, FR-REC-9, INV-3: between any two operations of a pass,
\* and after a failure, a crash or a reload in the middle of one, the guards
\* stand before what they guard and outlast it: no lookup rule is without the
\* class guards, the balancing rule is behind the main bypass, the final guard
\* is behind the balancing rule; and once installed the final guard goes only
\* when the configuration has no path of the family.
GuardsCover ==
    [][Covered' /\ (FinalGuard \in rules \ rules' => cfg = {})]_vars

Installed == /\ routes = PlannedRoutes(cfg, input)
             /\ rules = PlannedRules(cfg)
             /\ table = cfg

\* FR-REC-5, FR-API-3: when a pass declares the desired state applied (what
\* a command's 200 answer waits for), the kernel holds exactly that state.
AppliedIsInstalled ==
    [][~applied /\ applied' => Installed]_vars

\* IMPL-4, INV-2: a configured path that is not ready leaves the balancing
\* route, its policy tables and its own table even if the nftables lane never
\* answers.
WithdrawalNeedsNoLane ==
    \A u \in Uplinks :
        LET out == u \in Paths(cfg) /\ input[u] = "out"
        IN  out ~> ~out \/ \A t \in Tables : u \notin Paths(routes[t])

\* FR-REC-2, FR-REC-5, FR-REC-6: once reloads, changes and failures stop, and
\* if the nftables lane answers, the kernel reaches the desired state and
\* stays there.
Converges == LaneFairness => <>[](Installed /\ applied)
=============================================================================
