# PolyWAN: a verification development

PolyWAN is a daemon for multi-WAN routers. It discovers the paths of its
uplinks (an uplink in one address family), probes them, chooses the active set,
and keeps routes, policy rules, an nftables table and sysctls in the state that
the configuration and the paths' health call for, through failures, third-party
changes, reloads, crashes and restarts. This directory holds TLA+ models of its
parts, the TLC runs that check them on small instances, and TLAPS proofs for
instances of any size.

Paths below are relative to `crates/polywan/src/`.

## The system and how its parts interact

- The **State task** (`daemon.rs`) owns all the routing state. Its event loop
  handles one event at a time (a netlink notification, a probe report, an order,
  a completion of a lane, a timer, a signal); an event that leaves it `dirty` is
  followed by a **pass** (`step`) before the next event.
- A pass **evaluates** the paths (`discover.rs`, `health.rs`, `select.rs`),
  starts and stops probers, **plans** routes and rules (`plan.rs`), computes the
  **ordered difference** from the kernel (`reconcile.rs`) and executes it.
- The **Observer** (`observer.rs`) keeps the view of the kernel that a pass
  compares with, from dumps and notifications.
- The **I/O thread** (`worker.rs`) runs the *nftables lane*, the *persistence
  lane*, the validation of reloads, the API and the notifiers. The lanes report
  to the State task by messages, so that it never waits for a disk or a process.
- **Probers** (`probe.rs`) are tasks, one per ready path, that send rounds to
  the State task over a bounded channel.
- The **state directory** (`state.rs`) holds the manifest (bindings of ids to
  names, baselines of sysctls), the drain state and the health checkpoint; each
  file is replaced atomically.
- The **API** (`api/`) queues orders for the State task and waits for answers; a
  manager task owns the listeners.
- The State task **emits events** (`events.rs`) into a bounded history, which the
  API's readers page through with long polls, and into the bounded queues of the
  **mail** notifier (`mail.rs`) and the **hooks** (`hooks.rs`), without ever
  waiting for them.
- What the daemon installs acts on **packets**: chains of the table mark them and
  their connections, rules and routes send them (`nft.rs`, `plan.rs`).

`PROJECT.json` lists every part under `components`, with its status.

## Modules

| module | models | state | actions |
|---|---|---|---|
| `PathHealth` | one path from discovery to health: `evaluate`, `manage_probers`, `probe_report`, the hysteresis `Machine`, the checkpoint | the view, the machine, the prober and its generation, the report channel, the queued checkpoint and `health.json` | one per event of the State task that concerns a path, the pass, the prober, the lane, `Restart` |
| `Probe` | a prober's rounds and the reader of its raw socket | the futures of the targets, the waiters, the packets in the network | attempts, replies, errors, deadlines, deliveries, abort |
| `Quality` | the quality window and its gates | the samples of the last rounds, the running gates | rounds and reloads |
| `Discovery` | `discover` and its helpers as operators, Router Advertisements, re-reads of expired routes | the system, its view, timers | advertisements, expiry, re-reads, passes |
| `View` | dumps, confirmation, notifications, held repairs | the kernel's routes, the view, the queue of notifications, the dump in progress | changes by others, each step of a dump, notifications, repairs |
| `Reconcile` | the reconciler of one family in managed mode: planner, `diff`, `execute`, `step`, the nftables lane, retries, adoption | the kernel's routes, rules and table; the pass in progress; what is known of the table; the lane | the pass, one action per kind of operation and its failure, completions, inspections, reloads, changes of health, `Crash` |
| `Layout` | tables, priorities and field values (`plan.rs`, `model.rs`) | none: operators | |
| `Pinning` | abstract: what the marks promise to a connection | its path, the packets under way | enter, arrive, bypass, leave, reject |
| `Forwarding` | the rules, routes and chains acting on the packets of a connection, the active set (`select.rs`) | what is configured and installed, the connection's mark, the packets under way | changes of paths, reloads, the three phases of a pass, a packet's marking, routing and leaving |
| `Sysctls` | the settings that PolyWAN sets: scopes, jobs, baselines, hand-back, the restoration of `cleanup` | the kernel's values, the manifest on disk, in the lane and in the daemon, jobs and reports | passes, completions, reloads, each read, write and restoration, crashes, changes by others |
| `Commands` | commands, reloads, the persistence lane, manifest and drain state, the listener manager, crash and startup, offline forget | files, the daemon's memory, queues, answers of clients | one per handler and per job |
| `Startup` | `run`, `run --dry-run`, `--reset-state` and `cleanup` as contending processes | the lock, files with their temporary ones, what is installed | one per step of a command, crashes, damages |
| `Config` | validation (`config/validate.rs`), what a start and a reload take up | the file, the running configuration | edits, starts, reloads |
| `Sockets` | the API's listeners, socket files, their record, connections | objects at paths, the record, listeners, connections | the manager's steps, accept loops, connections, crashes, other programs |
| `EventBus` | `Bus::emit`, the history, a notifier's queue and byte counter, the long poll of the API, `polywan events --follow` | sequence number, ring, the step of `emit`, queues and counters, the follower's position | one per access of `emit` to shared state, `recv` and its subtraction, the request, its wake-up and its end, `Restart` |
| `Mail` | the email notifier's `drive` and `flush`, `struct Mail`, notification tests | batch, admission, waiting messages, the submission, the sendmail turn, the configuration published and the one seen | one per branch of the `select!`, the steps of `flush`, tests, `Tick` |
| `Hooks` | the hooks' notifier, tests, process groups | arrivals, permits of the semaphore, jobs, configurations | one per await of the notifier and of a job |
| `PathHealthProofs`, `ReconcileLane`, `ReconcileProofs`, `ForwardingProofs`, `SysctlsLane`, `SysctlsPasses`, `SysctlsProofs`, `CommandsProofs` | theorems and proofs | | |

Names follow the source where TLA+ allows it (`Daemon::drained` is
`drain_written`, as `drained` is the variable). `PROJECT.json` maps every
definition to the lines it stands for. Operators whose names end in a suffix and
whose comment says "Mutant" are wrong versions of the definition that follows;
with them in its place TLC refutes the property that `PROJECT.json` names.

What the models abstract is in each module's header. The main points:

- `PathHealth` takes what discovery finds as an identity and a gateway, and a
  round as passed, failed or degraded. `Discovery` says what is found, `Probe`
  when a round passes, `Quality` when it is degraded.
- `Reconcile` has each operation as a step, with failures, for one family;
  `Forwarding` has all kinds of rules and tables and takes a pass in three steps.
  Source rules in a diff, held repairs (in `View`) and sysctl gating (in
  `Sysctls`) are not in `Reconcile`. An `nft` process that outlives its daemon
  and commits after the next one listed the table is not modelled.
- `Forwarding` has one family and one connection, since connections meet only in
  the kernel's tables; the external firewall mode, moves of an uplink to another
  interface, untracked and multicast packets and NAT are left out.
- `Commands` brings the kernel to the plan at once, later or never. At most one
  job of each kind is in flight, so sequence numbers are left out; `TypeOK`
  states that bound. A job that panics and never reports is not modelled.
- `Sysctls` has one key for the settings of a family in a scope; jobs are never
  refused by a full queue.
- `EventBus`, `Mail`, `Hooks`, `Sockets`, `Startup`, `View` and `Discovery` keep
  of a message, a route, a file or a process what their properties tell apart.

Variables called history in their modules are read by no action; they record
what a property speaks of.

## Runs

Independent parts share a run where that costs nothing: `MCWorkers`, `MCTasks`,
`MCParts` and `MCObserve` have a variable `focus`, chosen in the initial state; in
a behaviour one part moves and the others stay as they began, so the state space
is the sum of theirs and not the product. Properties of a
part speak of the behaviours with that focus.

| run | instance | shows |
|---|---|---|
| `MCPathHealth` | *counts*: one address, two settings of rise and fall, an uplink that is removed and comes back, a restart, a checkpoint that may be too old, a lane that may be full. *moves*: two addresses, a channel of two reports; fair | `HealthIsEarned`: the health follows the rounds, whatever is reloaded or resumed; `UpIsWatched`, `StaleRoundsIgnored` across changes of address; `PassingPathComesUp` |
| `MCDrains` | two uplinks, one may be removed; two orders, an edit, a SIGHUP, a fault | `IntentIsDurable` |
| `MCWorkers` | *reconcile*: a family that begins and ends, a path that moves while another takes its interface; three changes, one fault. *mail*: one message an hour, one retry, two reloads, a test, the stop. *hooks*: two hooks, two users, one slot; two events over two reloads, or one of each and a test | `BalancedIsAssigned`, `AssignedIsLookedUp` and `GuardsCover` between any two operations, `AppliedIsInstalled`; `RollingHour`, `RetriesAreSpaced`; `RunsAsConfigured` |
| `MCReconcileLive` | one path moving between two interfaces; late errors, early reloads, failed adoption, inspections; fair | `WithdrawalNeedsNoLane` without any fairness of the lane; `Converges` with it |
| `MCCommandsLive` | configurations that reuse ids and names; an order of any kind, an edit, a SIGHUP, a fault, also after a rename; fair | `BindingsHold`, `OkIsApplied`, `OrdersAreAnswered` |
| `MCTasks` | *bus*: history and queue of two events, three events per instance, a restart. *probe*: an ICMP and a TCP target, two attempts, sequence numbers that wrap at 2. *hooks* and *sockets*: one reload; fair | `NoSilentGap`; `VerdictIsTrue`; `OldAccessIsCut`; `TasksSettle` |
| `MCParts` | *config*: files at the boundaries of every check, two edits, three rounds. *startup*: two processes, three runs, two layouts, one damage. *sockets*: two paths, two reloads, one foreign object | `AcceptedIsUsable`; `GoodRoundsRecover`; `InstalledIsRecorded`, `RefusedChangesNothing`; `ServedAsConfigured`, `ForeignIsLeft` |
| `MCObserve` | *view*: one own and two found routes, a queue of 2, three changes. *discovery*: an uplink with advertised routes and a static one, IPv6; links, addresses, routes and prefixes that change, two disturbances, two units of time; fair | `NoGhost`, `HeldInConflict`; `DiscoveryIsAccurate`; `ObservationSettles` |
| `MCSysctls` | one interface, two families, two events out of reloads, failures, crashes, cleanups and changes by others; fair | `Restorable`, `AppliedIsInPlace`, `SetBeforeUse`, `RestoredLast`, `PendingIsApplied` |
| `MCForwarding` | uplinks 1 and 32, two packets under way, all kinds of connections, two changes | `ImplementsPinning`, `BlockHolds`, `ReadyPathServes`, `DrainTakesNone` |
| `MCReconcileLateError` | one path moving between two interfaces; late errors | `BalancedIsAssigned` violated: see Findings |
| `MCEventBusRestart` | the bus of `MCTasks` with two types of events | `RestartIsFollowed` violated: see Findings |

`TypeOK` documents the types of a module's variables; it is a theorem of every
module with proofs.

**Bounds.** Two addresses suffice for a round to be stale and for a path to come
back to its former address; counters saturate at 2 or 3 instead of 255, at rise
and fall or above them; two generations let a prober be replaced. Two uplinks
on two interfaces are the least in which a removed path's place is taken by
another; three changes let a reload go there and back while a transaction is in
flight. The runs of `Reconcile` use paths that are not ready and paths that are
active, which fill every kind of table; the proofs hold for the other three
kinds too. Ids 1 and 32 have different single bits, so that a path guard that
misses a bit lets one of them through; two packets let one assign the path while
the other is routed. One fault (an error or a crash) is combined with every
interleaving; the proofs lift the bounds on faults and changes. Two orders let
one wait while the other is in progress, and a queue of one lets the next be
refused. Three events overflow a history and a queue of two; sizes 1 and 2
against bounds of 3 make the byte bounds bite before the counts do and after.
With an hour of 2 and a time of 3, a message leaves the rolling hour while
another one waits for its retry. With two attempts and sequence numbers modulo
2, the reply to an aborted prober comes under the number of an open attempt. Two
processes contend for the lock, and three runs let the second and the third
meet what a crash left. Two found routes and dumps by position let a deletion
shift the route that is read next. One reload and a test, or two events over two
reloads, let the hooks' notifier resolve a user anew or use the one it knows. The bounds are in the guards of the actions
that are counted.

**Deadlock** is checked for `PathHealth` and for `MCReconcileLive`, where
something can always happen. The other instances rest once what is desired is
installed and the bounds are used up, and a daemon that may not start stays down.

**Fairness.** A pass that is due runs before the next event: weak fairness of
`step` and of the operations. The event loop's `select!` polls its ready
branches in random order, so an event that keeps being available is taken:
strong fairness of the handlers, which a pass in progress disables for a while.
Lanes, validation and the listener manager end (processes have deadlines), but
`WithdrawalNeedsNoLane` deliberately does without: fairness of the nftables
lane is a premise of `Converges` only. Full reconciliations, retries, deadlines
of attempts and of hooks are timers. `emit` never waits, the
follower asks again after every answer, and a request that is woken is answered;
the end of a wait is not needed. Nothing is assumed of clients, the network, the
administrator, or faults.

## Findings

Each is a run that TLC refutes; `PROJECT.json` quotes the sentences.

1. **FR-REC-3 after nft's deadline** (`MCReconcileLateError`). nft is killed at
   its deadline after the kernel committed; the daemon counts on the table
   before it. If a reload goes back, the path is balanced on an interface that
   the table no longer assigns, until the next replacement.
2. **Following events across a restart** (`MCEventBusRestart`). The API serves
   before `daemon_started` is emitted. A follower that asks in between is
   answered with a reset and no event; it notes the new instance and keeps its
   old sequence number. When the new history reaches that number before the next
   request, the events up to it are never printed. `NoSilentGap` is what holds
   otherwise.

Other circumstances were met that the checked properties exclude, by a constant
or by their wording, or that are outside of what they say:

- `EarlyReloads`: while the daemon's first transaction is in flight no table is
  known and, as the comment of `unassigned` says, no path is held back; a reload
  then may balance a path that the first table does not assign (FR-REC-3). The
  same happens when the listing of the table fails at startup
  (`AdoptionErrors`). Both are FALSE in the run and the proof of
  `BalancedIsAssigned`. `Converges` holds in all these circumstances: they
  expose only for a time.
- `LateErrors` in `Commands`: if the fsync of the directory fails after the
  rename of `drain.json`, a reload is rejected but the file has lost the intent
  it pruned (FR-SEL-3: "Rejected reloads retain the previous drain intent").
  FALSE in `MCDrains`, TRUE in `MCCommandsLive`.
- The health checkpoint is written when the active set changes and every 30 s
  (`daemon.rs:1767`, `1811`), not at every transition as `SPEC.md:612` (IMPL-5)
  and `docs/how-it-works.md:257` say: a path that goes down because it is no
  longer ready may be up in the file for a while.
- Email that is removed and restored before the notifier looks discards nothing:
  the watch channel keeps the last value only (FR-MAIL-1).
- A hand-back of sysctls whose first manifest write fails is retried only by a
  later event; a failed re-read (`daemon.rs:2071`) waits for the next full
  reconciliation.
- While the global sysctls are not applied a pass evaluates and returns before
  `reread_expired` (`daemon.rs:2058-2066`): a route that has expired by the view
  counts as gone without the re-read of FR-DISC-5 (`SPEC.md:262`).
- A Router Advertisement that arrives as the listener's window closes may be
  reported before the kernel handled it.
- A start that is refused may already have pruned the drain intent or reset the
  state; `RefusedChangesNothing` names what it may have discarded.
- A sum of durations in `validate.rs:592` can overflow (`SPEC.md:391`).
- A start that fails overwrites the record of socket files, so that a stale file
  of an earlier crash is no longer identified; so is one that a crash leaves
  between the rename and the record. A connection accepted before a change of
  access whose task begins after it is served under the new access.
- A change of access of a served API socket is not prepared: `SPEC.md:363` (FR-API-1)
  says that a failure of it "rejects the reload and keeps the running configuration
  and access policy", while `api/mod.rs:349-365` changes the file when the reload has
  committed, and closes the socket if that fails, as its comment says.
  `ServedAsConfigured` is about what the code then serves.
- An inspection of the table that fails, like a listing that fails after a
  replacement, is only logged: the table is inspected again, or replaced, by the next
  full reconciliation.
- Probe targets are compared with the router's addresses at validation only.

## Proofs

TLAPS checks, for all values of the constants that satisfy the modules'
assumptions:

- `PathHealthProofs!TypeCorrect`, `Watched`, `StaleRounds`. `UpIsWatched` and
  `StaleRoundsIgnored` are not inductive. The strengthening relates the parts
  that a pass leaves consistent: when no pass is due, the prober held is the one
  wanted for what was discovered last, or has ended with its report in the
  channel; every report's generation is at most the counter; and a report of the
  path's current generation carries the specification of the path's prober.
- `ReconcileLane!TypeCorrect`, `ReconcileProofs!Balanced`, `LookedUpMarks`, `Guarded`.
  `Balanced` and `LookedUpMarks` assume `Reliable`: no late errors, no reload before the first table is known,
  no failed listing at startup, which are exactly the circumstances described
  under Findings. The inductive invariant `IInv` has five parts: types; `TableInv`
  (the kernel's table is the one last known, or the one in flight once the lane
  committed it); `RouteInv` (marked routes use only assignments that both the
  known table and the transaction in flight hold); `RuleInv` (the rules of every
  table that may be in force, known or in flight, are installed); `PassInv` (the
  operations left in a pass keep all that, in particular a pass deletes rules
  only when no replacement is pending). `AssignedIsLookedUp` and
  `BalancedIsAssigned` follow from `IInv` by cases on whether the transaction in
  flight has been committed. `Guarded` needs none of this: its invariant,
  `GuardInv`, says that a pass adds only what is planned, in the order of
  installation, and deletes only what is not, all of it, from the other end; so
  whatever ends a pass, what is installed is a prefix that the guards cover.
- `ForwardingProofs!TypeCorrect`, `Blocks`, `Probing`,
  `Refinement`, `Serving`, `Draining`: every property of `MCForwarding`, for any
  set of uplinks with ids of six bits, any configurations over them, any accepted
  bases and any number of packets and changes. `Refinement` is the refinement of
  `Pinning`. The lemmas go from bits to packets: what a mask and a mark say of the
  value that matches (`Marks`); which rules can decide a packet of each class,
  given that guards precede the rules of the next class (`DecidingRules`); where
  packets of a path, a policy, a probe and a new connection can be sent
  (`PathRoutes`, `BlockRoutes`, `ProbeRoutes`, `NewRoutes`, `ServedRoutes`). The
  invariant adds to that of the kernel's tables (`Kernel`) and of the active set
  (`Selected`) one of every packet under way (`PacketOK`): a packet that entered
  after the assignment has the value of the connection's path, which never
  changes. Without it nothing relates a packet that is routed now to the mark that
  it was given steps before.
- `SysctlsProofs!TypeCorrect`, `RestorableAlways`, `AppliedIsInPlaceAlways`,
  `SetBeforeUseAlways`, `RestoredLastAlways`: the safety properties of
  `MCSysctls`, for any interfaces, families and configurations and any number of
  events. Restorability follows from `StateInv` alone: types, and `BaseInv`, the
  write-ahead order of the three copies of the manifest (disk, lane, daemon). The
  others depend on the order of the jobs in the one queue of the persistence
  lane, since a job of settings, a hand-back and a binding that a pass queued are
  run, superseded and reported at different times. `LaneInv` states it: a scope in
  flight has its job reported, running or queued, and what a current job wrote is
  in place (`FlightInv`); what counts as applied is in place as far as its family
  is configured (`AppliedInv`); one reload at a time (`ReloadInv`); where settings
  that count as applied are to be handed back, the job that replaces them comes
  first in the line, so that they no longer count when the hand-back begins
  (`OrderInv`); no family with artifacts is handed back, not even by the
  configuration that a queued binding brings (`UseInv`). `SysctlsLane` proves it for
  the steps of the lane and of the environment, `SysctlsPasses` for those of the
  State task.
- `CommandsProofs!TypeCorrect`, `BindingsHoldAlways`, `IntentIsDurableAlways`,
  `OkIsAppliedAlways`: the safety properties of `MCDrains` and `MCCommandsLive`,
  for any names, ids and configurations and any number of orders, edits, SIGHUPs,
  faults and restarts. What makes them true is that handlers leave one piece of
  work at a time, which no single handler says. `WorkInv` states it: a validation,
  a preparation of listeners, a job of the lane or a completion, and never two; and
  each was built from the configuration and the intent that are still in force, or
  from those of the reload in progress (`JobOK`), so that a completion says what
  the files hold (`ReportOK`). `CommandInv` says what stands of the command in
  progress: a drain being applied is in the intent, unless a reload dropped it
  (`gone`), and its target generation is not applied yet. `BindInv` relates
  manifest and configuration from startup on, `PlanInv` the generations and the
  kernel. `DrainInv`, the drain state on disk against the intent in force or the
  one that a pending completion brings, is only an invariant if a failed write
  leaves the old file, and `IntentIsDurableAlways` assumes `~LateErrors`; the
  other theorems do not.

Only model-checked: the liveness properties (`PassingPathComesUp`,
`WithdrawalNeedsNoLane`, `Converges`, `OrdersAreAnswered`, `TasksSettle`,
`ObservationSettles`, `PendingIsApplied`), which TLAPS does not reach; `HealthIsEarned`, `AppliedIsInstalled`, and the
properties of the modules without a proof module. Those of `EventBus` and `Quality`
sum or sort sequences, which needs induction over data.

## Not modelled, and why

Parsing of texts, encoding of netlink messages, the text of the nftables ruleset,
HTTP, formatting of events, status, metrics and mail bodies transform one input
without state and are better tested; `checks.rs` and `dry_run` only report. The
test bed and the build tools are not part of the daemon. The order of merged
reloads' answers and a persistence job that panics are recorded as hazards
without a property.

## Checking

Each run: `tlc -workers 2 -config X.cfg M`; each proof: `tlapm M.tla`. A run takes
from seconds to about three minutes, the proofs together about three quarters
of an hour.
