------------------------------- MODULE Hooks --------------------------------
(***************************************************************************)
(* Hooks and notification tests (hooks.rs, notifytest.rs, subprocess.rs):  *)
(* the hooks' notifier takes events one by one and starts a process for    *)
(* each hook that selects them; a test starts one for every hook at once;  *)
(* both share the slots of a semaphore.  A run lasts until the child has   *)
(* exited and nothing of its process group holds its output, or until its  *)
(* deadline, when the group is killed.                                     *)
(*                                                                         *)
(* Simplifications.  A configuration is the hooks that select an event and *)
(* the user they run as; descendants that neither hold the output nor stay *)
(* in the group are left out, as in FR-HOOK-3; the email channel of a test *)
(* is in Mail.                                                             *)
(***************************************************************************)
EXTENDS Naturals, Sequences, FiniteSets, SequencesExt

CONSTANTS
  HookNames,   \* hooks: naturals, in the order of the configuration
  Users,       \* hook users
  NoUser,
  Slots,       \* CONCURRENCY
  MaxEvents,   \* bound: events
  MaxTests,    \* bound: notification tests
  MaxReloads   \* bound: reloads

Notifies == [hooks : SUBSET HookNames, hook_user : Users]
Events == 1..MaxEvents
Tests == MaxEvents + 1 .. MaxEvents + MaxTests
Jobs == (Events \cup Tests) \X HookNames

VARIABLES
  arrivals,    \* the notifier's queue of the event bus
  notify,      \* the settings last published by a reload
  notifier,    \* where the notifier is, with the event and the hooks to start
  hook_user,   \* the user it has resolved
  free,        \* permits of the semaphore that nobody holds
  acquiring,   \* its waiters, in order
  job,         \* every run: its state and processes
  test,        \* the notification test: what it is at, its settings and reports
  busy,        \* Tester.busy
  emitted, reloads

hvars == <<arrivals, notify, notifier, hook_user, free, acquiring, job, test, busy,
           emitted, reloads>>

\* A run is not asked for, waits for a permit, is granted one, runs or has ended.
\* Its child may have exited while a descendant holds the output.
Job == [at : {"none", "waiting", "granted", "running", "ended"},
        child : BOOLEAN, holds : BOOLEAN,
        end : {"none", "ok", "failed", "timed_out", "killed", "aborted"},
        user : Users \cup {NoUser}, settings : Notifies \cup {NoUser}]

NoJob == [at |-> "none", child |-> FALSE, holds |-> FALSE, end |-> "none",
          user |-> NoUser, settings |-> NoUser]

Receiving == [at |-> "recv", event |-> 0, todo |-> {}, settings |-> NoUser]
NoTest == [at |-> "none", n |-> MaxEvents, settings |-> NoUser, reports |-> << >>]

Init ==
  /\ arrivals = << >> /\ emitted = 0 /\ reloads = 0
  /\ notify \in Notifies
  /\ notifier = Receiving /\ hook_user = NoUser
  /\ free = Slots /\ acquiring = << >>
  /\ job = [j \in Jobs |-> NoJob]
  /\ test = NoTest /\ busy = FALSE

-----------------------------------------------------------------------------
(* Events and reloads.                                                     *)

Emit ==
  /\ emitted < MaxEvents
  /\ emitted' = emitted + 1
  /\ arrivals' = Append(arrivals, emitted + 1)
  /\ UNCHANGED <<notify, notifier, hook_user, free, acquiring, job, test, busy, reloads>>

Reload ==
  /\ reloads < MaxReloads /\ reloads' = reloads + 1
  /\ notify' \in Notifies \ {notify}
  /\ UNCHANGED <<arrivals, notifier, hook_user, free, acquiring, job, test, busy, emitted>>

-----------------------------------------------------------------------------
(* The semaphore: permits go to waiters in order.                          *)

Taken == IF free > 0 THEN free - 1 ELSE free

\* A task asks for a permit for j, which begins as record.
acquire_owned(j, record) ==
  /\ job' = [job EXCEPT ![j] = [record EXCEPT !.at = IF free > 0 THEN "granted" ELSE "waiting"]]
  /\ free' = Taken
  /\ acquiring' = IF free > 0 THEN acquiring ELSE Append(acquiring, j)

\* n permits come back, to the waiters in front first.
Granted(queue, n) == {queue[i] : i \in 1..IF n < Len(queue) THEN n ELSE Len(queue)}

Release(queue, n, jobs) ==
  /\ job' = [j \in Jobs |-> IF j \in Granted(queue, n) THEN [jobs[j] EXCEPT !.at = "granted"]
                            ELSE jobs[j]]
  /\ acquiring' = SelectSeq(queue, LAMBDA j : j \notin Granted(queue, n))
  /\ free' = free + n - Cardinality(Granted(queue, n))

-----------------------------------------------------------------------------
(* The notifier.                                                           *)

Receive ==
  /\ notifier.at = "recv" /\ arrivals # << >>
  /\ arrivals' = Tail(arrivals)
  /\ notifier' =
       IF notify.hooks = {} THEN Receiving
       ELSE [at |-> IF hook_user = notify.hook_user THEN "run" ELSE "resolve",
             event |-> Head(arrivals), todo |-> notify.hooks, settings |-> notify]
  /\ UNCHANGED <<notify, hook_user, free, acquiring, job, test, busy, emitted, reloads>>

\* Mutant: the user of a reload in between is resolved.
Resolved_latest == notify.hook_user

\* The user that is looked up, and kept under its name.
Resolved == notifier.settings.hook_user

resolve_user(ok) ==
  /\ notifier.at = "resolve"
  /\ IF ok THEN hook_user' = Resolved /\ notifier' = [notifier EXCEPT !.at = "run"]
     ELSE hook_user' = NoUser /\ notifier' = Receiving
  /\ UNCHANGED <<arrivals, notify, free, acquiring, job, test, busy, emitted, reloads>>

Least(S) == CHOOSE x \in S : \A y \in S : x <= y
Current == <<notifier.event, Least(notifier.todo)>>

NextHook ==
  /\ notifier.at = "run"
  /\ acquire_owned(Current, [NoJob EXCEPT !.user = hook_user, !.settings = notifier.settings])
  /\ notifier' = [notifier EXCEPT !.at = "permit"]
  /\ UNCHANGED <<arrivals, notify, hook_user, test, busy, emitted, reloads>>

\* The run is a task of its own.
Spawn ==
  /\ notifier.at = "permit" /\ job[Current].at = "granted"
  /\ job' = [job EXCEPT ![Current].at = "running", ![Current].child = TRUE]
  /\ notifier' = IF notifier.todo = {Current[2]} THEN Receiving
                 ELSE [notifier EXCEPT !.at = "run", !.todo = @ \ {Current[2]}]
  /\ UNCHANGED <<arrivals, notify, hook_user, free, acquiring, test, busy, emitted, reloads>>

-----------------------------------------------------------------------------
(* Processes, and the end of a run.                                        *)

\* A child may leave a descendant in its group that holds its output.
ChildExits(j) ==
  /\ job[j].child
  /\ \E holds \in BOOLEAN, end \in {"ok", "failed"} :
       job' = [job EXCEPT ![j].child = FALSE, ![j].holds = holds, ![j].end = end]
  /\ UNCHANGED <<arrivals, notify, notifier, hook_user, free, acquiring, test, busy,
                 emitted, reloads>>

HolderExits(j) ==
  /\ job[j].holds
  /\ job' = [job EXCEPT ![j].holds = FALSE]
  /\ UNCHANGED <<arrivals, notify, notifier, hook_user, free, acquiring, test, busy,
                 emitted, reloads>>

\* Group::drop: what is left of the group goes.
Killed(record, end) ==
  [record EXCEPT !.at = "ended", !.child = FALSE, !.holds = FALSE, !.end = end]

\* The report of a test's channel, set by its task.
Reported(j, end) ==
  test' = IF j[1] = test.n /\ j[2] \in DOMAIN test.reports THEN [test EXCEPT !.reports[j[2]] = end] ELSE test

\* The child has exited and its output is closed: disarmed, reported, and the
\* permit goes.
RunEnds(j) ==
  /\ job[j].at = "running" /\ ~ job[j].child /\ ~ job[j].holds
  /\ Release(acquiring, 1, [job EXCEPT ![j].at = "ended"])
  /\ Reported(j, job[j].end)
  /\ UNCHANGED <<arrivals, notify, notifier, hook_user, busy, emitted, reloads>>

\* The deadline finds the child, or a holder of its output.
Overdue(j) == job[j].child \/ job[j].holds

Deadline(j) ==
  /\ job[j].at = "running" /\ Overdue(j)
  /\ Release(acquiring, 1, [job EXCEPT ![j] = Killed(job[j], "timed_out")])
  /\ Reported(j, "timed_out")
  /\ UNCHANGED <<arrivals, notify, notifier, hook_user, busy, emitted, reloads>>

\* The program cannot be started.
SpawnFails(j) ==
  /\ job[j].at = "running" /\ job[j].child
  /\ Release(acquiring, 1, [job EXCEPT ![j] = Killed(job[j], "failed")])
  /\ Reported(j, "failed")
  /\ UNCHANGED <<arrivals, notify, notifier, hook_user, busy, emitted, reloads>>

-----------------------------------------------------------------------------
(* Notification tests.                                                     *)

\* Tester::begin: one at a time; the task goes on if its client disconnects.
begin ==
  /\ ~ busy /\ test.n < MaxEvents + MaxTests
  /\ busy' = TRUE
  /\ test' = [at |-> "begun", n |-> test.n + 1, settings |-> NoUser, reports |-> << >>]
  /\ UNCHANGED <<arrivals, notify, notifier, hook_user, free, acquiring, job, emitted, reloads>>

\* Tester::run takes the settings of that moment and resolves their user.
TestRun ==
  /\ test.at = "begun"
  /\ test' = [test EXCEPT !.at = "resolve", !.settings = notify,
                          !.reports = [h \in notify.hooks |-> "none"]]
  /\ UNCHANGED <<arrivals, notify, notifier, hook_user, free, acquiring, job, busy,
                 emitted, reloads>>

TestResolved(ok) ==
  /\ test.at = "resolve"
  /\ test' = IF ok THEN [test EXCEPT !.at = "channels"]
             ELSE [test EXCEPT !.at = "channels", !.reports = [h \in DOMAIN @ |-> "failed"]]
  /\ UNCHANGED <<arrivals, notify, notifier, hook_user, free, acquiring, job, busy,
                 emitted, reloads>>

\* A channel's task: it asks for a permit, and runs once it has it.
TestAcquire(h) ==
  /\ test.at = "channels" /\ h \in DOMAIN test.reports /\ test.reports[h] = "none"
  /\ job[<<test.n, h>>].at = "none"
  /\ acquire_owned(<<test.n, h>>, [NoJob EXCEPT !.user = test.settings.hook_user,
                                                !.settings = test.settings])
  /\ UNCHANGED <<arrivals, notify, notifier, hook_user, test, busy, emitted, reloads>>

TestSpawn(h) ==
  /\ test.at = "channels" /\ job[<<test.n, h>>].at = "granted"
  /\ job' = [job EXCEPT ![<<test.n, h>>].at = "running", ![<<test.n, h>>].child = TRUE]
  /\ UNCHANGED <<arrivals, notify, notifier, hook_user, free, acquiring, test, busy,
                 emitted, reloads>>

TestJobs == {<<test.n, h>> : h \in HookNames}

\* Permits that the tasks of the test hold, whether they have seen it or not.
Held == {j \in TestJobs : job[j].at \in {"granted", "running"}}

\* The outcome of a channel without report: Slot.started tells.
Unreported(j) == IF job[j].at = "running" THEN "timed_out" ELSE "not_started"

\* Running::drop: Tester.busy after the test.
Freed == FALSE

\* The end of the budget, or of every channel: what still runs is killed with
\* its group, what waits no longer does, and the next test may begin.
TestEnds ==
  /\ test.at = "channels"
  /\ Release(SelectSeq(acquiring, LAMBDA j : j[1] # test.n), Cardinality(Held),
       [j \in Jobs |->
          IF j \notin TestJobs \/ job[j].at \in {"none", "ended"} THEN job[j]
          ELSE IF job[j].at = "running" THEN Killed(job[j], "killed")
          ELSE [job[j] EXCEPT !.at = "ended", !.end = "aborted"]])
  /\ test' = [test EXCEPT !.at = "none", !.reports =
                [h \in DOMAIN @ |-> IF @[h] # "none" THEN @[h] ELSE Unreported(<<test.n, h>>)]]
  /\ busy' = Freed
  /\ UNCHANGED <<arrivals, notify, notifier, hook_user, emitted, reloads>>

-----------------------------------------------------------------------------
Notifier == Receive \/ NextHook \/ Spawn \/ \E ok \in BOOLEAN : resolve_user(ok)

Tester ==
  \/ TestRun \/ TestEnds
  \/ \E ok \in BOOLEAN : TestResolved(ok)
  \/ \E h \in HookNames : TestAcquire(h) \/ TestSpawn(h)

Runs == \E j \in Jobs : RunEnds(j) \/ Deadline(j)

Others ==
  \/ Emit \/ Reload \/ begin
  \/ \E j \in Jobs : ChildExits(j) \/ HolderExits(j) \/ SpawnFails(j)

Next == Notifier \/ Tester \/ Runs \/ Others

Spec == Init /\ [][Next]_hvars

\* Tasks are scheduled and their timers fire; processes need not end.
FairSpec ==
  /\ Spec
  /\ WF_hvars(Notifier)
  /\ WF_hvars(TestRun \/ \E ok \in BOOLEAN : TestResolved(ok)) /\ WF_hvars(TestEnds)
  /\ \A j \in Jobs : WF_hvars(RunEnds(j) \/ Deadline(j))

-----------------------------------------------------------------------------
(* Properties.                                                             *)

\* Types of the variables.
TypeOK ==
  /\ job \in [Jobs -> Job] /\ free \in 0..Slots
  /\ notify \in Notifies /\ hook_user \in Users \cup {NoUser}
  /\ notifier.at \in {"recv", "resolve", "run", "permit"}
  /\ test.at \in {"none", "begun", "resolve", "channels"}
  /\ busy \in BOOLEAN

\* A hook runs as the user of the very settings that selected it, also when a
\* reload changes both while the user is looked up or the notifier waits.
RunsAsConfigured ==
  \A j \in Jobs : job[j].at # "none"
    => job[j].user = job[j].settings.hook_user /\ j[2] \in job[j].settings.hooks

\* FR-HOOK-4: the hooks of every event have been started, whatever the processes
\* do, since each is bounded by its deadline and slots go in order; and the
\* notification test is over, so that another can begin.
AllTaken == arrivals = << >> /\ notifier = Receiving /\ ~ busy
=============================================================================
