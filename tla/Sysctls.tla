------------------------------ MODULE Sysctls ------------------------------
(***************************************************************************)
(* The system settings (sysctls) that PolyWAN sets: which ones a           *)
(* configuration wants, how the State task hands them to the persistence   *)
(* lane by scope and takes the results, how the lane records the baselines *)
(* in the manifest before it writes the values, how the settings of a      *)
(* family that is no longer managed are handed back, and how `polywan      *)
(* cleanup` restores what is left (sysctl.rs, cleanup.rs, the sysctl parts *)
(* of daemon.rs, worker.rs and state.rs).                                  *)
(*                                                                         *)
(* Simplifications.                                                        *)
(*  - One key stands for the settings of one family in one scope; every    *)
(*    setting wants the same value.  The code writes a scope's keys in a   *)
(*    fixed order, the model in any order.                                 *)
(*  - `sysctl_set` has the keys of `sysctl_baseline` and the wanted value, *)
(*    so a manifest is the function from recorded keys to baselines.       *)
(*  - A scope's keys are read at once.                                     *)
(*  - Of the routing part of a pass only `artifacts` is kept: the families *)
(*    whose rules and routes are installed.                                *)
(*  - A backoff is waiting or over; its length is left out.  Jobs are      *)
(*    never refused by a full queue.                                       *)
(***************************************************************************)
EXTENDS Naturals, Sequences, FiniteSets

CONSTANTS
  Interfaces,  \* interface names
  Files,       \* configurations: [families, interfaces, manage]
  Foreign,     \* values other than the wanted one
  Default,     \* the foreign value a new interface starts with
  Wanted,      \* the value PolyWAN wants
  Absent,      \* the key of an interface that does not exist
  NoManifest,  \* there is no manifest file
  MaxEvents    \* bound on reloads, failures, crashes, cleanups, outside changes

Families == {"v4", "v6"}
Global == "global"

Keys == [family : Families, scope : Interfaces \cup {Global}]

(***************************************************************************)
(* The constants' assumptions.                                             *)
(***************************************************************************)
ASSUME ConstantsAssumption ==
  /\ IsFiniteSet(Interfaces) /\ Global \notin Interfaces
  /\ Files \subseteq [families : (SUBSET Families) \ {{}},
                      interfaces : SUBSET Interfaces, manage : BOOLEAN]
  /\ Default \in Foreign
  /\ Wanted \notin Foreign \cup {Absent}
  /\ Absent \notin Foreign
  /\ \A S \in SUBSET Keys : NoManifest \notin [S -> Foreign]
  /\ MaxEvents \in Nat

VARIABLES
  value,      \* the kernel's values
  artifacts,  \* families whose rules and routes are installed
  links,      \* interfaces with a link notification not yet handled
  disk,       \* the manifest file
  lane,       \* the lane's manifest
  queue,      \* jobs waiting for the lane
  running,    \* the job the lane (or cleanup) executes, or Idle
  done,       \* reports waiting for the State task
  mode,       \* "run", "down" or "cleanup"
  cfg, manifest, sysctls_pending, sysctls_flight, sysctls_applied,
  backoff,    \* interfaces in sysctl_retries whose time has not come
  retry,      \* what self.retry waits for: "none", "sysctls", "handback"
  hand_back, reload, installing,
  pass,       \* the event loop: a pass is "due" before any event is taken,
              \* "left" for after the next event (dirty set within a pass), or "idle"
  hold,       \* history: who gave a key its value since it was released
  before,     \* history: values a key had before PolyWAN changed it
  touched,    \* history: keys others changed since PolyWAN last read them
  left        \* what is left of MaxEvents

daemonVars == <<cfg, manifest, sysctls_pending, sysctls_flight, sysctls_applied,
                backoff, retry, hand_back, reload, installing, pass>>
laneVars == <<disk, lane, queue, running, done>>
historyVars == <<hold, before, touched>>
vars == <<value, artifacts, links, laneVars, mode, daemonVars, historyVars, left>>

Idle == [kind |-> "idle"]

-----------------------------------------------------------------------------
(* What a configuration wants (sysctl.rs, daemon.rs).                      *)

desired(c) ==
  {k \in Keys : k.family \in c.families /\ k.scope \in c.interfaces \cup {Global}}

wanted_of(c, scope) == {k \in desired(c) : k.scope = scope}

sysctl_scopes(c) == {Global} \cup {k.scope : k \in desired(c)}

Recorded(m) == IF m = NoManifest THEN {} ELSE DOMAIN m

differences(settings) == {k \in settings : value[k] \notin {Wanted, Absent}}

\* Mutant: the value found replaces the baseline recorded earlier.
record_latest(m, keys) ==
  [k \in DOMAIN m \cup keys |-> IF k \in keys THEN value[k] ELSE m[k]]

\* record: the baseline of a key is kept from the first change.
record(m, keys) ==
  [k \in DOMAIN m \cup keys |-> IF k \in DOMAIN m THEN m[k] ELSE value[k]]

forgotten(m, key) == [k \in DOMAIN m \ {key} |-> m[k]]

departed ==
  {f \in Families \ cfg.families : \E k \in DOMAIN manifest : k.family = f}

sysctls_unapplied(scope, families) ==
  /\ cfg.manage
  /\ scope \in sysctls_pending
  /\ ~ (/\ scope \in DOMAIN sysctls_applied
        /\ sysctls_applied[scope].manage
        /\ {k \in wanted_of(cfg, scope) : k.family \in families}
             \subseteq sysctls_applied[scope].settings)

-----------------------------------------------------------------------------
(* The State task.                                                         *)

Disturb == left > 0 /\ left' = left - 1

\* The State task takes an event, whose handler sets dirty or not.
Event(sets_dirty) ==
  /\ mode = "run" /\ pass # "due"
  /\ pass' = IF sets_dirty \/ pass = "left" THEN "due" ELSE "idle"

Ordered(S) ==
  CHOOSE q \in [1..Cardinality(S) -> S] : \A i, j \in DOMAIN q : q[i] = q[j] => i = j

\* Numbers of the scope's jobs that something still refers to.
InUse(scope) ==
  {r.seq : r \in {j \in {queue[i] : i \in DOMAIN queue} \cup {running}
                          \cup {done[i] : i \in DOMAIN done} :
                    j.kind = "sysctls" /\ j.scope = scope}}
  \cup (IF scope \in DOMAIN sysctls_flight THEN {sysctls_flight[scope].seq} ELSE {})

SysctlJob(scope) ==
  [kind |-> "sysctls", scope |-> scope,
   seq |-> CHOOSE n \in 0..Cardinality(InUse(scope)) :
             n \notin InUse(scope) /\ \A m \in 0..n : m \in InUse(scope) \/ m = n,
   settings |-> wanted_of(cfg, scope), manage |-> cfg.manage]

\* Scopes whose settings dispatch_sysctls gives to the lane in this pass.
Dispatched ==
  {s \in sysctls_pending :
     s \notin DOMAIN sysctls_flight \cup backoff /\ (s = Global => retry # "sysctls")}

DispatchJobs ==
  LET interfaces == Ordered(Dispatched \ {Global})
      scopes == IF Global \in Dispatched THEN Append(interfaces, Global) ELSE interfaces
  IN [i \in DOMAIN scopes |-> SysctlJob(scopes[i])]

FlightAfterDispatch ==
  [s \in DOMAIN sysctls_flight \cup Dispatched |->
     IF s \in Dispatched THEN SysctlJob(s) ELSE sysctls_flight[s]]

\* Mutant: routing does not wait for the global settings.
Gated_never == FALSE

\* Only withdrawals precede the global settings.
Gated == sysctls_unapplied(Global, Families)

\* Mutant: settings are handed back while artifacts are being removed.
Settled_early == retry # "handback" /\ ~ hand_back

\* The pass found nothing to do and no hand-back is in progress or waiting.
Settled == artifacts = cfg.families /\ retry # "handback" /\ ~ hand_back

\* One reconciliation pass.  Of the operations on rules and routes only the
\* families they serve are kept.
step ==
  LET waiting == installing /\ FlightAfterDispatch # << >>
      restoring == departed # {} /\ cfg.manage
  IN
  /\ mode = "run" /\ pass = "due"
  /\ sysctls_flight' = FlightAfterDispatch
  /\ installing' = waiting
  /\ \/ /\ waiting \/ Gated
        /\ queue' = queue \o DispatchJobs
        /\ pass' = "idle"
        /\ UNCHANGED <<artifacts, hand_back, retry>>
     \/ /\ ~ waiting /\ ~ Gated /\ artifacts # cfg.families
        /\ artifacts' = cfg.families
        /\ queue' = queue \o DispatchJobs
        /\ pass' = "left"
        /\ UNCHANGED <<hand_back, retry>>
     \/ /\ ~ waiting /\ ~ Gated /\ artifacts = cfg.families /\ ~ Settled
        /\ queue' = queue \o DispatchJobs
        /\ pass' = "idle"
        /\ UNCHANGED <<artifacts, hand_back, retry>>
     \/ /\ ~ waiting /\ ~ Gated /\ Settled /\ restoring
        /\ queue' = Append(queue \o DispatchJobs,
                           [kind |-> "handback", families |-> departed])
        /\ hand_back' = TRUE
        /\ pass' = "idle"
        /\ UNCHANGED <<artifacts, retry>>
     \/ /\ ~ waiting /\ ~ Gated /\ Settled /\ ~ restoring
        /\ queue' = queue \o DispatchJobs
        /\ retry' = "none"
        /\ pass' = "idle"
        /\ UNCHANGED <<artifacts, hand_back>>
  /\ UNCHANGED <<value, links, disk, lane, running, done, mode, cfg, manifest,
                 sysctls_pending, sysctls_applied, backoff, reload, historyVars, left>>

\* The wake-ups of the event loop: a backoff that ends, and the periodic
\* reconciliation.
Awake ==
  /\ Event(TRUE)
  /\ UNCHANGED <<value, artifacts, links, laneVars, mode, cfg, manifest, sysctls_pending,
                 sysctls_flight, sysctls_applied, hand_back, reload, installing,
                 historyVars, left>>

interface_retry(i) ==
  /\ i \in backoff
  /\ backoff' = backoff \ {i}
  /\ Awake
  /\ UNCHANGED retry

retry_due ==
  /\ retry # "none"
  /\ retry' = "none"
  /\ Awake
  /\ UNCHANGED backoff

full_reconciliation ==
  /\ Awake
  /\ UNCHANGED <<retry, backoff>>

Without(f, x) == [s \in DOMAIN f \ {x} |-> f[s]]

\* Mutant: every completion is taken for the current one.
sysctls_done_any(r) ==
  /\ sysctls_flight' = Without(sysctls_flight, r.scope)
  /\ sysctls_pending' = IF r.ok THEN sysctls_pending \ {r.scope} ELSE sysctls_pending
  /\ sysctls_applied' =
       IF ~ r.ok \/ r.scope \notin DOMAIN sysctls_flight THEN Without(sysctls_applied, r.scope)
       ELSE [s \in DOMAIN sysctls_applied \cup {r.scope} |->
               IF s = r.scope THEN sysctls_flight[s] ELSE sysctls_applied[s]]
  /\ backoff' = IF r.ok THEN backoff \ {r.scope} ELSE backoff \cup ({r.scope} \cap Interfaces \cap sysctls_pending)
  /\ retry' = IF ~ r.ok /\ r.scope = Global THEN "sysctls" ELSE retry
  /\ Event(TRUE)
  /\ UNCHANGED <<cfg, hand_back, reload, installing>>

\* Mutant: a failed application stays in flight.
sysctls_done_stuck(r) ==
  /\ sysctls_flight' = IF r.ok THEN Without(sysctls_flight, r.scope) ELSE sysctls_flight
  /\ sysctls_pending' = IF r.ok THEN sysctls_pending \ {r.scope} ELSE sysctls_pending
  /\ Event(TRUE)
  /\ UNCHANGED <<cfg, sysctls_applied, backoff, retry, hand_back, reload, installing>>

\* A completed sysctl application; one that a reload or a new incarnation of
\* the interface superseded only brings the manifest.
sysctls_done(r) ==
  LET current == r.scope \in DOMAIN sysctls_flight
                 /\ sysctls_flight[r.scope].seq = r.seq
  IN
  /\ IF ~ current
     THEN UNCHANGED <<sysctls_flight, sysctls_pending, sysctls_applied, backoff, retry>>
     ELSE /\ sysctls_flight' = Without(sysctls_flight, r.scope)
          /\ IF r.ok
             THEN /\ sysctls_pending' = sysctls_pending \ {r.scope}
                  /\ sysctls_applied' =
                       [s \in DOMAIN sysctls_applied \cup {r.scope} |->
                          IF s = r.scope THEN sysctls_flight[s] ELSE sysctls_applied[s]]
                  /\ backoff' = backoff \ {r.scope}
                  /\ UNCHANGED retry
             ELSE /\ sysctls_applied' = Without(sysctls_applied, r.scope)
                  /\ backoff' = backoff \cup ({r.scope} \cap Interfaces)
                  /\ retry' = IF r.scope = Global THEN "sysctls" ELSE retry
                  /\ UNCHANGED sysctls_pending
  /\ Event(current)
  /\ UNCHANGED <<cfg, hand_back, reload, installing>>

handed_back(r) ==
  /\ Event(TRUE)
  /\ hand_back' = FALSE
  /\ retry' = IF r.ok THEN retry ELSE "handback"
  /\ UNCHANGED <<cfg, sysctls_flight, sysctls_pending, sysctls_applied, backoff, reload,
                 installing>>

\* reload_bound: every scope is checked again, and what was applied counts
\* until then.
reload_bound(r) ==
  /\ reload' = FALSE
  /\ IF ~ r.ok
     THEN UNCHANGED <<cfg, sysctls_pending, sysctls_flight, sysctls_applied, backoff,
                      retry>>
     ELSE LET scopes == sysctl_scopes(r.config) IN
          /\ cfg' = r.config
          /\ sysctls_applied' = [s \in DOMAIN sysctls_applied \cap scopes |-> sysctls_applied[s]]
          /\ sysctls_pending' = scopes
          /\ sysctls_flight' = << >>
          /\ backoff' = IF r.config.manage THEN backoff \cap scopes ELSE {}
          /\ retry' = IF ~ r.config.manage /\ retry = "sysctls" THEN "none" ELSE retry
  /\ Event(r.ok)
  /\ UNCHANGED <<hand_back, installing>>

completion ==
  /\ done # << >>
  /\ LET r == Head(done) IN
     /\ manifest' = r.manifest
     /\ \/ r.kind = "sysctls" /\ sysctls_done(r)
        \/ r.kind = "handback" /\ handed_back(r)
        \/ r.kind = "bind" /\ reload_bound(r)
  /\ done' = Tail(done)
  /\ UNCHANGED <<value, artifacts, links, disk, lane, queue, running, mode, historyVars, left>>

\* A link notification of an uplink's interface.
notification(i) ==
  /\ i \in links
  /\ links' = links \ {i}
  /\ IF i \in cfg.interfaces
     THEN /\ sysctls_applied' = Without(sysctls_applied, i)
          /\ sysctls_flight' = Without(sysctls_flight, i)
          /\ sysctls_pending' = sysctls_pending \cup {i}
          /\ backoff' = backoff \ {i}
     ELSE UNCHANGED <<sysctls_applied, sysctls_flight, sysctls_pending, backoff>>
  /\ Event(TRUE)
  /\ UNCHANGED <<value, artifacts, laneVars, mode, cfg, manifest, retry, hand_back, reload,
                 installing, historyVars, left>>

\* A reload whose file was validated: its Bind job.
start_reload(c) ==
  /\ ~ reload /\ c # cfg
  /\ Event(FALSE)
  /\ Disturb
  /\ reload' = TRUE
  /\ queue' = Append(queue, [kind |-> "bind", config |-> c])
  /\ UNCHANGED <<value, artifacts, links, disk, lane, running, done, mode, cfg, manifest,
                 sysctls_pending, sysctls_flight, sysctls_applied, backoff, retry, hand_back,
                 installing, historyVars>>

-----------------------------------------------------------------------------
(* The persistence lane.                                                   *)

Report(r) == done' = Append(done, r)

SysctlsReport(job, ok, m) ==
  Report([kind |-> "sysctls", scope |-> job.scope, seq |-> job.seq, ok |-> ok, manifest |-> m])

\* The ways write_manifest ends: done, an error before the rename, an error
\* after it (the directory's fsync).
WriteManifest(m, ok) ==
  \/ ok /\ disk' = m /\ UNCHANGED left
  \/ ~ ok /\ disk' \in {disk, m} /\ Disturb

\* apply_sysctls up to the write of the manifest.  An error of a read ends a
\* managed job.
StartSysctls(job) ==
  LET diffs == differences(job.settings)
      recorded == record(lane, diffs)
  IN
  /\ \/ /\ diffs = {} \/ ~ job.manage
        /\ SysctlsReport(job, TRUE, lane)
        /\ UNCHANGED <<disk, lane, running, left>>
     \/ /\ diffs # {} /\ job.manage /\ recorded = lane
        /\ running' = [job EXCEPT !.settings = diffs]
        /\ UNCHANGED <<disk, lane, done, left>>
     \/ /\ diffs # {} /\ job.manage /\ recorded # lane
        /\ WriteManifest(recorded, TRUE)
        /\ lane' = recorded
        /\ running' = [job EXCEPT !.settings = diffs]
        /\ UNCHANGED done
     \/ /\ diffs # {} /\ job.manage /\ recorded # lane
        /\ WriteManifest(recorded, FALSE)
        /\ SysctlsReport(job, FALSE, lane)
        /\ UNCHANGED <<lane, running>>
     \/ /\ job.manage /\ Disturb
        /\ SysctlsReport(job, FALSE, lane)
        /\ UNCHANGED <<disk, lane, running>>
  /\ touched' = IF left' = left THEN touched \ (job.settings \ diffs) ELSE touched
  /\ UNCHANGED <<value, hold, before>>

\* A reload's manifest is the lane's with the new bindings.
RunBind(job) ==
  /\ \E ok \in BOOLEAN :
       /\ WriteManifest(lane, ok)
       /\ Report([kind |-> "bind", config |-> job.config, ok |-> ok, manifest |-> lane])
  /\ UNCHANGED <<value, lane, running, historyVars>>

StartHandBack(job) ==
  /\ running' = [kind |-> "handback", ok |-> TRUE,
                 todo |-> {k \in DOMAIN lane : k.family \in job.families}]
  /\ UNCHANGED <<value, disk, lane, done, historyVars, left>>

persist_lane ==
  /\ mode = "run" /\ running = Idle /\ queue # << >>
  /\ LET job == Head(queue) IN
     \/ job.kind = "sysctls" /\ StartSysctls(job)
     \/ job.kind = "bind" /\ RunBind(job)
     \/ job.kind = "handback" /\ StartHandBack(job)
  /\ queue' = Tail(queue)
  /\ UNCHANGED <<artifacts, links, mode, daemonVars>>

\* apply_sysctls writes one value; the first error ends the job.
WriteValue(k) ==
  /\ mode = "run" /\ running.kind = "sysctls" /\ k \in running.settings
  /\ \/ /\ value[k] # Absent
        /\ value' = [value EXCEPT ![k] = Wanted]
        /\ hold' = [hold EXCEPT ![k] = "ours"]
        /\ touched' = touched \ {k}
        /\ running' = [running EXCEPT !.settings = @ \ {k}]
        /\ UNCHANGED <<done, left>>
     \/ /\ value[k] = Absent
        /\ running' = Idle
        /\ SysctlsReport(running, FALSE, lane)
        /\ UNCHANGED <<value, hold, touched, left>>
     \/ /\ Disturb
        /\ running' = Idle
        /\ SysctlsReport(running, FALSE, lane)
        /\ UNCHANGED <<value, hold, touched>>
  /\ UNCHANGED <<artifacts, links, disk, lane, queue, mode, daemonVars, before>>

EndSysctls ==
  /\ mode = "run" /\ running.kind = "sysctls" /\ running.settings = {}
  /\ running' = Idle
  /\ SysctlsReport(running, TRUE, lane)
  /\ UNCHANGED <<value, artifacts, links, disk, lane, queue, mode, daemonVars,
                 historyVars, left>>

\* Gives a key its baseline back: hand_back and restore write it only where
\* the value is still PolyWAN's.
Restore(k, m) ==
  /\ value' = IF value[k] = Wanted THEN [value EXCEPT ![k] = m[k]] ELSE value
  /\ hold' = [hold EXCEPT ![k] = "never"]
  /\ before' = [before EXCEPT ![k] = @ \cup {value'[k]}]

\* hand_back, one key: restored or released and forgotten, or kept.
HandBackKey(k) ==
  /\ mode = "run" /\ running.kind = "handback" /\ k \in running.todo
  /\ \/ /\ Restore(k, lane)
        /\ lane' = forgotten(lane, k)
        /\ running' = [running EXCEPT !.todo = @ \ {k}]
        /\ UNCHANGED left
     \/ /\ Disturb
        /\ running' = [running EXCEPT !.todo = @ \ {k}, !.ok = FALSE]
        /\ UNCHANGED <<value, hold, before, lane>>
  /\ UNCHANGED <<artifacts, links, disk, queue, done, mode, daemonVars, touched>>

EndHandBack ==
  /\ mode = "run" /\ running.kind = "handback" /\ running.todo = {}
  /\ \E ok \in BOOLEAN :
       /\ WriteManifest(lane, ok)
       /\ Report([kind |-> "handback", ok |-> ok /\ running.ok, manifest |-> lane])
  /\ running' = Idle
  /\ UNCHANGED <<value, artifacts, links, lane, queue, mode, daemonVars, historyVars>>

-----------------------------------------------------------------------------
(* Crash, start, cleanup.                                                  *)

Stopped ==
  /\ mode' = "down"
  /\ running' = Idle /\ queue' = << >> /\ done' = << >>
  /\ lane' = << >> /\ manifest' = << >>
  /\ sysctls_pending' = {} /\ sysctls_flight' = << >> /\ sysctls_applied' = << >>
  /\ backoff' = {} /\ retry' = "none"
  /\ hand_back' = FALSE /\ reload' = FALSE /\ installing' = FALSE /\ pass' = "idle"

\* A crash, a stop, or a cleanup that is killed.
Crash ==
  /\ mode # "down"
  /\ Disturb
  /\ Stopped
  /\ UNCHANGED <<value, artifacts, links, disk, cfg, historyVars>>

\* run: the manifest read, or a new one, is written before anything changes.
Start(c) ==
  /\ mode = "down"
  /\ mode' = "run"
  /\ cfg' = c
  /\ disk' = IF disk = NoManifest THEN << >> ELSE disk
  /\ lane' = disk' /\ manifest' = disk'
  /\ sysctls_pending' = sysctl_scopes(c)
  /\ installing' = TRUE /\ pass' = "due"
  /\ links' = {}
  /\ UNCHANGED <<value, artifacts, queue, running, done, sysctls_flight, sysctls_applied,
                 backoff, retry, hand_back, reload, historyVars, left>>

\* cleanup::run: table, rules and routes first, then the settings.
StartCleanup ==
  /\ mode = "down"
  /\ Disturb
  /\ mode' = "cleanup"
  /\ artifacts' = {}
  /\ lane' = IF disk = NoManifest THEN << >> ELSE disk
  /\ running' = [kind |-> "cleanup", ok |-> TRUE, todo |-> Recorded(disk)]
  /\ UNCHANGED <<value, links, disk, queue, done, daemonVars, historyVars>>

RestoreKey(k) ==
  /\ mode = "cleanup" /\ k \in running.todo
  /\ \/ /\ Restore(k, lane)
        /\ running' = [running EXCEPT !.todo = @ \ {k}]
        /\ UNCHANGED left
     \/ /\ Disturb
        /\ running' = [running EXCEPT !.todo = @ \ {k}, !.ok = FALSE]
        /\ UNCHANGED <<value, hold, before>>
  /\ UNCHANGED <<artifacts, links, disk, lane, queue, done, mode, daemonVars, touched>>

\* The manifest goes last, and only when every baseline is restored.
EndCleanup ==
  /\ mode = "cleanup" /\ running.todo = {}
  /\ disk' = IF running.ok THEN NoManifest ELSE disk
  /\ Stopped
  /\ UNCHANGED <<value, artifacts, links, cfg, historyVars, left>>

-----------------------------------------------------------------------------
(* The environment.                                                        *)

\* Somebody else gives keys the values of `v`.
Outside(v) ==
  LET changed == {k \in Keys : v[k] # value[k]} IN
  /\ value' = v
  /\ touched' = touched \cup changed
  /\ hold' = [k \in Keys |-> IF k \in changed /\ hold[k] = "ours" THEN "lost" ELSE hold[k]]
  /\ before' = [k \in Keys |-> IF k \in changed /\ hold[k] = "never"
                               THEN before[k] \cup {v[k]} ELSE before[k]]
  /\ UNCHANGED <<artifacts, laneVars, mode, daemonVars>>

Admin(k, v) ==
  /\ Disturb
  /\ value[k] \notin {v, Absent}
  /\ Outside([value EXCEPT ![k] = v])
  /\ UNCHANGED links

\* An interface disappears, or appears with the kernel's defaults.
Link(i) ==
  /\ Disturb
  /\ Outside([k \in Keys |-> IF k.scope # i THEN value[k]
                             ELSE IF value[k] = Absent THEN Default ELSE Absent])
  /\ links' = IF mode = "run" THEN links \cup {i} ELSE links

-----------------------------------------------------------------------------
Init ==
  /\ value = [k \in Keys |-> Default]
  /\ artifacts = {} /\ links = {}
  /\ disk = NoManifest
  /\ lane = << >> /\ queue = << >> /\ running = Idle /\ done = << >>
  /\ mode = "down"
  /\ cfg \in Files /\ manifest = << >>
  /\ sysctls_pending = {} /\ sysctls_flight = << >> /\ sysctls_applied = << >>
  /\ backoff = {} /\ retry = "none"
  /\ hand_back = FALSE /\ reload = FALSE /\ installing = FALSE /\ pass = "idle"
  /\ hold = [k \in Keys |-> "never"]
  /\ before = [k \in Keys |-> {value[k]}]
  /\ touched = {}
  /\ left = MaxEvents

LaneNext ==
  \/ persist_lane
  \/ \E k \in Keys : WriteValue(k)
  \/ EndSysctls
  \/ \E k \in Keys : HandBackKey(k)
  \/ EndHandBack

Next ==
  \/ step \/ retry_due \/ full_reconciliation \/ completion
  \/ \E i \in Interfaces : interface_retry(i)
  \/ \E i \in Interfaces : notification(i)
  \/ \E c \in Files : start_reload(c)
  \/ LaneNext
  \/ Crash
  \/ \E c \in Files : Start(c)
  \/ StartCleanup
  \/ \E k \in Keys : RestoreKey(k)
  \/ EndCleanup
  \/ \E k \in Keys, v \in Foreign \cup {Wanted} : Admin(k, v)
  \/ \E i \in Interfaces : Link(i)

Spec == Init /\ [][Next]_vars

(***************************************************************************)
(* The State task and the lane keep running while the process lives, and   *)
(* timers fire.  An event can be taken only between two passes: strong     *)
(* fairness says that the select of the event loop starves none of them.   *)
(* Starts, stops, administrators and links may never happen.               *)
(***************************************************************************)
Fairness ==
  /\ WF_vars(step) /\ WF_vars(LaneNext) /\ WF_vars(full_reconciliation)
  /\ SF_vars(completion) /\ SF_vars(retry_due)
  /\ \A i \in Interfaces : SF_vars(interface_retry(i)) /\ SF_vars(notification(i))

FairSpec == Spec /\ Fairness

-----------------------------------------------------------------------------
(* Properties.                                                             *)

Manifests == UNION {[S -> Foreign] : S \in SUBSET Keys}

\* Types of the variables.
TypeOK ==
  /\ value \in [Keys -> Foreign \cup {Wanted, Absent}]
  /\ artifacts \subseteq Families /\ links \subseteq Interfaces
  /\ disk \in Manifests \cup {NoManifest}
  /\ lane \in Manifests /\ manifest \in Manifests
  /\ mode \in {"run", "down", "cleanup"} /\ cfg \in Files
  /\ sysctls_pending \subseteq Interfaces \cup {Global}
  /\ DOMAIN sysctls_flight \subseteq sysctls_pending
  /\ backoff \subseteq sysctls_pending \ {Global}
  /\ retry \in {"none", "sysctls", "handback"}
  /\ hold \in [Keys -> {"never", "ours", "lost"}]
  /\ before \in [Keys -> SUBSET (Foreign \cup {Wanted, Absent})]

\* Write-ahead (worker.rs apply_sysctls, cleanup.rs): while a key has been
\* changed by PolyWAN and not released, the manifest on disk records it, with a
\* value it had before that change, whatever crashed or failed since; after a
\* completed cleanup no key holds a value of PolyWAN's.
Restorable ==
  \A k \in Keys :
    \/ hold[k] = "never"
    \/ k \in Recorded(disk) /\ disk[k] \in before[k]

\* FR-DISC-7: when the daemon counts an interface's settings of a family as
\* applied, they are in place, unless somebody else changed them since or the
\* notification of a new incarnation is still queued.
AppliedIsInPlace ==
  (mode = "run" /\ cfg.manage) =>
    \A k \in desired(cfg) :
      \/ sysctls_unapplied(k.scope, {k.family})
      \/ value[k] \in {Wanted, Absent} \/ k \in touched \/ k.scope \in links

\* FR-REC-3: the rules and routes of a family are installed only when its
\* global settings are in place (or somebody else changed them again).
SetBeforeUse ==
  [][\A f \in artifacts' \ artifacts : cfg.manage =>
       \A k \in {x \in wanted_of(cfg, Global) : x.family = f} :
         value[k] = Wanted \/ k \in touched]_vars

\* FR-REC-9 step 4, FR-REC-4: PolyWAN gives a setting back only when no rule
\* or route of its family is installed any more, although reloads may take the
\* family back while the job waits (unless they stop managing settings).
RestoredLast ==
  [][\A k \in Keys :
       (cfg.manage /\ hold[k] # "never" /\ hold'[k] = "never") =>
         k.family \notin artifacts]_vars

\* Pending settings are applied, after any number of failures, superseded
\* jobs and new incarnations.
PendingIsApplied ==
  \A s \in Interfaces \cup {Global} :
    (mode = "run" /\ s \in sysctls_pending) ~> (mode # "run" \/ s \notin sysctls_pending)
============================================================================
