--------------------------- MODULE SysctlsProofs ----------------------------
(***************************************************************************)
(* Every step keeps the types and the baselines, which make every change   *)
(* restorable, and the inductive invariant of SysctlsLane; and what        *)
(* follows from it: settings that count as applied are in place, they are  *)
(* set before the routing uses them, and given back after it.              *)
(***************************************************************************)
EXTENDS SysctlsPasses

\* Leaves that name no prover are for Zenon.
USE ZenonT(60)

\* record (sysctl.rs) gives a manifest, with a value that is there for every
\* new key.
LEMMA Records ==
    ASSUME TypeInv, NEW settings \in SUBSET Keys
    PROVE  /\ differences(settings) \subseteq settings
           /\ record(lane, differences(settings)) \in Manifests
           /\ DOMAIN record(lane, differences(settings)) = DOMAIN lane \cup differences(settings)
           /\ \A k \in DOMAIN lane : record(lane, differences(settings))[k] = lane[k]
           /\ \A k \in differences(settings) \ DOMAIN lane :
                record(lane, differences(settings))[k] = value[k]
  <1> DEFINE D == differences(settings)
             m == record(lane, D)
  <1>1. D \subseteq settings /\ \A k \in D : value[k] \in Foreign
    BY DEF differences, TypeInv, TypeOK
  <1>2. DOMAIN lane \subseteq Keys /\ lane \in [DOMAIN lane -> Foreign]
    BY ManifestType DEF TypeInv, TypeOK
  <1> HIDE DEF D
  <1>3. m = [k \in DOMAIN lane \cup D |-> IF k \in DOMAIN lane THEN lane[k] ELSE value[k]]
    BY DEF record
  <1> HIDE DEF m
  <1>4. m \in [DOMAIN lane \cup D -> Foreign]
    BY <1>1, <1>2, <1>3
  <1>5. DOMAIN m = DOMAIN lane \cup D
    BY <1>3
  <1>6. m \in Manifests
    BY <1>1, <1>2, <1>4, <1>5, ManifestType
  <1>7. /\ \A k \in DOMAIN lane : m[k] = lane[k]
        /\ \A k \in D \ DOMAIN lane : m[k] = value[k]
    BY <1>3
  <1> QED
    BY <1>1, <1>5, <1>6, <1>7 DEF m, D

\* A key that is forgotten leaves a manifest.
LEMMA Forgets ==
    ASSUME NEW m \in Manifests, NEW x
    PROVE  /\ forgotten(m, x) \in Manifests
           /\ DOMAIN forgotten(m, x) = DOMAIN m \ {x}
           /\ \A k \in DOMAIN m \ {x} : forgotten(m, x)[k] = m[k]
  <1>1. DOMAIN m \subseteq Keys /\ m \in [DOMAIN m -> Foreign]
    BY ManifestType
  <1>2. DOMAIN forgotten(m, x) = DOMAIN m \ {x}
        /\ \A k \in DOMAIN m \ {x} : forgotten(m, x)[k] = m[k]
    BY DEF forgotten
  <1>3. forgotten(m, x) \in [DOMAIN m \ {x} -> Foreign]
    BY <1>1 DEF forgotten
  <1> QED
    BY <1>1, <1>2, <1>3, ManifestType

\* The kernel's values keep their type when a key gets its baseline back.
LEMMA RestoreType ==
    ASSUME TypeInv, NEW k \in Keys, NEW m \in Manifests, k \in DOMAIN m, Restore(k, m)
    PROVE  /\ value' \in [Keys -> Foreign \cup {Wanted, Absent}]
           /\ hold' \in [Keys -> {"never", "ours", "lost"}]
           /\ before' \in [Keys -> SUBSET (Foreign \cup {Wanted, Absent})]
  <1>1. m[k] \in Foreign
    BY ManifestType
  <1>2. value' \in [Keys -> Foreign \cup {Wanted, Absent}]
    BY <1>1 DEF Restore, TypeInv, TypeOK
  <1> QED
    BY <1>2, SMTT(60) DEF Restore, TypeInv, TypeOK

\* Values that somebody else writes keep the histories' types.
LEMMA OutsideType ==
    ASSUME TypeInv, NEW v \in [Keys -> Foreign \cup {Wanted, Absent}], Outside(v)
    PROVE  /\ value' = v
           /\ touched' \subseteq Keys
           /\ hold' \in [Keys -> {"never", "ours", "lost"}]
           /\ before' \in [Keys -> SUBSET (Foreign \cup {Wanted, Absent})]
  BY SMTT(60) DEF Outside, TypeInv, TypeOK

-----------------------------------------------------------------------------
(* The State task's steps. *)

\* A pass keeps the types.
LEMMA StepTypes ==
    ASSUME TypeInv, ModeInv, step
    PROVE  TypeInv' /\ ModeInv'
  <1>1. DispatchJobs \in Seq(Jobs)
    BY Dispatching, MoreElements DEF Jobs
  <1>2. queue \in Seq(Jobs)
    BY DEF TypeInv
  <1>3. queue \o DispatchJobs \in Seq(Jobs)
    BY <1>1, <1>2, Joined
  <1>4. [kind |-> "handback", families |-> departed] \in Jobs
    BY DEF departed, Jobs, HandBackJobs
  <1>5. queue' \in Seq(Jobs)
    <2>1. Append(queue \o DispatchJobs, [kind |-> "handback", families |-> departed]) \in Seq(Jobs)
      BY <1>3, <1>4, AtEnd
    <2>2. \/ queue' = queue \o DispatchJobs
          \/ queue' = Append(queue \o DispatchJobs, [kind |-> "handback", families |-> departed])
      BY DEF step
    <2> QED
      BY <1>3, <2>1, <2>2
  <1>6. /\ DOMAIN sysctls_flight' \subseteq sysctls_pending
        /\ sysctls_flight' \in [DOMAIN sysctls_flight' -> SysctlJobs]
    <2>1. \A s \in Dispatched : SysctlJob(s) \in SysctlJobs
      BY DispatchedType, Numbered
    <2>2. sysctls_flight' = [s \in DOMAIN sysctls_flight \cup Dispatched |->
                               IF s \in Dispatched THEN SysctlJob(s) ELSE sysctls_flight[s]]
      BY DEF step, FlightAfterDispatch
    <2>3. DOMAIN sysctls_flight' = DOMAIN sysctls_flight \cup Dispatched
      BY <2>2
    <2>4. sysctls_flight' \in [DOMAIN sysctls_flight \cup Dispatched -> SysctlJobs]
      BY <2>1, <2>2 DEF TypeInv
    <2> QED
      BY <2>3, <2>4, DispatchedType DEF TypeInv, TypeOK
  <1>7. artifacts' \subseteq Families
    BY Constants, SMTT(60) DEF step, TypeInv, TypeOK
  <1>8. retry' \in {"none", "sysctls", "handback"} /\ mode' = "run"
    BY DEF step, TypeInv, TypeOK
  <1>9. /\ UNCHANGED <<value, links, disk, lane, running, done, mode, cfg, manifest,
                      sysctls_pending, sysctls_applied, backoff, historyVars>>
    BY DEF step
  <1>10. TypeInv'
    BY <1>5, <1>6, <1>7, <1>8, <1>9 DEF TypeInv, TypeOK, historyVars
  <1> QED
    BY <1>8, <1>9, <1>10 DEF ModeInv

\* A wake-up of the event loop keeps the types.
LEMMA AwakeTypes ==
    ASSUME TypeInv, ModeInv, Awake,
           backoff' \subseteq backoff, retry' \in {retry, "none"}
    PROVE  TypeInv' /\ ModeInv'
  BY DEF TypeInv, TypeOK, ModeInv, Awake, Event, laneVars, historyVars

\* A function without one of its arguments.
LEMMA Removed ==
    ASSUME NEW f, NEW S, f \in [DOMAIN f -> S], NEW x
    PROVE  /\ DOMAIN Without(f, x) = DOMAIN f \ {x}
           /\ Without(f, x) \in [DOMAIN Without(f, x) -> S]
           /\ \A s \in DOMAIN f \ {x} : Without(f, x)[s] = f[s]
  BY DEF Without

\* Flights and applied settings without one scope.
LEMMA RemovedJobs ==
    ASSUME TypeInv, NEW x
    PROVE  /\ DOMAIN Without(sysctls_flight, x) = DOMAIN sysctls_flight \ {x}
           /\ Without(sysctls_flight, x) \in [DOMAIN Without(sysctls_flight, x) -> SysctlJobs]
           /\ \A s \in DOMAIN sysctls_flight \ {x} : Without(sysctls_flight, x)[s] = sysctls_flight[s]
           /\ DOMAIN Without(sysctls_applied, x) = DOMAIN sysctls_applied \ {x}
           /\ Without(sysctls_applied, x) \in [DOMAIN Without(sysctls_applied, x) -> SysctlJobs]
           /\ \A s \in DOMAIN sysctls_applied \ {x} : Without(sysctls_applied, x)[s] = sysctls_applied[s]
  <1>1. /\ sysctls_flight \in [DOMAIN sysctls_flight -> SysctlJobs]
        /\ sysctls_applied \in [DOMAIN sysctls_applied -> SysctlJobs]
    BY DEF TypeInv
  <1> QED
    BY <1>1, Removed

\* A completion that the State task takes keeps the types.
LEMMA CompletionTypes ==
    ASSUME TypeInv, ModeInv, completion
    PROVE  TypeInv' /\ ModeInv'
  <1> DEFINE r == Head(done)
  <1>1. r \in Reports /\ done' \in Seq(Reports)
    BY Popped DEF completion, TypeInv
  <1>2. manifest' = r.manifest /\ r.manifest \in Manifests
    BY <1>1 DEF completion, Reports
  <1>3. UNCHANGED <<value, artifacts, links, disk, lane, queue, running, mode, historyVars>>
    BY DEF completion
  <1>4. mode = "run"
    BY DEF completion, sysctls_done, handed_back, reload_bound, Event
  <1> HIDE DEF r
  <1>5. /\ cfg' \in Files
        /\ sysctls_pending' \subseteq Scopes
        /\ DOMAIN sysctls_flight' \subseteq sysctls_pending'
        /\ sysctls_flight' \in [DOMAIN sysctls_flight' -> SysctlJobs]
        /\ sysctls_applied' \in [DOMAIN sysctls_applied' -> SysctlJobs]
        /\ backoff' \subseteq sysctls_pending' \ {Global}
        /\ retry' \in {"none", "sysctls", "handback"}
    <2>1. CASE r.kind = "sysctls" /\ sysctls_done(r)
      <3> DEFINE current == r.scope \in DOMAIN sysctls_flight /\ sysctls_flight[r.scope].seq = r.seq
      <3>1. cfg' = cfg
        BY <2>1 DEF sysctls_done
      <3>2. CASE ~ current
        BY <2>1, <3>1, <3>2 DEF sysctls_done, TypeInv, TypeOK, Scopes
      <3>3. CASE current
        <4>1. sysctls_flight' = Without(sysctls_flight, r.scope)
          BY <2>1, <3>3 DEF sysctls_done
        <4>2. /\ DOMAIN sysctls_flight' = DOMAIN sysctls_flight \ {r.scope}
              /\ sysctls_flight' \in [DOMAIN sysctls_flight' -> SysctlJobs]
          BY <4>1, RemovedJobs
        <4>3. CASE r.ok
          <5>1. sysctls_applied' =
                       [s \in DOMAIN sysctls_applied \cup {r.scope} |->
                          IF s = r.scope THEN sysctls_flight[s] ELSE sysctls_applied[s]]
            BY <2>1, <3>3, <4>3 DEF sysctls_done
          <5>2. sysctls_applied' \in [DOMAIN sysctls_applied' -> SysctlJobs]
            BY <3>3, <5>1 DEF TypeInv
          <5> QED
            BY <2>1, <3>1, <3>3, <4>2, <4>3, <5>2, SMTT(60) DEF sysctls_done, TypeInv, TypeOK,
               Scopes
        <4>4. CASE ~ r.ok
          <5>1. sysctls_applied' \in [DOMAIN sysctls_applied' -> SysctlJobs]
            <6>1. sysctls_applied' = Without(sysctls_applied, r.scope)
              BY <2>1, <3>3, <4>4 DEF sysctls_done
            <6> QED
              BY <6>1, RemovedJobs
          <5> QED
            BY <2>1, <3>1, <3>3, <4>2, <4>4, <5>1, Constants, SMTT(60)
               DEF sysctls_done, TypeInv, TypeOK, Scopes
        <4> QED
          BY <4>3, <4>4
      <3> QED
        BY <3>2, <3>3
    <2>2. CASE r.kind = "handback" /\ handed_back(r)
      BY <2>2 DEF handed_back, TypeInv, TypeOK, Scopes
    <2>3. CASE r.kind = "bind" /\ reload_bound(r)
      <3>1. r.config \in Files
        BY <1>1, <2>3 DEF Reports
      <3>2. CASE ~ r.ok
        BY <2>3, <3>2 DEF reload_bound, TypeInv, TypeOK, Scopes
      <3>3. CASE r.ok
        <4>1. sysctls_flight' = << >> /\ cfg' = r.config
              /\ sysctls_pending' = sysctl_scopes(r.config)
              /\ sysctls_applied' = [s \in DOMAIN sysctls_applied \cap sysctl_scopes(r.config)
                                       |-> sysctls_applied[s]]
          BY <2>3, <3>3 DEF reload_bound
        <4>2. DOMAIN sysctls_flight' = {} /\ sysctls_flight' \in [{} -> SysctlJobs]
          BY <4>1, Empty
        <4>3. sysctls_applied' \in [DOMAIN sysctls_applied' -> SysctlJobs]
          BY <4>1 DEF TypeInv
        <4>4. backoff' \subseteq sysctls_pending' \ {Global}
              /\ retry' \in {"none", "sysctls", "handback"}
          BY <2>3, <3>3, <4>1 DEF reload_bound, TypeInv, TypeOK
        <4> QED
          BY <3>1, <4>1, <4>2, <4>3, <4>4, Scoped
      <3> QED
        BY <3>2, <3>3
    <2> QED
      BY <2>1, <2>2, <2>3 DEF completion, r
  <1>6. TypeInv'
    BY <1>1, <1>2, <1>3, <1>5 DEF TypeInv, TypeOK, historyVars, Scopes
  <1> QED
    BY <1>3, <1>4, <1>6 DEF ModeInv

\* A link notification keeps the types.
LEMMA NotificationTypes ==
    ASSUME TypeInv, ModeInv, NEW i \in Interfaces, notification(i)
    PROVE  TypeInv' /\ ModeInv'
  <1>1. /\ sysctls_flight' \in [DOMAIN sysctls_flight' -> SysctlJobs]
        /\ sysctls_applied' \in [DOMAIN sysctls_applied' -> SysctlJobs]
        /\ DOMAIN sysctls_flight' \subseteq sysctls_pending'
    <2>1. CASE i \in cfg.interfaces
      <3>1. /\ sysctls_applied' = Without(sysctls_applied, i)
            /\ sysctls_flight' = Without(sysctls_flight, i)
            /\ sysctls_pending' = sysctls_pending \cup {i}
        BY <2>1 DEF notification
      <3>2. /\ sysctls_flight' \in [DOMAIN sysctls_flight' -> SysctlJobs]
            /\ sysctls_applied' \in [DOMAIN sysctls_applied' -> SysctlJobs]
            /\ DOMAIN sysctls_flight' = DOMAIN sysctls_flight \ {i}
        BY <3>1, RemovedJobs
      <3> QED
        BY <3>1, <3>2 DEF TypeInv, TypeOK
    <2>2. CASE i \notin cfg.interfaces
      BY <2>2 DEF notification, TypeInv, TypeOK
    <2> QED
      BY <2>1, <2>2
  <1> QED
    BY <1>1, SMTT(60) DEF notification, TypeInv, TypeOK, ModeInv, Event, laneVars, historyVars

\* A reload that begins keeps the types.
LEMMA ReloadTypes ==
    ASSUME TypeInv, ModeInv, NEW c \in Files, start_reload(c)
    PROVE  TypeInv' /\ ModeInv'
  <1>1. [kind |-> "bind", config |-> c] \in Jobs
    BY DEF Jobs, BindJobs
  <1>2. queue' \in Seq(Jobs)
    BY <1>1, AtEnd DEF start_reload, TypeInv
  <1> QED
    BY <1>2 DEF start_reload, TypeInv, TypeOK, ModeInv, Event, historyVars

\* A report is put at the end of the reports.
LEMMA Reported ==
    ASSUME TypeInv, NEW r \in Reports, Report(r)
    PROVE  done' \in Seq(Reports)
  BY AtEnd DEF TypeInv, Report

\* So is the report of a sysctl job.
LEMMA SysctlsReported ==
    ASSUME TypeInv, NEW job \in SysctlJobs, NEW ok \in BOOLEAN, SysctlsReport(job, ok, lane)
    PROVE  done' \in Seq(Reports)
  <1>1. [kind |-> "sysctls", scope |-> job.scope, seq |-> job.seq, ok |-> ok,
         manifest |-> lane] \in Reports
    BY DEF Reports, SysctlJobs, TypeInv, TypeOK
  <1> QED
    BY <1>1, Reported DEF SysctlsReport

\* What one step of the lane may change, with its types.
LaneTypes ==
  /\ disk' \in Manifests \cup {NoManifest}
  /\ disk # NoManifest => disk' # NoManifest
  /\ lane' \in Manifests
  /\ running' \in {Idle} \cup SysctlJobs \cup Restorations
  /\ running.kind # "cleanup" => running'.kind # "cleanup"
  /\ done' \in Seq(Reports)
  /\ touched' \subseteq Keys

\* A sysctl job that starts keeps the types.
LEMMA StartSysctlsTypes ==
    ASSUME TypeInv, NEW job \in SysctlJobs, running = Idle, StartSysctls(job)
    PROVE  LaneTypes
  <1> DEFINE diffs == differences(job.settings)
             recorded == record(lane, diffs)
             writes == [job EXCEPT !.settings = diffs]
  <1>1. job.settings \in SUBSET Keys
    BY DEF SysctlJobs
  <1>2. diffs \subseteq job.settings /\ recorded \in Manifests
    BY <1>1, Records
  <1> HIDE DEF diffs
  <1>3. writes \in SysctlJobs /\ writes.kind = "sysctls"
    BY <1>1, <1>2 DEF SysctlJobs
  <1> HIDE DEF recorded, writes
  <1>4. NothingToWrite(job) \/ BeginsToWrite(job) \/ CannotBegin(job)
    BY StartOutcomes
  <1>5. disk' \in {disk, recorded} /\ lane' \in {lane, recorded}
        /\ running' \in {running, writes}
    BY <1>4 DEF NothingToWrite, BeginsToWrite, CannotBegin, SysctlsReport, Report,
                diffs, recorded, writes
  <1>6. done \in Seq(Reports) /\ touched \subseteq Keys /\ lane \in Manifests
        /\ disk \in Manifests \cup {NoManifest}
    BY DEF TypeInv, TypeOK
  <1>7. done' \in Seq(Reports)
    <2>1. \/ done' = done
          \/ SysctlsReport(job, TRUE, lane) \/ SysctlsReport(job, FALSE, lane)
      BY <1>4 DEF NothingToWrite, BeginsToWrite, CannotBegin
    <2> QED
      BY <1>6, <2>1, SysctlsReported
  <1>8. touched' \subseteq touched
    BY StartOutcomes
  <1> QED
    BY <1>2, <1>3, <1>5, <1>6, <1>7, <1>8, Constants DEF LaneTypes, Idle

\* A job that the lane takes keeps the types.
LEMMA PersistTypes ==
    ASSUME TypeInv, ModeInv, persist_lane
    PROVE  TypeInv' /\ ModeInv'
  <1> DEFINE job == Head(queue)
  <1>1. job \in Jobs /\ queue' \in Seq(Jobs)
    BY Popped DEF persist_lane, TypeInv
  <1>2. running = Idle /\ mode = "run"
    BY DEF persist_lane
  <1> HIDE DEF job
  <1>3. LaneTypes /\ UNCHANGED <<value, hold, before>>
    <2>1. CASE job.kind = "sysctls" /\ StartSysctls(job)
      <3>1. job \in SysctlJobs
        BY <1>1, <2>1 DEF Jobs, BindJobs, HandBackJobs
      <3> QED
        BY <1>2, <2>1, <3>1, StartSysctlsTypes, StartOutcomes
    <2>2. CASE job.kind = "bind" /\ RunBind(job)
      <3>1. job.config \in Files
        BY <1>1, <2>2 DEF Jobs, SysctlJobs, BindJobs, HandBackJobs
      <3>2. done' \in Seq(Reports)
        <4>1. PICK ok \in BOOLEAN :
                Report([kind |-> "bind", config |-> job.config, ok |-> ok, manifest |-> lane])
          BY <2>2 DEF RunBind
        <4>2. [kind |-> "bind", config |-> job.config, ok |-> ok, manifest |-> lane] \in Reports
          BY <3>1 DEF Reports, TypeInv, TypeOK
        <4> QED
          BY <4>1, <4>2, Reported
      <3>3. disk' \in {disk, lane} /\ lane' = lane /\ running' = running
            /\ UNCHANGED <<value, hold, before, touched>>
        BY <2>2 DEF RunBind, WriteManifest, historyVars
      <3> QED
        BY <3>2, <3>3, Constants DEF LaneTypes, TypeInv, TypeOK
    <2>3. CASE job.kind = "handback" /\ StartHandBack(job)
      <3>1. running' \in Restorations /\ running'.kind = "handback"
        <4>1. DOMAIN lane \subseteq Keys
          BY ManifestType DEF TypeInv, TypeOK
        <4> QED
          BY <2>3, <4>1 DEF StartHandBack, Restorations
      <3> QED
        BY <2>3, <3>1 DEF StartHandBack, LaneTypes, TypeInv, TypeOK, historyVars
    <2> QED
      BY <2>1, <2>2, <2>3 DEF persist_lane, job
  <1>4. UNCHANGED <<artifacts, links, mode, daemonVars>>
    BY DEF persist_lane
  <1>5. TypeInv'
    BY <1>1, <1>3, <1>4 DEF LaneTypes, TypeInv, TypeOK, daemonVars
  <1> QED
    BY <1>2, <1>3, <1>4, <1>5 DEF LaneTypes, ModeInv, daemonVars

\* A value written by apply_sysctls keeps the types.
LEMMA WriteValueTypes ==
    ASSUME TypeInv, ModeInv, NEW k \in Keys, WriteValue(k)
    PROVE  TypeInv' /\ ModeInv'
  <1>1. running \in SysctlJobs
    BY SMTT(60) DEF WriteValue, TypeInv, Idle, Restorations
  <1>2. done' \in Seq(Reports)
    <2>1. done' = done \/ SysctlsReport(running, FALSE, lane)
      BY DEF WriteValue
    <2>2. done \in Seq(Reports)
      BY DEF TypeInv
    <2> QED
      BY <1>1, <2>1, <2>2, SysctlsReported
  <1>3. running' \in {Idle} \cup SysctlJobs /\ running'.kind # "cleanup"
    <2>1. running' = Idle \/ running' = [running EXCEPT !.settings = running.settings \ {k}]
      BY DEF WriteValue
    <2> QED
      BY <1>1, <2>1, SMTT(60) DEF SysctlJobs, Idle
  <1>4. /\ value' \in [Keys -> Foreign \cup {Wanted, Absent}]
        /\ hold' \in [Keys -> {"never", "ours", "lost"}]
        /\ touched' \subseteq Keys
    <2>1. \/ /\ value' = [value EXCEPT ![k] = Wanted]
             /\ hold' = [hold EXCEPT ![k] = "ours"]
             /\ touched' = touched \ {k}
          \/ UNCHANGED <<value, hold, touched>>
      BY DEF WriteValue
    <2> QED
      BY <2>1 DEF TypeInv, TypeOK
  <1>5. UNCHANGED <<artifacts, links, disk, lane, queue, mode, daemonVars, before>>
        /\ mode = "run"
    BY DEF WriteValue
  <1>6. TypeInv'
    BY <1>2, <1>3, <1>4, <1>5 DEF TypeInv, TypeOK, daemonVars
  <1> QED
    BY <1>3, <1>5, <1>6 DEF ModeInv, daemonVars

\* The end of a sysctl job keeps the types.
LEMMA EndSysctlsTypes ==
    ASSUME TypeInv, ModeInv, EndSysctls
    PROVE  TypeInv' /\ ModeInv'
  <1>1. running \in SysctlJobs
    BY SMTT(60) DEF EndSysctls, TypeInv, Idle, Restorations
  <1>2. done' \in Seq(Reports)
    BY <1>1, SysctlsReported DEF EndSysctls
  <1> QED
    BY <1>2 DEF EndSysctls, TypeInv, TypeOK, ModeInv, daemonVars, historyVars, Idle

\* A key handed back keeps the types.
LEMMA HandBackKeyTypes ==
    ASSUME TypeInv, ModeInv, BaseInv, NEW k \in Keys, HandBackKey(k)
    PROVE  TypeInv' /\ ModeInv'
  <1>1. running \in Restorations /\ k \in DOMAIN lane
    BY SMTT(60) DEF HandBackKey, TypeInv, Idle, SysctlJobs, BaseInv
  <1>2. running' \in Restorations /\ running'.kind = "handback"
    <2>1. \/ running' = [running EXCEPT !.todo = running.todo \ {k}]
          \/ running' = [running EXCEPT !.todo = running.todo \ {k}, !.ok = FALSE]
      BY DEF HandBackKey
    <2>2. running.kind = "handback"
      BY <1>1 DEF HandBackKey
    <2>3. CASE running' = [running EXCEPT !.todo = running.todo \ {k}]
      BY <1>1, <2>2, <2>3, LessToDo
    <2>4. CASE running' = [running EXCEPT !.todo = running.todo \ {k}, !.ok = FALSE]
      BY <1>1, <2>2, <2>4, LessToDo
    <2> QED
      BY <2>1, <2>3, <2>4
  <1>3. lane \in Manifests
    BY DEF TypeInv, TypeOK
  <1>4. Restore(k, lane) \/ UNCHANGED <<value, hold, before>>
    BY DEF HandBackKey
  <1>5. /\ value' \in [Keys -> Foreign \cup {Wanted, Absent}]
        /\ hold' \in [Keys -> {"never", "ours", "lost"}]
        /\ before' \in [Keys -> SUBSET (Foreign \cup {Wanted, Absent})]
    BY <1>1, <1>3, <1>4, RestoreType DEF TypeInv, TypeOK
  <1>6. lane' \in Manifests
    <2>1. lane' = lane \/ lane' = forgotten(lane, k)
      BY DEF HandBackKey
    <2> QED
      BY <1>3, <2>1, Forgets
  <1>7. UNCHANGED <<artifacts, links, disk, queue, done, mode, daemonVars, touched>>
        /\ mode = "run"
    BY DEF HandBackKey
  <1>8. TypeInv'
    BY <1>2, <1>5, <1>6, <1>7 DEF TypeInv, TypeOK, daemonVars
  <1> QED
    BY <1>2, <1>7, <1>8 DEF ModeInv, daemonVars

\* The end of a hand-back keeps the types.
LEMMA EndHandBackTypes ==
    ASSUME TypeInv, ModeInv, EndHandBack
    PROVE  TypeInv' /\ ModeInv'
  <1>1. running \in Restorations
    BY SMTT(60) DEF EndHandBack, TypeInv, Idle, SysctlJobs
  <1>2. PICK ok \in BOOLEAN :
          /\ WriteManifest(lane, ok)
          /\ Report([kind |-> "handback", ok |-> ok /\ running.ok, manifest |-> lane])
    BY DEF EndHandBack
  <1>3. [kind |-> "handback", ok |-> ok /\ running.ok, manifest |-> lane] \in Reports
    BY <1>1 DEF Reports, Restorations, TypeInv, TypeOK
  <1>4. done' \in Seq(Reports)
    BY <1>2, <1>3, Reported
  <1>5. disk' \in {disk, lane}
    BY <1>2 DEF WriteManifest
  <1> QED
    BY <1>4, <1>5, Constants
       DEF EndHandBack, TypeInv, TypeOK, ModeInv, daemonVars, historyVars, Idle

\* A stop keeps the types.
LEMMA StoppedTypes ==
    ASSUME TypeInv, ModeInv, Stopped, disk' \in Manifests \cup {NoManifest},
           UNCHANGED <<value, artifacts, links, cfg, historyVars>>
    PROVE  TypeInv' /\ ModeInv'
  <1>1. /\ queue' \in Seq(Jobs) /\ done' \in Seq(Reports)
        /\ lane' \in Manifests /\ manifest' \in Manifests
        /\ DOMAIN sysctls_flight' = {} /\ sysctls_flight' \in [{} -> SysctlJobs]
        /\ DOMAIN sysctls_applied' = {} /\ sysctls_applied' \in [{} -> SysctlJobs]
    BY Empty DEF Stopped
  <1>2. running' = Idle /\ mode' = "down" /\ sysctls_pending' = {} /\ backoff' = {}
        /\ retry' = "none" /\ reload' = FALSE /\ queue' = << >> /\ done' = << >>
    BY DEF Stopped
  <1>3. TypeInv'
    BY <1>1, <1>2 DEF TypeInv, TypeOK, historyVars
  <1> QED
    BY <1>1, <1>2, <1>3 DEF ModeInv

\* A start keeps the types.
LEMMA StartTypes ==
    ASSUME TypeInv, ModeInv, NEW c \in Files, Start(c)
    PROVE  TypeInv' /\ ModeInv'
  <1>1. disk' \in Manifests /\ lane' \in Manifests /\ manifest' \in Manifests
    BY Empty DEF Start, TypeInv, TypeOK
  <1>2. sysctls_pending' \subseteq Scopes
    BY Scoped DEF Start
  <1>3. TypeInv'
    BY <1>1, <1>2 DEF Start, TypeInv, TypeOK, ModeInv, historyVars, Scopes
  <1> QED
    BY <1>1, <1>3, Constants, SMTT(60) DEF Start, ModeInv, Idle

\* The beginning of a cleanup keeps the types.
LEMMA StartCleanupTypes ==
    ASSUME TypeInv, ModeInv, StartCleanup
    PROVE  TypeInv' /\ ModeInv'
  <1>1. lane' \in Manifests
    BY Empty DEF StartCleanup, TypeInv, TypeOK
  <1>2. Recorded(disk) \subseteq Keys
    BY ManifestType DEF Recorded, TypeInv, TypeOK
  <1>3. running' \in Restorations /\ running'.kind = "cleanup"
    BY <1>2 DEF StartCleanup, Restorations
  <1>4. TypeInv'
    BY <1>1, <1>3 DEF StartCleanup, TypeInv, TypeOK, daemonVars, historyVars
  <1> QED
    BY <1>3, <1>4 DEF StartCleanup, ModeInv, daemonVars

\* A key that a cleanup restores keeps the types.
LEMMA RestoreKeyTypes ==
    ASSUME TypeInv, ModeInv, BaseInv, NEW k \in Keys, RestoreKey(k)
    PROVE  TypeInv' /\ ModeInv'
  <1>1. running \in Restorations /\ k \in DOMAIN lane /\ running.kind = "cleanup"
    BY SMTT(60) DEF RestoreKey, ModeInv, TypeInv, Idle, SysctlJobs, BaseInv
  <1>2. running' \in Restorations /\ running'.kind = "cleanup"
    <2>1. \/ running' = [running EXCEPT !.todo = running.todo \ {k}]
          \/ running' = [running EXCEPT !.todo = running.todo \ {k}, !.ok = FALSE]
      BY DEF RestoreKey
    <2>2. running.kind = "cleanup"
      BY <1>1 DEF RestoreKey
    <2>3. CASE running' = [running EXCEPT !.todo = running.todo \ {k}]
      BY <1>1, <2>2, <2>3, LessToDo
    <2>4. CASE running' = [running EXCEPT !.todo = running.todo \ {k}, !.ok = FALSE]
      BY <1>1, <2>2, <2>4, LessToDo
    <2> QED
      BY <2>1, <2>3, <2>4
  <1>3. lane \in Manifests
    BY DEF TypeInv, TypeOK
  <1>4. Restore(k, lane) \/ UNCHANGED <<value, hold, before>>
    BY DEF RestoreKey
  <1>5. /\ value' \in [Keys -> Foreign \cup {Wanted, Absent}]
        /\ hold' \in [Keys -> {"never", "ours", "lost"}]
        /\ before' \in [Keys -> SUBSET (Foreign \cup {Wanted, Absent})]
    BY <1>1, <1>3, <1>4, RestoreType DEF TypeInv, TypeOK
  <1>6. UNCHANGED <<artifacts, links, disk, lane, queue, done, mode, daemonVars, touched>>
        /\ mode = "cleanup"
    BY DEF RestoreKey
  <1>7. TypeInv'
    BY <1>2, <1>5, <1>6 DEF TypeInv, TypeOK, daemonVars
  <1> QED
    BY <1>2, <1>6, <1>7 DEF ModeInv, daemonVars

\* Changes by others keep the types.
LEMMA EnvironmentTypes ==
    ASSUME TypeInv, ModeInv, NEW v \in [Keys -> Foreign \cup {Wanted, Absent}], Outside(v),
           links' \subseteq Interfaces
    PROVE  TypeInv' /\ ModeInv'
  <1>1. UNCHANGED <<artifacts, laneVars, mode, daemonVars>>
    BY DEF Outside
  <1>2. TypeInv'
    BY <1>1, OutsideType DEF TypeInv, TypeOK, laneVars, daemonVars
  <1> QED
    BY <1>1, <1>2 DEF ModeInv, laneVars, daemonVars

\* What an administrator writes is a value of a key.
LEMMA AdminValues ==
    ASSUME TypeInv, NEW k \in Keys, NEW v \in Foreign \cup {Wanted}
    PROVE  [value EXCEPT ![k] = v] \in [Keys -> Foreign \cup {Wanted, Absent}]
  BY DEF TypeInv, TypeOK

\* An interface that comes or goes leaves values of keys.
LEMMA LinkValues ==
    ASSUME TypeInv, NEW i \in Interfaces
    PROVE  [k \in Keys |-> IF k.scope # i THEN value[k]
                           ELSE IF value[k] = Absent THEN Default ELSE Absent]
             \in [Keys -> Foreign \cup {Wanted, Absent}]
  BY Constants DEF TypeInv, TypeOK

-----------------------------------------------------------------------------
(* The baselines. *)

\* A manifest that exists records its domain.
LEMMA RecordedRun ==
    ASSUME disk # NoManifest
    PROVE  Recorded(disk) = DOMAIN disk
  BY DEF Recorded

\* A job that the lane takes keeps the baselines: the manifest is on disk
\* before the first value is written.
LEMMA PersistBase ==
    ASSUME TypeInv, ModeInv, BaseInv, persist_lane
    PROVE  BaseInv'
  <1> DEFINE job == Head(queue)
  <1>1. job \in Jobs
    BY Popped DEF persist_lane, TypeInv
  <1>2. running = Idle /\ mode = "run" /\ mode' = "run" /\ disk # NoManifest
    BY DEF persist_lane, ModeInv
  <1>3. lane \in Manifests /\ Recorded(disk) = DOMAIN disk
    BY <1>2, RecordedRun DEF TypeInv, TypeOK
  <1>4. NoManifest \notin Manifests
    BY Constants
  <1> HIDE DEF job
  <1>5. CASE job.kind = "sysctls" /\ StartSysctls(job)
    <2> DEFINE diffs == differences(job.settings)
               recorded == record(lane, diffs)
    <2>1. job \in SysctlJobs
      BY <1>1, <1>5 DEF Jobs, BindJobs, HandBackJobs
    <2>2. job.settings \in SUBSET Keys
      BY <2>1 DEF SysctlJobs
    <2>3. /\ diffs \subseteq job.settings
          /\ recorded \in Manifests
          /\ DOMAIN recorded = DOMAIN lane \cup diffs
          /\ \A k \in DOMAIN lane : recorded[k] = lane[k]
          /\ \A k \in diffs \ DOMAIN lane : recorded[k] = value[k]
      BY <2>2, Records
    <2> HIDE DEF diffs, recorded
    <2>4. /\ NothingToWrite(job) \/ BeginsToWrite(job) \/ CannotBegin(job)
          /\ value' = value /\ hold' = hold /\ before' = before
      <3>1. StartSysctls(job)
        BY <1>5
      <3>2. NothingToWrite(job) \/ BeginsToWrite(job) \/ CannotBegin(job)
        BY <3>1, StartOutcomes
      <3>3. value' = value /\ hold' = hold /\ before' = before
        BY <3>1, StartOutcomes
      <3> QED
        BY <3>2, <3>3
    <2>5. \A k \in DOMAIN recorded : recorded[k] \in before[k]
      <3>1. DOMAIN lane \subseteq Keys
        BY <1>3, ManifestType
      <3>2. \A k \in DOMAIN lane : recorded[k] \in before[k]
        BY <1>2, <1>3, <2>3, <3>1 DEF BaseInv
      <3>3. \A k \in diffs \ DOMAIN lane : hold[k] = "never" /\ value[k] \in before[k]
        BY <1>2, <2>2, <2>3 DEF BaseInv
      <3> QED
        BY <2>3, <3>2, <3>3
    <2>6. \A k \in Keys : hold[k] # "never" => k \in DOMAIN recorded
      BY <1>2, <2>3 DEF BaseInv
    <2>7. recorded # NoManifest
      BY <1>4, <2>3
    <2>8. Recorded(recorded) = DOMAIN recorded
      BY <2>7 DEF Recorded
    <2>9. CASE NothingToWrite(job)
      BY <1>2, <2>4, <2>9 DEF BaseInv, NothingToWrite, Idle, SysctlsReport, Report
    <2>10. CASE BeginsToWrite(job)
      <3>1. lane' = recorded /\ disk' = (IF recorded = lane THEN disk ELSE recorded)
        BY <2>10 DEF BeginsToWrite, recorded, diffs
      <3>2. running'.kind = "sysctls" /\ running'.settings = diffs
        BY <2>1, <2>10 DEF BeginsToWrite, diffs, SysctlJobs
      <3>3. \A k \in DOMAIN recorded : k \in DOMAIN disk' /\ disk'[k] = recorded[k]
        BY <1>2, <3>1 DEF BaseInv
      <3>4. Recorded(disk') = DOMAIN disk'
        BY <1>3, <2>8, <3>1
      <3>5. \A k \in Recorded(disk') : disk'[k] \in before[k]
        <4>1. CASE recorded = lane
          <5>1. disk' = disk
            BY <3>1, <4>1
          <5>2. \A k \in Recorded(disk) : k \in Keys
            BY <1>2, <1>3, ManifestType DEF TypeInv, TypeOK
          <5> QED
            BY <5>1, <5>2 DEF BaseInv
        <4>2. CASE recorded # lane
          BY <2>5, <2>8, <3>1, <4>2
        <4> QED
          BY <4>1, <4>2
      <3> QED
        BY <1>2, <2>3, <2>4, <2>6, <3>1, <3>2, <3>3, <3>4, <3>5 DEF BaseInv
    <2>11. CASE CannotBegin(job)
      <3>1. disk' \in {disk, recorded} /\ lane' = lane /\ running' = running
        BY <2>11 DEF CannotBegin, recorded, diffs, SysctlsReport, Report
      <3>2. CASE disk' = disk
        BY <1>2, <2>4, <3>1, <3>2 DEF BaseInv, Idle
      <3>3. CASE disk' = recorded
        <4>1. Recorded(disk') = DOMAIN recorded
          BY <2>8, <3>3
        <4> QED
          BY <1>2, <2>3, <2>4, <2>5, <2>6, <3>1, <3>3, <4>1 DEF BaseInv, Idle
      <3> QED
        BY <3>1, <3>2, <3>3
    <2> QED
      BY <2>4, <2>9, <2>10, <2>11
  <1>6. CASE job.kind = "bind" /\ RunBind(job)
    <2>1. disk' \in {disk, lane} /\ lane' = lane /\ running' = running
          /\ UNCHANGED <<value, hold, before>>
      BY <1>6 DEF RunBind, WriteManifest, historyVars
    <2>2. Recorded(lane) = DOMAIN lane
      BY <1>3, <1>4 DEF Recorded
    <2>3. CASE disk' = disk
      BY <1>2, <2>1, <2>3 DEF BaseInv, Idle
    <2>4. CASE disk' = lane
      <3>1. Recorded(disk') = DOMAIN lane
        BY <2>2, <2>4
      <3> QED
        BY <1>2, <1>3, <2>1, <2>4, <3>1 DEF BaseInv, Idle
    <2> QED
      BY <2>1, <2>3, <2>4
  <1>7. CASE job.kind = "handback" /\ StartHandBack(job)
    BY <1>2, <1>7 DEF StartHandBack, BaseInv, historyVars
  <1> QED
    BY <1>5, <1>6, <1>7 DEF persist_lane, job

\* A value written is of a recorded key.
LEMMA WriteValueBase ==
    ASSUME TypeInv, ModeInv, BaseInv, NEW k \in Keys, WriteValue(k)
    PROVE  BaseInv'
  <1>1. mode = "run" /\ running.kind = "sysctls" /\ k \in running.settings
        /\ UNCHANGED <<disk, lane, mode, before>>
    BY DEF WriteValue
  <1>2. running \in SysctlJobs /\ disk # NoManifest
    BY <1>1, SMTT(60) DEF TypeInv, ModeInv, Idle, Restorations
  <1>3. CASE /\ value' = [value EXCEPT ![k] = Wanted]
             /\ hold' = [hold EXCEPT ![k] = "ours"]
             /\ running' = [running EXCEPT !.settings = running.settings \ {k}]
    <2>1. running'.kind = "sysctls" /\ running'.settings = running.settings \ {k}
      BY <1>2, <1>3, <1>1 DEF SysctlJobs
    <2>2. k \in DOMAIN lane /\ k \in Recorded(disk)
      BY <1>1, <1>2, RecordedRun DEF BaseInv
    <2>3. \A x \in Keys : x # k => value'[x] = value[x] /\ hold'[x] = hold[x]
      BY <1>3 DEF TypeInv, TypeOK
    <2>4. hold'[k] = "ours"
      BY <1>3 DEF TypeInv, TypeOK
    <2> QED
      BY <1>1, <2>1, <2>2, <2>3, <2>4 DEF BaseInv
  <1>4. CASE UNCHANGED <<value, hold>> /\ running' = Idle
    BY <1>1, <1>4 DEF BaseInv, Idle
  <1> QED
    BY <1>3, <1>4 DEF WriteValue

\* A key handed back has its baseline again, or a value of somebody else's,
\* before it is forgotten.
LEMMA HandBackKeyBase ==
    ASSUME TypeInv, ModeInv, BaseInv, NEW k \in Keys, HandBackKey(k)
    PROVE  BaseInv'
  <1>1. mode = "run" /\ running.kind = "handback" /\ k \in running.todo
        /\ UNCHANGED <<disk, mode>>
    BY DEF HandBackKey
  <1>2. running \in Restorations /\ lane \in Manifests
    BY <1>1, SMTT(60) DEF TypeInv, TypeOK, Idle, SysctlJobs
  <1>3. running'.kind = "handback" /\ running'.todo = running.todo \ {k}
    <2>1. \/ running' = [running EXCEPT !.todo = running.todo \ {k}]
          \/ running' = [running EXCEPT !.todo = running.todo \ {k}, !.ok = FALSE]
      BY DEF HandBackKey
    <2>2. CASE running' = [running EXCEPT !.todo = running.todo \ {k}]
      BY <1>1, <1>2, <2>2, LessToDo
    <2>3. CASE running' = [running EXCEPT !.todo = running.todo \ {k}, !.ok = FALSE]
      BY <1>1, <1>2, <2>3, LessToDo
    <2> QED
      BY <2>1, <2>2, <2>3
  <1>4. CASE Restore(k, lane) /\ lane' = forgotten(lane, k)
    <2>1. DOMAIN lane' = DOMAIN lane \ {k} /\ \A x \in DOMAIN lane \ {k} : lane'[x] = lane[x]
      BY <1>2, <1>4, Forgets
    <2>2. /\ hold'[k] = "never" /\ value'[k] \in before'[k]
          /\ before[k] \subseteq before'[k]
          /\ \A x \in Keys \ {k} : value'[x] = value[x] /\ hold'[x] = hold[x]
                                   /\ before'[x] = before[x]
      BY <1>4, Restoring
    <2> QED
      BY <1>1, <1>3, <2>1, <2>2 DEF BaseInv
  <1>5. CASE UNCHANGED <<value, hold, before, lane>>
    BY <1>1, <1>3, <1>5 DEF BaseInv
  <1> QED
    BY <1>4, <1>5 DEF HandBackKey

\* A cleanup forgets nothing before its end.
LEMMA RestoreKeyBase ==
    ASSUME TypeInv, ModeInv, BaseInv, NEW k \in Keys, RestoreKey(k)
    PROVE  BaseInv'
  <1>1. mode = "cleanup" /\ k \in running.todo /\ running.kind = "cleanup"
        /\ UNCHANGED <<disk, lane, mode>>
    BY DEF RestoreKey, ModeInv
  <1>2. running \in Restorations
    BY <1>1, SMTT(60) DEF TypeInv, Idle, SysctlJobs
  <1>3. CASE Restore(k, lane) /\ running' = [running EXCEPT !.todo = running.todo \ {k}]
    <2>1. running'.todo = running.todo \ {k} /\ running'.ok = running.ok
      BY <1>2, <1>3, LessToDo
    <2>2. /\ hold'[k] = "never" /\ value'[k] \in before'[k]
          /\ before[k] \subseteq before'[k]
          /\ \A x \in Keys \ {k} : value'[x] = value[x] /\ hold'[x] = hold[x]
                                   /\ before'[x] = before[x]
      BY <1>3, Restoring
    <2> QED
      BY <1>1, <2>1, <2>2 DEF BaseInv
  <1>4. CASE /\ UNCHANGED <<value, hold, before>>
             /\ running' = [running EXCEPT !.todo = running.todo \ {k}, !.ok = FALSE]
    <2>1. running'.todo = running.todo \ {k} /\ running'.ok = FALSE
      BY <1>2, <1>4, LessToDo
    <2> QED
      BY <1>1, <1>4, <2>1 DEF BaseInv
  <1> QED
    BY <1>3, <1>4 DEF RestoreKey

\* The manifest without the released keys may or may not reach the disk.
LEMMA EndHandBackBase ==
    ASSUME TypeInv, ModeInv, BaseInv, EndHandBack
    PROVE  BaseInv'
  <1>1. mode = "run" /\ running' = Idle /\ UNCHANGED <<value, lane, mode, hold, before>>
    BY DEF EndHandBack, historyVars
  <1>2. disk' \in {disk, lane}
    BY DEF EndHandBack, WriteManifest
  <1>3. disk # NoManifest /\ lane # NoManifest
    BY <1>1, Constants DEF ModeInv, TypeInv, TypeOK
  <1>4. CASE disk' = disk
    BY <1>1, <1>4 DEF BaseInv, Idle
  <1>5. CASE disk' = lane
    <2>1. Recorded(disk') = DOMAIN lane /\ Recorded(disk) = DOMAIN disk
      BY <1>3, <1>5 DEF Recorded
    <2> QED
      BY <1>1, <1>5, <2>1 DEF BaseInv, Idle
  <1> QED
    BY <1>2, <1>4, <1>5

\* A start reads the manifest that is on disk.
LEMMA StartBase ==
    ASSUME TypeInv, ModeInv, BaseInv, NEW c \in Files, Start(c)
    PROVE  BaseInv'
  <1>1. mode' = "run" /\ running' = Idle /\ lane' = disk'
        /\ UNCHANGED <<value, hold, before>>
    BY DEF Start, ModeInv, historyVars
  <1>2. CASE disk = NoManifest
    <2>1. disk' = << >>
      BY <1>2 DEF Start
    <2>2. DOMAIN disk' = {} /\ Recorded(disk') = {} /\ Recorded(disk) = {}
      BY <1>2, <2>1, Empty, Constants DEF Recorded
    <2> QED
      BY <1>1, <2>2 DEF BaseInv, Idle
  <1>3. CASE disk # NoManifest
    <2>1. disk' = disk /\ Recorded(disk) = DOMAIN disk
      BY <1>3 DEF Start, Recorded
    <2> QED
      BY <1>1, <2>1 DEF BaseInv, Idle
  <1> QED
    BY <1>2, <1>3

\* A cleanup has every recorded key to restore.
LEMMA StartCleanupBase ==
    ASSUME TypeInv, ModeInv, BaseInv, StartCleanup
    PROVE  BaseInv'
  <1>1. mode' = "cleanup" /\ UNCHANGED <<disk, value, hold, before>>
    BY DEF StartCleanup, historyVars
  <1>2. running'.todo = Recorded(disk)
    BY DEF StartCleanup
  <1>3. DOMAIN lane' = Recorded(disk)
    BY Empty DEF StartCleanup, Recorded
  <1> QED
    BY <1>1, <1>2, <1>3 DEF BaseInv

\* A stop leaves the manifest on disk.
LEMMA StoppedBase ==
    ASSUME BaseInv, mode' = "down", UNCHANGED <<value, hold, before>>,
           \/ disk' = disk
           \/ disk' = NoManifest /\ \A k \in Keys : hold[k] = "never"
    PROVE  BaseInv'
  <1>1. CASE disk' = disk
    BY <1>1 DEF BaseInv
  <1>2. CASE disk' = NoManifest /\ \A k \in Keys : hold[k] = "never"
    BY <1>2 DEF BaseInv, Recorded
  <1> QED
    BY <1>1, <1>2

\* Changes by others do not touch the manifest.
LEMMA OutsideBase ==
    ASSUME TypeInv, BaseInv, NEW v \in [Keys -> Foreign \cup {Wanted, Absent}], Outside(v)
    PROVE  BaseInv'
  <1>1. UNCHANGED <<disk, lane, running, mode>>
    BY DEF Outside, laneVars
  <1>2. \A k \in Keys :
          /\ hold'[k] = "never" <=> hold[k] = "never"
          /\ before[k] \subseteq before'[k]
          /\ value'[k] = value[k] \/ hold[k] # "never" \/ value'[k] \in before'[k]
    BY DEF Outside, TypeInv, TypeOK
  <1> QED
    BY <1>1, <1>2 DEF BaseInv

\* StateInv holds at the beginning.
LEMMA InitState ==
    ASSUME Init
    PROVE  StateInv
  <1>1. \A S : << >> \in Seq(S) /\ DOMAIN << >> = {} /\ << >> \in [{} -> S] /\ << >> \in Manifests
    BY Empty
  <1>2. value \in [Keys -> Foreign \cup {Wanted, Absent}]
    BY Constants DEF Init
  <1>3. /\ hold \in [Keys -> {"never", "ours", "lost"}]
        /\ before \in [Keys -> SUBSET (Foreign \cup {Wanted, Absent})]
    BY <1>2 DEF Init
  <1>4. TypeInv
    BY <1>1, <1>2, <1>3 DEF Init, TypeInv, TypeOK
  <1>5. ModeInv
    BY <1>1 DEF Init, ModeInv
  <1>6. BaseInv
    <2>1. \A k \in Keys : hold[k] = "never" /\ value[k] \in before[k]
      BY DEF Init
    <2>2. mode = "down" /\ Recorded(disk) = {}
      BY DEF Init, Recorded
    <2> QED
      BY <2>1, <2>2 DEF BaseInv
  <1> QED
    BY <1>4, <1>5, <1>6 DEF StateInv

\* A step of the State task leaves what BaseInv speaks of alone.
LEMMA DaemonKeepsBase ==
    ASSUME BaseInv, UNCHANGED <<value, hold, before, disk, lane, running, mode>>
    PROVE  BaseInv'
  BY DEF BaseInv

\* The State task's steps leave the kernel's values, the lane's manifest and
\* the disk alone.
LEMMA DaemonLeaves ==
    ASSUME \/ step \/ Awake \/ completion
           \/ \E i \in Interfaces : notification(i)
           \/ \E c \in Files : start_reload(c)
    PROVE  UNCHANGED <<value, hold, before, disk, lane, running, mode>>
  <1>1. CASE step
    BY <1>1 DEF step, historyVars
  <1>2. CASE Awake
    BY <1>2 DEF Awake, historyVars, laneVars
  <1>3. CASE completion
    BY <1>3 DEF completion, historyVars
  <1>4. CASE \E i \in Interfaces : notification(i)
    BY <1>4 DEF notification, historyVars, laneVars
  <1>5. CASE \E c \in Files : start_reload(c)
    BY <1>5 DEF start_reload, historyVars
  <1> QED
    BY <1>1, <1>2, <1>3, <1>4, <1>5

\* Every step keeps StateInv.
LEMMA StateStep ==
    ASSUME StateInv, [Next]_vars
    PROVE  StateInv'
  <1> USE DEF StateInv
  <1>1. CASE step
    BY <1>1, StepTypes, DaemonLeaves, DaemonKeepsBase
  <1>2. CASE retry_due
    <2>1. Awake /\ backoff' \subseteq backoff /\ retry' \in {retry, "none"}
      BY <1>2 DEF retry_due
    <2> QED
      BY <2>1, AwakeTypes, DaemonLeaves, DaemonKeepsBase
  <1>3. CASE full_reconciliation
    <2>1. Awake /\ backoff' \subseteq backoff /\ retry' \in {retry, "none"}
      BY <1>3 DEF full_reconciliation
    <2> QED
      BY <2>1, AwakeTypes, DaemonLeaves, DaemonKeepsBase
  <1>4. CASE completion
    BY <1>4, CompletionTypes, DaemonLeaves, DaemonKeepsBase
  <1>5. ASSUME NEW i \in Interfaces, interface_retry(i)
        PROVE  StateInv'
    <2>1. Awake /\ backoff' \subseteq backoff /\ retry' \in {retry, "none"}
      BY <1>5 DEF interface_retry
    <2> QED
      BY <2>1, AwakeTypes, DaemonLeaves, DaemonKeepsBase
  <1>6. ASSUME NEW i \in Interfaces, notification(i)
        PROVE  StateInv'
    BY <1>6, NotificationTypes, DaemonLeaves, DaemonKeepsBase
  <1>7. ASSUME NEW c \in Files, start_reload(c)
        PROVE  StateInv'
    BY <1>7, ReloadTypes, DaemonLeaves, DaemonKeepsBase
  <1>8. CASE persist_lane
    BY <1>8, PersistTypes, PersistBase
  <1>9. ASSUME NEW k \in Keys, WriteValue(k)
        PROVE  StateInv'
    BY <1>9, WriteValueTypes, WriteValueBase
  <1>10. CASE EndSysctls
    <2>1. mode = "run" /\ running' = Idle
          /\ UNCHANGED <<value, hold, before, disk, lane, mode>>
      BY <1>10 DEF EndSysctls, historyVars
    <2>2. BaseInv'
      BY <2>1 DEF BaseInv, Idle
    <2> QED
      BY <1>10, <2>2, EndSysctlsTypes
  <1>11. ASSUME NEW k \in Keys, HandBackKey(k)
         PROVE  StateInv'
    BY <1>11, HandBackKeyTypes, HandBackKeyBase
  <1>12. CASE EndHandBack
    BY <1>12, EndHandBackTypes, EndHandBackBase
  <1>13. CASE Crash
    <2>1. Stopped /\ disk' = disk /\ UNCHANGED <<value, artifacts, links, cfg, historyVars>>
      BY <1>13 DEF Crash
    <2>2. disk' \in Manifests \cup {NoManifest}
      BY <2>1 DEF TypeInv, TypeOK
    <2>3. TypeInv' /\ ModeInv'
      BY <2>1, <2>2, StoppedTypes
    <2>4. mode' = "down" /\ UNCHANGED <<value, hold, before>>
      BY <2>1 DEF Stopped, historyVars
    <2>5. BaseInv'
      BY <2>1, <2>4, StoppedBase
    <2> QED
      BY <2>3, <2>5
  <1>14. ASSUME NEW c \in Files, Start(c)
         PROVE  StateInv'
    BY <1>14, StartTypes, StartBase
  <1>15. CASE StartCleanup
    BY <1>15, StartCleanupTypes, StartCleanupBase
  <1>16. ASSUME NEW k \in Keys, RestoreKey(k)
         PROVE  StateInv'
    BY <1>16, RestoreKeyTypes, RestoreKeyBase
  <1>17. CASE EndCleanup
    <2>1. Stopped /\ UNCHANGED <<value, artifacts, links, cfg, historyVars>>
          /\ mode = "cleanup" /\ running.todo = {}
      BY <1>17 DEF EndCleanup
    <2>2. \/ disk' = disk
          \/ disk' = NoManifest /\ running.ok
      BY <1>17 DEF EndCleanup
    <2>3. disk' \in Manifests \cup {NoManifest}
      BY <2>2 DEF TypeInv, TypeOK
    <2>4. TypeInv' /\ ModeInv'
      BY <2>1, <2>3, StoppedTypes
    <2>5. mode' = "down" /\ UNCHANGED <<value, hold, before>>
      BY <2>1 DEF Stopped, historyVars
    <2>6. running.ok => \A k \in Keys : hold[k] = "never"
      BY <2>1 DEF BaseInv
    <2>7. BaseInv'
      BY <2>2, <2>5, <2>6, StoppedBase
    <2> QED
      BY <2>4, <2>7
  <1>18. ASSUME NEW k \in Keys, NEW v \in Foreign \cup {Wanted}, Admin(k, v)
         PROVE  StateInv'
    <2>1. Outside([value EXCEPT ![k] = v]) /\ links' = links
      BY <1>18 DEF Admin
    <2>2. links' \subseteq Interfaces
      BY <2>1 DEF TypeInv, TypeOK
    <2> QED
      BY <2>1, <2>2, AdminValues, EnvironmentTypes, OutsideBase
  <1>19. ASSUME NEW i \in Interfaces, Link(i)
         PROVE  StateInv'
    <2>1. Outside([k \in Keys |-> IF k.scope # i THEN value[k]
                                  ELSE IF value[k] = Absent THEN Default ELSE Absent])
      BY <1>19 DEF Link
    <2>2. links' \subseteq Interfaces
      BY <1>19 DEF Link, TypeInv, TypeOK
    <2> QED
      BY <2>1, <2>2, LinkValues, EnvironmentTypes, OutsideBase
  <1>20. CASE UNCHANGED vars
    <2>1. UNCHANGED <<value, hold, before, disk, lane, running, mode>>
      BY <1>20 DEF vars, laneVars, daemonVars, historyVars
    <2>2. TypeInv'
      BY <1>20 DEF vars, laneVars, daemonVars, historyVars, TypeInv, TypeOK
    <2>3. ModeInv'
      BY <1>20 DEF vars, laneVars, daemonVars, historyVars, ModeInv
    <2> QED
      BY <2>1, <2>2, <2>3, DaemonKeepsBase
  <1> QED
    BY <1>1, <1>2, <1>3, <1>4, <1>5, <1>6, <1>7, <1>8, <1>9, <1>10, <1>11, <1>12,
       <1>13, <1>14, <1>15, <1>16, <1>17, <1>18, <1>19, <1>20, Zenon DEF Next, LaneNext

\* StateInv is an invariant.
LEMMA StateAlways == Spec => []StateInv
  <1>1. Init => StateInv
    BY InitState
  <1>2. StateInv /\ [Next]_vars => StateInv'
    BY StateStep
  <1> QED
    BY <1>1, <1>2, PTL DEF Spec

\* The variables have their types: a manifest never records the wanted value or
\* a missing key, and what is in flight or backs off is pending.
THEOREM TypeCorrect == Spec => []TypeOK
  <1>1. StateInv => TypeOK
    BY DEF StateInv, TypeInv
  <1> QED
    BY <1>1, StateAlways, PTL

\* Whatever fails, crashes or is changed by others, and however often, a
\* setting that PolyWAN changed and did not release is in the manifest on disk,
\* with a value it had before (apply_sysctls writes the manifest first).
THEOREM RestorableAlways == Spec => []Restorable
  <1>1. StateInv => Restorable
    BY DEF StateInv, BaseInv, Restorable
  <1> QED
    BY <1>1, StateAlways, PTL

\* Every step keeps the inductive invariant.
LEMMA LaneStep ==
    ASSUME IInv, [Next]_vars
    PROVE  IInv'
  <1>1. StateInv /\ LaneInv
    BY DEF IInv
  <1>2. StateInv'
    BY <1>1, StateStep
  <1>3. TypeInv' /\ ModeInv'
    BY <1>2 DEF StateInv
  <1> SUFFICES LaneInv'
    BY <1>2 DEF IInv
  <1>4. CASE step
    BY <1>1, <1>4, StepLane
  <1>5. ASSUME Awake, backoff' \subseteq backoff, retry' \in {retry, "none"}
        PROVE  LaneInv'
    BY <1>1, <1>5, AwakeLane
  <1>6. CASE retry_due
    BY <1>5, <1>6 DEF retry_due
  <1>7. CASE full_reconciliation
    BY <1>5, <1>7 DEF full_reconciliation
  <1>8. CASE completion
    BY <1>1, <1>8, CompletionLane
  <1>9. ASSUME NEW i \in Interfaces, interface_retry(i)
        PROVE  LaneInv'
    BY <1>5, <1>9 DEF interface_retry
  <1>10. ASSUME NEW i \in Interfaces, notification(i)
         PROVE  LaneInv'
    BY <1>1, <1>10, NotificationLane
  <1>11. ASSUME NEW c \in Files, start_reload(c)
         PROVE  LaneInv'
    BY <1>1, <1>11, ReloadLane
  <1>12. CASE LaneNext
    <2>1. CASE persist_lane
      BY <1>1, <2>1, PersistLane
    <2>2. ASSUME NEW k \in Keys, WriteValue(k)
          PROVE  LaneInv'
      BY <1>1, <2>2, WriteValueLane
    <2>3. CASE EndSysctls
      BY <1>1, <2>3, EndSysctlsLane
    <2>4. ASSUME NEW k \in Keys, HandBackKey(k)
          PROVE  LaneInv'
      BY <1>1, <2>4, HandBackKeyLane
    <2>5. CASE EndHandBack
      BY <1>1, <2>5, EndHandBackLane
    <2> QED
      BY <1>12, <2>1, <2>2, <2>3, <2>4, <2>5 DEF LaneNext
  <1>13. GlobalInv
    BY <1>1 DEF LaneInv
  <1>14. CASE Crash
    <2>1. mode' # "run" /\ value' = value
      BY <1>14 DEF Crash, Stopped
    <2>2. GlobalInv'
      BY <1>13, <2>1 DEF GlobalInv
    <2> QED
      BY <1>3, <2>1, <2>2, DownLane
  <1>15. ASSUME NEW c \in Files, Start(c)
         PROVE  LaneInv'
    BY <1>1, <1>15, StartLane
  <1>16. CASE StartCleanup
    <2>1. mode' # "run" /\ value' = value
      BY <1>16 DEF StartCleanup
    <2>2. GlobalInv'
      BY <1>13, <2>1 DEF GlobalInv
    <2> QED
      BY <1>3, <2>1, <2>2, DownLane
  <1>17. ASSUME NEW k \in Keys, RestoreKey(k)
         PROVE  LaneInv'
    <2>1. mode = "cleanup" /\ mode' # "run" /\ k \in running.todo
      BY <1>17 DEF RestoreKey
    <2>2. k \in DOMAIN lane
      BY <1>1, <2>1 DEF StateInv, BaseInv
    <2>3. CASE Restore(k, lane)
      <3>1. GlobalInv'
        BY <1>1, <1>13, <2>2, <2>3, RestoreGlobal DEF StateInv
      <3> QED
        BY <1>3, <2>1, <3>1, DownLane
    <2>4. CASE value' = value
      <3>1. GlobalInv'
        BY <1>13, <2>4 DEF GlobalInv
      <3> QED
        BY <1>3, <2>1, <3>1, DownLane
    <2> QED
      BY <1>17, <2>3, <2>4 DEF RestoreKey
  <1>18. CASE EndCleanup
    <2>1. mode' # "run" /\ value' = value
      BY <1>18 DEF EndCleanup, Stopped
    <2>2. GlobalInv'
      BY <1>13, <2>1 DEF GlobalInv
    <2> QED
      BY <1>3, <2>1, <2>2, DownLane
  <1>19. value \in [Keys -> Foreign \cup {Wanted, Absent}]
    BY <1>1 DEF StateInv, TypeInv, TypeOK
  <1>20. ASSUME NEW k \in Keys, NEW v \in Foreign \cup {Wanted}, Admin(k, v)
         PROVE  LaneInv'
    <2> DEFINE w == [value EXCEPT ![k] = v]
    <2>1. Outside(w)
      BY <1>20 DEF Admin
    <2>2. w \in [Keys -> Foreign \cup {Wanted, Absent}]
      BY <1>19
    <2>3. v # Absent
      BY Constants
    <2>4. \A l \in Keys : l.scope = Global => w[l] # Absent
      BY <1>13, <1>19, <2>3 DEF GlobalInv
    <2> HIDE DEF w
    <2> QED
      BY <1>1, <2>1, <2>2, <2>4, OutsideLane
  <1>21. ASSUME NEW i \in Interfaces, Link(i)
         PROVE  LaneInv'
    <2> DEFINE w == [k \in Keys |-> IF k.scope # i THEN value[k]
                                    ELSE IF value[k] = Absent THEN Default ELSE Absent]
    <2>1. Outside(w)
      BY <1>21 DEF Link
    <2>2. w \in [Keys -> Foreign \cup {Wanted, Absent}]
      BY <1>19, Constants
    <2>3. \A l \in Keys : l.scope = Global => w[l] # Absent
      BY <1>13, <1>19, Constants DEF GlobalInv
    <2> HIDE DEF w
    <2> QED
      BY <1>1, <2>1, <2>2, <2>3, OutsideLane
  <1>22. CASE UNCHANGED vars
    BY <1>1, <1>22, StutterLane
  <1> QED
    BY <1>4, <1>6, <1>7, <1>8, <1>9, <1>10, <1>11, <1>12, <1>14, <1>15, <1>16, <1>17,
       <1>18, <1>20, <1>21, <1>22, Zenon DEF Next

\* The inductive invariant holds always.
LEMMA LaneAlways == Spec => []IInv
  <1>1. Init => IInv
    BY InitState, InitLane DEF IInv
  <1>2. IInv /\ [Next]_vars => IInv'
    BY LaneStep
  <1> QED
    BY <1>1, <1>2, PTL DEF Spec

\* What the daemon counts as applied is in place (sysctls_done takes only the
\* report of the job in flight, and a job reports success only when every value
\* was written), whatever reloads, failures and new incarnations came before.
THEOREM AppliedIsInPlaceAlways == Spec => []AppliedIsInPlace
  <1>1. IInv => AppliedIsInPlace
    <2> SUFFICES ASSUME IInv, mode = "run", cfg.manage, NEW k \in desired(cfg),
                        ~sysctls_unapplied(k.scope, {k.family})
                 PROVE  value[k] \in {Wanted, Absent} \/ k \in touched
      BY DEF AppliedIsInPlace
    <2> DEFINE s == k.scope
               A == sysctls_applied
    <2>1. k \in wanted_of(cfg, s) /\ s \in sysctl_scopes(cfg) /\ k.family \in cfg.families
      BY DEF wanted_of, sysctl_scopes, desired
    <2>2. AppliedInv
      BY DEF IInv, LaneInv
    <2>3. s \in DOMAIN A /\ A[s].manage /\ k \in A[s].settings
      <3>1. CASE s \notin sysctls_pending
        <4>1. s \in DOMAIN A /\ A[s].settings = wanted_of(cfg, s) /\ A[s].manage = cfg.manage
          BY <2>1, <2>2, <3>1 DEF AppliedInv
        <4> QED
          BY <2>1, <4>1
      <3>2. CASE s \in sysctls_pending
        <4>1. s \in DOMAIN A /\ A[s].manage
              /\ {x \in wanted_of(cfg, s) : x.family \in {k.family}} \subseteq A[s].settings
          BY <3>2 DEF sysctls_unapplied
        <4> QED
          BY <2>1, <4>1
      <3> QED
        BY <3>1, <3>2
    <2>4. InPlace(value, touched, k)
      BY <2>1, <2>2, <2>3 DEF AppliedInv
    <2> QED
      BY <2>4 DEF InPlace
  <1> QED
    BY <1>1, LaneAlways, PTL

\* Only a pass installs rules and routes, and only a few actions change who holds
\* a key.
LEMMA Effects ==
    ASSUME [Next]_vars
    PROVE  \/ step /\ hold' = hold
           \/ artifacts' \in {artifacts, {}} /\ hold' = hold
           \/ artifacts' = artifacts /\ \E k \in Keys : WriteValue(k)
           \/ artifacts' = artifacts /\ \E k \in Keys : HandBackKey(k)
           \/ artifacts' = artifacts /\ \E k \in Keys : RestoreKey(k)
           \/ artifacts' = artifacts /\ \E v : Outside(v)
  <1>1. step => hold' = hold
    BY DEF step, historyVars
  <1>2. ASSUME retry_due
        PROVE  artifacts' \in {artifacts, {}} /\ hold' = hold
    BY <1>2 DEF retry_due, Awake, historyVars
  <1>3. ASSUME full_reconciliation
        PROVE  artifacts' \in {artifacts, {}} /\ hold' = hold
    BY <1>3 DEF full_reconciliation, Awake, historyVars
  <1>4. ASSUME completion
        PROVE  artifacts' \in {artifacts, {}} /\ hold' = hold
    BY <1>4 DEF completion, historyVars
  <1>5. ASSUME NEW x \in Interfaces, interface_retry(x)
        PROVE  artifacts' \in {artifacts, {}} /\ hold' = hold
    BY <1>5 DEF interface_retry, Awake, historyVars
  <1>6. ASSUME NEW x \in Interfaces, notification(x)
        PROVE  artifacts' \in {artifacts, {}} /\ hold' = hold
    BY <1>6 DEF notification, historyVars
  <1>7. ASSUME NEW x \in Files, start_reload(x)
        PROVE  artifacts' \in {artifacts, {}} /\ hold' = hold
    BY <1>7 DEF start_reload, historyVars
  <1>8. ASSUME EndSysctls
        PROVE  artifacts' \in {artifacts, {}} /\ hold' = hold
    BY <1>8 DEF EndSysctls, historyVars
  <1>9. ASSUME EndHandBack
        PROVE  artifacts' \in {artifacts, {}} /\ hold' = hold
    BY <1>9 DEF EndHandBack, historyVars
  <1>10. ASSUME Crash
        PROVE  artifacts' \in {artifacts, {}} /\ hold' = hold
    BY <1>10 DEF Crash, historyVars
  <1>11. ASSUME NEW x \in Files, Start(x)
        PROVE  artifacts' \in {artifacts, {}} /\ hold' = hold
    BY <1>11 DEF Start, historyVars
  <1>12. ASSUME StartCleanup
        PROVE  artifacts' \in {artifacts, {}} /\ hold' = hold
    BY <1>12 DEF StartCleanup, historyVars
  <1>13. ASSUME EndCleanup
        PROVE  artifacts' \in {artifacts, {}} /\ hold' = hold
    BY <1>13 DEF EndCleanup, historyVars
  <1>14. ASSUME persist_lane
        PROVE  artifacts' \in {artifacts, {}} /\ hold' = hold
    <2>1. artifacts' = artifacts
      BY <1>14 DEF persist_lane
    <2>2. PICK job : StartSysctls(job) \/ RunBind(job) \/ StartHandBack(job)
      BY <1>14 DEF persist_lane
    <2>3. CASE StartSysctls(job)
      BY <2>1, <2>3 DEF StartSysctls
    <2>4. CASE RunBind(job)
      BY <2>1, <2>4 DEF RunBind, historyVars
    <2>5. CASE StartHandBack(job)
      BY <2>1, <2>5 DEF StartHandBack, historyVars
    <2> QED
      BY <2>2, <2>3, <2>4, <2>5
  <1>15. ASSUME NEW k \in Keys, WriteValue(k)
        PROVE  artifacts' = artifacts
    BY <1>15 DEF WriteValue
  <1>16. ASSUME NEW k \in Keys, HandBackKey(k)
        PROVE  artifacts' = artifacts
    BY <1>16 DEF HandBackKey
  <1>17. ASSUME NEW k \in Keys, RestoreKey(k)
        PROVE  artifacts' = artifacts
    BY <1>17 DEF RestoreKey
  <1>18. ASSUME NEW v, Outside(v)
        PROVE  artifacts' = artifacts
    BY <1>18 DEF Outside
  <1>19. ASSUME NEW k \in Keys, NEW v \in Foreign \cup {Wanted}, Admin(k, v)
        PROVE  \E w : Outside(w)
    BY <1>19 DEF Admin
  <1>20. ASSUME NEW i \in Interfaces, Link(i)
        PROVE  \E w : Outside(w)
    BY <1>20 DEF Link
  <1>21. ASSUME UNCHANGED vars
        PROVE  artifacts' \in {artifacts, {}} /\ hold' = hold
    BY <1>21 DEF vars, historyVars
  <1> QED
    BY <1>1, <1>2, <1>3, <1>4, <1>5, <1>6, <1>7, <1>8, <1>9, <1>10, <1>11, <1>12, <1>13, <1>14,
       <1>15, <1>16, <1>17, <1>18, <1>19, <1>20, <1>21 DEF Next, LaneNext

\* A family's rules and routes are installed only while its global settings are
\* in place (step's gate, sysctls_unapplied).
THEOREM SetBeforeUseAlways == Spec => SetBeforeUse
  <1> DEFINE Act == \A f \in artifacts' \ artifacts : cfg.manage =>
                      \A k \in {x \in wanted_of(cfg, Global) : x.family = f} :
                        value[k] = Wanted \/ k \in touched
  <1>1. IInv /\ [Next]_vars => [Act]_vars
    <2> SUFFICES ASSUME IInv, [Next]_vars, NEW f \in artifacts' \ artifacts, cfg.manage,
                        NEW k \in wanted_of(cfg, Global)
                 PROVE  value[k] = Wanted \/ k \in touched
      OBVIOUS
    <2>1. step
      <3>1. artifacts' # artifacts /\ artifacts' # {}
        OBVIOUS
      <3> QED
        BY <3>1, Effects
    <2>2. mode = "run" /\ ~Gated
      BY <2>1, StepRest
    <2>3. StateInv /\ AppliedInv /\ GlobalInv
      BY DEF IInv, LaneInv
    <2>4. /\ Global \in DOMAIN sysctls_applied /\ sysctls_applied[Global].manage
          /\ k \in sysctls_applied[Global].settings
      BY <2>2, <2>3, NotGated
    <2>5. k \in Keys /\ k.family \in cfg.families /\ k.scope = Global
      BY WantedKeys
    <2>6. InPlace(value, touched, k)
      BY <2>3, <2>4, <2>5 DEF AppliedInv
    <2> QED
      BY <2>3, <2>5, <2>6 DEF InPlace, GlobalInv
  <1>2. SetBeforeUse <=> [][Act]_vars
    BY DEF SetBeforeUse
  <1> QED
    BY <1>1, <1>2, LaneAlways, PTL DEF Spec

\* Who releases a key: a hand-back, or a cleanup.
LEMMA WhoReleases ==
    ASSUME StateInv, [Next]_vars, NEW k \in Keys, hold[k] # "never", hold'[k] = "never"
    PROVE  \/ running.kind = "handback" /\ k \in running.todo
           \/ artifacts = {}
  <1>1. hold \in [Keys -> {"never", "ours", "lost"}]
    BY DEF StateInv, TypeInv, TypeOK
  <1>2. hold' # hold
    OBVIOUS
  <1>3. ASSUME NEW l \in Keys, WriteValue(l)
        PROVE  FALSE
    <2>1. CASE hold' = [hold EXCEPT ![l] = "ours"]
      BY <1>1, <2>1
    <2> QED
      BY <1>2, <1>3, <2>1 DEF WriteValue
  <1>4. ASSUME NEW l \in Keys, HandBackKey(l)
        PROVE  running.kind = "handback" /\ k \in running.todo
    <2>1. l = k
      BY <1>1, <1>4 DEF HandBackKey, Restore
    <2> QED
      BY <1>4, <2>1 DEF HandBackKey
  <1>5. ASSUME NEW l \in Keys, RestoreKey(l)
        PROVE  artifacts = {}
    BY <1>5 DEF RestoreKey, StateInv, ModeInv
  <1>6. ASSUME NEW v, Outside(v)
        PROVE  FALSE
    BY <1>6 DEF Outside
  <1> QED
    BY <1>2, <1>3, <1>4, <1>5, <1>6, Effects

\* A setting is given back only when nothing of its family is installed,
\* although reloads may take the family back while its hand-back waits in the
\* lane's queue (step queues it last, and the gate holds the family back).
THEOREM RestoredLastAlways == Spec => RestoredLast
  <1> DEFINE Act == \A k \in Keys :
                      (cfg.manage /\ hold[k] # "never" /\ hold'[k] = "never") =>
                        k.family \notin artifacts
  <1>1. IInv /\ [Next]_vars => [Act]_vars
    <2> SUFFICES ASSUME IInv, [Next]_vars, NEW k \in Keys, cfg.manage, hold[k] # "never",
                        hold'[k] = "never"
                 PROVE  k.family \notin artifacts
      OBVIOUS
    <2>1. StateInv /\ UseInv
      BY DEF IInv, LaneInv
    <2>2. CASE running.kind = "handback" /\ k \in running.todo
      <3>1. k.family \in Todo(running)
        BY <2>2 DEF Todo
      <3> QED
        BY <2>1, <3>1 DEF UseInv
    <2> QED
      BY <2>1, <2>2, WhoReleases
  <1>2. RestoredLast <=> [][Act]_vars
    BY DEF RestoredLast
  <1> QED
    BY <1>1, <1>2, LaneAlways, PTL DEF Spec

=============================================================================
