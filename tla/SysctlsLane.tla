---------------------------- MODULE SysctlsLane -----------------------------
(***************************************************************************)
(* What the proofs about Sysctls share: the types of the jobs and reports, *)
(* the numbers and the order of the jobs a pass dispatches, the state of a *)
(* daemon that is not running, and the inductive invariant of the          *)
(* settings: the baselines, and the order of the jobs along the one queue  *)
(* of the persistence lane. Then the steps of the lane, of the environment *)
(* and of starts and stops keep the order.                                 *)
(***************************************************************************)
EXTENDS Sysctls, FiniteSetTheorems, TLAPS

\* Leaves that name no prover are for Zenon.
USE ZenonT(60)

Scopes == Interfaces \cup {Global}

SysctlJobs ==
  [kind : {"sysctls"}, scope : Scopes, seq : Nat, settings : SUBSET Keys, manage : BOOLEAN]

BindJobs == [kind : {"bind"}, config : Files]

HandBackJobs == [kind : {"handback"}, families : SUBSET Families]

Jobs == SysctlJobs \cup BindJobs \cup HandBackJobs

Restorations == [kind : {"handback", "cleanup"}, ok : BOOLEAN, todo : SUBSET Keys]

Reports ==
  [kind : {"sysctls"}, scope : Scopes, seq : Nat, ok : BOOLEAN, manifest : Manifests]
    \cup [kind : {"handback"}, ok : BOOLEAN, manifest : Manifests]
    \cup [kind : {"bind"}, config : Files, ok : BOOLEAN, manifest : Manifests]

TypeInv ==
  /\ TypeOK
  /\ queue \in Seq(Jobs)
  /\ running \in {Idle} \cup SysctlJobs \cup Restorations
  /\ done \in Seq(Reports)
  /\ sysctls_flight \in [DOMAIN sysctls_flight -> SysctlJobs]
  /\ sysctls_applied \in [DOMAIN sysctls_applied -> SysctlJobs]
  /\ touched \subseteq Keys

-----------------------------------------------------------------------------
(* Constants and sequences. *)

\* What ConstantsAssumption says, fact by fact.
LEMMA Constants ==
    /\ IsFiniteSet(Interfaces) /\ Global \notin Interfaces
    /\ Files \subseteq [families : (SUBSET Families) \ {{}},
                        interfaces : SUBSET Interfaces, manage : BOOLEAN]
    /\ Default \in Foreign /\ Wanted \notin Foreign /\ Wanted # Absent
    /\ Absent \notin Foreign
    /\ NoManifest \notin Manifests
  <1>1. \A S \in SUBSET Keys : NoManifest \notin [S -> Foreign]
    BY ConstantsAssumption DEF ConstantsAssumption
  <1>2. NoManifest \notin Manifests
    BY <1>1 DEF Manifests
  <1>3. IsFiniteSet(Interfaces) /\ Global \notin Interfaces
    BY ConstantsAssumption DEF ConstantsAssumption
  <1>4. Files \subseteq [families : (SUBSET Families) \ {{}},
                         interfaces : SUBSET Interfaces, manage : BOOLEAN]
    BY ConstantsAssumption DEF ConstantsAssumption
  <1>5. Default \in Foreign /\ Wanted \notin Foreign /\ Wanted # Absent /\ Absent \notin Foreign
    BY ConstantsAssumption DEF ConstantsAssumption
  <1> QED
    BY <1>2, <1>3, <1>4, <1>5

\* The places of a sequence.
LEMMA Places ==
    ASSUME NEW S, NEW q \in Seq(S)
    PROVE  /\ Len(q) \in Nat /\ DOMAIN q = 1..Len(q)
           /\ \A i \in DOMAIN q : q[i] \in S
           /\ q = << >> <=> Len(q) = 0
  BY SMTT(60)

\* A sequence over a set is one over a larger set.
LEMMA MoreElements ==
    ASSUME NEW S, NEW T, S \subseteq T, NEW q \in Seq(S)
    PROVE  q \in Seq(T)
  BY SMTT(60)

\* A sequence has finitely many places.
LEMMA Spread ==
    ASSUME NEW S, NEW q \in Seq(S)
    PROVE  IsFiniteSet(DOMAIN q)
  <1>1. Len(q) \in Int /\ 1 \in Int /\ DOMAIN q = 1..Len(q)
    BY Places, SMTT(60)
  <1> QED
    BY <1>1, FS_Interval

\* A sequence with one more element at its end.
LEMMA AtEnd ==
    ASSUME NEW S, NEW q \in Seq(S), NEW x \in S
    PROVE  /\ Append(q, x) \in Seq(S)
           /\ DOMAIN Append(q, x) = 1..(Len(q) + 1)
           /\ Len(Append(q, x)) = Len(q) + 1
           /\ \A i \in 1..Len(q) : Append(q, x)[i] = q[i]
           /\ Append(q, x)[Len(q) + 1] = x
  BY SMTT(60)

\* A sequence without its first element.
LEMMA Popped ==
    ASSUME NEW S, NEW q \in Seq(S), q # << >>
    PROVE  /\ Head(q) \in S /\ Head(q) = q[1] /\ 1 \in DOMAIN q
           /\ Tail(q) \in Seq(S)
           /\ Len(Tail(q)) = Len(q) - 1
           /\ DOMAIN Tail(q) = 1..(Len(q) - 1)
           /\ \A i \in DOMAIN Tail(q) : Tail(q)[i] = q[i + 1]
  BY SMTT(60)

\* Two sequences, one after the other.
LEMMA Joined ==
    ASSUME NEW S, NEW q \in Seq(S), NEW r \in Seq(S)
    PROVE  /\ q \o r \in Seq(S)
           /\ Len(q \o r) = Len(q) + Len(r)
           /\ DOMAIN (q \o r) = 1..(Len(q) + Len(r))
           /\ \A i \in 1..Len(q) : (q \o r)[i] = q[i]
           /\ \A i \in 1..Len(r) : (q \o r)[Len(q) + i] = r[i]
           /\ \A i \in 1..(Len(q) + Len(r)) : i > Len(q) => (q \o r)[i] = r[i - Len(q)]
  BY SMTT(60)

-----------------------------------------------------------------------------
(* The jobs a pass dispatches. *)

\* A finite set of numbers leaves out one of 0..n, n its size, and a least one.
LEMMA LeastFree ==
    ASSUME NEW U \in SUBSET Nat, IsFiniteSet(U)
    PROVE  \E n \in 0..Cardinality(U) : n \notin U /\ \A m \in 0..n : m \in U \/ m = n
  <1> DEFINE R == OpToRel(<, Nat)
             T == (0..Cardinality(U)) \ U
  <1>1. Cardinality(U) \in Nat
    BY FS_CardinalityType
  <1>2. T # {}
    <2> SUFFICES ASSUME 0..Cardinality(U) \subseteq U
                 PROVE  FALSE
      OBVIOUS
    <2>1. Cardinality(0..Cardinality(U)) <= Cardinality(U)
      BY FS_Subset
    <2>2. Cardinality(0..Cardinality(U)) = Cardinality(U) + 1
      BY <1>1, FS_Interval, SMTT(60)
    <2> QED
      BY <1>1, <2>1, <2>2, SMTT(60)
  <1>3. T \subseteq Nat
    BY <1>1, SMTT(60)
  <1>4. \A m, n \in Nat : m < n => <<m, n>> \in R
    BY DEF OpToRel
  <1> HIDE DEF R
  <1>5. \E n \in T : \A m \in T : ~ (<<m, n>> \in R)
    <2>1. IsWellFoundedOn(R, Nat)
      BY NatLessThanWellFounded DEF R
    <2> QED
      BY <1>2, <1>3, <2>1, WFMin
  <1>6. PICK n \in T : \A m \in T : ~ (<<m, n>> \in R)
    BY <1>5
  <1>7. \A m \in T : ~ (m < n)
    BY <1>3, <1>4, <1>6
  <1> QED
    BY <1>1, <1>7, SMTT(60)

\* Only finitely many numbers of a scope's jobs are in use.
LEMMA InUseFinite ==
    ASSUME TypeInv, NEW s \in Scopes
    PROVE  InUse(s) \in SUBSET Nat /\ IsFiniteSet(InUse(s))
  <1> DEFINE Q == {queue[i] : i \in DOMAIN queue}
             D == {done[i] : i \in DOMAIN done}
             A == {j \in Q \cup {running} \cup D : j.kind = "sysctls" /\ j.scope = s}
             N == {r.seq : r \in A}
  <1>1. IsFiniteSet(Q)
    <2>1. IsFiniteSet(DOMAIN queue)
      BY Spread DEF TypeInv
    <2>2. queue \in Surjection(DOMAIN queue, Q)
      BY Places, SMTT(60) DEF TypeInv, Surjection
    <2> QED
      BY <2>1, <2>2, FS_Surjection
  <1>2. IsFiniteSet(D)
    <2>1. IsFiniteSet(DOMAIN done)
      BY Spread DEF TypeInv
    <2>2. done \in Surjection(DOMAIN done, D)
      BY Places, SMTT(60) DEF TypeInv, Surjection
    <2> QED
      BY <2>1, <2>2, FS_Surjection
  <1>3. IsFiniteSet(A)
    <2>1. IsFiniteSet(Q \cup {running} \cup D)
      BY <1>1, <1>2, FS_Union, FS_Singleton
    <2> QED
      BY <2>1, FS_Subset
  <1>4. IsFiniteSet(N)
    <2> DEFINE f == [r \in A |-> r.seq]
    <2>1. f \in Surjection(A, N)
      BY DEF Surjection
    <2> QED
      BY <1>3, <2>1, FS_Surjection, SMTT(60)
  <1>5. N \subseteq Nat
    <2> SUFFICES ASSUME NEW r \in A PROVE r.seq \in Nat
      OBVIOUS
    <2>1. r \in Jobs \cup Reports \cup {Idle} \cup SysctlJobs \cup Restorations
      BY Places, SMTT(60) DEF TypeInv
    <2> QED
      BY <2>1, SMTT(60) DEF Jobs, SysctlJobs, BindJobs, HandBackJobs, Reports, Restorations, Idle
  <1>6. s \in DOMAIN sysctls_flight => sysctls_flight[s].seq \in Nat
    BY DEF TypeInv, SysctlJobs
  <1>7. IsFiniteSet({sysctls_flight[s].seq})
    BY FS_Singleton
  <1>8. IsFiniteSet(N \cup {sysctls_flight[s].seq})
    BY <1>4, <1>7, FS_Union
  <1>9. InUse(s) = N \cup (IF s \in DOMAIN sysctls_flight THEN {sysctls_flight[s].seq} ELSE {})
    BY DEF InUse
  <1> QED
    <2>1. CASE s \in DOMAIN sysctls_flight
      <3>1. InUse(s) = N \cup {sysctls_flight[s].seq}
        BY <1>9, <2>1
      <3> QED
        BY <1>5, <1>6, <1>8, <2>1, <3>1
    <2>2. CASE s \notin DOMAIN sysctls_flight
      <3>1. InUse(s) = N \cup {}
        BY <1>9, <2>2
      <3>2. InUse(s) = N
        BY <3>1
      <3> QED
        BY <1>4, <1>5, <3>2
    <2> QED
      BY <2>1, <2>2

\* The number of a new job is not the one of any job of the scope that is still
\* queued, running, reported or in flight.
LEMMA Numbered ==
    ASSUME TypeInv, NEW s \in Scopes
    PROVE  /\ SysctlJob(s) \in SysctlJobs
           /\ SysctlJob(s).scope = s
           /\ SysctlJob(s).settings = wanted_of(cfg, s)
           /\ SysctlJob(s).manage = cfg.manage
           /\ SysctlJob(s).seq \notin InUse(s)
  <1> DEFINE Free(n) == n \notin InUse(s) /\ \A m \in 0..n : m \in InUse(s) \/ m = n
             seq == CHOOSE n \in 0..Cardinality(InUse(s)) : Free(n)
  <1>1. \E n \in 0..Cardinality(InUse(s)) : Free(n)
    BY InUseFinite, LeastFree
  <1>2. seq \in 0..Cardinality(InUse(s)) /\ Free(seq)
    BY <1>1
  <1>3. seq \in Nat /\ seq \notin InUse(s)
    BY <1>2, SMTT(60)
  <1>4. cfg.manage \in BOOLEAN
    BY Constants DEF TypeInv, TypeOK
  <1>5. SysctlJob(s) = [kind |-> "sysctls", scope |-> s, seq |-> seq,
                        settings |-> wanted_of(cfg, s), manage |-> cfg.manage]
    BY DEF SysctlJob
  <1>6. wanted_of(cfg, s) \in SUBSET Keys
    BY DEF wanted_of, desired
  <1> HIDE DEF seq
  <1> QED
    BY <1>3, <1>4, <1>5, <1>6, SMTT(60) DEF SysctlJobs

\* Ordered lists every member of a finite set, once.
LEMMA OrderedAll ==
    ASSUME NEW S, IsFiniteSet(S)
    PROVE  /\ Cardinality(S) \in Nat
           /\ Ordered(S) \in [1..Cardinality(S) -> S]
           /\ \A x \in S : \E i \in 1..Cardinality(S) : Ordered(S)[i] = x
  <1> DEFINE n == Cardinality(S)
             Once(q) == \A i, j \in DOMAIN q : q[i] = q[j] => i = j
  <1>1. n \in Nat /\ ExistsBijection(1..n, S)
    BY FS_CardinalityType
  <1>2. PICK b : b \in Bijection(1..n, S)
    BY <1>1 DEF ExistsBijection
  <1>3. b \in [1..n -> S] /\ \A i, j \in 1..n : b[i] = b[j] => i = j
    BY <1>2 DEF Bijection, Injection, IsInjective
  <1>4. Once(b)
    BY <1>3
  <1>5. Ordered(S) = CHOOSE q \in [1..n -> S] : Once(q)
    BY DEF Ordered
  <1>6. Ordered(S) \in [1..n -> S] /\ Once(Ordered(S))
    BY <1>3, <1>4, <1>5
  <1>7. Ordered(S) \in Injection(1..n, S)
    BY <1>6 DEF Injection, IsInjective
  <1>8. IsFiniteSet(1..n) /\ Cardinality(1..n) = n
    BY <1>1, FS_Interval, SMTT(60)
  <1>9. Ordered(S) \in Surjection(1..n, S)
    BY <1>7, <1>8, FS_Injection
  <1> QED
    BY <1>1, <1>6, <1>9 DEF Surjection

\* dispatch_sysctls gives finitely many scopes to the lane.
LEMMA DispatchedType ==
    ASSUME TypeInv
    PROVE  /\ Dispatched \subseteq Scopes \cap sysctls_pending
           /\ Dispatched \cap DOMAIN sysctls_flight = {}
  BY DEF Dispatched, TypeInv, TypeOK, Scopes

\* dispatch_sysctls gives the lane exactly one job for every scope it dispatches.
LEMMA Dispatching ==
    ASSUME TypeInv
    PROVE  /\ DispatchJobs \in Seq(SysctlJobs)
           /\ \A i \in DOMAIN DispatchJobs :
                \E s \in Dispatched : DispatchJobs[i] = SysctlJob(s)
           /\ \A s \in Dispatched :
                \E i \in DOMAIN DispatchJobs : DispatchJobs[i] = SysctlJob(s)
  <1> DEFINE I == Dispatched \ {Global}
             n == Cardinality(I)
             q == Ordered(I)
             scopes == IF Global \in Dispatched THEN Append(q, Global) ELSE q
  <1>1. IsFiniteSet(I)
    <2>1. I \in SUBSET Interfaces
      BY DispatchedType DEF Scopes
    <2> QED
      BY <2>1, Constants, FS_Subset
  <1>2. n \in Nat /\ q \in [1..n -> I] /\ \A x \in I : \E i \in 1..n : q[i] = x
    BY <1>1, OrderedAll
  <1> HIDE DEF n, q
  <1>3. q \in Seq(Dispatched) /\ Len(q) = n
    BY <1>2, SMTT(60)
  <1>4. /\ scopes \in Seq(Dispatched)
        /\ \A x \in Dispatched : \E i \in DOMAIN scopes : scopes[i] = x
    <2>1. CASE Global \in Dispatched
      <3>1. scopes = Append(q, Global)
        BY <2>1
      <3>2. /\ scopes \in Seq(Dispatched) /\ DOMAIN scopes = 1..(n + 1)
            /\ \A i \in 1..n : scopes[i] = q[i]
            /\ scopes[n + 1] = Global
        BY <1>3, <2>1, <3>1, AtEnd, SMTT(60)
      <3> QED
        BY <1>2, <3>2, SMTT(60)
    <2>2. CASE Global \notin Dispatched
      BY <1>2, <1>3, <2>2
    <2> QED
      BY <2>1, <2>2
  <1>5. DispatchJobs = [i \in DOMAIN scopes |-> SysctlJob(scopes[i])]
    BY DEF DispatchJobs, q
  <1> HIDE DEF scopes
  <1>6. Len(scopes) \in Nat /\ DOMAIN scopes = 1..Len(scopes)
        /\ \A i \in DOMAIN scopes : scopes[i] \in Dispatched
    BY <1>4, Places
  <1>7. \A s \in Dispatched : SysctlJob(s) \in SysctlJobs
    BY DispatchedType, Numbered
  <1>8. DispatchJobs \in [1..Len(scopes) -> SysctlJobs]
    BY <1>5, <1>6, <1>7
  <1>9. DispatchJobs \in Seq(SysctlJobs)
    BY <1>6, <1>8, SMTT(60)
  <1> QED
    BY <1>4, <1>5, <1>6, <1>9

-----------------------------------------------------------------------------
(* The types of the variables. *)

\* A daemon that is not running has nothing queued, in flight or applied; a
\* running one has a manifest on disk.
ModeInv ==
  /\ mode # "run" =>
       /\ queue = << >> /\ done = << >>
       /\ DOMAIN sysctls_flight = {} /\ DOMAIN sysctls_applied = {}
       /\ backoff = {} /\ retry = "none" /\ ~reload /\ sysctls_pending = {}
  /\ mode = "down" => running = Idle
  /\ mode = "cleanup" => running.kind = "cleanup" /\ artifacts = {}
  /\ mode = "run" => running.kind # "cleanup" /\ disk # NoManifest

\* The empty sequence is an empty function and an empty manifest.
LEMMA Empty ==
    ASSUME NEW S
    PROVE  /\ << >> \in Seq(S) /\ DOMAIN << >> = {} /\ Len(<< >>) = 0
           /\ << >> \in [{} -> S]
           /\ << >> \in Manifests
  <1>1. << >> \in Seq(S) /\ Len(<< >>) = 0
    BY SMTT(60)
  <1>2. DOMAIN << >> = {} /\ \A T : << >> \in [{} -> T]
    BY SMTT(60)
  <1>3. << >> \in Manifests
    BY <1>2 DEF Manifests
  <1> QED
    BY <1>1, <1>2, <1>3

\* A manifest records baselines of keys.
LEMMA ManifestType ==
    ASSUME NEW m
    PROVE  m \in Manifests <=> /\ DOMAIN m \subseteq Keys
                               /\ m \in [DOMAIN m -> Foreign]
  <1>1. ASSUME m \in Manifests
        PROVE  DOMAIN m \subseteq Keys /\ m \in [DOMAIN m -> Foreign]
    <2>1. PICK S \in SUBSET Keys : m \in [S -> Foreign]
      BY <1>1 DEF Manifests
    <2>2. DOMAIN m = S
      BY <2>1
    <2> QED
      BY <2>1, <2>2
  <1>2. ASSUME DOMAIN m \in SUBSET Keys, m \in [DOMAIN m -> Foreign]
        PROVE  m \in Manifests
    BY <1>2 DEF Manifests
  <1> QED
    BY <1>1, <1>2

\* The settings wanted in a scope are keys.
LEMMA Scoped ==
    ASSUME NEW c \in Files
    PROVE  sysctl_scopes(c) \subseteq Scopes /\ Global \in sysctl_scopes(c)
  BY DEF sysctl_scopes, desired, Keys, Scopes

-----------------------------------------------------------------------------
(* The steps of the lane, of cleanup and of the environment. *)

\* The write-ahead order of the manifest: a key that PolyWAN changed is
\* recorded on disk with a value it had before; the lane's copy records it too
\* and agrees with the disk; a job writes or restores recorded keys only; a
\* cleanup without errors has every changed key still to restore.
BaseInv ==
  /\ \A k \in Keys :
       /\ hold[k] = "never" => value[k] \in before[k]
       /\ hold[k] # "never" => k \in Recorded(disk)
       /\ k \in Recorded(disk) => disk[k] \in before[k]
  /\ mode = "run" =>
       /\ \A k \in DOMAIN lane : k \in DOMAIN disk /\ disk[k] = lane[k]
       /\ \A k \in Keys : hold[k] # "never" => k \in DOMAIN lane
       /\ running.kind = "sysctls" => running.settings \subseteq DOMAIN lane
       /\ running.kind = "handback" => running.todo \subseteq DOMAIN lane
  /\ mode = "cleanup" =>
       /\ DOMAIN lane = Recorded(disk)
       /\ running.todo \subseteq Recorded(disk)
       /\ running.ok => \A k \in Keys : hold[k] # "never" => k \in running.todo

\* The three ways the start of a job ends: nothing to write, the settings that
\* differ are recorded and about to be written, an error.
NothingToWrite(job) ==
  /\ differences(job.settings) = {} \/ ~ job.manage
  /\ SysctlsReport(job, TRUE, lane)
  /\ UNCHANGED <<disk, lane, running>>

BeginsToWrite(job) ==
  /\ job.manage
  /\ lane' = record(lane, differences(job.settings))
  /\ disk' = IF lane' = lane THEN disk ELSE lane'
  /\ running' = [job EXCEPT !.settings = differences(job.settings)]
  /\ UNCHANGED done

CannotBegin(job) ==
  /\ disk' \in {disk, record(lane, differences(job.settings))}
  /\ SysctlsReport(job, FALSE, lane)
  /\ UNCHANGED <<lane, running>>

\* What a sysctl job may do when the lane takes it (apply_sysctls): report, or
\* write values.
LEMMA StartOutcomes ==
    ASSUME NEW job, StartSysctls(job)
    PROVE  /\ NothingToWrite(job) \/ BeginsToWrite(job) \/ CannotBegin(job)
           /\ touched' \subseteq touched
           /\ touched \ touched' \subseteq job.settings \ differences(job.settings)
           /\ UNCHANGED <<value, hold, before>>
  <1> DEFINE diffs == differences(job.settings)
             recorded == record(lane, diffs)
  <1> HIDE DEF diffs, recorded
  <1>1. /\ touched' = IF left' = left THEN touched \ (job.settings \ diffs) ELSE touched
        /\ UNCHANGED <<value, hold, before>>
    BY DEF StartSysctls, diffs
  <1>2. CASE /\ diffs = {} \/ ~ job.manage
             /\ SysctlsReport(job, TRUE, lane)
             /\ UNCHANGED <<disk, lane, running, left>>
    BY <1>1, <1>2 DEF NothingToWrite, SysctlsReport, Report, diffs
  <1>3. CASE /\ diffs # {} /\ job.manage /\ recorded = lane
             /\ running' = [job EXCEPT !.settings = diffs]
             /\ UNCHANGED <<disk, lane, done, left>>
    BY <1>1, <1>3 DEF BeginsToWrite, diffs, recorded
  <1>4. CASE /\ diffs # {} /\ job.manage /\ recorded # lane
             /\ WriteManifest(recorded, TRUE)
             /\ lane' = recorded
             /\ running' = [job EXCEPT !.settings = diffs]
             /\ UNCHANGED done
    BY <1>1, <1>4 DEF BeginsToWrite, WriteManifest, diffs, recorded
  <1>5. CASE /\ diffs # {} /\ job.manage /\ recorded # lane
             /\ WriteManifest(recorded, FALSE)
             /\ SysctlsReport(job, FALSE, lane)
             /\ UNCHANGED <<lane, running>>
    BY <1>1, <1>5 DEF CannotBegin, WriteManifest, SysctlsReport, Report, diffs, recorded
  <1>6. CASE /\ job.manage /\ Disturb
             /\ SysctlsReport(job, FALSE, lane)
             /\ UNCHANGED <<disk, lane, running>>
    BY <1>1, <1>6 DEF CannotBegin, SysctlsReport, Report, diffs, recorded
  <1> QED
    BY <1>2, <1>3, <1>4, <1>5, <1>6 DEF StartSysctls, diffs, recorded

\* A restoration with one key less to do.
LEMMA LessToDo ==
    ASSUME NEW r \in Restorations, NEW x
    PROVE  /\ [r EXCEPT !.todo = r.todo \ {x}] \in Restorations
           /\ [r EXCEPT !.todo = r.todo \ {x}].kind = r.kind
           /\ [r EXCEPT !.todo = r.todo \ {x}].ok = r.ok
           /\ [r EXCEPT !.todo = r.todo \ {x}].todo = r.todo \ {x}
           /\ [r EXCEPT !.todo = r.todo \ {x}, !.ok = FALSE] \in Restorations
           /\ [r EXCEPT !.todo = r.todo \ {x}, !.ok = FALSE].kind = r.kind
           /\ [r EXCEPT !.todo = r.todo \ {x}, !.ok = FALSE].ok = FALSE
           /\ [r EXCEPT !.todo = r.todo \ {x}, !.ok = FALSE].todo = r.todo \ {x}
  <1>1. /\ [r EXCEPT !.todo = r.todo \ {x}] \in Restorations
        /\ [r EXCEPT !.todo = r.todo \ {x}].kind = r.kind
        /\ [r EXCEPT !.todo = r.todo \ {x}].todo = r.todo \ {x}
    BY DEF Restorations
  <1>2. /\ [r EXCEPT !.todo = r.todo \ {x}, !.ok = FALSE].kind = r.kind
        /\ [r EXCEPT !.todo = r.todo \ {x}, !.ok = FALSE].todo = r.todo \ {x}
    BY DEF Restorations
  <1>3. [r EXCEPT !.todo = r.todo \ {x}, !.ok = FALSE] \in Restorations
    BY DEF Restorations
  <1>4. /\ [r EXCEPT !.todo = r.todo \ {x}].ok = r.ok
        /\ [r EXCEPT !.todo = r.todo \ {x}, !.ok = FALSE].ok = FALSE
    BY DEF Restorations
  <1> QED
    BY <1>1, <1>2, <1>3, <1>4

\* What Restore does to the history of a key.
LEMMA Restoring ==
    ASSUME TypeInv, NEW k \in Keys, NEW m, Restore(k, m)
    PROVE  /\ hold'[k] = "never" /\ value'[k] \in before'[k]
           /\ before[k] \subseteq before'[k]
           /\ \A x \in Keys \ {k} : value'[x] = value[x] /\ hold'[x] = hold[x]
                                    /\ before'[x] = before[x]
  BY DEF Restore, TypeInv, TypeOK

-----------------------------------------------------------------------------
(* Types and baselines together. *)

StateInv == TypeInv /\ ModeInv /\ BaseInv

-----------------------------------------------------------------------------
(* The line of jobs: reported, running, queued. *)

\* The State task still waits for the result of job (or report) j, of scope s.
Cur(f, j, s) ==
  j.kind = "sysctls" /\ j.scope = s /\ s \in DOMAIN f /\ j.seq = f[s].seq

\* The job that s waits for is among the first n of q.
Line(f, q, n, s) == \E j \in 1..n : Cur(f, q[j], s)

Answered(f, d, s) == Line(f, d, Len(d), s)

\* The job that s waits for was taken up before place i of the queue q, with the
\* reports d and the running job r.
Ahead(f, d, r, q, i, s) ==
  \/ Answered(f, d, s)
  \/ Cur(f, r, s)
  \/ Line(f, q, i - 1, s)

\* The families whose settings a queued job hands back, and those that are left
\* to the running one.
GivenBy(j) == IF j.kind = "handback" THEN j.families ELSE {}

Todo(r) == IF r.kind = "handback" THEN {k.family : k \in r.todo} ELSE {}

\* The settings that count as applied in scope s have a family of F; of a family
\* that the configuration c does not have; of one that is being handed back.
Uses(a, s, F) == s \in DOMAIN a /\ \E k \in a[s].settings : k.family \in F

Extra(a, c, s) == s \in DOMAIN a /\ \E k \in a[s].settings : k.family \notin c.families

Contested(a, r, q, s) ==
  Uses(a, s, Todo(r)) \/ \E i \in DOMAIN q : Uses(a, s, GivenBy(q[i]))

Binds(q) == {i \in DOMAIN q : q[i].kind = "bind"}

InPlace(v, t, k) == v[k] \in {Wanted, Absent} \/ k \in t

-----------------------------------------------------------------------------
\* A scope in flight has its job reported, running or queued, with the settings
\* that the configuration wants; what a current job wrote, or reported as
\* applied, is in place.
FlightInv ==
  /\ \A s \in DOMAIN sysctls_flight :
       /\ sysctls_flight[s].scope = s
       /\ sysctls_flight[s].settings = wanted_of(cfg, s)
       /\ sysctls_flight[s].manage = cfg.manage
       /\ Ahead(sysctls_flight, done, running, queue, Len(queue) + 1, s)
  /\ \A i \in DOMAIN queue, s \in Scopes :
       Cur(sysctls_flight, queue[i], s) =>
         /\ queue[i].settings = sysctls_flight[s].settings
         /\ queue[i].manage = sysctls_flight[s].manage
  /\ \A s \in Scopes :
       Cur(sysctls_flight, running, s) =>
         \A k \in sysctls_flight[s].settings \ running.settings : InPlace(value, touched, k)
  /\ \A i \in DOMAIN done, s \in Scopes :
       Cur(sysctls_flight, done[i], s) /\ done[i].ok /\ sysctls_flight[s].manage =>
         \A k \in sysctls_flight[s].settings : InPlace(value, touched, k)

\* A scope that is not pending counts as applied, with what the configuration
\* wants; one that backs off does not count; what counts is in place, as far as
\* it is of a configured family.
AppliedInv ==
  /\ mode = "run" =>
       /\ sysctls_pending \subseteq sysctl_scopes(cfg)
       /\ DOMAIN sysctls_applied \subseteq sysctl_scopes(cfg)
       /\ \A s \in sysctl_scopes(cfg) \ sysctls_pending :
            /\ s \in DOMAIN sysctls_applied
            /\ sysctls_applied[s].settings = wanted_of(cfg, s)
            /\ sysctls_applied[s].manage = cfg.manage
  /\ backoff \cap DOMAIN sysctls_applied = {}
  /\ retry = "sysctls" => Global \notin DOMAIN sysctls_applied \cup DOMAIN sysctls_flight
  /\ \A s \in DOMAIN sysctls_applied :
       sysctls_applied[s].manage =>
         \A k \in sysctls_applied[s].settings :
           k.family \in cfg.families => InPlace(value, touched, k)

\* One reload at a time: one Bind job, or one report of it.
ReloadInv ==
  /\ ~reload => Binds(queue) = {} /\ Binds(done) = {}
  /\ \A i, j \in Binds(queue) : i = j
  /\ \A i, j \in Binds(done) : i = j
  /\ Binds(queue) = {} \/ Binds(done) = {}

\* Where settings that count as applied are handed back, or would be by the
\* configuration of a queued Bind job, the job that replaces them was taken up
\* before; a hand-back queued after a job in flight spares the configured
\* families.
OrderInv ==
  /\ \A i \in DOMAIN queue, s \in Scopes :
       Uses(sysctls_applied, s, GivenBy(queue[i])) =>
         Ahead(sysctls_flight, done, running, queue, i, s)
  /\ \A s \in Scopes :
       Uses(sysctls_applied, s, Todo(running)) => Answered(sysctls_flight, done, s)
  /\ \A i \in Binds(queue), s \in Scopes :
       Extra(sysctls_applied, cfg, s) \/ Contested(sysctls_applied, running, queue, s) =>
         Ahead(sysctls_flight, done, running, queue, i, s)
  /\ \A i \in Binds(done), s \in Scopes :
       Extra(sysctls_applied, cfg, s) \/ Contested(sysctls_applied, running, queue, s) =>
         Line(sysctls_flight, done, i - 1, s)
  /\ \A s \in Scopes :
       pass # "due" /\ Extra(sysctls_applied, cfg, s) => s \in DOMAIN sysctls_flight
  /\ \A i \in DOMAIN queue, s \in Scopes :
       Ahead(sysctls_flight, done, running, queue, i, s) =>
         GivenBy(queue[i]) \cap cfg.families = {}
  /\ \A s \in Scopes :
       Answered(sysctls_flight, done, s) => Todo(running) \cap cfg.families = {}

\* No family with artifacts is handed back; where a Bind job precedes a
\* hand-back, not even by the configuration that it brings.
UseInv ==
  /\ cfg.manage => /\ Todo(running) \cap artifacts = {}
                   /\ \A i \in DOMAIN queue : GivenBy(queue[i]) \cap artifacts = {}
  /\ \A j \in DOMAIN queue :
       Binds(done) # {} \/ (\E i \in Binds(queue) : i < j) =>
         GivenBy(queue[j]) \cap (cfg.families \cup artifacts) = {}
  /\ Binds(done) # {} => Todo(running) \cap (cfg.families \cup artifacts) = {}

GlobalInv == \A k \in Keys : k.scope = Global => value[k] # Absent

LaneInv == FlightInv /\ AppliedInv /\ ReloadInv /\ OrderInv /\ UseInv /\ GlobalInv

IInv == StateInv /\ LaneInv

-----------------------------------------------------------------------------
(* Lemmas about places in line. *)

\* What is among the first n is among more.
LEMMA LineMore ==
    ASSUME NEW f, NEW q, NEW n \in Nat, NEW m \in Nat, n <= m, NEW s, Line(f, q, n, s)
    PROVE  Line(f, q, m, s)
  BY SMTT(60) DEF Line

\* Places move up by one when the first element is taken.
LEMMA LineTail ==
    ASSUME NEW S, NEW q \in Seq(S), q # << >>, NEW f, NEW s, NEW n \in 0..Len(Tail(q))
    PROVE  Line(f, q, n + 1, s) <=> Cur(f, q[1], s) \/ Line(f, Tail(q), n, s)
  <1> DEFINE C(x) == Cur(f, x, s)
  <1> HIDE DEF C
  <1>1. Len(q) \in Nat /\ Len(Tail(q)) = Len(q) - 1
        /\ DOMAIN Tail(q) = 1..(Len(q) - 1)
        /\ \A i \in DOMAIN Tail(q) : Tail(q)[i] = q[i + 1]
    BY Popped, Places
  <1>2. (\E j \in 1..(n + 1) : C(q[j])) <=> C(q[1]) \/ \E j \in 1..n : C(Tail(q)[j])
    <2>1. ASSUME NEW j \in 1..(n + 1), C(q[j])
          PROVE  C(q[1]) \/ \E i \in 1..n : C(Tail(q)[i])
      <3>1. CASE j = 1
        BY <2>1, <3>1
      <3>2. CASE j # 1
        <4>1. j - 1 \in 1..n /\ Tail(q)[j - 1] = q[j]
          BY <1>1, <3>2, SMTT(60)
        <4> QED
          BY <2>1, <4>1
      <3> QED
        BY <3>1, <3>2
    <2>2. ASSUME NEW j \in 1..n, C(Tail(q)[j])
          PROVE  \E i \in 1..(n + 1) : C(q[i])
      <3>1. j + 1 \in 1..(n + 1) /\ Tail(q)[j] = q[j + 1]
        BY <1>1, SMTT(60)
      <3> QED
        BY <2>2, <3>1
    <2>3. 1 \in 1..(n + 1)
      BY <1>1, SMTT(60)
    <2> QED
      BY <2>1, <2>2, <2>3
  <1> QED
    BY <1>2 DEF Line, C

\* Places up to n depend on the first n elements only.
LEMMA LineKept ==
    ASSUME NEW f, NEW q, NEW p, NEW s, NEW n \in Nat, \A i \in 1..n : p[i] = q[i]
    PROVE  Line(f, p, n, s) <=> Line(f, q, n, s)
  BY DEF Line

\* An element at the end takes the last place.
LEMMA LineAppend ==
    ASSUME NEW S, NEW q \in Seq(S), NEW x \in S, NEW f, NEW s
    PROVE  /\ \A n \in 0..Len(q) : Line(f, Append(q, x), n, s) <=> Line(f, q, n, s)
           /\ Line(f, Append(q, x), Len(q) + 1, s) <=> Line(f, q, Len(q), s) \/ Cur(f, x, s)
  <1> DEFINE C(y) == Cur(f, y, s)
             p == Append(q, x)
  <1> HIDE DEF C
  <1>1. Len(q) \in Nat /\ (\A i \in 1..Len(q) : p[i] = q[i]) /\ p[Len(q) + 1] = x
    BY AtEnd, Places, SMTT(60)
  <1> HIDE DEF p
  <1>2. \A n \in 0..Len(q) : (\E j \in 1..n : C(p[j])) <=> (\E j \in 1..n : C(q[j]))
    BY <1>1, SMTT(60)
  <1>3. (\E j \in 1..(Len(q) + 1) : C(p[j])) <=> (\E j \in 1..Len(q) : C(q[j])) \/ C(x)
    <2>1. \A j \in 1..(Len(q) + 1) : j \in 1..Len(q) \/ j = Len(q) + 1
      BY <1>1, SMTT(60)
    <2>2. \A j \in 1..Len(q) : j \in 1..(Len(q) + 1)
      BY <1>1, SMTT(60)
    <2>3. Len(q) + 1 \in 1..(Len(q) + 1)
      BY <1>1, SMTT(60)
    <2> QED
      BY <1>1, <2>1, <2>2, <2>3
  <1> QED
    BY <1>2, <1>3 DEF Line, C, p

-----------------------------------------------------------------------------
(* The lane takes a job. *)

\* The job's report follows at once, or the job runs.
Returned(job) ==
  /\ \E r \in Reports :
       /\ done' = Append(done, r)
       /\ r.kind = job.kind
       /\ job.kind = "sysctls" =>
            /\ r.scope = job.scope /\ r.seq = job.seq
            /\ r.ok => differences(job.settings) = {} \/ ~job.manage
  /\ job.kind \in {"sysctls", "bind"}
  /\ running' = Idle

Begun(job) ==
  /\ done' = done
  /\ running'.kind = job.kind
  /\ job.kind \in {"sysctls", "handback"}
  /\ job.kind = "sysctls" =>
       /\ running'.scope = job.scope /\ running'.seq = job.seq
       /\ running'.settings = differences(job.settings)
  /\ job.kind = "handback" => \A k \in running'.todo : k.family \in job.families

\* What the lane's taking of a job amounts to: the job returns at once, or it
\* runs.
LEMMA Taken ==
    ASSUME StateInv, persist_lane
    PROVE  /\ mode = "run" /\ running = Idle
           /\ queue # << >> /\ queue' = Tail(queue)
           /\ Head(queue) \in Jobs
           /\ UNCHANGED <<artifacts, mode, cfg, sysctls_pending, sysctls_flight, sysctls_applied,
                          backoff, retry, reload, pass, value>>
           /\ Returned(Head(queue)) \/ Begun(Head(queue))
           /\ \A k \in Keys : InPlace(value, touched, k) => InPlace(value', touched', k)
           /\ Head(queue).kind # "sysctls" => touched' = touched
  <1> DEFINE job == Head(queue)
  <1>1. mode = "run" /\ running = Idle /\ queue # << >> /\ queue' = Tail(queue)
        /\ UNCHANGED <<artifacts, mode, cfg, sysctls_pending, sysctls_flight, sysctls_applied,
                       backoff, retry, reload, pass>>
    BY DEF persist_lane, daemonVars
  <1>2. job \in Jobs /\ TypeInv
    BY <1>1, Popped DEF StateInv, TypeInv
  <1>3. \/ job.kind = "sysctls" /\ StartSysctls(job)
        \/ job.kind = "bind" /\ RunBind(job)
        \/ job.kind = "handback" /\ StartHandBack(job)
    BY DEF persist_lane
  <1>4. value \in [Keys -> Foreign \cup {Wanted, Absent}] /\ lane \in Manifests
    BY <1>2 DEF TypeInv, TypeOK
  <1> HIDE DEF job
  <1>5. CASE job.kind = "sysctls" /\ StartSysctls(job)
    <2>1. job \in SysctlJobs
      BY <1>2, <1>5 DEF Jobs, BindJobs, HandBackJobs
    <2>2. /\ NothingToWrite(job) \/ BeginsToWrite(job) \/ CannotBegin(job)
          /\ touched \ touched' \subseteq job.settings \ differences(job.settings)
          /\ value' = value
      BY <1>5, StartOutcomes
    <2>3. \A k \in Keys : InPlace(value, touched, k) => InPlace(value', touched', k)
      BY <1>4, <2>1, <2>2 DEF InPlace, differences, SysctlJobs
    <2>4. ASSUME NEW ok \in BOOLEAN, SysctlsReport(job, ok, lane), running' = running,
                 ok => differences(job.settings) = {} \/ ~job.manage
          PROVE  Returned(job)
      <3> DEFINE r == [kind |-> "sysctls", scope |-> job.scope, seq |-> job.seq, ok |-> ok,
                       manifest |-> lane]
      <3>1. r \in Reports /\ done' = Append(done, r)
        BY <1>4, <2>1, <2>4 DEF Reports, SysctlJobs, SysctlsReport, Report
      <3>2. r.kind = job.kind /\ r.scope = job.scope /\ r.seq = job.seq /\ r.ok = ok
        BY <1>5
      <3> HIDE DEF r
      <3> QED
        BY <1>1, <1>5, <2>4, <3>1, <3>2 DEF Returned
    <2>5. CASE NothingToWrite(job)
      <3>1. SysctlsReport(job, TRUE, lane) /\ running' = running
            /\ (differences(job.settings) = {} \/ ~job.manage)
        BY <2>5 DEF NothingToWrite
      <3>2. Returned(job)
        BY <2>4, <3>1
      <3> QED
        BY <1>1, <1>2, <1>5, <2>2, <2>3, <3>2 DEF job
    <2>6. CASE CannotBegin(job)
      <3>1. SysctlsReport(job, FALSE, lane) /\ running' = running
        BY <2>6 DEF CannotBegin
      <3>2. Returned(job)
        BY <2>4, <3>1
      <3> QED
        BY <1>1, <1>2, <1>5, <2>2, <2>3, <3>2 DEF job
    <2>7. CASE BeginsToWrite(job)
      <3>1. done' = done /\ running' = [job EXCEPT !.settings = differences(job.settings)]
        BY <2>7 DEF BeginsToWrite
      <3>2. Begun(job)
        BY <1>5, <2>1, <3>1 DEF Begun, SysctlJobs
      <3> QED
        BY <1>1, <1>2, <1>5, <2>2, <2>3, <3>2 DEF job
    <2> QED
      BY <2>2, <2>5, <2>6, <2>7
  <1>6. CASE job.kind = "bind" /\ RunBind(job)
    <2>1. job.config \in Files
      BY <1>2, <1>6 DEF Jobs, SysctlJobs, BindJobs, HandBackJobs
    <2>2. PICK ok \in BOOLEAN :
            Report([kind |-> "bind", config |-> job.config, ok |-> ok, manifest |-> lane])
      BY <1>6 DEF RunBind
    <2> DEFINE r == [kind |-> "bind", config |-> job.config, ok |-> ok, manifest |-> lane]
    <2>3. r \in Reports /\ r.kind = "bind" /\ done' = Append(done, r)
      BY <1>4, <2>1, <2>2 DEF Reports, Report
    <2>4. running' = running /\ value' = value /\ touched' = touched
      BY <1>6 DEF RunBind, historyVars
    <2> HIDE DEF r
    <2>5. Returned(job)
      BY <1>1, <1>6, <2>3, <2>4 DEF Returned
    <2>6. \A k \in Keys : InPlace(value, touched, k) => InPlace(value', touched', k)
      BY <2>4 DEF InPlace
    <2> QED
      BY <1>1, <1>2, <2>4, <2>5, <2>6 DEF job
  <1>7. CASE job.kind = "handback" /\ StartHandBack(job)
    <2>1. done' = done /\ value' = value /\ touched' = touched
          /\ running' = [kind |-> "handback", ok |-> TRUE,
                         todo |-> {k \in DOMAIN lane : k.family \in job.families}]
      BY <1>7 DEF StartHandBack, historyVars
    <2>2. Begun(job)
      BY <1>7, <2>1 DEF Begun
    <2>3. \A k \in Keys : InPlace(value, touched, k) => InPlace(value', touched', k)
      BY <2>1 DEF InPlace
    <2> QED
      BY <1>1, <1>2, <2>1, <2>2, <2>3 DEF job
  <1> QED
    BY <1>3, <1>5, <1>6, <1>7

\* Who is ahead of whom stays, one place further on.
LEMMA TakenAhead ==
    ASSUME StateInv, persist_lane
    PROVE  /\ Len(queue) \in Nat \ {0} /\ Len(queue') = Len(queue) - 1
           /\ DOMAIN queue = 1..Len(queue) /\ DOMAIN queue' = 1..(Len(queue) - 1)
           /\ \A i \in DOMAIN queue' : queue'[i] = queue[i + 1] /\ i + 1 \in DOMAIN queue
           /\ queue[1] = Head(queue)
           /\ \A s, i : i \in 1..Len(queue) =>
                   (Ahead(sysctls_flight, done', running', queue', i, s)
                      <=> Ahead(sysctls_flight, done, running, queue, i + 1, s))
           /\ \A s : Answered(sysctls_flight, done, s) => Answered(sysctls_flight, done', s)
           /\ \A s : Answered(sysctls_flight, done', s) => Ahead(sysctls_flight, done, running, queue, 2, s)
           /\ \A s : ~Cur(sysctls_flight, running, s)
           /\ Todo(running) = {} /\ Todo(running') \subseteq GivenBy(queue[1])
  <1>1. /\ queue # << >> /\ queue' = Tail(queue) /\ running = Idle
        /\ sysctls_flight' = sysctls_flight
        /\ Returned(Head(queue)) \/ Begun(Head(queue))
        /\ Head(queue) \in Jobs
    BY Taken
  <1>2. queue \in Seq(Jobs) /\ done \in Seq(Reports)
    BY DEF StateInv, TypeInv
  <1>3. /\ Len(queue) \in Nat /\ DOMAIN queue = 1..Len(queue) /\ 1 \in DOMAIN queue
        /\ queue[1] = Head(queue)
        /\ Len(queue') = Len(queue) - 1 /\ DOMAIN queue' = 1..(Len(queue) - 1)
        /\ \A i \in DOMAIN queue' : queue'[i] = queue[i + 1]
    BY <1>1, <1>2, Places, Popped
  <1>4. /\ Len(queue) \in Nat \ {0}
        /\ \A i \in DOMAIN queue' : i + 1 \in DOMAIN queue
    BY <1>3, SMTT(60)
  <1>5. \A s, n : n \in 0..Len(queue') =>
          (Line(sysctls_flight, queue, n + 1, s)
             <=> Cur(sysctls_flight, queue[1], s) \/ Line(sysctls_flight, queue', n, s))
    BY <1>1, <1>2, LineTail
  <1>6. \A s : ~Cur(sysctls_flight, running, s) /\ ~Cur(sysctls_flight, Idle, s)
    BY <1>1 DEF Cur, Idle
  <1>7. \A s : \/ Line(sysctls_flight, done', Len(done'), s) \/ Cur(sysctls_flight, running', s)
               <=> Line(sysctls_flight, done, Len(done), s) \/ Cur(sysctls_flight, queue[1], s)
    <2>1. CASE Returned(Head(queue))
      <3>1. PICK r \in Reports :
              /\ done' = Append(done, r)
              /\ r.kind = queue[1].kind
              /\ queue[1].kind = "sysctls" => r.scope = queue[1].scope /\ r.seq = queue[1].seq
        BY <1>3, <2>1 DEF Returned
      <3>2. running' = Idle
        BY <2>1 DEF Returned
      <3>3. \A s : Cur(sysctls_flight, r, s) <=> Cur(sysctls_flight, queue[1], s)
        BY <3>1 DEF Cur
      <3>4. Len(done') = Len(done) + 1
        BY <1>2, <3>1, AtEnd
      <3>5. \A s : Line(sysctls_flight, Append(done, r), Len(done) + 1, s)
                     <=> Line(sysctls_flight, done, Len(done), s) \/ Cur(sysctls_flight, r, s)
        BY <1>2, LineAppend
      <3> QED
        BY <1>6, <3>1, <3>2, <3>3, <3>4, <3>5
    <2>2. CASE Begun(Head(queue))
      <3>1. done' = done
        BY <2>2 DEF Begun
      <3>2. \A s : Cur(sysctls_flight, running', s) <=> Cur(sysctls_flight, queue[1], s)
        BY <1>3, <2>2 DEF Begun, Cur
      <3> QED
        BY <3>1, <3>2
    <2> QED
      BY <1>1, <2>1, <2>2
  <1>8. \A s : Answered(sysctls_flight, done, s) => Answered(sysctls_flight, done', s)
    <2>1. CASE Returned(Head(queue))
      <3>1. PICK r \in Reports : done' = Append(done, r)
        BY <2>1 DEF Returned
      <3>2. Len(done') = Len(done) + 1
        BY <1>2, <3>1, AtEnd
      <3>3. \A s : Line(sysctls_flight, Append(done, r), Len(done) + 1, s)
                     <=> Line(sysctls_flight, done, Len(done), s) \/ Cur(sysctls_flight, r, s)
        BY <1>2, LineAppend
      <3> QED
        BY <1>1, <3>1, <3>2, <3>3 DEF Answered
    <2>2. CASE Begun(Head(queue))
      <3>1. done' = done
        BY <2>2 DEF Begun
      <3> QED
        BY <1>1, <3>1 DEF Answered
    <2> QED
      BY <1>1, <2>1, <2>2
  <1>9. \A s, i : i \in 1..Len(queue) =>
             (Ahead(sysctls_flight, done', running', queue', i, s)
                <=> Ahead(sysctls_flight, done, running, queue, i + 1, s))
    <2> SUFFICES ASSUME NEW s, NEW i, i \in 1..Len(queue)
                 PROVE  Ahead(sysctls_flight, done', running', queue', i, s)
                           <=> Ahead(sysctls_flight, done, running, queue, i + 1, s)
      OBVIOUS
    <2>1. i - 1 \in 0..Len(queue') /\ (i - 1) + 1 = i /\ (i + 1) - 1 = i
      BY <1>3, SMTT(60)
    <2>2. Line(sysctls_flight, queue, i, s)
             <=> Cur(sysctls_flight, queue[1], s) \/ Line(sysctls_flight, queue', i - 1, s)
      <3>1. Line(sysctls_flight, queue, (i - 1) + 1, s)
             <=> Cur(sysctls_flight, queue[1], s) \/ Line(sysctls_flight, queue', i - 1, s)
        BY <1>5, <2>1
      <3> QED
        BY <2>1, <3>1
    <2> QED
      BY <1>1, <1>6, <1>7, <2>1, <2>2 DEF Ahead, Answered
  <1>10. \A s : Answered(sysctls_flight, done', s) => Ahead(sysctls_flight, done, running, queue, 2, s)
    <2> SUFFICES ASSUME NEW s, Answered(sysctls_flight, done', s)
                 PROVE  Ahead(sysctls_flight, done, running, queue, 2, s)
      OBVIOUS
    <2>1. Ahead(sysctls_flight, done', running', queue', 1, s)
      BY DEF Ahead
    <2> QED
      BY <1>4, <1>9, <2>1, SMTT(60)
  <1>11. Todo(running) = {} /\ Todo(running') \subseteq GivenBy(queue[1])
    <2>1. Todo(running) = {}
      BY <1>1 DEF Todo, Idle
    <2>2. CASE Returned(Head(queue))
      <3>1. running' = Idle
        BY <2>2 DEF Returned
      <3>2. Todo(running') = {}
        BY <3>1 DEF Todo, Idle
      <3> QED
        BY <2>1, <3>2
    <2>3. CASE Begun(Head(queue))
      <3>1. CASE queue[1].kind = "handback"
        <4>1. running'.kind = "handback" /\ \A k \in running'.todo : k.family \in queue[1].families
          BY <1>3, <2>3, <3>1 DEF Begun
        <4>2. Todo(running') = {k.family : k \in running'.todo} /\ GivenBy(queue[1]) = queue[1].families
          BY <3>1, <4>1 DEF Todo, GivenBy
        <4> QED
          BY <2>1, <4>1, <4>2
      <3>2. CASE queue[1].kind # "handback"
        <4>1. running'.kind # "handback"
          BY <1>3, <2>3, <3>2 DEF Begun
        <4> QED
          BY <2>1, <4>1 DEF Todo
      <3> QED
        BY <3>1, <3>2
    <2> QED
      BY <1>1, <2>1, <2>2, <2>3
  <1> QED
    BY <1>3, <1>4, <1>6, <1>8, <1>9, <1>10, <1>11

\* The types that the lemmas below keep using.
LEMMA JobTypes ==
    ASSUME StateInv
    PROVE  /\ \A s \in DOMAIN sysctls_flight :
                /\ s \in Scopes
                /\ sysctls_flight[s].settings \subseteq Keys
                /\ sysctls_flight[s].manage \in BOOLEAN
           /\ \A s \in DOMAIN sysctls_applied :
                /\ sysctls_applied[s].settings \subseteq Keys
                /\ sysctls_applied[s].manage \in BOOLEAN
           /\ cfg.manage \in BOOLEAN
           /\ queue \in Seq(Jobs) /\ done \in Seq(Reports)
           /\ Len(queue) \in Nat /\ DOMAIN queue = 1..Len(queue)
           /\ Len(done) \in Nat /\ DOMAIN done = 1..Len(done)
           /\ \A s, f : Cur(f, Idle, s) = FALSE
  <1>1. queue \in Seq(Jobs) /\ done \in Seq(Reports)
    BY DEF StateInv, TypeInv
  <1>2. Len(queue) \in Nat /\ DOMAIN queue = 1..Len(queue)
        /\ Len(done) \in Nat /\ DOMAIN done = 1..Len(done)
    BY <1>1, Places
  <1>3. \A s \in DOMAIN sysctls_flight :
          /\ s \in Scopes
          /\ sysctls_flight[s].settings \subseteq Keys
          /\ sysctls_flight[s].manage \in BOOLEAN
    BY DEF StateInv, TypeInv, TypeOK, SysctlJobs, Scopes
  <1>4. \A s \in DOMAIN sysctls_applied :
          /\ sysctls_applied[s].settings \subseteq Keys
          /\ sysctls_applied[s].manage \in BOOLEAN
    BY DEF StateInv, TypeInv, SysctlJobs
  <1>5. cfg.manage \in BOOLEAN
    BY Constants DEF StateInv, TypeInv, TypeOK
  <1>6. \A s, f : Cur(f, Idle, s) = FALSE
    BY DEF Cur, Idle
  <1> QED
    BY <1>1, <1>2, <1>3, <1>4, <1>5, <1>6

\* Where the Bind jobs are after the lane took a job.
LEMMA TakenBinds ==
    ASSUME StateInv, persist_lane
    PROVE  /\ \A i \in Binds(queue') : i + 1 \in Binds(queue) /\ i \in 1..Len(queue)
           /\ \/ Binds(done') = Binds(done)
              \/ /\ 1 \in Binds(queue) /\ Todo(running') = {}
                 /\ Binds(done') = Binds(done) \cup {Len(done) + 1}
           /\ \A s, n : n \in 0..Len(done) =>
                (Line(sysctls_flight, done', n, s) <=> Line(sysctls_flight, done, n, s))
           /\ Todo(running') # {} => queue[1].kind = "handback"
  <1>1. /\ Len(queue) \in Nat \ {0}
        /\ DOMAIN queue = 1..Len(queue) /\ DOMAIN queue' = 1..(Len(queue) - 1)
        /\ \A i \in DOMAIN queue' : queue'[i] = queue[i + 1] /\ i + 1 \in DOMAIN queue
        /\ queue[1] = Head(queue)
        /\ Todo(running') \subseteq GivenBy(queue[1])
    BY TakenAhead
  <1>2. \A i \in Binds(queue') : i + 1 \in Binds(queue) /\ i \in 1..Len(queue)
    BY <1>1, SMTT(60) DEF Binds
  <1>3. done \in Seq(Reports) /\ Len(done) \in Nat /\ DOMAIN done = 1..Len(done)
    BY JobTypes
  <1>4. Todo(running') # {} => queue[1].kind = "handback"
    BY <1>1 DEF GivenBy
  <1>5. Returned(Head(queue)) \/ Begun(Head(queue))
    BY Taken
  <1>6. CASE Returned(Head(queue))
    <2>1. PICK r \in Reports : done' = Append(done, r) /\ r.kind = queue[1].kind
      BY <1>1, <1>6 DEF Returned
    <2>2. /\ DOMAIN done' = 1..(Len(done) + 1)
          /\ \A i \in 1..Len(done) : done'[i] = done[i]
          /\ done'[Len(done) + 1] = r
      BY <1>3, <2>1, AtEnd, SMTT(60)
    <2>3. \A s, n : n \in 0..Len(done) =>
            (Line(sysctls_flight, done', n, s) <=> Line(sysctls_flight, done, n, s))
      BY <1>3, <2>1, LineAppend
    <2>4. CASE queue[1].kind = "bind"
      <3>1. Todo(running') = {}
        BY <1>4, <2>4
      <3>2. 1 \in Binds(queue)
        BY <1>1, <2>4, SMTT(60) DEF Binds
      <3>3. Binds(done') = Binds(done) \cup {Len(done) + 1}
        BY <1>3, <2>1, <2>2, <2>4, SMTT(60) DEF Binds
      <3> QED
        BY <1>2, <1>4, <2>3, <3>1, <3>2, <3>3
    <2>5. CASE queue[1].kind # "bind"
      <3>1. Binds(done') = Binds(done)
        BY <1>3, <2>1, <2>2, <2>5, SMTT(60) DEF Binds
      <3> QED
        BY <1>2, <1>4, <2>3, <3>1
    <2> QED
      BY <2>4, <2>5
  <1>7. CASE Begun(Head(queue))
    <2>1. done' = done
      BY <1>7 DEF Begun
    <2> QED
      BY <1>2, <1>4, <2>1
  <1> QED
    BY <1>5, <1>6, <1>7

\* The lane's taking of a job keeps FlightInv.
LEMMA PersistFlight ==
    ASSUME StateInv, FlightInv, persist_lane
    PROVE  FlightInv'
  <1>1. /\ cfg' = cfg /\ sysctls_flight' = sysctls_flight /\ value' = value
        /\ Returned(Head(queue)) \/ Begun(Head(queue))
        /\ \A k \in Keys : InPlace(value, touched, k) => InPlace(value', touched', k)
    BY Taken
  <1>2. /\ Len(queue) \in Nat \ {0} /\ Len(queue') = Len(queue) - 1
        /\ DOMAIN queue = 1..Len(queue) /\ 1 \in DOMAIN queue
        /\ \A i \in DOMAIN queue' : queue'[i] = queue[i + 1] /\ i + 1 \in DOMAIN queue
        /\ queue[1] = Head(queue)
        /\ \A s, i : i \in 1..Len(queue) =>
             (Ahead(sysctls_flight, done', running', queue', i, s)
                <=> Ahead(sysctls_flight, done, running, queue, i + 1, s))
    BY TakenAhead, SMTT(60)
  <1>3. /\ \A s \in DOMAIN sysctls_flight :
             sysctls_flight[s].settings \subseteq Keys /\ sysctls_flight[s].manage \in BOOLEAN
        /\ done \in Seq(Reports) /\ Len(done) \in Nat /\ DOMAIN done = 1..Len(done)
        /\ \A s, f : Cur(f, Idle, s) = FALSE
    BY JobTypes
  <1>4. \A s \in DOMAIN sysctls_flight :
          /\ sysctls_flight[s].scope = s
          /\ sysctls_flight[s].settings = wanted_of(cfg, s)
          /\ sysctls_flight[s].manage = cfg.manage
          /\ Ahead(sysctls_flight, done', running', queue', Len(queue') + 1, s)
    <2>1. Len(queue) \in 1..Len(queue) /\ Len(queue') + 1 = Len(queue)
      BY <1>2, SMTT(60)
    <2>2. \A s : Ahead(sysctls_flight, done', running', queue', Len(queue), s)
                   <=> Ahead(sysctls_flight, done, running, queue, Len(queue) + 1, s)
      BY <1>2, <2>1
    <2> QED
      BY <2>1, <2>2 DEF FlightInv
  <1>5. \A i \in DOMAIN queue, s \in Scopes :
          Cur(sysctls_flight, queue[i], s) =>
            /\ queue[i].settings = sysctls_flight[s].settings
            /\ queue[i].manage = sysctls_flight[s].manage
    BY DEF FlightInv
  <1>6. \A i \in DOMAIN queue', s \in Scopes :
          Cur(sysctls_flight, queue'[i], s) =>
            /\ queue'[i].settings = sysctls_flight[s].settings
            /\ queue'[i].manage = sysctls_flight[s].manage
    BY <1>2, <1>5, SMTT(60)
  <1>7. \A s \in Scopes :
          Cur(sysctls_flight, running', s) =>
            \A k \in sysctls_flight[s].settings \ running'.settings : InPlace(value', touched', k)
    <2> SUFFICES ASSUME NEW s \in Scopes, Cur(sysctls_flight, running', s),
                        NEW k \in sysctls_flight[s].settings \ running'.settings
                 PROVE  InPlace(value', touched', k)
      OBVIOUS
    <2>1. Begun(Head(queue))
      BY <1>1, <1>3 DEF Returned
    <2>2. running'.kind = "sysctls" /\ s \in DOMAIN sysctls_flight
      BY DEF Cur
    <2>3. /\ queue[1].kind = "sysctls" /\ running'.scope = queue[1].scope
          /\ running'.seq = queue[1].seq /\ running'.settings = differences(queue[1].settings)
      BY <1>2, <2>1, <2>2 DEF Begun
    <2>4. Cur(sysctls_flight, queue[1], s)
      BY <2>3 DEF Cur
    <2>5. queue[1].settings = sysctls_flight[s].settings
      BY <1>2, <1>5, <2>4
    <2> QED
      BY <1>1, <2>3, <2>5 DEF differences, InPlace
  <1>8. \A i \in DOMAIN done', s \in Scopes :
          Cur(sysctls_flight, done'[i], s) /\ done'[i].ok /\ sysctls_flight[s].manage =>
            \A k \in sysctls_flight[s].settings : InPlace(value', touched', k)
    <2> SUFFICES ASSUME NEW i \in DOMAIN done', NEW s \in Scopes,
                        Cur(sysctls_flight, done'[i], s), done'[i].ok, sysctls_flight[s].manage,
                        NEW k \in sysctls_flight[s].settings
                 PROVE  InPlace(value', touched', k)
      OBVIOUS
    <2>1. s \in DOMAIN sysctls_flight /\ k \in Keys
      BY <1>3 DEF Cur
    <2>2. CASE i \in DOMAIN done /\ done'[i] = done[i]
      <3>1. InPlace(value, touched, k)
        BY <2>2 DEF FlightInv
      <3> QED
        BY <1>1, <2>1, <3>1
    <2>3. CASE ~(i \in DOMAIN done /\ done'[i] = done[i])
      <3>1. Returned(Head(queue))
        BY <1>1, <2>3 DEF Begun
      <3>2. PICK r \in Reports :
              /\ done' = Append(done, r)
              /\ r.kind = queue[1].kind
              /\ queue[1].kind = "sysctls" =>
                   /\ r.scope = queue[1].scope /\ r.seq = queue[1].seq
                   /\ r.ok => differences(queue[1].settings) = {} \/ ~queue[1].manage
        BY <1>2, <3>1 DEF Returned
      <3>3. /\ DOMAIN done' = 1..(Len(done) + 1)
            /\ \A j \in 1..Len(done) : done'[j] = done[j]
            /\ done'[Len(done) + 1] = r
        BY <1>3, <3>2, AtEnd, SMTT(60)
      <3>4. done'[i] = r
        BY <1>3, <2>3, <3>3, SMTT(60)
      <3>5. Cur(sysctls_flight, queue[1], s) /\ queue[1].kind = "sysctls"
        BY <3>2, <3>4 DEF Cur
      <3>6. queue[1].settings = sysctls_flight[s].settings /\ queue[1].manage = sysctls_flight[s].manage
        BY <1>2, <1>5, <3>5
      <3>7. differences(sysctls_flight[s].settings) = {}
        BY <3>2, <3>4, <3>5, <3>6
      <3> QED
        BY <1>1, <3>7 DEF differences, InPlace
    <2> QED
      BY <2>2, <2>3
  <1> QED
    BY <1>1, <1>4, <1>6, <1>7, <1>8 DEF FlightInv

\* The lane's taking of a job keeps OrderInv and ReloadInv.
LEMMA PersistOrder ==
    ASSUME StateInv, FlightInv, ReloadInv, OrderInv, persist_lane
    PROVE  ReloadInv' /\ OrderInv'
  <1> DEFINE F == sysctls_flight
             A == sysctls_applied
  <1>1. /\ cfg' = cfg /\ sysctls_flight' = F /\ sysctls_applied' = A
        /\ reload' = reload /\ pass' = pass
        /\ running = Idle
    BY Taken
  <1>2. /\ Len(queue) \in Nat \ {0} /\ 1 \in DOMAIN queue /\ 2 \in 1..(Len(queue) + 1)
        /\ DOMAIN queue' = 1..(Len(queue) - 1)
        /\ \A i \in DOMAIN queue' : queue'[i] = queue[i + 1] /\ i + 1 \in DOMAIN queue /\ i \in 1..Len(queue)
        /\ Todo(running) = {} /\ Todo(running') \subseteq GivenBy(queue[1])
    BY TakenAhead, SMTT(60)
  <1>3. /\ \A s, i : i \in 1..Len(queue) =>
             (Ahead(F, done', running', queue', i, s) <=> Ahead(F, done, running, queue, i + 1, s))
        /\ \A s : Answered(F, done, s) => Answered(F, done', s)
        /\ \A s : Answered(F, done', s) => Ahead(F, done, running, queue, 2, s)
        /\ \A s : ~Cur(F, running, s)
    BY TakenAhead
  <1>4. /\ \A i \in Binds(queue') : i + 1 \in Binds(queue) /\ i \in 1..Len(queue)
        /\ \/ Binds(done') = Binds(done)
           \/ /\ 1 \in Binds(queue) /\ Todo(running') = {}
              /\ Binds(done') = Binds(done) \cup {Len(done) + 1}
        /\ \A s, n : n \in 0..Len(done) => (Line(F, done', n, s) <=> Line(F, done, n, s))
        /\ Todo(running') # {} => queue[1].kind = "handback"
    BY TakenBinds
  <1>5. done \in Seq(Reports) /\ Len(done) \in Nat /\ DOMAIN done = 1..Len(done)
    BY JobTypes
  <1> HIDE DEF F, A
  <1>6. \A s : Ahead(F, done, running, queue, 1, s) <=> Answered(F, done, s)
    BY <1>3, SMTT(60) DEF Ahead, Line
  <1>7. \A s : Ahead(F, done, running, queue, 2, s)
                 <=> Answered(F, done, s) \/ Cur(F, queue[1], s)
    BY <1>3, SMTT(60) DEF Ahead, Line
  <1>8. \A s : Contested(A, running', queue', s) => Contested(A, running, queue, s)
    BY <1>2 DEF Contested, Uses
  <1>9. ReloadInv'
    <2>1. \A i, j \in Binds(queue') : i = j
      BY <1>2, <1>4, SMTT(60) DEF ReloadInv
    <2>2. CASE Binds(done') = Binds(done)
      BY <1>1, <1>4, <2>1, <2>2 DEF ReloadInv
    <2>3. CASE 1 \in Binds(queue) /\ Binds(done') = Binds(done) \cup {Len(done) + 1}
      <3>1. Binds(done) = {} /\ reload
        BY <2>3 DEF ReloadInv
      <3>2. \A i \in Binds(queue') : i + 1 = 1
        BY <1>4, <2>3 DEF ReloadInv
      <3>3. Binds(queue') = {}
        BY <1>4, <3>2, SMTT(60)
      <3> QED
        BY <1>1, <2>3, <3>1, <3>3 DEF ReloadInv
    <2> QED
      BY <1>4, <2>2, <2>3
  <1>10. \A i \in DOMAIN queue', s \in Scopes :
           Uses(A, s, GivenBy(queue'[i])) => Ahead(F, done', running', queue', i, s)
    BY <1>2, <1>3 DEF OrderInv, F, A
  <1>11. \A s \in Scopes : Uses(A, s, Todo(running')) => Answered(F, done', s)
    <2> SUFFICES ASSUME NEW s \in Scopes, Uses(A, s, Todo(running'))
                 PROVE  Answered(F, done', s)
      OBVIOUS
    <2>1. Uses(A, s, GivenBy(queue[1]))
      BY <1>2 DEF Uses
    <2>2. Ahead(F, done, running, queue, 1, s)
      BY <1>2, <2>1 DEF OrderInv, F, A
    <2> QED
      BY <1>3, <1>6, <2>2
  <1>12. \A i \in Binds(queue'), s \in Scopes :
           Extra(A, cfg, s) \/ Contested(A, running', queue', s) =>
             Ahead(F, done', running', queue', i, s)
    BY <1>3, <1>4, <1>8 DEF OrderInv, F, A
  <1>13. \A i \in Binds(done'), s \in Scopes :
           Extra(A, cfg, s) \/ Contested(A, running', queue', s) => Line(F, done', i - 1, s)
    <2> SUFFICES ASSUME NEW i \in Binds(done'), NEW s \in Scopes,
                        Extra(A, cfg, s) \/ Contested(A, running', queue', s)
                 PROVE  Line(F, done', i - 1, s)
      OBVIOUS
    <2>1. CASE i \in Binds(done)
      <3>1. Line(F, done, i - 1, s)
        BY <1>8, <2>1 DEF OrderInv, F, A
      <3>2. i - 1 \in 0..Len(done)
        BY <1>5, <2>1, SMTT(60) DEF Binds
      <3> QED
        BY <1>4, <3>1, <3>2
    <2>2. CASE i \notin Binds(done)
      <3>1. 1 \in Binds(queue) /\ i = Len(done) + 1
        BY <1>4, <2>2
      <3>2. Ahead(F, done, running, queue, 1, s)
        BY <1>8, <3>1 DEF OrderInv, F, A
      <3>3. Line(F, done, Len(done), s)
        BY <1>6, <3>2 DEF Answered
      <3>4. Len(done) \in 0..Len(done) /\ i - 1 = Len(done)
        BY <1>5, <3>1, SMTT(60)
      <3> QED
        BY <1>4, <3>3, <3>4
    <2> QED
      BY <2>1, <2>2
  <1>14. \A i \in DOMAIN queue', s \in Scopes :
           Ahead(F, done', running', queue', i, s) => GivenBy(queue'[i]) \cap cfg.families = {}
    BY <1>2, <1>3 DEF OrderInv, F, A
  <1>15. \A s \in Scopes : Answered(F, done', s) => Todo(running') \cap cfg.families = {}
    <2> SUFFICES ASSUME NEW s \in Scopes, Answered(F, done', s), Todo(running') # {}
                 PROVE  Todo(running') \cap cfg.families = {}
      OBVIOUS
    <2>1. queue[1].kind = "handback"
      BY <1>4
    <2>2. Ahead(F, done, running, queue, 1, s)
      BY <1>3, <1>6, <1>7, <2>1 DEF Cur
    <2>3. GivenBy(queue[1]) \cap cfg.families = {}
      BY <1>2, <2>2 DEF OrderInv, F
    <2> QED
      BY <1>2, <2>3
  <1>16. OrderInv'
    BY <1>1, <1>10, <1>11, <1>12, <1>13, <1>14, <1>15 DEF OrderInv, F, A
  <1> QED
    BY <1>9, <1>16

\* The lane's taking of a job keeps UseInv.
LEMMA PersistUse ==
    ASSUME StateInv, UseInv, persist_lane
    PROVE  UseInv'
  <1>1. cfg' = cfg /\ artifacts' = artifacts
    BY Taken
  <1>2. /\ Len(queue) \in Nat \ {0} /\ 1 \in DOMAIN queue
        /\ DOMAIN queue' = 1..(Len(queue) - 1)
        /\ \A i \in DOMAIN queue' : queue'[i] = queue[i + 1] /\ i + 1 \in DOMAIN queue
        /\ Todo(running') \subseteq GivenBy(queue[1])
    BY TakenAhead, SMTT(60)
  <1>3. /\ \A i \in Binds(queue') : i + 1 \in Binds(queue) /\ i \in 1..Len(queue)
        /\ \/ Binds(done') = Binds(done)
           \/ 1 \in Binds(queue) /\ Todo(running') = {}
    BY TakenBinds
  <1>4. cfg.manage => Todo(running') \cap artifacts = {}
                      /\ \A i \in DOMAIN queue' : GivenBy(queue'[i]) \cap artifacts = {}
    BY <1>2 DEF UseInv
  <1>5. ASSUME NEW j \in DOMAIN queue', Binds(done') # {} \/ (\E i \in Binds(queue') : i < j)
        PROVE  GivenBy(queue'[j]) \cap (cfg.families \cup artifacts) = {}
    <2>1. Binds(done) # {} \/ \E i \in Binds(queue) : i < j + 1
      <3>1. CASE \E i \in Binds(queue') : i < j
        <4>1. PICK i \in Binds(queue') : i < j
          BY <3>1
        <4>2. i + 1 \in Binds(queue) /\ i + 1 < j + 1
          BY <1>2, <1>3, <4>1, SMTT(60)
        <4> QED
          BY <4>2
      <3>2. CASE Binds(done') # {}
        <4>1. 1 < j + 1
          BY <1>2, SMTT(60)
        <4> QED
          BY <1>3, <3>2, <4>1
      <3> QED
        BY <1>5, <3>1, <3>2
    <2>2. GivenBy(queue[j + 1]) \cap (cfg.families \cup artifacts) = {}
      BY <1>2, <2>1 DEF UseInv
    <2> QED
      BY <1>2, <2>2
  <1>6. Binds(done') # {} => Todo(running') \cap (cfg.families \cup artifacts) = {}
    BY <1>2, <1>3 DEF UseInv
  <1> QED
    BY <1>1, <1>4, <1>5, <1>6 DEF UseInv

\* What others do, and values that the lane puts in place, keep the settings that
\* count as applied.
LEMMA AppliedKept ==
    ASSUME StateInv, AppliedInv,
           UNCHANGED <<mode, cfg, sysctls_pending, sysctls_flight, sysctls_applied, backoff, retry>>,
           \A k \in Keys : InPlace(value, touched, k) => InPlace(value', touched', k)
    PROVE  AppliedInv'
  <1>1. \A s \in DOMAIN sysctls_applied : sysctls_applied[s].settings \subseteq Keys
    BY JobTypes
  <1>2. \A s \in DOMAIN sysctls_applied :
          sysctls_applied[s].manage =>
            \A k \in sysctls_applied[s].settings :
              k.family \in cfg.families => InPlace(value', touched', k)
    BY <1>1 DEF AppliedInv
  <1> QED
    BY <1>2 DEF AppliedInv

\* The lane's taking of a job keeps LaneInv.
LEMMA PersistLane ==
    ASSUME StateInv, LaneInv, persist_lane
    PROVE  LaneInv'
  <1>1. AppliedInv'
    BY Taken, AppliedKept DEF LaneInv
  <1>2. value' = value
    BY Taken
  <1>3. GlobalInv'
    BY <1>2 DEF LaneInv, GlobalInv
  <1> QED
    BY <1>1, <1>3, PersistFlight, PersistOrder, PersistUse DEF LaneInv

-----------------------------------------------------------------------------
(* The running job goes on or ends. *)

\* A running job that goes on, with no more keys to give back, keeps the
\* order.
LEMMA RunsOn ==
    ASSUME StateInv, ReloadInv, OrderInv, UseInv,
           UNCHANGED <<queue, done, artifacts, cfg, sysctls_flight, sysctls_applied, reload>>,
           pass' \in {pass, "due"},
           \A s : Cur(sysctls_flight, running', s) <=> Cur(sysctls_flight, running, s),
           Todo(running') \subseteq Todo(running)
    PROVE  ReloadInv' /\ OrderInv' /\ UseInv'
  <1> DEFINE F == sysctls_flight
             A == sysctls_applied
  <1>1. \A s, i : Ahead(F, done, running', queue, i, s) <=> Ahead(F, done, running, queue, i, s)
    BY DEF Ahead
  <1>2. \A s : Contested(A, running', queue, s) => Contested(A, running, queue, s)
    BY DEF Contested, Uses
  <1>3. \A s : Uses(A, s, Todo(running')) => Uses(A, s, Todo(running))
    BY DEF Uses
  <1>4. \A S : Todo(running) \cap S = {} => Todo(running') \cap S = {}
    OBVIOUS
  <1>5. ReloadInv'
    BY DEF ReloadInv
  <1>6. OrderInv'
    <2> HIDE DEF F, A
    <2>1. \A i \in DOMAIN queue, s \in Scopes :
            Uses(A, s, GivenBy(queue[i])) => Ahead(F, done, running', queue, i, s)
      BY <1>1 DEF OrderInv, F, A
    <2>2. \A s \in Scopes : Uses(A, s, Todo(running')) => Answered(F, done, s)
      BY <1>3 DEF OrderInv, F, A
    <2>3. \A i \in Binds(queue), s \in Scopes :
            Extra(A, cfg, s) \/ Contested(A, running', queue, s) =>
              Ahead(F, done, running', queue, i, s)
      BY <1>1, <1>2 DEF OrderInv, F, A
    <2>4. \A i \in Binds(done), s \in Scopes :
            Extra(A, cfg, s) \/ Contested(A, running', queue, s) => Line(F, done, i - 1, s)
      BY <1>2 DEF OrderInv, F, A
    <2>5. \A s \in Scopes : pass' # "due" /\ Extra(A, cfg, s) => s \in DOMAIN F
      BY DEF OrderInv, F, A
    <2>6. \A i \in DOMAIN queue, s \in Scopes :
            Ahead(F, done, running', queue, i, s) => GivenBy(queue[i]) \cap cfg.families = {}
      BY <1>1 DEF OrderInv, F, A
    <2>7. \A s \in Scopes : Answered(F, done, s) => Todo(running') \cap cfg.families = {}
      BY <1>4 DEF OrderInv, F, A
    <2>8. F = sysctls_flight' /\ A = sysctls_applied'
      BY DEF F, A
    <2>9. cfg' = cfg /\ queue' = queue /\ done' = done
      OBVIOUS
    <2> QED
      BY <2>1, <2>2, <2>3, <2>4, <2>5, <2>6, <2>7, <2>8, <2>9 DEF OrderInv
  <1>7. UseInv'
    <2>1. cfg' = cfg /\ queue' = queue /\ done' = done /\ artifacts' = artifacts
      OBVIOUS
    <2>2. cfg.manage => Todo(running') \cap artifacts = {}
      BY <1>4 DEF UseInv
    <2>3. Binds(done) # {} => Todo(running') \cap (cfg.families \cup artifacts) = {}
      BY <1>4 DEF UseInv
    <2> QED
      BY <2>1, <2>2, <2>3 DEF UseInv
  <1> QED
    BY <1>5, <1>6, <1>7

\* FlightInv stays where no key that was in place stops being so.
LEMMA FlightKept ==
    ASSUME StateInv, FlightInv,
           UNCHANGED <<queue, running, done, cfg, sysctls_flight>>,
           \A k \in Keys : InPlace(value, touched, k) => InPlace(value', touched', k)
    PROVE  FlightInv'
  <1> DEFINE F == sysctls_flight
  <1>1. \A s \in DOMAIN F : F[s].settings \subseteq Keys
    BY JobTypes
  <1>2. \A s : Cur(F, running, s) => s \in DOMAIN F
    BY DEF Cur
  <1>3. \A i, s : Cur(F, done[i], s) => s \in DOMAIN F
    BY DEF Cur
  <1>4. \A s \in Scopes :
          Cur(F, running, s) =>
            \A k \in F[s].settings \ running.settings : InPlace(value', touched', k)
    <2> SUFFICES ASSUME NEW s \in Scopes, Cur(F, running, s),
                        NEW k \in F[s].settings \ running.settings
                 PROVE  InPlace(value', touched', k)
      OBVIOUS
    <2>1. k \in Keys
      BY <1>1, <1>2
    <2>2. InPlace(value, touched, k)
      BY DEF FlightInv
    <2> QED
      BY <2>1, <2>2
  <1>5. \A i \in DOMAIN done, s \in Scopes :
          Cur(F, done[i], s) /\ done[i].ok /\ F[s].manage =>
            \A k \in F[s].settings : InPlace(value', touched', k)
    <2> SUFFICES ASSUME NEW i \in DOMAIN done, NEW s \in Scopes,
                        Cur(F, done[i], s), done[i].ok, F[s].manage,
                        NEW k \in F[s].settings
                 PROVE  InPlace(value', touched', k)
      OBVIOUS
    <2>1. k \in Keys
      BY <1>1, <1>3
    <2>2. InPlace(value, touched, k)
      BY DEF FlightInv
    <2> QED
      BY <2>1, <2>2
  <1>6. queue' = queue /\ running' = running /\ done' = done /\ cfg' = cfg /\ sysctls_flight' = F
    OBVIOUS
  <1>7. \A s \in DOMAIN F :
          /\ F[s].scope = s /\ F[s].settings = wanted_of(cfg, s) /\ F[s].manage = cfg.manage
          /\ Ahead(F, done, running, queue, Len(queue) + 1, s)
    BY DEF FlightInv
  <1>8. \A i \in DOMAIN queue, s \in Scopes :
          Cur(F, queue[i], s) => queue[i].settings = F[s].settings /\ queue[i].manage = F[s].manage
    BY DEF FlightInv
  <1> HIDE DEF F
  <1>9. F = sysctls_flight'
    BY <1>6
  <1> QED
    BY <1>4, <1>5, <1>6, <1>7, <1>8, <1>9, SMTT(60) DEF FlightInv

\* Changes by others keep LaneInv: the keys they change are touched.
LEMMA OutsideLane ==
    ASSUME StateInv, LaneInv, NEW v \in [Keys -> Foreign \cup {Wanted, Absent}], Outside(v),
           \A k \in Keys : k.scope = Global => v[k] # Absent
    PROVE  LaneInv'
  <1>1. UNCHANGED <<queue, running, done, mode, artifacts, cfg, sysctls_pending, sysctls_flight,
                    sysctls_applied, backoff, retry, reload, pass>>
    BY DEF Outside, laneVars, daemonVars
  <1>2. value' = v /\ touched' = touched \cup {k \in Keys : v[k] # value[k]}
    BY DEF Outside
  <1>3. \A k \in Keys : InPlace(value, touched, k) => InPlace(value', touched', k)
    BY <1>2 DEF InPlace
  <1>4. GlobalInv'
    BY <1>2 DEF GlobalInv
  <1>5. FlightInv' /\ AppliedInv'
    BY <1>1, <1>3, FlightKept, AppliedKept DEF LaneInv
  <1>6. ReloadInv' /\ OrderInv' /\ UseInv'
    <2>1. Todo(running') \subseteq Todo(running) /\ pass' \in {pass, "due"}
      BY <1>1
    <2> QED
      BY <1>1, <2>1, RunsOn DEF LaneInv
  <1> QED
    BY <1>4, <1>5, <1>6 DEF LaneInv

\* A wake-up of the event loop keeps LaneInv.
LEMMA AwakeLane ==
    ASSUME StateInv, LaneInv, Awake, backoff' \subseteq backoff, retry' \in {retry, "none"}
    PROVE  LaneInv'
  <1>1. /\ UNCHANGED <<value, touched, queue, running, done, mode, artifacts, cfg, sysctls_pending,
                       sysctls_flight, sysctls_applied, reload>>
        /\ pass' = "due"
    BY DEF Awake, laneVars, historyVars, Event
  <1>2. \A k \in Keys : InPlace(value, touched, k) => InPlace(value', touched', k)
    BY <1>1 DEF InPlace
  <1>3. FlightInv' /\ GlobalInv'
    <2>1. GlobalInv'
      BY <1>1 DEF GlobalInv, LaneInv
    <2> QED
      BY <1>1, <1>2, <2>1, FlightKept DEF LaneInv
  <1>4. AppliedInv'
    BY <1>1 DEF LaneInv, AppliedInv
  <1>5. ReloadInv' /\ OrderInv' /\ UseInv'
    <2>1. Todo(running') \subseteq Todo(running) /\ pass' \in {pass, "due"}
      BY <1>1
    <2> QED
      BY <1>1, <2>1, RunsOn DEF LaneInv
  <1> QED
    BY <1>3, <1>4, <1>5 DEF LaneInv

\* A step that changes nothing keeps LaneInv.
LEMMA StutterLane ==
    ASSUME StateInv, LaneInv, UNCHANGED vars
    PROVE  LaneInv'
  <1>1. /\ UNCHANGED <<value, touched, queue, running, done, mode, artifacts, cfg, sysctls_pending,
                       sysctls_flight, sysctls_applied, backoff, retry, reload, pass>>
    BY DEF vars, laneVars, historyVars, daemonVars
  <1>2. \A k \in Keys : InPlace(value, touched, k) => InPlace(value', touched', k)
    BY <1>1 DEF InPlace
  <1>3. FlightInv' /\ AppliedInv' /\ GlobalInv'
    <2>1. GlobalInv'
      BY <1>1 DEF GlobalInv, LaneInv
    <2> QED
      BY <1>1, <1>2, <2>1, FlightKept, AppliedKept DEF LaneInv
  <1>4. ReloadInv' /\ OrderInv' /\ UseInv'
    <2>1. Todo(running') \subseteq Todo(running) /\ pass' \in {pass, "due"}
      BY <1>1
    <2> QED
      BY <1>1, <2>1, RunsOn DEF LaneInv
  <1> QED
    BY <1>3, <1>4 DEF LaneInv

\* The running job ends: its report follows those that wait.
Ends(r) ==
  /\ running' = Idle
  /\ done' = Append(done, r)
  /\ r.kind = running.kind
  /\ running.kind = "sysctls" =>
       /\ r.scope = running.scope /\ r.seq = running.seq
       /\ r.ok => running.settings = {}
  /\ running.kind \in {"sysctls", "handback"}
  /\ Todo(running) = {}
  /\ UNCHANGED <<value, touched, queue, mode, artifacts, cfg, sysctls_pending, sysctls_flight,
                 sysctls_applied, backoff, retry, reload, pass>>

\* The end of the running job keeps LaneInv.
LEMMA EndsLane ==
    ASSUME StateInv, LaneInv, NEW r \in Reports, Ends(r)
    PROVE  LaneInv'
  <1> DEFINE F == sysctls_flight
             A == sysctls_applied
  <1>1. /\ UNCHANGED <<value, touched, queue, mode, artifacts, cfg, sysctls_pending, sysctls_flight,
                       sysctls_applied, backoff, retry, reload, pass>>
        /\ running' = Idle /\ done' = Append(done, r)
    BY DEF Ends
  <1>2. /\ done \in Seq(Reports) /\ Len(done) \in Nat /\ DOMAIN done = 1..Len(done)
        /\ \A s, f : Cur(f, Idle, s) = FALSE
        /\ \A s \in DOMAIN F : F[s].settings \subseteq Keys
    BY JobTypes
  <1>3. /\ DOMAIN done' = 1..(Len(done) + 1) /\ Len(done') = Len(done) + 1
        /\ \A i \in 1..Len(done) : done'[i] = done[i]
        /\ done'[Len(done) + 1] = r
    BY <1>1, <1>2, AtEnd, SMTT(60)
  <1>4. \A s : Cur(F, r, s) <=> Cur(F, running, s)
    BY DEF Ends, Cur
  <1>5. \A s : Answered(F, done', s) <=> Answered(F, done, s) \/ Cur(F, running, s)
    <2>1. \A s : Line(F, done', Len(done) + 1, s) <=> Line(F, done, Len(done), s) \/ Cur(F, r, s)
      BY <1>1, <1>2, LineAppend
    <2> QED
      BY <1>3, <1>4, <2>1 DEF Answered
  <1>6. \A s, n : n \in 0..Len(done) => (Line(F, done', n, s) <=> Line(F, done, n, s))
    BY <1>1, <1>2, LineAppend
  <1> HIDE DEF F, A
  <1>7. \A i, s : Ahead(F, done', running', queue, i, s) <=> Ahead(F, done, running, queue, i, s)
    BY <1>1, <1>2, <1>5 DEF Ahead
  <1>8. Todo(running) = {} /\ Todo(running') = {}
    <2>1. Todo(running) = {}
      BY DEF Ends
    <2>2. Todo(running') = {}
      BY <1>1 DEF Todo, Idle
    <2> QED
      BY <2>1, <2>2
  <1>9. Binds(done') = Binds(done)
    <2>1. r.kind # "bind"
      BY DEF Ends
    <2> QED
      BY <1>2, <1>3, <2>1, SMTT(60) DEF Binds
  <1>10. FlightInv'
    <2>1. \A s \in DOMAIN F :
            /\ F[s].scope = s /\ F[s].settings = wanted_of(cfg, s) /\ F[s].manage = cfg.manage
            /\ Ahead(F, done', running', queue, Len(queue) + 1, s)
      BY <1>7 DEF LaneInv, FlightInv, F
    <2>2. ASSUME NEW i \in DOMAIN done', NEW s \in Scopes,
                 Cur(F, done'[i], s), done'[i].ok, F[s].manage, NEW k \in F[s].settings
          PROVE  InPlace(value, touched, k)
      <3>1. CASE i \in DOMAIN done /\ done'[i] = done[i]
        BY <2>2, <3>1 DEF LaneInv, FlightInv, F
      <3>2. CASE ~(i \in DOMAIN done /\ done'[i] = done[i])
        <4>1. done'[i] = r
          BY <1>2, <1>3, <3>2, SMTT(60)
        <4>2. Cur(F, running, s) /\ r.ok
          BY <1>4, <2>2, <4>1
        <4>3. running.settings = {}
          BY <4>2 DEF Cur, Ends
        <4>4. k \in F[s].settings \ running.settings
          BY <2>2, <4>3
        <4> QED
          BY <4>2, <4>4 DEF LaneInv, FlightInv, F
      <3> QED
        BY <3>1, <3>2
    <2>3. \A s : ~Cur(F, running', s)
      BY <1>1, <1>2
    <2>4. F = sysctls_flight' /\ cfg' = cfg /\ queue' = queue /\ value' = value /\ touched' = touched
      BY <1>1 DEF F
    <2>5. \A i \in DOMAIN queue, s \in Scopes :
            Cur(F, queue[i], s) =>
              queue[i].settings = F[s].settings /\ queue[i].manage = F[s].manage
      BY DEF LaneInv, FlightInv, F
    <2> QED
      BY <2>1, <2>2, <2>3, <2>4, <2>5 DEF FlightInv
  <1>11. AppliedInv' /\ GlobalInv'
    BY <1>1 DEF LaneInv, AppliedInv, GlobalInv
  <1>12. ReloadInv'
    <2>1. queue' = queue /\ reload' = reload
      BY <1>1
    <2> QED
      BY <1>9, <2>1 DEF LaneInv, ReloadInv
  <1>13. UseInv'
    <2>1. cfg' = cfg /\ queue' = queue /\ artifacts' = artifacts
      BY <1>1
    <2> QED
      BY <1>8, <1>9, <2>1 DEF LaneInv, UseInv
  <1>14. OrderInv'
    <2>1. \A i \in DOMAIN queue, s \in Scopes :
            Uses(A, s, GivenBy(queue[i])) => Ahead(F, done', running', queue, i, s)
      BY <1>7 DEF LaneInv, OrderInv, F, A
    <2>2. \A s \in Scopes : Uses(A, s, Todo(running')) => Answered(F, done', s)
      BY <1>5, <1>8 DEF LaneInv, OrderInv, F, A
    <2>3. \A s : Contested(A, running', queue, s) => Contested(A, running, queue, s)
      BY <1>8 DEF Contested
    <2>4. \A i \in Binds(queue), s \in Scopes :
            Extra(A, cfg, s) \/ Contested(A, running', queue, s) =>
              Ahead(F, done', running', queue, i, s)
      BY <1>7, <2>3 DEF LaneInv, OrderInv, F, A
    <2>5. \A i \in Binds(done'), s \in Scopes :
            Extra(A, cfg, s) \/ Contested(A, running', queue, s) => Line(F, done', i - 1, s)
      <3>1. \A i \in Binds(done) : i - 1 \in 0..Len(done)
        BY <1>2, SMTT(60) DEF Binds
      <3> QED
        BY <1>6, <1>9, <2>3, <3>1 DEF LaneInv, OrderInv, F, A
    <2>6. \A s \in Scopes : pass # "due" /\ Extra(A, cfg, s) => s \in DOMAIN F
      BY DEF LaneInv, OrderInv, F, A
    <2>7. \A i \in DOMAIN queue, s \in Scopes :
            Ahead(F, done', running', queue, i, s) => GivenBy(queue[i]) \cap cfg.families = {}
      BY <1>7 DEF LaneInv, OrderInv, F, A
    <2>8. \A s \in Scopes : Answered(F, done', s) => Todo(running') \cap cfg.families = {}
      BY <1>8
    <2>9. F = sysctls_flight' /\ A = sysctls_applied' /\ cfg' = cfg /\ queue' = queue /\ pass' = pass
      BY <1>1 DEF F, A
    <2> QED
      BY <2>1, <2>2, <2>4, <2>5, <2>6, <2>7, <2>8, <2>9 DEF OrderInv
  <1> QED
    BY <1>10, <1>11, <1>12, <1>13, <1>14 DEF LaneInv

-----------------------------------------------------------------------------
(* An empty lane. *)

\* Nothing is in an empty line.
LEMMA EmptyLine ==
    /\ Binds(<< >>) = {} /\ DOMAIN << >> = {}
    /\ \A f, s : DOMAIN f = {} => ~Answered(f, << >>, s)
    /\ \A a, c, s : DOMAIN a = {} => ~Extra(a, c, s)
    /\ \A a, F, s : DOMAIN a = {} => ~Uses(a, s, F)
    /\ \A f, r, s : DOMAIN f = {} => ~Cur(f, r, s)
  <1>1. DOMAIN << >> = {}
    BY Empty
  <1>2. \A f, r, s : DOMAIN f = {} => ~Cur(f, r, s)
    BY DEF Cur
  <1>3. \A f, s : DOMAIN f = {} => ~Answered(f, << >>, s)
    BY <1>2 DEF Answered, Line
  <1>4. Binds(<< >>) = {}
    BY <1>1 DEF Binds
  <1> QED
    BY <1>1, <1>2, <1>3, <1>4 DEF Extra, Uses

\* LaneInv holds at the beginning.
LEMMA InitLane ==
    ASSUME Init
    PROVE  LaneInv
  <1>1. /\ queue = << >> /\ done = << >> /\ running = Idle /\ mode = "down"
        /\ sysctls_flight = << >> /\ sysctls_applied = << >>
        /\ backoff = {} /\ retry = "none" /\ value = [k \in Keys |-> Default]
    BY DEF Init
  <1>2. /\ DOMAIN queue = {} /\ DOMAIN done = {} /\ Binds(queue) = {} /\ Binds(done) = {}
        /\ DOMAIN sysctls_flight = {} /\ DOMAIN sysctls_applied = {}
        /\ \A s : ~Answered(sysctls_flight, done, s)
        /\ \A c, s : ~Extra(sysctls_applied, c, s)
        /\ \A F, s : ~Uses(sysctls_applied, s, F)
        /\ \A r, s : ~Cur(sysctls_flight, r, s)
    BY <1>1, EmptyLine
  <1>3. Todo(running) = {}
    BY <1>1 DEF Todo, Idle
  <1>4. GlobalInv
    BY <1>1, Constants DEF GlobalInv
  <1>5. FlightInv /\ AppliedInv /\ ReloadInv
    <2>1. mode # "run" /\ retry # "sysctls"
      BY <1>1
    <2> QED
      BY <1>1, <1>2, <2>1 DEF FlightInv, AppliedInv, ReloadInv
  <1>6. OrderInv
    BY <1>2 DEF OrderInv
  <1>7. UseInv
    BY <1>2, <1>3 DEF UseInv
  <1> QED
    BY <1>4, <1>5, <1>6, <1>7 DEF LaneInv

\* LaneInv holds of an empty lane and an idle daemon.
LEMMA EmptyLane ==
    ASSUME queue' = << >>, done' = << >>, Todo(running') = {},
           DOMAIN sysctls_flight' = {}, DOMAIN sysctls_applied' = {},
           backoff' = {}, retry' = "none",
           mode' = "run" => sysctls_pending' = sysctl_scopes(cfg'),
           GlobalInv'
    PROVE  LaneInv'
  <1>2. /\ DOMAIN queue' = {} /\ DOMAIN done' = {} /\ Binds(queue') = {} /\ Binds(done') = {}
        /\ \A s : ~Answered(sysctls_flight', done', s)
        /\ \A c, s : ~Extra(sysctls_applied', c, s)
        /\ \A F, s : ~Uses(sysctls_applied', s, F)
        /\ \A r, s : ~Cur(sysctls_flight', r, s)
    BY EmptyLine
  <1>5. FlightInv' /\ AppliedInv' /\ ReloadInv'
    <2>1. retry' # "sysctls"
      OBVIOUS
    <2>2. FlightInv'
      BY <1>2 DEF FlightInv
    <2>3. ReloadInv'
      BY <1>2 DEF ReloadInv
    <2>4. AppliedInv'
      BY <2>1 DEF AppliedInv
    <2> QED
      BY <2>2, <2>3, <2>4
  <1>6. OrderInv'
    BY <1>2 DEF OrderInv
  <1>7. UseInv'
    BY <1>2 DEF UseInv
  <1> QED
    BY <1>5, <1>6, <1>7 DEF LaneInv

\* Nothing is left of the lane in a process that does not run.
LEMMA DownLane ==
    ASSUME TypeInv', ModeInv', mode' # "run", GlobalInv'
    PROVE  LaneInv'
  <1>1. /\ queue' = << >> /\ done' = << >>
        /\ DOMAIN sysctls_flight' = {} /\ DOMAIN sysctls_applied' = {}
        /\ backoff' = {} /\ retry' = "none"
    BY DEF ModeInv
  <1>2. mode' \in {"down", "cleanup"}
    BY DEF TypeInv, TypeOK
  <1>3. running' = Idle \/ running'.kind = "cleanup"
    BY <1>2 DEF ModeInv
  <1>4. Todo(running') = {}
    BY <1>3, SMTT(60) DEF Todo, Idle
  <1> QED
    BY <1>1, <1>4, EmptyLane

\* A start establishes LaneInv.
LEMMA StartLane ==
    ASSUME StateInv, LaneInv, NEW c \in Files, Start(c)
    PROVE  LaneInv'
  <1>1. mode = "down" /\ cfg' = c /\ sysctls_pending' = sysctl_scopes(c)
        /\ UNCHANGED <<value, queue, running, done, sysctls_flight, sysctls_applied, backoff, retry>>
    BY DEF Start
  <1>2. /\ queue' = << >> /\ done' = << >> /\ running' = Idle
        /\ DOMAIN sysctls_flight' = {} /\ DOMAIN sysctls_applied' = {}
        /\ backoff' = {} /\ retry' = "none"
    BY <1>1 DEF StateInv, ModeInv
  <1>3. Todo(running') = {}
    BY <1>2 DEF Todo, Idle
  <1>4. GlobalInv'
    BY <1>1 DEF LaneInv, GlobalInv
  <1>5. sysctls_pending' = sysctl_scopes(cfg')
    BY <1>1
  <1> QED
    BY <1>2, <1>3, <1>4, <1>5, EmptyLane

\* Restoring gives no setting the value of a missing key.
LEMMA RestoreGlobal ==
    ASSUME TypeInv, GlobalInv, NEW k \in Keys, k \in DOMAIN lane, Restore(k, lane)
    PROVE  GlobalInv'
  <1>1. lane[k] \in Foreign
    BY ManifestType, SMTT(60) DEF TypeInv, TypeOK
  <1>2. value \in [Keys -> Foreign \cup {Wanted, Absent}]
    BY DEF TypeInv, TypeOK
  <1>3. value' = value \/ value' = [value EXCEPT ![k] = lane[k]]
    BY DEF Restore
  <1> QED
    BY <1>1, <1>2, <1>3, Constants DEF GlobalInv

-----------------------------------------------------------------------------
(* The lane's job. *)

\* A value written by apply_sysctls keeps LaneInv.
LEMMA WriteValueLane ==
    ASSUME StateInv, LaneInv, NEW k \in Keys, WriteValue(k)
    PROVE  LaneInv'
  <1>1. /\ running.kind = "sysctls" /\ running \in SysctlJobs
        /\ UNCHANGED <<queue, mode, artifacts, cfg, sysctls_pending, sysctls_flight,
                       sysctls_applied, backoff, retry, reload, pass>>
    <2>1. running.kind = "sysctls"
      BY DEF WriteValue
    <2> QED
      BY <2>1, SMTT(60) DEF StateInv, TypeInv, Restorations, Idle, WriteValue, daemonVars
  <1>2. value \in [Keys -> Foreign \cup {Wanted, Absent}] /\ lane \in Manifests
    BY DEF StateInv, TypeInv, TypeOK
  <1>3. CASE /\ value[k] # Absent
             /\ value' = [value EXCEPT ![k] = Wanted]
             /\ touched' = touched \ {k}
             /\ running' = [running EXCEPT !.settings = running.settings \ {k}]
             /\ done' = done
    <2>1. \A x \in Keys : InPlace(value, touched, x) => InPlace(value', touched', x)
      BY <1>2, <1>3 DEF InPlace
    <2>2. InPlace(value', touched', k)
      BY <1>2, <1>3 DEF InPlace
    <2>3. running'.kind = "sysctls" /\ running'.scope = running.scope /\ running'.seq = running.seq
          /\ running'.settings = running.settings \ {k}
      BY <1>1, <1>3 DEF SysctlJobs
    <2>4. \A s : Cur(sysctls_flight, running', s) <=> Cur(sysctls_flight, running, s)
      BY <1>1, <2>3 DEF Cur
    <2>5. Todo(running) = {} /\ Todo(running') = {}
      BY <1>1, <2>3 DEF Todo
    <2>6. GlobalInv'
      BY <1>2, <1>3, Constants DEF LaneInv, GlobalInv
    <2>7. AppliedInv'
      BY <1>1, <2>1, AppliedKept DEF LaneInv
    <2>8. ReloadInv' /\ OrderInv' /\ UseInv'
      <3>1. Todo(running') \subseteq Todo(running) /\ pass' \in {pass, "due"}
        BY <1>1, <2>5
      <3> QED
        BY <1>1, <1>3, <2>4, <3>1, RunsOn DEF LaneInv
    <2>9. FlightInv'
      <3> DEFINE F == sysctls_flight
      <3>1. \A s \in DOMAIN F : F[s].settings \subseteq Keys
        BY JobTypes
      <3>2. \A j, s : Cur(F, j, s) => s \in DOMAIN F
        BY DEF Cur
      <3>3. ASSUME NEW s \in Scopes, Cur(F, running', s), NEW x \in F[s].settings \ running'.settings
            PROVE  InPlace(value', touched', x)
        <4>1. CASE x = k
          BY <2>2, <4>1
        <4>2. CASE x # k
          <5>1. Cur(F, running, s) /\ x \in F[s].settings \ running.settings
            BY <2>3, <2>4, <3>3, <4>2
          <5>2. InPlace(value, touched, x)
            BY <5>1 DEF LaneInv, FlightInv
          <5> QED
            BY <2>1, <3>1, <3>2, <5>1, <5>2
        <4> QED
          BY <4>1, <4>2
      <3>4. ASSUME NEW i \in DOMAIN done, NEW s \in Scopes, Cur(F, done[i], s), done[i].ok,
                   F[s].manage, NEW x \in F[s].settings
            PROVE  InPlace(value', touched', x)
        <4>1. InPlace(value, touched, x)
          BY <3>4 DEF LaneInv, FlightInv
        <4> QED
          BY <2>1, <3>1, <3>2, <3>4, <4>1
      <3>5. \A s \in DOMAIN F :
              /\ F[s].scope = s /\ F[s].settings = wanted_of(cfg, s) /\ F[s].manage = cfg.manage
              /\ Ahead(F, done, running', queue, Len(queue) + 1, s)
        BY <2>4 DEF LaneInv, FlightInv, Ahead
      <3>6. \A i \in DOMAIN queue, s \in Scopes :
              Cur(F, queue[i], s) => queue[i].settings = F[s].settings /\ queue[i].manage = F[s].manage
        BY DEF LaneInv, FlightInv
      <3>7. F = sysctls_flight' /\ queue' = queue /\ cfg' = cfg /\ done' = done
        BY <1>1, <1>3
      <3> HIDE DEF F
      <3> QED
        BY <3>3, <3>4, <3>5, <3>6, <3>7 DEF FlightInv
    <2> QED
      BY <2>6, <2>7, <2>8, <2>9 DEF LaneInv
  <1>4. CASE /\ running' = Idle
             /\ SysctlsReport(running, FALSE, lane)
             /\ UNCHANGED <<value, touched>>
    <2> DEFINE r == [kind |-> "sysctls", scope |-> running.scope, seq |-> running.seq,
                     ok |-> FALSE, manifest |-> lane]
    <2>1. r \in Reports /\ done' = Append(done, r)
      BY <1>1, <1>2, <1>4 DEF Reports, SysctlJobs, SysctlsReport, Report
    <2>2. r.kind = "sysctls" /\ r.scope = running.scope /\ r.seq = running.seq /\ ~r.ok
      OBVIOUS
    <2> HIDE DEF r
    <2>3. Todo(running) = {}
      BY <1>1 DEF Todo
    <2>4. Ends(r)
      BY <1>1, <1>4, <2>1, <2>2, <2>3 DEF Ends
    <2> QED
      BY <2>1, <2>4, EndsLane
  <1>5. \/ /\ value[k] # Absent
           /\ value' = [value EXCEPT ![k] = Wanted]
           /\ touched' = touched \ {k}
           /\ running' = [running EXCEPT !.settings = running.settings \ {k}]
           /\ done' = done
        \/ /\ running' = Idle
           /\ SysctlsReport(running, FALSE, lane)
           /\ value' = value /\ touched' = touched
    BY DEF WriteValue
  <1> QED
    BY <1>3, <1>4, <1>5

\* The end of a sysctl job keeps LaneInv.
LEMMA EndSysctlsLane ==
    ASSUME StateInv, LaneInv, EndSysctls
    PROVE  LaneInv'
  <1>1. /\ running.kind = "sysctls" /\ running.settings = {} /\ running' = Idle
        /\ UNCHANGED <<value, touched, queue, mode, artifacts, cfg, sysctls_pending, sysctls_flight,
                       sysctls_applied, backoff, retry, reload, pass>>
    BY DEF EndSysctls, daemonVars, historyVars
  <1>2. running \in SysctlJobs /\ lane \in Manifests
    BY <1>1, SMTT(60) DEF StateInv, TypeInv, TypeOK, Restorations, Idle
  <1> DEFINE r == [kind |-> "sysctls", scope |-> running.scope, seq |-> running.seq,
                   ok |-> TRUE, manifest |-> lane]
  <1>3. r \in Reports /\ done' = Append(done, r)
    BY <1>2 DEF EndSysctls, Reports, SysctlJobs, SysctlsReport, Report
  <1>4. r.kind = "sysctls" /\ r.scope = running.scope /\ r.seq = running.seq
    OBVIOUS
  <1> HIDE DEF r
  <1>5. Todo(running) = {}
    BY <1>1 DEF Todo
  <1>6. Ends(r)
    BY <1>1, <1>3, <1>4, <1>5 DEF Ends
  <1> QED
    BY <1>3, <1>6, EndsLane

\* The end of a hand-back keeps LaneInv.
LEMMA EndHandBackLane ==
    ASSUME StateInv, LaneInv, EndHandBack
    PROVE  LaneInv'
  <1>1. /\ running.kind = "handback" /\ running.todo = {} /\ running' = Idle
        /\ UNCHANGED <<value, touched, queue, mode, artifacts, cfg, sysctls_pending, sysctls_flight,
                       sysctls_applied, backoff, retry, reload, pass>>
    BY DEF EndHandBack, daemonVars, historyVars
  <1>2. running \in Restorations /\ lane \in Manifests
    BY <1>1, SMTT(60) DEF StateInv, TypeInv, TypeOK, SysctlJobs, Idle
  <1>3. PICK ok \in BOOLEAN :
          Report([kind |-> "handback", ok |-> ok /\ running.ok, manifest |-> lane])
    BY DEF EndHandBack
  <1> DEFINE b == ok /\ running.ok
             r == [kind |-> "handback", ok |-> b, manifest |-> lane]
  <1>4. b \in BOOLEAN
    OBVIOUS
  <1>5. done' = Append(done, r)
    BY <1>3 DEF Report
  <1> HIDE DEF b
  <1>6. r \in Reports /\ r.kind = "handback"
    BY <1>2, <1>4 DEF Reports
  <1> HIDE DEF r
  <1>7. Todo(running) = {}
    BY <1>1 DEF Todo
  <1>8. Ends(r)
    BY <1>1, <1>5, <1>6, <1>7 DEF Ends
  <1> QED
    BY <1>6, <1>8, EndsLane

\* A key handed back keeps LaneInv: none that counts as applied is of that
\* family, unless the job that replaces the settings has reported.
LEMMA HandBackKeyLane ==
    ASSUME StateInv, LaneInv, NEW k \in Keys, HandBackKey(k)
    PROVE  LaneInv'
  <1> DEFINE F == sysctls_flight
             A == sysctls_applied
  <1>1. /\ running.kind = "handback" /\ k \in running.todo /\ mode = "run"
        /\ UNCHANGED <<queue, done, mode, artifacts, cfg, sysctls_pending, sysctls_flight,
                       sysctls_applied, backoff, retry, reload, pass, touched>>
    BY DEF HandBackKey, daemonVars
  <1>2. running \in Restorations /\ TypeInv
    BY <1>1, SMTT(60) DEF StateInv, TypeInv, SysctlJobs, Idle
  <1>3. \/ /\ Restore(k, lane)
           /\ running' = [running EXCEPT !.todo = running.todo \ {k}]
        \/ /\ value' = value
           /\ running' = [running EXCEPT !.todo = running.todo \ {k}, !.ok = FALSE]
    BY DEF HandBackKey
  <1>4. running'.kind = "handback" /\ running'.todo = running.todo \ {k}
    <2> DEFINE r1 == [running EXCEPT !.todo = running.todo \ {k}]
               r2 == [running EXCEPT !.todo = running.todo \ {k}, !.ok = FALSE]
    <2>1. /\ r1.kind = running.kind /\ r1.todo = running.todo \ {k}
          /\ r2.kind = running.kind /\ r2.todo = running.todo \ {k}
      BY <1>2, LessToDo
    <2>2. running' = r1 \/ running' = r2
      BY <1>3
    <2> HIDE DEF r1, r2
    <2> QED
      BY <1>1, <2>1, <2>2
  <1>5. k \in DOMAIN lane
    BY <1>1 DEF StateInv, BaseInv
  <1>6. \A x \in Keys : x # k => value'[x] = value[x]
    <2>1. value \in [Keys -> Foreign \cup {Wanted, Absent}]
      BY <1>2 DEF TypeInv, TypeOK
    <2>2. value' = value \/ value' = [value EXCEPT ![k] = lane[k]]
      BY <1>3 DEF Restore
    <2> QED
      BY <2>1, <2>2
  <1>7. GlobalInv'
    <2>1. CASE Restore(k, lane)
      BY <1>2, <1>5, <2>1, RestoreGlobal DEF LaneInv
    <2>2. CASE value' = value
      BY <2>2 DEF LaneInv, GlobalInv
    <2> QED
      BY <1>3, <2>1, <2>2
  <1>8. k.family \in Todo(running) /\ Todo(running') \subseteq Todo(running)
    BY <1>1, <1>4 DEF Todo
  <1>9. \A s : ~Cur(F, running, s) /\ ~Cur(F, running', s)
    BY <1>1, <1>4 DEF Cur
  <1>10. ReloadInv' /\ OrderInv' /\ UseInv'
    <2>1. pass' \in {pass, "due"}
      BY <1>1
    <2>2. \A s : Cur(F, running', s) <=> Cur(F, running, s)
      BY <1>9
    <2> QED
      BY <1>1, <1>8, <2>1, <2>2, RunsOn DEF LaneInv
  \* The settings that count as applied, or that a report says are, are not those
  \* that are handed back.
  <1>11. \A s \in Scopes : Answered(F, done, s) => k.family \notin cfg.families
    <2>1. \A s \in Scopes : Answered(F, done, s) => Todo(running) \cap cfg.families = {}
      BY DEF LaneInv, OrderInv
    <2> QED
      BY <1>8, <2>1
  <1>12. \A x \in Keys : x # k /\ InPlace(value, touched, x) => InPlace(value', touched', x)
    BY <1>1, <1>6 DEF InPlace
  <1>13. AppliedInv'
    <2>1. ASSUME NEW s \in DOMAIN A, A[s].manage, NEW x \in A[s].settings, x.family \in cfg.families
          PROVE  InPlace(value', touched', x)
      <3>1. x \in Keys /\ s \in Scopes
        <4>1. s \in sysctl_scopes(cfg) /\ cfg \in Files
          BY <1>1, <1>2 DEF LaneInv, AppliedInv, TypeInv, TypeOK
        <4> QED
          BY <2>1, <4>1, JobTypes, Scoped
      <3>2. InPlace(value, touched, x)
        BY <2>1 DEF LaneInv, AppliedInv
      <3>3. x # k
        <4> SUFFICES ASSUME x = k
                     PROVE  FALSE
          OBVIOUS
        <4>1. Uses(A, s, Todo(running))
          BY <1>8, <2>1 DEF Uses
        <4>2. Answered(F, done, s)
          BY <3>1, <4>1 DEF LaneInv, OrderInv
        <4> QED
          BY <1>11, <2>1, <3>1, <4>2
      <3> QED
        BY <1>12, <3>1, <3>2, <3>3
    <2>2. A = sysctls_applied' /\ F = sysctls_flight'
      BY <1>1
    <2> HIDE DEF A, F
    <2>3. \A s \in DOMAIN A :
            A[s].manage =>
              \A x \in A[s].settings : x.family \in cfg.families => InPlace(value', touched', x)
      BY <2>1
    <2>4. /\ sysctls_pending \subseteq sysctl_scopes(cfg)
          /\ DOMAIN A \subseteq sysctl_scopes(cfg)
          /\ \A s \in sysctl_scopes(cfg) \ sysctls_pending :
               s \in DOMAIN A /\ A[s].settings = wanted_of(cfg, s) /\ A[s].manage = cfg.manage
          /\ backoff \cap DOMAIN A = {}
          /\ retry = "sysctls" => Global \notin DOMAIN A \cup DOMAIN F
      BY <1>1 DEF LaneInv, AppliedInv, A, F
    <2> QED
      BY <1>1, <2>2, <2>3, <2>4 DEF AppliedInv
  <1>14. FlightInv'
    <2>1. ASSUME NEW i \in DOMAIN done, NEW s \in Scopes, Cur(F, done[i], s), done[i].ok,
                 F[s].manage, NEW x \in F[s].settings
          PROVE  InPlace(value', touched', x)
      <3>1. s \in DOMAIN F
        BY <2>1 DEF Cur
      <3>2. Answered(F, done, s)
        <4>1. DOMAIN done = 1..Len(done)
          BY JobTypes
        <4> QED
          BY <2>1, <4>1 DEF Answered, Line
      <3>3. x \in wanted_of(cfg, s)
        BY <2>1, <3>1 DEF LaneInv, FlightInv
      <3>4. x \in Keys /\ x.family \in cfg.families
        BY <3>3 DEF wanted_of, desired
      <3>5. InPlace(value, touched, x)
        BY <2>1 DEF LaneInv, FlightInv
      <3> QED
        BY <1>11, <1>12, <3>2, <3>4, <3>5
    <2>2. F = sysctls_flight'
      BY <1>1
    <2>3. \A s \in DOMAIN F :
            /\ F[s].scope = s /\ F[s].settings = wanted_of(cfg, s) /\ F[s].manage = cfg.manage
            /\ Ahead(F, done, running', queue, Len(queue) + 1, s)
      BY <1>9 DEF LaneInv, FlightInv, Ahead
    <2>4. \A i \in DOMAIN queue, s \in Scopes :
            Cur(F, queue[i], s) => queue[i].settings = F[s].settings /\ queue[i].manage = F[s].manage
      BY DEF LaneInv, FlightInv
    <2>5. cfg' = cfg /\ queue' = queue /\ done' = done
      BY <1>1
    <2> HIDE DEF F
    <2> QED
      BY <1>9, <2>1, <2>2, <2>3, <2>4, <2>5 DEF FlightInv
  <1> QED
    BY <1>7, <1>10, <1>13, <1>14 DEF LaneInv

=============================================================================
